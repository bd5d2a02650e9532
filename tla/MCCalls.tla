------------------------------- MODULE MCCalls -------------------------------
(* Small instances of Calls for TLC.                                       *)
EXTENDS Calls

CONSTANTS g,                 \* the chat
          u1, u2, u3, anon,  \* three people and GroupAnonymousBot
          dev, devs, sun,    \* words: two tags, one inside the other, and a Telegram tag
          suns, sunny,       \* Telegram tags: "Mr Sun" and "Sunny"
          all, everyone      \* two of the words that mean everybody

Upd(k, u) ==
  [upd |-> [kind |-> k, chat |-> g, from |-> u, name |-> dev, who |-> {}, named |-> {},
            to |-> g, custom |-> FALSE],
   sender_tag |-> <<FALSE, None>>]

Msg(u, ws) ==
  [chat |-> g, from |-> u, words |-> ws, allowed |-> TRUE, sender_tag |-> <<FALSE, None>>]

\* A message that says what its author wears.
Wears(m, t) == [m EXCEPT !.sender_tag = <<TRUE, t>>]

LongerName == {<<devs, dev>>, <<dev, dev>>, <<devs, devs>>, <<sun, sun>>}

\* One tag has the word, the other a word that starts with it.
SunLevels == {<<sun, suns, 1>>, <<sun, sunny, 2>>}

\* A group where people come, mute themselves and leave while u1 calls all.
AllUpdates ==
  {Wears(Upd("message", u2), t) : t \in {suns, None}} \union
  {Wears(Upd("message", u3), sunny), Upd("cmd_mute_me", u2), Upd("member_left", u3)}

AllMessages ==
  {Msg(u1, <<all, everyone>>), Msg(u2, <<sun>>), Msg(u1, <<sun, all>>),
   [Msg(u2, <<everyone>>) EXCEPT !.allowed = FALSE]}

\* Two tags, one found through a part of the other's name.
TagUpdates ==
  {Upd("cmd_tag_create", u1), [Upd("cmd_tag_create", u1) EXCEPT !.upd.name = devs],
   [Upd("cmd_tag_add", u1) EXCEPT !.upd.who = {u2}],
   [Upd("cmd_tag_add", u1) EXCEPT !.upd.who = {u2, u3}, !.upd.name = devs],
   Upd("cmd_mute_me", u2), Upd("cmd_tag_delete", u1), Upd("member_left", u2)}

TagMessages ==
  {Msg(u1, <<dev>>), Msg(u1, <<devs>>), Msg(u3, <<dev, devs, all>>)}

\* One person to call, everything that can happen to the message.
FewUpdates == {Upd("message", u2), Upd("member_left", u2)}

FewMessages == {Msg(u1, <<all>>)}
=============================================================================
