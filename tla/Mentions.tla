------------------------------- MODULE Mentions -------------------------------
(***************************************************************************)
(* Whom a message with @words calls (bot/handlers/mentions.py), and the    *)
(* pauses between calls (bot/db/repo/cooldowns.py).                        *)
(*                                                                         *)
(* A message is a record: its chat, its author (from), its @words without  *)
(* repetition and in order (utils/text.py, extract_mentions), whether the  *)
(* chat's policy lets the author call @all (services/policy.py), and what  *)
(* it says of the author's Telegram tag: <<present, value>>                *)
(* (utils/api_extras.py, read_optional_field).                             *)
(* Clock readings are natural numbers; a pause is COOLDOWN of them.        *)
(***************************************************************************)
EXTENDS Store, Sequences

CONSTANTS
  ALL_TAG_ALIASES,           \* words that mean everybody; never the name of a tag
  Titles,                    \* Telegram tags that people may wear
  None,                      \* no Telegram tag
  TitleLevel,                \* <<q, t, l>> : word q matches the Telegram tag t at level l
  MAX_MENTIONS_PER_MESSAGE,  \* bot/handlers/mentions.py
  MAX_FUZZY_TAG_MATCHES,     \* bot/constants.py
  COOLDOWN,                  \* chats.cooldown_seconds; 0 turns pauses off
  BatchSize,                 \* settings.mention_batch_size
  MaxTime                    \* bound: the clock runs from 0 to MaxTime

ASSUME MentionsAssumption ==
  /\ ALL_TAG_ALIASES \intersect Names = {}
  /\ StartsWith \subseteq Contains /\ \A n \in Names : <<n, n>> \in Contains
  /\ None \notin Titles
  /\ TitleLevel \subseteq Names \X Titles \X (1 .. 3)
  /\ MAX_MENTIONS_PER_MESSAGE \in Nat
  /\ MAX_FUZZY_TAG_MATCHES \in Nat
  /\ COOLDOWN \in Nat
  /\ BatchSize \in Nat \ {0}
  /\ MaxTime \in Nat

Words == Names \union ALL_TAG_ALIASES

SenderTags == {<<FALSE, None>>} \union ({TRUE} \X (Titles \union {None}))

MentionMessage ==
  [chat : Chats, from : Users, words : Seq(Words), allowed : BOOLEAN, sender_tag : SenderTags]

\* The column chat_members.telegram_tag.
TelegramTags == [ChatMember -> Titles \union {None}]

\* The tracker writes it only when the message has the field.
Worn(titles, c, u, sender_tag) ==
  IF u \in Bots \/ ~sender_tag[1] THEN titles
  ELSE [titles EXCEPT ![<<c, u>>] = sender_tag[2]]

\* tag_key: "all", the name of a tag, or "tg:" and the word.
AllKey     == <<"all">>
TagKey(n)   == <<"tag", n>>
TitleKey(q) == <<"tg", q>>
Keys == {AllKey} \union {TagKey(n) : n \in Names} \union {TitleKey(q) : q \in Names}

Never == -1
Cooldowns == [Chats \X Keys -> (0 .. MaxTime) \union {Never}]

-----------------------------------------------------------------------------
(* try_acquire, in two halves: may the key be used, and what using it      *)
(* writes.                                                                 *)

\* Mutant: the pause ends one reading early.
MustWaitLess(cool, c, k, now) ==
  /\ COOLDOWN > 0
  /\ cool[<<c, k>>] # Never
  /\ now - cool[<<c, k>>] < COOLDOWN - 1

MustWait(cool, c, k, now) ==
  /\ COOLDOWN > 0
  /\ cool[<<c, k>>] # Never
  /\ now - cool[<<c, k>>] < COOLDOWN

Acquire(cool, c, ks, now) ==
  IF COOLDOWN = 0 THEN cool
  ELSE [r \in DOMAIN cool |-> IF r \in {c} \X ks THEN now ELSE cool[r]]

-----------------------------------------------------------------------------
(* What handle_mentions collects while it reads the words: the people to   *)
(* call, the number of words that count against the limit, whether there   *)
(* is a note of refusal, the keys of the header, and the pauses as written *)
(* so far.                                                                 *)

Nobody(cool) == [targets |-> {}, handled |-> 0, noted |-> FALSE, used |-> {}, cool |-> cool]

_collect_all(acc, d, m, now) ==
  LET people == list_active_users(d, m.chat) \ {m.from}
  IN IF ~m.allowed \/ MustWait(acc.cool, m.chat, AllKey, now)
     THEN [acc EXCEPT !.noted = TRUE]
     ELSE LET e == [acc EXCEPT !.cool = Acquire(@, m.chat, {AllKey}, now)]
          IN IF people = {} THEN [e EXCEPT !.noted = TRUE]
             ELSE [e EXCEPT !.handled = @ + 1, !.used = @ \union {AllKey},
                            !.targets = @ \union people]

\* Active people whose Telegram tag matches, at the best level that any of them
\* reaches.
find_users_by_telegram_tag(d, titles, c, q, excluded) ==
  LET Of(l) == {u \in d.users \ (Bots \union excluded) :
                  <<c, u>> \in d.active /\ <<q, titles[<<c, u>>], l>> \in TitleLevel}
      reached == {l \in 1 .. 3 : Of(l) # {}}
  IN UNION {Of(l) : l \in {b \in reached : \A r \in reached : b <= r}}

_collect_by_telegram_tag(acc, d, titles, m, q, now) ==
  LET people == find_users_by_telegram_tag(d, titles, m.chat, q, {m.from})
  IN IF people = {} THEN acc
     ELSE IF MustWait(acc.cool, m.chat, TitleKey(q), now) THEN [acc EXCEPT !.noted = TRUE]
     ELSE [acc EXCEPT !.cool = Acquire(@, m.chat, {TitleKey(q)}, now),
                      !.handled = @ + 1, !.used = @ \union {TitleKey(q)},
                      !.targets = @ \union people]

\* Every tag the word matches is called, unless it has been lately.
CollectTags(acc, d, m, tags, now) ==
  LET free == {t \in tags : ~MustWait(acc.cool, m.chat, TagKey(t.name), now)}
      Called(t) == get_tag_users(d, t) \ {m.from}
      keys == {TagKey(t.name) : t \in free}
  IN [acc EXCEPT !.handled = @ + 1,
                 !.noted = @ \/ free # tags \/ \E t \in free : Called(t) = {},
                 !.cool = Acquire(@, m.chat, keys, now),
                 !.used = @ \union keys,
                 !.targets = @ \union UNION {Called(t) : t \in free}]

Candidate(acc, d, titles, m, q, now) ==
  LET tags == find_tags(d, m.chat, q)
  IN IF q \in ALL_TAG_ALIASES THEN _collect_all(acc, d, m, now)
     ELSE IF tags = {} THEN _collect_by_telegram_tag(acc, d, titles, m, q, now)
     ELSE IF Cardinality(tags) > MAX_FUZZY_TAG_MATCHES THEN [acc EXCEPT !.noted = TRUE]
     ELSE CollectTags(acc, d, m, tags, now)

\* Words are read in turn until enough of them have been handled.  A bot's message
\* calls nobody.
MoreToRead(acc, m, i) ==
  m.from \notin Bots /\ i <= Len(m.words) /\ acc.handled < MAX_MENTIONS_PER_MESSAGE

\* Slices of at most BatchSize people; the order of people is immaterial.
build_mention_messages(people) ==
  LET n == Cardinality(people)
      order == CHOOSE f \in [1 .. n -> people] : \A p \in people : \E i \in 1 .. n : f[i] = p
      last(k) == IF k * BatchSize < n THEN k * BatchSize ELSE n
  IN [k \in 1 .. (n + BatchSize - 1) \div BatchSize |->
        {order[i] : i \in ((k - 1) * BatchSize + 1) .. last(k)}]
=============================================================================
