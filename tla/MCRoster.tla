------------------------------- MODULE MCRoster -------------------------------
(* Small instances of Roster for TLC.                                      *)
EXTENDS Roster

CONSTANTS g, s,          \* a group and another chat (the group's supergroup in migrations)
          u1, u2, anon,  \* two people and GroupAnonymousBot
          dev, devs, qa  \* tag names, the first inside the second

\* An update of kind k in chat c from u; the fields its handler does not read
\* hold fixed values.
Upd(k, c, u) ==
  [kind |-> k, chat |-> c, from |-> u, name |-> dev, who |-> {}, named |-> {},
   to |-> c, custom |-> FALSE]

Kinds(ks, cs, us) == {Upd(k, c, u) : k \in ks, c \in cs, u \in us}

Named(ms, ns) == {[m EXCEPT !.name = n] : m \in ms, n \in ns}

\* Two chats that share people and the sequence of tag ids: in g every command
\* and event, in s what may be mixed up with them.
GroupUpdates ==
  Kinds({"message", "cmd_mute_me", "cmd_unmute_me", "cmd_forget_me", "member_left"}, {g}, {u1})
    \union Named(Kinds({"cmd_join", "cmd_leave", "cmd_tag_create", "cmd_tag_delete"}, {g}, {u1}),
                 {dev, devs})
    \union {[Upd(k, g, u1) EXCEPT !.named = {u2}] : k \in {"cmd_tag_add", "cmd_tag_remove"}}
    \union {Upd("member_joined", g, u2), Upd("reaction_seen", g, u2), Upd("message", g, anon),
            [Upd("service_member_left", g, u1) EXCEPT !.who = {u2}], Upd("member_left", g, u2),
            [Upd("cmd_tag_create", g, u1) EXCEPT !.name = qa]}

OtherChatUpdates ==
  Kinds({"bot_added", "on_here", "cmd_tag_create", "cmd_join", "member_left"}, {s}, {u1})
    \union {[Upd("service_members_added", s, u1) EXCEPT !.who = {u2, anon}]}

TwoChatUpdates == GroupUpdates \union OtherChatUpdates

\* The group g becomes the supergroup s, where people may have been seen and tags
\* created before the bot handles the migration; trackers may fail.
Migration(from, to) == [Upd("chat_migrated", from, u1) EXCEPT !.to = to]

MigrationUpdates ==
  Kinds({"cmd_join", "cmd_tag_create", "cmd_mute_me", "message"}, {g, s}, {u1})
    \union Named(Kinds({"cmd_tag_create"}, {g}, {u1}), {devs})
    \union Kinds({"cmd_tag_delete", "cmd_forget_me", "cmd_leave"}, {s}, {u1})
    \union {[Upd("cmd_settings", g, u1) EXCEPT !.custom = TRUE],
            Upd("cmd_unmute_me", g, u1), Upd("member_joined", g, u2),
            [Upd("cmd_tag_add", s, u1) EXCEPT !.named = {u2}], Migration(g, s)}

\* "devs" starts with "dev" and so contains it; each name contains itself.
LongerName == {<<devs, dev>>, <<dev, dev>>, <<devs, devs>>, <<qa, qa>>}
=============================================================================
