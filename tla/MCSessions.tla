------------------------------ MODULE MCSessions ------------------------------
(* Small instances of Sessions for TLC.                                    *)
EXTENDS Sessions

CONSTANTS g, s,          \* a group and the supergroup it becomes
          u1, u2, anon,  \* two people and GroupAnonymousBot
          dev, devs, qa  \* tag names, the first inside the second

Upd(k, c, u) ==
  [kind |-> k, chat |-> c, from |-> u, name |-> dev, who |-> {}, named |-> {},
   to |-> c, custom |-> FALSE]

LongerName == {<<devs, dev>>, <<dev, dev>>, <<devs, devs>>, <<qa, qa>>}

\* Commands on one tag, its id taken anew, an update that SQLite refuses (an
\* anonymous admin's) and one that needs no tracker.
TagUpdates ==
  {Upd("cmd_tag_create", g, u1), Upd("cmd_tag_delete", g, u1), Upd("cmd_join", g, u1),
   [Upd("cmd_tag_create", g, u1) EXCEPT !.name = devs], Upd("cmd_join", g, anon),
   Upd("reaction_seen", g, u1)}

\* People who come, go, write and react.
PresenceUpdates ==
  {Upd(k, g, u) : k \in {"message", "member_joined", "member_left", "reaction_seen"}, u \in {u1, u2}}
    \union {Upd("cmd_mute_me", g, u1), Upd("cmd_unmute_me", g, u1)}
=============================================================================
