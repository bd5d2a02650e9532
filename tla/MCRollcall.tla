------------------------------ MODULE MCRollcall ------------------------------
(* A small instance of Rollcall for TLC.                                   *)
EXTENDS Rollcall

CONSTANTS g,             \* the chat
          u1, u2, anon,  \* two people, GroupAnonymousBot
          kyiv,          \* a time zone
          n              \* a tag name, which no update here is about

Cmd(k, u) == [kind |-> k, chat |-> g, from |-> u, key |-> "", values |-> <<>>]

Word(f) == [form |-> f, value |-> 0, zone |-> kyiv]

Set(u, key, vs) == [Cmd("cmd_settings", u) EXCEPT !.key = key, !.values = vs]

\* u1 may become an administrator; one argument is refused by int().
SomeCommands ==
  {Cmd("cmd_rollcall", u1), Cmd("tag_command", u1),
   Set(u1, "tag_policy", <<Word("members")>>), Set(anon, "cooldown", <<Word("dashes")>>)}

Leaves(u) ==
  [kind |-> "member_left", chat |-> g, from |-> u, name |-> n, who |-> {}, named |-> {},
   to |-> g, custom |-> FALSE]

SomeUpdates == {Leaves(u2)}

NewChat ==
  [all_policy |-> "admins", tag_policy |-> "admins", cooldown_seconds |-> 600, timezone |-> kyiv,
   quiet_hours_enabled |-> TRUE, quiet_start |-> 23, quiet_end |-> 8]
=============================================================================
