-------------------------------- MODULE Roster --------------------------------
(***************************************************************************)
(* What the database of the bot promises, with every update handled in one *)
(* atomic step: DatabaseMiddleware commits the whole of an update's work   *)
(* or none of it, so a committed database is the previous one with one     *)
(* update applied.  Module Sessions models the transactions themselves and *)
(* implements this specification.                                          *)
(*                                                                         *)
(* Updates arrive in any order: a message may be handled after the event   *)
(* that says its author left, an old update after a newer one.  A handler  *)
(* runs with the tracker's work done ("tracked") or, when the tracker has  *)
(* failed and TrackerMayFail allows that, without it.                      *)
(***************************************************************************)
EXTENDS Handlers

CONSTANTS
  Updates,        \* the updates Telegram may deliver
  TrackerMayFail  \* may the tracker middleware give up (lock timeout)?

ASSUME RosterAssumption ==
  /\ Updates \subseteq Update
  /\ \A m \in Updates : Possible(m)
  /\ TrackerMayFail \in BOOLEAN

VARIABLE db

Tracked(m) ==
  IF m.kind \in EventKinds THEN {FALSE}
  ELSE IF TrackerMayFail THEN BOOLEAN ELSE {TRUE}

\* One update handled and committed.
Handled(m) == \E tracked \in Tracked(m) : Applied(m, tracked, db, db')

On(kind) == \E m \in Updates : m.kind = kind /\ Handled(m)

Init == db = EmptyDatabase

Message             == On("message")
CmdJoin             == On("cmd_join")
CmdLeave            == On("cmd_leave")
CmdMuteMe           == On("cmd_mute_me")
CmdUnmuteMe         == On("cmd_unmute_me")
CmdForgetMe         == On("cmd_forget_me")
CmdTagCreate        == On("cmd_tag_create")
CmdTagDelete        == On("cmd_tag_delete")
CmdTagAdd           == On("cmd_tag_add")
CmdTagRemove        == On("cmd_tag_remove")
CmdSettings         == On("cmd_settings")
BotAdded            == On("bot_added")
MemberJoined        == On("member_joined")
MemberLeft          == On("member_left")
ServiceMembersAdded == On("service_members_added")
ServiceMemberLeft   == On("service_member_left")
ReactionSeen        == On("reaction_seen")
OnHere              == On("on_here")
ChatMigrated        == On("chat_migrated")

Next ==
  \/ Message
  \/ CmdJoin
  \/ CmdLeave
  \/ CmdMuteMe
  \/ CmdUnmuteMe
  \/ CmdForgetMe
  \/ CmdTagCreate
  \/ CmdTagDelete
  \/ CmdTagAdd
  \/ CmdTagRemove
  \/ CmdSettings
  \/ BotAdded
  \/ MemberJoined
  \/ MemberLeft
  \/ ServiceMembersAdded
  \/ ServiceMemberLeft
  \/ ReactionSeen
  \/ OnHere
  \/ ChatMigrated

Spec == Init /\ [][Next]_db

-----------------------------------------------------------------------------
(* Properties.                                                             *)

\* The database has the shape of the schema, and the flag columns belong to
\* rows that exist.
TypeOK ==
  /\ db \in Database
  /\ db.active \subseteq db.members
  /\ db.muted \subseteq db.members

\* Every handler leaves the foreign keys and the two UNIQUE constraints of tags
\* intact, although rowids are reused, tags are deleted under their members and
\* a migration re-points the rows of one chat to another that has its own.
Integrity == ForeignKeys(db) /\ UniqueTags(db)

\* Whoever is in a tag is an active member of the tag's chat: leaving, being
\* removed and /forget_me take a person out of the tags of the chat in the same
\* transaction (purge_user_from_chat_tags), and joining a tag or being added to
\* one makes the membership active.
TaggedAreActive ==
  \A t \in db.tags, u \in Users :
    <<t.id, u>> \in db.tag_members => <<t.chat, u>> \in db.active

\* No sequence of commands gives a chat more than MAX_TAGS_PER_CHAT tags.
TagLimit == \A c \in Chats : Cardinality(TagsOf(db, c)) <= MAX_TAGS_PER_CHAT

\* /mute_me lasts: through leaving and coming back, through every update of the
\* tracker and every command of others, until the person's own /unmute_me.  A
\* migration carries the flag to the new chat unless the person already has a
\* row there.
MuteSticks ==
  [][\A c \in Chats, u \in Users :
       <<c, u>> \in db.muted /\ <<c, u>> \notin db'.muted =>
         \E m \in Updates :
           /\ m.chat = c /\ Handled(m)
           /\ \/ m.kind = "cmd_unmute_me" /\ m.from = u
              \/ /\ m.kind = "chat_migrated"
                 /\ <<m.to, u>> \in db'.muted \/ <<m.to, u>> \in db.members]_db

\* An act of u's own other than leaving, or one of the group that names u.
BringsBack(m, u) ==
  \/ /\ m.from = u /\ m.kind \notin {"member_left", "cmd_forget_me"}
     /\ m.kind = "service_member_left" => u \notin m.who
  \/ m.kind = "service_members_added" /\ u \in m.who
  \/ m.kind \in {"cmd_tag_add", "cmd_tag_remove"} /\ u \in m.who \union m.named

\* A person who left or did /forget_me is called again only after an act of their
\* own other than leaving, or once the group names them: service messages about
\* new members, /tag_add and /tag_remove.
ReturnsWhenSeen ==
  [][\A c \in Chats, u \in Users :
       <<c, u>> \in (db.members \ db.active) /\ <<c, u>> \in db'.active =>
         \E m \in Updates : m.chat = c /\ Handled(m) /\ BringsBack(m, u)]_db

\* The rows of one chat.
Slice(d, c) ==
  [custom  |-> c \in d.custom,
   rows    |-> {p \in d.members : p[1] = c},
   active  |-> {p \in d.active : p[1] = c},
   muted   |-> {p \in d.muted : p[1] = c},
   tags    |-> TagsOf(d, c),
   tagged  |-> {p \in d.tag_members : p[1] \in IdsOf(TagsOf(d, c))}]

\* An update of one chat leaves the rows of every other chat as they are; users
\* are shared, and leaving one chat must not take a person out of the tags of
\* another.
OtherChatsUntouched ==
  [][\A m \in Updates : Handled(m) =>
       \A c \in Chats \ (IF m.kind = "chat_migrated" THEN {m.chat, m.to} ELSE {m.chat}) :
         Slice(db', c) = Slice(db, c)]_db

\* A command that gives the exact name of a tag acts on that tag and on no tag
\* with a longer name, although the search would find those too.
ExactNameWins ==
  [][\A m \in Updates : m.kind \in TagCommands /\ Handled(m) =>
       \A s \in TagsOf(db, m.chat) : s.name = m.name =>
         /\ m.kind = "cmd_join" => <<s.id, m.from>> \in db'.tag_members
         /\ m.kind = "cmd_leave" => <<s.id, m.from>> \notin db'.tag_members
         /\ m.kind = "cmd_tag_delete" => s \notin db'.tags
         /\ \A t \in TagsOf(db, m.chat) \ {s} :
              /\ t \in db'.tags
              /\ \A u \in Users :
                   <<t.id, u>> \in db.tag_members <=> <<t.id, u>> \in db'.tag_members]_db

\* /stats says how many people @all reaches (handlers/settings.py:158) by counting
\* rows of chat_members, while a call joins them with users and drops bots: the
\* number is right because no event ever leaves a row of a bot, or of nobody.
StatsAreRight ==
  \A c \in Chats : Reachable(db, c) = Cardinality(list_active_users(db, c))

-----------------------------------------------------------------------------
(* What the documents say, and the code does not do (see README).          *)

\* docs/usage.md:251-253: the effect of /mute_me is permanent.  Refuted: when
\* the group becomes a supergroup and the person was seen there first, the row
\* with the flag is dropped as a duplicate.
MuteIsPermanent ==
  [][\A c \in Chats, u \in Users :
       <<c, u>> \in db.muted /\ <<c, u>> \notin db'.muted =>
         \E m \in Updates :
           /\ m.chat = c /\ Handled(m)
           /\ \/ m.kind = "cmd_unmute_me" /\ m.from = u
              \/ m.kind = "chat_migrated" /\ <<m.to, u>> \in db'.muted]_db
=============================================================================
