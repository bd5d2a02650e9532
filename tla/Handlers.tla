------------------------------- MODULE Handlers -------------------------------
(***************************************************************************)
(* What one Telegram update does to the database: the tracker middleware   *)
(* (bot/middlewares/tracker.py) and the handlers that write                *)
(* (bot/handlers/), each as an operator from the database it starts from   *)
(* to the database it leaves.                                              *)
(*                                                                         *)
(* An update is a record                                                   *)
(*   kind   the handler the routers pick; "message" stands for every       *)
(*          message whose handler writes nothing (/help, /tags, /tag_info, *)
(*          /stats, /me, /rollcall, a refused command, plain text)         *)
(*   chat   the chat it belongs to                                         *)
(*   from   the sender, or the member a chat_member update is about        *)
(*   name   the tag name the command was given                             *)
(*   who    people it carries by id (reply, text_mention, members of a     *)
(*          service message)                                               *)
(*   named  people it names by @username                                   *)
(*   to     the new chat id of a migration                                 *)
(*   custom the settings value                                             *)
(* Each handler reads only the fields that concern it.                     *)
(***************************************************************************)
EXTENDS Store

TagCommands == {"cmd_join", "cmd_leave", "cmd_tag_delete", "cmd_tag_add", "cmd_tag_remove"}

\* Handlers whose signature asks for db_chat, which only the tracker provides.
NeedsDbChat ==
  {"cmd_tag_create", "cmd_tag_delete", "cmd_tag_add", "cmd_tag_remove", "cmd_settings"}

MessageKinds ==
  TagCommands \union NeedsDbChat \union
  {"message", "cmd_mute_me", "cmd_unmute_me", "cmd_forget_me",
   "service_members_added", "service_member_left", "chat_migrated"}

\* Updates that do not pass the message middleware.
EventKinds == {"bot_added", "member_joined", "member_left", "reaction_seen", "on_here"}

Update ==
  [kind : MessageKinds \union EventKinds, chat : Chats, from : Users, name : Names,
   who : SUBSET Users, named : SUBSET Users, to : Chats, custom : BOOLEAN]

\* The group sends migrate_to_chat_id with a chat id other than its own, and a
\* callback query is always a person's.
Possible(m) ==
  /\ m.kind = "chat_migrated" => m.to # m.chat
  /\ m.kind = "on_here" => m.from \notin Bots

-----------------------------------------------------------------------------
(* Helpers the handlers share.                                             *)

record_person(d, c, u) == ensure_membership(upsert_user(d, u), c, u)

record_people(d, c, us) ==
  [d EXCEPT !.users = @ \union us, !.members = @ \union {<<c, u>> : u \in us},
            !.active = @ \union {<<c, u>> : u \in us}]

MemberTrackerMiddleware(d, m) ==
  LET e == get_or_create_chat(d, m.chat)
  IN IF m.from \in Bots THEN e ELSE record_person(e, m.chat, m.from)

\* extract_mentioned_people drops bots; find_user_by_username searches the users
\* of every chat, the ones just recorded included.
Targets(d, m) == LET byId == m.who \ Bots IN byId \union (m.named \intersect (d.users \union byId))

resolve_targets(d, m) == record_people(d, m.chat, Targets(d, m))

\* The tag a command means: the only match of its name, or none.
resolve_tag_or_reply(d, m) ==
  LET found == find_tags(d, m.chat, m.name) IN IdsOf({t \in found : found = {t}})

-----------------------------------------------------------------------------
(* handlers/membership.py; i is the id of the tag the command resolved.    *)

cmd_join(d, m, i)  == add_tag_member(d, i, m.from)

cmd_leave(d, m, i) == remove_tag_member(d, i, m.from)

cmd_mute_me(d, m) ==
  set_muted(ensure_membership(d, m.chat, m.from), m.chat, m.from, TRUE)

cmd_unmute_me(d, m) ==
  set_muted(ensure_membership(d, m.chat, m.from), m.chat, m.from, FALSE)

\* Mutant: the person stays in the tags.
cmd_forget_me_no_purge(d, m) == set_member_active(d, m.chat, m.from, FALSE)

cmd_forget_me(d, m) ==
  set_member_active(purge_user_from_chat_tags(d, m.chat, m.from), m.chat, m.from, FALSE)

-----------------------------------------------------------------------------
(* handlers/tags.py and settings.py, past their policy checks.             *)

\* Mutant: the limit is compared one too late.
cmd_tag_create_over_limit(d, m) ==
  IF \/ Cardinality(TagsOf(d, m.chat)) > MAX_TAGS_PER_CHAT
     \/ m.name \in NamesOf(TagsOf(d, m.chat))
  THEN d
  ELSE create_tag(d, m.chat, m.name)

cmd_tag_create(d, m) ==
  IF \/ Cardinality(TagsOf(d, m.chat)) >= MAX_TAGS_PER_CHAT
     \/ m.name \in NamesOf(TagsOf(d, m.chat))
  THEN d
  ELSE create_tag(d, m.chat, m.name)

cmd_tag_delete(d, m, i) ==
  delete_tag(d, m.chat, (CHOOSE t \in d.tags : t.id = i).name)

cmd_tag_add(d, m, i) ==
  LET e == resolve_targets(d, m)
  IN [e EXCEPT !.tag_members = @ \union {<<i, u>> : u \in Targets(d, m)}]

cmd_tag_remove(d, m, i) ==
  LET e == resolve_targets(d, m)
  IN [e EXCEPT !.tag_members = @ \ {<<i, u>> : u \in Targets(d, m)}]

\* /stats: how many people @all reaches.
Reachable(d, c) == count_active_members(d, c) - count_muted_members(d, c)

cmd_settings(d, m) == update_settings(d, m.chat, m.custom)

-----------------------------------------------------------------------------
(* handlers/chat_events.py and rollcall.py.                                *)

bot_added(d, m) == get_or_create_chat(d, m.chat)

member_joined(d, m) ==
  IF m.from \in Bots THEN d ELSE record_person(get_or_create_chat(d, m.chat), m.chat, m.from)

member_left(d, m) ==
  purge_user_from_chat_tags(set_member_active(d, m.chat, m.from, FALSE), m.chat, m.from)

\* Mutant: the bots among them are recorded too.
service_members_added_with_bots(d, m) ==
  record_people(get_or_create_chat(d, m.chat), m.chat, m.who)

service_members_added(d, m) ==
  record_people(get_or_create_chat(d, m.chat), m.chat, m.who \ Bots)

\* Mutant: the flag is set the wrong way round.
service_member_left_reactivates(d, m) ==
  LET left == {m.chat} \X (m.who \ Bots)
  IN [d EXCEPT !.active = @ \union (left \intersect d.members),
               !.tag_members = @ \ (IdsOf(TagsOf(d, m.chat)) \X (m.who \ Bots))]

\* left_chat_member is one person: who is a singleton.
service_member_left(d, m) ==
  LET left == {m.chat} \X (m.who \ Bots)
  IN [d EXCEPT !.active = @ \ left,
               !.tag_members = @ \ (IdsOf(TagsOf(d, m.chat)) \X (m.who \ Bots))]

reaction_seen(d, m) ==
  IF m.from \in Bots THEN d ELSE record_person(get_or_create_chat(d, m.chat), m.chat, m.from)

on_here(d, m) == record_person(get_or_create_chat(d, m.chat), m.chat, m.from)

\* Mutants: the flag stays with the old row; is left behind; nothing cascades.
chat_migrated_old_flag(d, m) ==
  [migrate_chat_id(d, m.chat, m.to) EXCEPT !.muted = d.muted]

chat_migrated_no_flag(d, m) ==
  [migrate_chat_id(d, m.chat, m.to) EXCEPT !.muted = {p \in @ : p[1] # m.to}]

chat_migrated_no_cascade(d, m) ==
  [migrate_chat_id(d, m.chat, m.to) EXCEPT !.tag_members = d.tag_members]

chat_migrated(d, m) == migrate_chat_id(d, m.chat, m.to)

-----------------------------------------------------------------------------
(* The router: the handler of an update, and the statements of it that     *)
(* SQLite refuses (IntegrityError, so that the transaction rolls back).    *)

Handle(d, m, i) ==
  CASE m.kind = "cmd_join"              -> cmd_join(d, m, i)
    [] m.kind = "cmd_leave"             -> cmd_leave(d, m, i)
    [] m.kind = "cmd_mute_me"           -> cmd_mute_me(d, m)
    [] m.kind = "cmd_unmute_me"         -> cmd_unmute_me(d, m)
    [] m.kind = "cmd_forget_me"         -> cmd_forget_me(d, m)
    [] m.kind = "cmd_tag_create"        -> cmd_tag_create(d, m)
    [] m.kind = "cmd_tag_delete"        -> cmd_tag_delete(d, m, i)
    [] m.kind = "cmd_tag_add"           -> cmd_tag_add(d, m, i)
    [] m.kind = "cmd_tag_remove"        -> cmd_tag_remove(d, m, i)
    [] m.kind = "cmd_settings"          -> cmd_settings(d, m)
    [] m.kind = "bot_added"             -> bot_added(d, m)
    [] m.kind = "member_joined"         -> member_joined(d, m)
    [] m.kind = "member_left"           -> member_left(d, m)
    [] m.kind = "service_members_added" -> service_members_added(d, m)
    [] m.kind = "service_member_left"   -> service_member_left(d, m)
    [] m.kind = "reaction_seen"         -> reaction_seen(d, m)
    [] m.kind = "on_here"               -> on_here(d, m)
    [] m.kind = "chat_migrated"         -> chat_migrated(d, m)
    [] OTHER                            -> d

Raises(d, m, i) ==
  \/ m.kind \in {"cmd_mute_me", "cmd_unmute_me"} /\ ~MembershipRefs(d, m.chat, m.from)
  \/ m.kind = "cmd_join" /\ ~TagMemberRefs(d, i, m.from)

-----------------------------------------------------------------------------
(* A whole update: the tracker's work and the handler's, or neither.       *)

NoTag == 0

\* The tags a command may act on.  A tracked handler holds the write lock while
\* it looks the tag up; an untracked one looked before it had the lock, and by
\* now the id may be another tag's.
TagChoice(d, m, tracked) ==
  IF m.kind \notin TagCommands THEN {NoTag}
  ELSE IF tracked THEN resolve_tag_or_reply(d, m)
  ELSE IdsOf(d.tags)

\* "after" is what handling m leaves of "before".  Without the tag it names, a
\* command only replies: the tracker's work is what is left of it.
Applied(m, tracked, before, after) ==
  LET d    == IF tracked THEN MemberTrackerMiddleware(before, m) ELSE before
      tags == TagChoice(d, m, tracked)
  IN /\ m.kind \in NeedsDbChat => tracked
     /\ m.kind = "cmd_tag_create" => \E i \in TagIds : NewTagId(d, i)  \* bound MaxTagId
     /\ \/ tags = {} /\ after = d
        \/ \E i \in tags : ~Raises(d, m, i) /\ after = Handle(d, m, i)

\* While no other update is between two steps the tracker never fails.
HandledAlone(m, before, after) == Applied(m, m.kind \notin EventKinds, before, after)
=============================================================================
