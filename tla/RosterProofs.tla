----------------------------- MODULE RosterProofs -----------------------------
(***************************************************************************)
(* Theorems about Roster, for every set of chats, people, names and        *)
(* updates.                                                                *)
(*                                                                         *)
(* The inductive invariant is Sound (HandlersProofs): every handler keeps  *)
(* it, and the tracker's work gives a handler the rows its statements      *)
(* refer to.  The properties that need more strengthen it: Tagged, Limited *)
(* and NoBots.                                                             *)
(***************************************************************************)
EXTENDS Roster, HandlersProofs, FunctionTheorems

\* HandlersProofs' AppliedFrom and AppliedKeeps, for the updates of this module.
LEMMA AppliedRuns ==
  ASSUME NEW before, Sound(before), NEW after, NEW m \in Updates, NEW tracked \in Tracked(m),
         Applied(m, tracked, before, after)
  PROVE  LET d == Base(m, tracked, before)
         IN /\ Sound(d)
            /\ \/ after = d
               \/ \E i \in TagChoice(d, m, tracked) :
                    ~Raises(d, m, i) /\ Ready(d, m, i) /\ after = Handle(d, m, i)
BY AppliedFrom, RosterAssumption

LEMMA AppliedSound ==
  ASSUME NEW before, Sound(before), NEW after, NEW m \in Updates, NEW tracked \in Tracked(m),
         Applied(m, tracked, before, after)
  PROVE  Sound(after)
BY AppliedKeeps, RosterAssumption

\* Every step of the specification is one update handled.
LEMMA NextHandles ==
  ASSUME Next
  PROVE  \E m \in Updates : \E tracked \in Tracked(m) : Applied(m, tracked, db, db')
BY DEF Next, Message, CmdJoin, CmdLeave, CmdMuteMe, CmdUnmuteMe, CmdForgetMe, CmdTagCreate,
       CmdTagDelete, CmdTagAdd, CmdTagRemove, CmdSettings, BotAdded, MemberJoined, MemberLeft,
       ServiceMembersAdded, ServiceMemberLeft, ReactionSeen, OnHere, ChatMigrated, On, Handled

-----------------------------------------------------------------------------
(* Theorems that hold of every specification of the module: the tracker    *)
(* may fail and chats may migrate.                                         *)

\* The inductive invariant: the database is always sound, whatever updates
\* arrive in whatever order.
THEOREM AlwaysSound == Spec => []Sound(db)
<1>1. Init => Sound(db)
  BY DEF Init, EmptyDatabase, Sound, WellFormed, Database, ForeignKeys, UniqueTags
<1>2. Sound(db) /\ [Next]_db => Sound(db)'
  <2> SUFFICES ASSUME Sound(db), [Next]_db PROVE Sound(db')
    BY DEF Sound, WellFormed, ForeignKeys, UniqueTags
  <2>1. CASE Next
    BY <2>1, NextHandles, AppliedSound
  <2>2. CASE UNCHANGED db
    BY <2>2
  <2> QED BY <2>1, <2>2
<1> QED BY <1>1, <1>2, PTL DEF Spec

\* The database keeps the shape of the schema, and its flags belong to rows
\* that exist.
THEOREM TypeCorrect == Spec => []TypeOK
<1>1. Sound(db) => TypeOK
  BY DEF Sound, WellFormed, TypeOK
<1> QED BY <1>1, AlwaysSound, PTL

\* Foreign keys and unique tags survive every handler, rowid reuse, a tag's
\* deletion and a migration included.
THEOREM IntegrityHolds == Spec => []Integrity
<1>1. Sound(db) => Integrity
  BY DEF Sound, Integrity
<1> QED BY <1>1, AlwaysSound, PTL

-----------------------------------------------------------------------------
(* Muting.                                                                 *)

\* The tracker changes no flag but the sender's own is_active, and no rows of
\* another chat.
LEMMA TrackerKeeps ==
  ASSUME NEW d, Sound(d), NEW m \in Update
  PROVE  /\ MemberTrackerMiddleware(d, m).muted = d.muted
         /\ MemberTrackerMiddleware(d, m).tags = d.tags
         /\ MemberTrackerMiddleware(d, m).tag_members = d.tag_members
         /\ d.active \subseteq MemberTrackerMiddleware(d, m).active
         /\ \A c \in Chats, u \in Users :
              c # m.chat /\ <<c, u>> \in MemberTrackerMiddleware(d, m).members
                => <<c, u>> \in d.members
BY DEF Sound, WellFormed, Database, MemberTrackerMiddleware, get_or_create_chat, record_person,
       upsert_user, ensure_membership

\* Only /mute_me, /unmute_me and a migration write muted_from_all.
LEMMA MutedKept ==
  ASSUME NEW d, Sound(d), NEW m \in Update, NEW i,
         m.kind \notin {"cmd_mute_me", "cmd_unmute_me", "chat_migrated"}
  PROVE  Handle(d, m, i).muted = d.muted
<1> USE DEF Sound, WellFormed, Database
<1>1. /\ cmd_join(d, m, i).muted = d.muted
      /\ cmd_leave(d, m, i).muted = d.muted
  BY DEF cmd_join, cmd_leave, add_tag_member, remove_tag_member
<1>2. /\ cmd_forget_me(d, m).muted = d.muted
      /\ member_left(d, m).muted = d.muted
  BY DEF cmd_forget_me, member_left, set_member_active, purge_user_from_chat_tags
<1>3. /\ cmd_tag_create(d, m).muted = d.muted
      /\ cmd_tag_delete(d, m, i).muted = d.muted
      /\ cmd_settings(d, m).muted = d.muted
  BY DEF cmd_tag_create, cmd_tag_delete, cmd_settings, create_tag, delete_tag, update_settings
<1>4. /\ cmd_tag_add(d, m, i).muted = d.muted
      /\ cmd_tag_remove(d, m, i).muted = d.muted
  BY DEF cmd_tag_add, cmd_tag_remove, resolve_targets, record_people
<1>5. /\ bot_added(d, m).muted = d.muted
      /\ member_joined(d, m).muted = d.muted
      /\ reaction_seen(d, m).muted = d.muted
      /\ on_here(d, m).muted = d.muted
  BY DEF bot_added, member_joined, reaction_seen, on_here, get_or_create_chat, record_person,
         upsert_user, ensure_membership
<1>6. /\ service_members_added(d, m).muted = d.muted
      /\ service_member_left(d, m).muted = d.muted
  BY DEF service_members_added, service_member_left, get_or_create_chat, record_people
<1> QED
  BY <1>1, <1>2, <1>3, <1>4, <1>5, <1>6
  DEF Handle, Update, MessageKinds, EventKinds, TagCommands, NeedsDbChat

\* What an unmuted person did, or what the group did to the row.
LEMMA Unmuted ==
  ASSUME NEW d, Sound(d), NEW m \in Update, NEW i, NEW c \in Chats, NEW u \in Users,
         <<c, u>> \in d.muted, <<c, u>> \notin Handle(d, m, i).muted
  PROVE  /\ m.chat = c
         /\ \/ m.kind = "cmd_unmute_me" /\ m.from = u
            \/ /\ m.kind = "chat_migrated"
               /\ <<m.to, u>> \in Handle(d, m, i).muted \/ <<m.to, u>> \in d.members
<1>1. CASE m.kind = "cmd_mute_me"
  <2>1. d.muted \subseteq cmd_mute_me(d, m).muted
    BY DEF Sound, WellFormed, Database, cmd_mute_me, set_muted, ensure_membership
  <2> QED BY <1>1, <2>1 DEF Handle
<1>2. CASE m.kind = "cmd_unmute_me"
  <2>1. cmd_unmute_me(d, m).muted = d.muted \ {<<m.chat, m.from>>}
    BY DEF Sound, WellFormed, Database, cmd_unmute_me, set_muted, ensure_membership
  <2> QED BY <1>2, <2>1 DEF Handle
<1>3. CASE m.kind = "chat_migrated"
  <2> DEFINE movers == {v \in Users : <<m.chat, v>> \in d.members /\ <<m.to, v>> \notin d.members}
             e == migrate_chat_id(d, m.chat, m.to)
  <2>1. Handle(d, m, i) = e
    BY <1>3 DEF Handle, chat_migrated
  <2>2. m.chat \in d.chats
    BY <2>1 DEF migrate_chat_id
  <2>3. e.muted = {p \in d.muted : p[1] # m.chat}
                    \union {<<m.to, v>> : v \in {w \in movers : <<m.chat, w>> \in d.muted}}
    BY <2>2 DEF Sound, WellFormed, Database, migrate_chat_id
  <2>4. c = m.chat
    BY <2>1, <2>3
  <2>5. <<c, u>> \in d.members
    BY DEF Sound, WellFormed
  <2>6. CASE u \in movers
    BY <1>3, <2>1, <2>3, <2>4, <2>6
  <2>7. CASE u \notin movers
    BY <1>3, <2>4, <2>5, <2>7
  <2> QED BY <2>6, <2>7
<1> QED BY <1>1, <1>2, <1>3, MutedKept

\* /mute_me lasts until the person's own /unmute_me, or until a migration to a
\* chat where the person has a row.
THEOREM MuteSticksHolds == Spec => MuteSticks
<1>1. Sound(db) /\ [Next]_db =>
        [\A c \in Chats, u \in Users :
           <<c, u>> \in db.muted /\ <<c, u>> \notin db'.muted =>
             \E m \in Updates :
               /\ m.chat = c /\ Handled(m)
               /\ \/ m.kind = "cmd_unmute_me" /\ m.from = u
                  \/ /\ m.kind = "chat_migrated"
                     /\ <<m.to, u>> \in db'.muted \/ <<m.to, u>> \in db.members]_db
  <2> SUFFICES ASSUME Sound(db), Next, NEW c \in Chats, NEW u \in Users,
                      <<c, u>> \in db.muted, <<c, u>> \notin db'.muted
               PROVE  \E m \in Updates :
                        /\ m.chat = c /\ Handled(m)
                        /\ \/ m.kind = "cmd_unmute_me" /\ m.from = u
                           \/ /\ m.kind = "chat_migrated"
                              /\ <<m.to, u>> \in db'.muted \/ <<m.to, u>> \in db.members
    OBVIOUS
  <2>1. PICK m \in Updates : \E tracked \in Tracked(m) : Applied(m, tracked, db, db')
    BY NextHandles
  <2>2. PICK tracked \in Tracked(m) : Applied(m, tracked, db, db')
    BY <2>1
  <2> DEFINE d == Base(m, tracked, db)
  <2>3. m \in Update /\ Possible(m)
    BY RosterAssumption
  <2>4. /\ d.muted = db.muted
        /\ \A v \in Users : m.to # m.chat /\ m.to \in Chats /\ <<m.to, v>> \in d.members
                              => <<m.to, v>> \in db.members
    BY <2>3, TrackerKeeps DEF Base
  <2>5. /\ Sound(d)
        /\ d = db' \/ \E i : db' = Handle(d, m, i)
    BY <2>2, AppliedRuns
  <2>6. PICK i : db' = Handle(d, m, i)
    BY <2>4, <2>5
  <2>7. /\ m.chat = c
        /\ \/ m.kind = "cmd_unmute_me" /\ m.from = u
           \/ /\ m.kind = "chat_migrated"
              /\ <<m.to, u>> \in db'.muted \/ <<m.to, u>> \in d.members
    <3> HIDE DEF d
    <3> QED BY <2>3, <2>4, <2>5, <2>6, Unmuted
  <2>8. m.kind = "chat_migrated" => m.to # m.chat /\ m.to \in Chats
    BY <2>3 DEF Possible, Update
  <2> QED BY <2>1, <2>4, <2>7, <2>8 DEF Handled
<1> QED BY <1>1, AlwaysSound, PTL DEF Spec, MuteSticks

-----------------------------------------------------------------------------
(* Tags and membership, while the tracker works and no chat migrates.      *)

\* TaggedAreActive of a database, and the bots kept out of users: a bot's id in
\* users would let it into a tag without a membership.
Tagged(d) ==
  /\ \A t \in d.tags, u \in Users : <<t.id, u>> \in d.tag_members => <<t.chat, u>> \in d.active
  /\ d.users \intersect Bots = {}

\* More active memberships disturb nothing.
LEMMA TaggedGrows ==
  ASSUME NEW d, NEW e, Tagged(d), e.tags = d.tags, e.tag_members \subseteq d.tag_members,
         d.active \subseteq e.active, e.users \intersect Bots = {}
  PROVE  Tagged(e)
BY DEF Tagged

\* People taken out of a chat together with their rows in the chat's tags.
LEMMA TaggedLeaves ==
  ASSUME NEW d, Sound(d), Tagged(d), NEW c \in Chats, NEW us \in SUBSET Users
  PROVE  Tagged([d EXCEPT !.active = @ \ ({c} \X us),
                          !.tag_members = @ \ (IdsOf(TagsOf(d, c)) \X us)])
<1> DEFINE e == [d EXCEPT !.active = @ \ ({c} \X us),
                          !.tag_members = @ \ (IdsOf(TagsOf(d, c)) \X us)]
<1>1. /\ e.active = d.active \ ({c} \X us)
      /\ e.tag_members = d.tag_members \ (IdsOf(TagsOf(d, c)) \X us)
      /\ e.tags = d.tags /\ e.users = d.users
  BY DEF Sound, WellFormed, Database
<1>2. ASSUME NEW t \in e.tags, NEW u \in Users, <<t.id, u>> \in e.tag_members
      PROVE  <<t.chat, u>> \in e.active
  <2>1. <<t.chat, u>> \in d.active
    BY <1>1, <1>2 DEF Tagged
  <2>2. t.chat = c => u \notin us
    <3>1. t.chat = c => t.id \in IdsOf(TagsOf(d, c))
      BY <1>1 DEF IdsOf, TagsOf
    <3> QED BY <3>1, <1>1, <1>2
  <2> QED BY <2>1, <2>2, <1>1
<1> HIDE DEF e
<1>3. Tagged(e)
  BY <1>1, <1>2 DEF Tagged
<1> QED BY <1>3 DEF e

\* People added to one tag of a chat where they are active.
LEMMA TaggedAdded ==
  ASSUME NEW d, Sound(d), Tagged(d), NEW s \in d.tags, NEW us \in SUBSET Users,
         \A u \in us : <<s.chat, u>> \in d.active
  PROVE  Tagged([d EXCEPT !.tag_members = @ \union {<<s.id, u>> : u \in us}])
<1> DEFINE rows == {<<s.id, u>> : u \in us}
           e == [d EXCEPT !.tag_members = @ \union rows]
<1>1. /\ e.tag_members = d.tag_members \union rows
      /\ e.active = d.active /\ e.tags = d.tags /\ e.users = d.users
  BY DEF Sound, WellFormed, Database
<1>2. ASSUME NEW t \in e.tags, NEW u \in Users, <<t.id, u>> \in e.tag_members
      PROVE  <<t.chat, u>> \in e.active
  <2>1. CASE <<t.id, u>> \in d.tag_members
    BY <2>1, <1>1 DEF Tagged
  <2>2. CASE <<t.id, u>> \in rows
    <3>1. t.id = s.id /\ u \in us
      BY <2>2
    <3>2. t = s
      BY <3>1, <1>1 DEF Sound, UniqueTags
    <3> QED BY <3>1, <3>2, <1>1
  <2> QED BY <2>1, <2>2, <1>1, <1>2
<1> HIDE DEF e
<1>3. Tagged(e)
  BY <1>1, <1>2 DEF Tagged
<1> QED BY <1>3 DEF e

\* A new tag has no members: its id is no tag's, so no row of tag_members has it.
LEMMA TaggedCreated ==
  ASSUME NEW d, Sound(d), Tagged(d), NEW c, NEW n, \E i \in TagIds : NewTagId(d, i)
  PROVE  Tagged(create_tag(d, c, n))
<1> DEFINE i == CHOOSE j \in TagIds : NewTagId(d, j)
           row == [id |-> i, chat |-> c, name |-> n]
           e == create_tag(d, c, n)
<1>1. i \in TagIds /\ NewTagId(d, i)
  OBVIOUS
<1>2. i \notin IdsOf(d.tags)
  BY <1>1 DEF NewTagId, TagIds
<1>3. \A u \in Users : <<i, u>> \notin d.tag_members
  BY <1>2 DEF Sound, ForeignKeys, TagMemberRefs
<1>4. /\ e.tags = d.tags \union {row}
      /\ e.tag_members = d.tag_members /\ e.active = d.active /\ e.users = d.users
  BY DEF Sound, WellFormed, Database, create_tag
<1> HIDE DEF e, i
<1> QED BY <1>3, <1>4 DEF Tagged, e

\* A deleted tag takes its members' rows along.
LEMMA TaggedDeleted ==
  ASSUME NEW d, Sound(d), Tagged(d), NEW c, NEW n
  PROVE  Tagged(delete_tag(d, c, n))
<1> DEFINE e == delete_tag(d, c, n)
<1>1. /\ e.tags \subseteq d.tags /\ e.tag_members \subseteq d.tag_members
      /\ e.active = d.active /\ e.users = d.users
  BY DEF Sound, WellFormed, Database, delete_tag
<1> HIDE DEF e
<1>2. Tagged(e)
  BY <1>1 DEF Tagged
<1> QED BY <1>2 DEF e

\* Recording people makes rows active and takes nothing away.
LEMMA TaggedRecorded ==
  ASSUME NEW d, Sound(d), Tagged(d), NEW c \in d.chats, NEW us \in SUBSET Users,
         us \intersect Bots = {}
  PROVE  LET e == record_people(d, c, us)
         IN /\ Tagged(e)
            /\ e.tags = d.tags /\ e.tag_members = d.tag_members
            /\ \A u \in us : <<c, u>> \in e.active
<1> DEFINE e == record_people(d, c, us)
           rows == {<<c, u>> : u \in us}
<1>1. /\ e.tags = d.tags /\ e.tag_members = d.tag_members
      /\ e.active = d.active \union rows /\ e.users = d.users \union us
  <2> HIDE DEF rows
  <2>1. record_people(d, c, us) =
          [d EXCEPT !.users = @ \union us, !.members = @ \union rows, !.active = @ \union rows]
    BY DEF record_people, rows
  <2> QED BY <2>1 DEF Sound, WellFormed, Database
<1>2. \A u \in us : <<c, u>> \in e.active
  BY <1>1
<1>3. e.users \intersect Bots = {}
  BY <1>1 DEF Tagged
<1> HIDE DEF e
<1>4. Tagged(e)
  BY <1>1, <1>3, TaggedGrows
<1> QED BY <1>1, <1>2, <1>4 DEF e

\* A chat's row is inserted: no tag and no membership changes.
LEMMA TaggedKnown ==
  ASSUME NEW d, Sound(d), Tagged(d), NEW c \in Chats
  PROVE  Tagged(get_or_create_chat(d, c))
<1> DEFINE e == get_or_create_chat(d, c)
<1>1. /\ e.tags = d.tags /\ e.tag_members = d.tag_members /\ e.active = d.active
      /\ e.users = d.users
  BY DEF Sound, WellFormed, Database, get_or_create_chat
<1> HIDE DEF e
<1>2. Tagged(e)
  BY <1>1 DEF Tagged
<1> QED BY <1>2 DEF e

\* One person is recorded as an active member.
LEMMA TaggedPerson ==
  ASSUME NEW d, Sound(d), Tagged(d), NEW c \in d.chats, NEW u \in Users \ Bots
  PROVE  Tagged(record_person(d, c, u)) /\ <<c, u>> \in record_person(d, c, u).active
<1>1. record_person(d, c, u) = record_people(d, c, {u})
  BY OnePerson
<1>2. /\ Tagged(record_people(d, c, {u}))
      /\ <<c, u>> \in record_people(d, c, {u}).active
  BY TaggedRecorded
<1> QED BY <1>1, <1>2

\* The tracker records the sender as an active member before the handler runs.
LEMMA TaggedTracked ==
  ASSUME NEW d, Sound(d), Tagged(d), NEW m \in Update
  PROVE  LET e == MemberTrackerMiddleware(d, m)
         IN Tagged(e) /\ (m.from \notin Bots => <<m.chat, m.from>> \in e.active)
<1>1. m.chat \in Chats /\ m.from \in Users
  BY DEF Update
<1> QED BY <1>1, GetOrCreateChat, TaggedKnown, TaggedPerson DEF MemberTrackerMiddleware

\* Every handler keeps it, run after the tracker.
LEMMA TaggedHandle ==
  ASSUME NEW d, Sound(d), Tagged(d), NEW m \in Update, Possible(m), NEW i, ~Raises(d, m, i),
         Ready(d, m, i), m.kind # "chat_migrated",
         m.kind \in {"cmd_join", "cmd_tag_add", "cmd_tag_remove"} =>
           \E s \in d.tags : s.id = i /\ s.chat = m.chat,
         m.kind = "cmd_join" /\ m.from \notin Bots => <<m.chat, m.from>> \in d.active
  PROVE  Tagged(Handle(d, m, i))
<1>1. /\ m.chat \in Chats /\ m.from \in Users /\ m.who \in SUBSET Users
      /\ m.kind \in MessageKinds \union EventKinds
  BY DEF Update
<1> DEFINE known == get_or_create_chat(d, m.chat)
           targets == Targets(d, m)
           resolved == resolve_targets(d, m)
<1>2. Sound(known) /\ m.chat \in known.chats /\ Tagged(known)
  BY <1>1, GetOrCreateChat, TaggedKnown
<1>3. targets \in SUBSET Users /\ targets \intersect Bots = {}
  BY <1>1 DEF Targets, Tagged, Sound, WellFormed, Database
<1>4. CASE m.kind = "cmd_join"
  <2>1. m.from \in d.users /\ m.from \notin Bots
    BY <1>4 DEF Raises, TagMemberRefs, Tagged
  <2>2. PICK s \in d.tags : s.id = i /\ s.chat = m.chat
    BY <1>4
  <2>3. Tagged([d EXCEPT !.tag_members = @ \union {<<s.id, u>> : u \in {m.from}}])
    BY <1>1, <1>4, <2>1, <2>2, TaggedAdded
  <2>4. {<<s.id, u>> : u \in {m.from}} = {<<i, m.from>>}
    BY <2>2
  <2> QED BY <1>4, <2>3, <2>4 DEF Handle, cmd_join, add_tag_member
<1>5. CASE m.kind = "cmd_leave"
  <2> DEFINE e == cmd_leave(d, m, i)
  <2>1. /\ e.tags = d.tags /\ e.tag_members \subseteq d.tag_members
        /\ e.active = d.active /\ e.users = d.users
    BY DEF Sound, WellFormed, Database, cmd_leave, remove_tag_member
  <2> HIDE DEF e
  <2>2. Tagged(e)
    BY <2>1, TaggedGrows DEF Tagged
  <2> QED BY <1>5, <2>2 DEF Handle, e
<1>6. CASE m.kind \in {"cmd_mute_me", "cmd_unmute_me"}
  <2> DEFINE e == Handle(d, m, i)
  <2>1. /\ e.tags = d.tags /\ e.tag_members = d.tag_members
        /\ d.active \subseteq e.active /\ e.users = d.users
    BY <1>6 DEF Handle, Sound, WellFormed, Database, cmd_mute_me, cmd_unmute_me, set_muted,
                ensure_membership
  <2> HIDE DEF e
  <2>2. Tagged(e)
    BY <2>1, TaggedGrows DEF Tagged
  <2> QED BY <2>2 DEF e
<1>7. CASE m.kind \in {"cmd_forget_me", "member_left"}
  <2> DEFINE a == d.active \ {<<m.chat, m.from>>}
             t == d.tag_members \ (IdsOf(TagsOf(d, m.chat)) \X {m.from})
  <2>1. Handle(d, m, i) = [d EXCEPT !.active = a, !.tag_members = t]
    BY <1>7, LeavesAndForgets DEF Handle
  <2>2. {m.chat} \X {m.from} = {<<m.chat, m.from>>}
    OBVIOUS
  <2>3. Tagged([d EXCEPT !.active = d.active \ ({m.chat} \X {m.from}), !.tag_members = t])
    <3>1. m.chat \in Chats /\ {m.from} \in SUBSET Users
      BY <1>1
    <3> QED BY <3>1, TaggedLeaves, Zenon
  <2> QED BY <2>1, <2>2, <2>3
<1>8. CASE m.kind = "cmd_tag_create"
  <2>1. \E j \in TagIds : NewTagId(d, j)
    BY <1>8 DEF Ready
  <2> QED BY <1>8, <2>1, TaggedCreated DEF Handle, cmd_tag_create
<1>9. CASE m.kind = "cmd_tag_delete"
  BY <1>9, TaggedDeleted DEF Handle, cmd_tag_delete
<1>10. CASE m.kind \in {"cmd_tag_add", "cmd_tag_remove"}
  <2>1. m.chat \in d.chats
    BY <1>10 DEF Ready, NeedsDbChat
  <2>2. Sound(resolved)
    BY <1>3, <2>1, RecordPeople DEF resolve_targets
  <2>3. /\ Tagged(resolved) /\ resolved.tags = d.tags
        /\ \A u \in targets : <<m.chat, u>> \in resolved.active
    BY <1>3, <2>1, TaggedRecorded DEF resolve_targets
  <2>4. PICK s \in d.tags : s.id = i /\ s.chat = m.chat
    BY <1>10
  <2> HIDE DEF resolved, targets
  <2>5. CASE m.kind = "cmd_tag_add"
    <3>1. Tagged([resolved EXCEPT !.tag_members = @ \union {<<s.id, u>> : u \in targets}])
      BY <1>3, <2>2, <2>3, <2>4, TaggedAdded
    <3> QED BY <2>4, <2>5, <3>1 DEF Handle, cmd_tag_add, resolved, targets
  <2>6. CASE m.kind = "cmd_tag_remove"
    <3> DEFINE gone == {<<i, u>> : u \in targets}
               e == [resolved EXCEPT !.tag_members = @ \ gone]
    <3>1. /\ e.tags = resolved.tags /\ e.tag_members \subseteq resolved.tag_members
          /\ e.active = resolved.active /\ e.users = resolved.users
      <4> HIDE DEF gone
      <4> QED BY <2>2 DEF Sound, WellFormed, Database
    <3> HIDE DEF e
    <3>2. Tagged(e)
      BY <2>3, <3>1, TaggedGrows DEF Tagged
    <3> QED BY <2>6, <3>2 DEF Handle, cmd_tag_remove, resolved, targets, e
  <2> QED BY <1>10, <2>5, <2>6
<1>11. CASE m.kind = "cmd_settings"
  <2> DEFINE e == cmd_settings(d, m)
  <2>1. /\ e.tags = d.tags /\ e.tag_members = d.tag_members
        /\ e.active = d.active /\ e.users = d.users
    BY DEF Sound, WellFormed, Database, cmd_settings, update_settings
  <2> HIDE DEF e
  <2>2. Tagged(e)
    BY <2>1 DEF Tagged
  <2> QED BY <1>11, <2>2 DEF Handle, e
<1>12. CASE m.kind \in {"bot_added", "message"}
  BY <1>2, <1>12 DEF Handle, bot_added
<1>13. CASE m.kind \in {"member_joined", "reaction_seen", "on_here"}
  <2>1. m.from \notin Bots => Tagged(record_person(known, m.chat, m.from))
    BY <1>1, <1>2, TaggedPerson
  <2> QED BY <1>13, <2>1 DEF Handle, member_joined, reaction_seen, on_here, Possible
<1>14. CASE m.kind = "service_members_added"
  BY <1>1, <1>2, <1>14, TaggedRecorded DEF Handle, service_members_added
<1>15. CASE m.kind = "service_member_left"
  BY <1>1, <1>15, TaggedLeaves DEF Handle, service_member_left
<1> QED
  BY <1>1, <1>4, <1>5, <1>6, <1>7, <1>8, <1>9, <1>10, <1>11, <1>12, <1>13, <1>14, <1>15
  DEF MessageKinds, EventKinds, TagCommands, NeedsDbChat

\* One update, handled after the tracker.
LEMMA TaggedApplied ==
  ASSUME NEW before, Sound(before), Tagged(before), NEW after, NEW m \in Updates,
         NEW tracked \in Tracked(m), Applied(m, tracked, before, after),
         ~TrackerMayFail, m.kind # "chat_migrated"
  PROVE  Tagged(after)
<1> DEFINE d == Base(m, tracked, before)
<1>1. m \in Update /\ Possible(m)
  BY RosterAssumption
<1>2. /\ tracked = TRUE \/ tracked = FALSE
      /\ m.kind \in MessageKinds \ EventKinds => tracked
  BY RosterAssumption DEF Tracked
<1>3. Tagged(d) /\ (tracked /\ m.from \notin Bots => <<m.chat, m.from>> \in d.active)
  BY <1>1, TaggedTracked DEF Base
<1>4. Sound(d)
  BY AppliedRuns
<1>5. SUFFICES ASSUME NEW i \in TagChoice(d, m, tracked), ~Raises(d, m, i), Ready(d, m, i),
                      after = Handle(d, m, i)
               PROVE  Tagged(Handle(d, m, i))
  BY <1>3, AppliedRuns
<1>6. m.kind \in TagCommands => tracked
  BY <1>2 DEF TagCommands, MessageKinds, EventKinds
<1>7. m.kind \in TagCommands => \E s \in d.tags : s.id = i /\ s.chat = m.chat
  BY <1>5, <1>6, ResolvedIsTag DEF TagChoice
<1>8. \A k \in {"cmd_join", "cmd_tag_add", "cmd_tag_remove"} : k \in TagCommands
  BY DEF TagCommands
<1> HIDE DEF d
<1> QED BY <1>1, <1>3, <1>4, <1>5, <1>6, <1>7, <1>8, TaggedHandle

\* While the tracker is given the lock and no chat migrates, whoever is in a tag
\* is an active member of its chat.
THEOREM TaggedAreActiveHolds ==
  ASSUME ~TrackerMayFail, \A m \in Updates : m.kind # "chat_migrated"
  PROVE  Spec => []TaggedAreActive
<1> DEFINE Inv == Sound(db) /\ Tagged(db)
<1>1. Init => Inv
  BY DEF Init, EmptyDatabase, Sound, WellFormed, Database, ForeignKeys, UniqueTags, Tagged
<1>2. Inv /\ [Next]_db => Inv'
  <2> SUFFICES ASSUME Sound(db), Tagged(db), [Next]_db PROVE Sound(db') /\ Tagged(db')
    BY DEF Sound, WellFormed, ForeignKeys, UniqueTags, Tagged
  <2>1. CASE Next
    <3>1. PICK m \in Updates : \E tracked \in Tracked(m) : Applied(m, tracked, db, db')
      BY <2>1, NextHandles
    <3> QED BY <3>1, AppliedSound, TaggedApplied
  <2>2. CASE UNCHANGED db
    BY <2>2
  <2> QED BY <2>1, <2>2
<1>3. Inv => TaggedAreActive
  BY DEF Tagged, TaggedAreActive
<1> QED BY <1>1, <1>2, <1>3, PTL DEF Spec

-----------------------------------------------------------------------------
(* The tag limit, as long as no chat migrates.                             *)

Limited(d) ==
  \A c \in Chats :
    IsFiniteSet(TagsOf(d, c)) /\ Cardinality(TagsOf(d, c)) <= MAX_TAGS_PER_CHAT

\* Only creating, deleting and migrating write the table of tags.
LEMMA TagsKept ==
  ASSUME NEW d, Sound(d), NEW m \in Update, NEW i,
         m.kind \notin {"cmd_tag_create", "cmd_tag_delete", "chat_migrated"}
  PROVE  Handle(d, m, i).tags = d.tags
<1> USE DEF Sound, WellFormed, Database
<1>1. /\ cmd_join(d, m, i).tags = d.tags
      /\ cmd_leave(d, m, i).tags = d.tags
  BY DEF cmd_join, cmd_leave, add_tag_member, remove_tag_member
<1>2. /\ cmd_forget_me(d, m).tags = d.tags
      /\ member_left(d, m).tags = d.tags
  BY DEF cmd_forget_me, member_left, set_member_active, purge_user_from_chat_tags
<1>3. /\ cmd_mute_me(d, m).tags = d.tags
      /\ cmd_unmute_me(d, m).tags = d.tags
      /\ cmd_settings(d, m).tags = d.tags
  BY DEF cmd_mute_me, cmd_unmute_me, cmd_settings, set_muted, ensure_membership, update_settings
<1>4. /\ cmd_tag_add(d, m, i).tags = d.tags
      /\ cmd_tag_remove(d, m, i).tags = d.tags
  BY DEF cmd_tag_add, cmd_tag_remove, resolve_targets, record_people
<1>5. /\ bot_added(d, m).tags = d.tags
      /\ member_joined(d, m).tags = d.tags
      /\ reaction_seen(d, m).tags = d.tags
      /\ on_here(d, m).tags = d.tags
  BY DEF bot_added, member_joined, reaction_seen, on_here, get_or_create_chat, record_person,
         upsert_user, ensure_membership
<1>6. /\ service_members_added(d, m).tags = d.tags
      /\ service_member_left(d, m).tags = d.tags
  BY DEF service_members_added, service_member_left, get_or_create_chat, record_people
<1> QED
  BY <1>1, <1>2, <1>3, <1>4, <1>5, <1>6
  DEF Handle, Update, MessageKinds, EventKinds, TagCommands, NeedsDbChat

\* A handler adds at most one tag, to the chat whose tags it has counted.
LEMMA LimitedHandle ==
  ASSUME NEW d, Sound(d), Limited(d), NEW m \in Update, NEW i, m.kind # "chat_migrated"
  PROVE  Limited(Handle(d, m, i))
<1> DEFINE e == Handle(d, m, i)
<1>1. CASE m.kind = "cmd_tag_create"
  <2>1. CASE e = d
    BY <2>1
  <2>2. CASE e # d
    <3> DEFINE row == [id |-> CHOOSE j \in TagIds : NewTagId(d, j), chat |-> m.chat,
                       name |-> m.name]
    <3>1. /\ ~(Cardinality(TagsOf(d, m.chat)) >= MAX_TAGS_PER_CHAT)
          /\ e = create_tag(d, m.chat, m.name)
      BY <1>1, <2>2 DEF Handle, cmd_tag_create
    <3>2. e.tags = d.tags \union {row}
      BY <3>1 DEF Sound, WellFormed, Database, create_tag
    <3> HIDE DEF e
    <3> SUFFICES ASSUME NEW c \in Chats
                 PROVE  /\ IsFiniteSet(TagsOf(e, c))
                        /\ Cardinality(TagsOf(e, c)) <= MAX_TAGS_PER_CHAT
      BY DEF Limited, e
    <3>3. /\ IsFiniteSet(TagsOf(d, c)) /\ Cardinality(TagsOf(d, c)) \in Nat
          /\ Cardinality(TagsOf(d, c)) <= MAX_TAGS_PER_CHAT
      BY FS_CardinalityType DEF Limited
    <3>4. CASE c = m.chat
      <4>1. TagsOf(e, c) = TagsOf(d, c) \union {row}
        BY <3>2, <3>4 DEF TagsOf
      <4>2. /\ IsFiniteSet(TagsOf(d, c) \union {row})
            /\ \/ Cardinality(TagsOf(d, c) \union {row}) = Cardinality(TagsOf(d, c))
               \/ Cardinality(TagsOf(d, c) \union {row}) = Cardinality(TagsOf(d, c)) + 1
        BY <3>3, FS_AddElement
      <4> QED BY <3>1, <3>3, <3>4, <4>1, <4>2, StoreAssumption
    <3>5. CASE c # m.chat
      <4>1. TagsOf(e, c) = TagsOf(d, c)
        BY <3>2, <3>5 DEF TagsOf
      <4> QED BY <3>3, <4>1
    <3> QED BY <3>4, <3>5
  <2> QED BY <2>1, <2>2
<1>2. CASE m.kind = "cmd_tag_delete"
  <2>1. e.tags \subseteq d.tags
    BY <1>2 DEF Handle, cmd_tag_delete, delete_tag, Sound, WellFormed, Database
  <2> HIDE DEF e
  <2> SUFFICES ASSUME NEW c \in Chats
               PROVE  /\ IsFiniteSet(TagsOf(e, c))
                      /\ Cardinality(TagsOf(e, c)) <= MAX_TAGS_PER_CHAT
    BY DEF Limited, e
  <2>2. TagsOf(e, c) \subseteq TagsOf(d, c)
    BY <2>1 DEF TagsOf
  <2>3. /\ IsFiniteSet(TagsOf(d, c)) /\ Cardinality(TagsOf(d, c)) \in Nat
        /\ Cardinality(TagsOf(d, c)) <= MAX_TAGS_PER_CHAT
    BY FS_CardinalityType DEF Limited
  <2>4. /\ IsFiniteSet(TagsOf(e, c)) /\ Cardinality(TagsOf(e, c)) \in Nat
        /\ Cardinality(TagsOf(e, c)) <= Cardinality(TagsOf(d, c))
    BY <2>2, <2>3, FS_Subset, FS_CardinalityType
  <2> QED BY <2>3, <2>4, StoreAssumption
<1>3. CASE m.kind \notin {"cmd_tag_create", "cmd_tag_delete"}
  <2>1. e.tags = d.tags
    BY <1>3, TagsKept
  <2> HIDE DEF e
  <2>2. Limited(e)
    BY <2>1 DEF Limited, TagsOf
  <2> QED BY <2>2 DEF e
<1> QED BY <1>1, <1>2, <1>3

\* No sequence of updates, the tracker's failures included, gives a chat more
\* than MAX_TAGS_PER_CHAT tags, unless a chat with tags of its own takes over
\* another's.
THEOREM TagLimitHolds ==
  ASSUME \A m \in Updates : m.kind # "chat_migrated"
  PROVE  Spec => []TagLimit
<1> DEFINE Inv == Sound(db) /\ Limited(db)
<1>1. Init => Inv
  <2> SUFFICES ASSUME Init PROVE Limited(db)
    BY DEF Init, EmptyDatabase, Sound, WellFormed, Database, ForeignKeys, UniqueTags
  <2>1. \A c \in Chats : TagsOf(db, c) = {}
    BY DEF Init, EmptyDatabase, TagsOf
  <2>2. IsFiniteSet({}) /\ Cardinality({}) = 0
    BY FS_EmptySet
  <2>3. 0 <= MAX_TAGS_PER_CHAT
    BY StoreAssumption
  <2> QED BY <2>1, <2>2, <2>3 DEF Limited
<1>2. Inv /\ [Next]_db => Inv'
  <2> SUFFICES ASSUME Sound(db), Limited(db), [Next]_db PROVE Sound(db') /\ Limited(db')
    BY DEF Sound, WellFormed, ForeignKeys, UniqueTags, Limited, TagsOf
  <2>1. CASE Next
    <3>1. PICK m \in Updates : \E tracked \in Tracked(m) : Applied(m, tracked, db, db')
      BY <2>1, NextHandles
    <3>2. PICK tracked \in Tracked(m) : Applied(m, tracked, db, db')
      BY <3>1
    <3> DEFINE d == Base(m, tracked, db)
    <3>3. m \in Update
      BY RosterAssumption
    <3>4. /\ Sound(d)
          /\ \/ db' = d
             \/ \E i \in TagChoice(d, m, tracked) : db' = Handle(d, m, i)
      BY <3>2, AppliedRuns
    <3>5. Limited(d)
      <4>1. d.tags = db.tags
        BY <3>3, TrackerKeeps DEF Base
      <4> HIDE DEF d
      <4> QED BY <4>1 DEF Limited, TagsOf
    <3>6. Sound(db')
      BY <3>2, AppliedSound
    <3> HIDE DEF d
    <3> QED BY <3>3, <3>4, <3>5, <3>6, LimitedHandle
  <2>2. CASE UNCHANGED db
    BY <2>2
  <2> QED BY <2>1, <2>2
<1>3. Inv => TagLimit
  BY DEF Limited, TagLimit
<1> QED BY <1>1, <1>2, <1>3, PTL DEF Spec

-----------------------------------------------------------------------------
(* The number that /stats gives.                                           *)

\* No bot is ever recorded, whatever the update, the tracker's failures and
\* migrations included.
NoBots(d) == d.users \intersect Bots = {}

\* Rows of one chat, and as many people.
LEMMA RowsOfPeople ==
  ASSUME NEW c, NEW people \in SUBSET Users
  PROVE  /\ IsFiniteSet({c} \X people)
         /\ Cardinality({c} \X people) = Cardinality(people)
<1> DEFINE f == [u \in people |-> <<c, u>>]
<1>1. IsFiniteSet(people)
  BY StoreAssumption, FS_Subset
<1>2. /\ f \in [people -> {c} \X people]
      /\ \A u, v \in people : f[u] = f[v] => u = v
      /\ \A p \in {c} \X people : \E u \in people : f[u] = p
  OBVIOUS
<1> HIDE DEF f
<1>3. f \in Bijection(people, {c} \X people)
  BY <1>2, Fun_IsBij
<1>4. ExistsBijection(people, {c} \X people)
  BY <1>3 DEF ExistsBijection
<1> QED BY <1>1, <1>4, FS_Bijection

\* In a sound database without bots the two ways to count agree: every active row
\* is a person's, and the person is in users.
LEMMA CountsAgree ==
  ASSUME NEW d, Sound(d), NoBots(d), NEW c \in Chats
  PROVE  Reachable(d, c) = Cardinality(list_active_users(d, c))
<1> DEFINE rows == {p \in d.active : p[1] = c}
           muted == {p \in d.active \intersect d.muted : p[1] = c}
           here == {u \in Users : <<c, u>> \in d.active}
           called == list_active_users(d, c)
<1>1. /\ d.active \subseteq Chats \X Users
      /\ d.active \subseteq d.members
      /\ \A p \in d.members : p[2] \in d.users /\ p[2] \notin Bots
  <2>1. /\ d.active \subseteq Chats \X Users
        /\ d.active \subseteq d.members
    BY DEF Sound, WellFormed, Database, ChatMember
  <2>2. \A p \in d.members : p[2] \in d.users
    BY DEF Sound, ForeignKeys, MembershipRefs
  <2> QED BY <2>1, <2>2 DEF NoBots
<1>2. rows = {c} \X here
  BY <1>1
<1>3. rows \ muted = {c} \X called
  <2>1. called = {u \in Users : <<c, u>> \in d.active /\ <<c, u>> \notin d.muted}
    <3>1. d.users \subseteq Users
      BY DEF Sound, WellFormed, Database
    <3>2. \A u \in Users : <<c, u>> \in d.active => u \in d.users \ Bots
      <4> TAKE u \in Users
      <4>1. <<c, u>>[2] = u
        OBVIOUS
      <4> QED BY <1>1, <4>1
    <3> QED BY <3>1, <3>2 DEF list_active_users
  <2> HIDE DEF called
  <2> QED BY <1>1, <2>1
<1>4. IsFiniteSet(rows) /\ called \in SUBSET Users
  <2>1. here \in SUBSET Users
    OBVIOUS
  <2>2. d.users \subseteq Users
    BY DEF Sound, WellFormed, Database
  <2> HIDE DEF here
  <2>3. IsFiniteSet({c} \X here)
    BY <2>1, RowsOfPeople
  <2> QED BY <1>2, <2>2, <2>3 DEF list_active_users
<1>5. Cardinality(rows \ muted) = Cardinality(called)
  <2> HIDE DEF rows, muted, called
  <2>1. Cardinality({c} \X called) = Cardinality(called)
    BY <1>4, RowsOfPeople
  <2> QED BY <1>3, <2>1
<1>6. Cardinality(rows \ muted) = Cardinality(rows) - Cardinality(muted)
  <2>1. rows \intersect muted = muted
    OBVIOUS
  <2> HIDE DEF rows, muted
  <2> QED BY <1>4, <2>1, FS_Difference
<1> QED BY <1>5, <1>6 DEF Reachable, count_active_members, count_muted_members

\* The people a handler adds to users are never bots.
LEMMA NoBotsTracked ==
  ASSUME NEW d, Sound(d), NoBots(d), NEW m \in Update
  PROVE  NoBots(MemberTrackerMiddleware(d, m))
BY DEF NoBots, Sound, WellFormed, Database, MemberTrackerMiddleware, get_or_create_chat,
       record_person, upsert_user, ensure_membership

LEMMA NoBotsHandle ==
  ASSUME NEW d, Sound(d), NoBots(d), NEW m \in Update, Possible(m), NEW i
  PROVE  NoBots(Handle(d, m, i))
<1> USE DEF NoBots, Sound, WellFormed, Database
<1>1. /\ NoBots(cmd_join(d, m, i))
      /\ NoBots(cmd_leave(d, m, i))
  BY DEF cmd_join, cmd_leave, add_tag_member, remove_tag_member
<1>2. /\ NoBots(cmd_forget_me(d, m))
      /\ NoBots(member_left(d, m))
  BY DEF cmd_forget_me, member_left, set_member_active, purge_user_from_chat_tags
<1>3. /\ NoBots(cmd_mute_me(d, m))
      /\ NoBots(cmd_unmute_me(d, m))
      /\ NoBots(cmd_settings(d, m))
  BY DEF cmd_mute_me, cmd_unmute_me, cmd_settings, set_muted, ensure_membership, update_settings
<1>4. /\ NoBots(cmd_tag_create(d, m))
      /\ NoBots(cmd_tag_delete(d, m, i))
  BY DEF cmd_tag_create, cmd_tag_delete, create_tag, delete_tag
<1>5. /\ NoBots(cmd_tag_add(d, m, i))
      /\ NoBots(cmd_tag_remove(d, m, i))
  <2>1. Targets(d, m) \intersect Bots = {}
    BY DEF Targets
  <2> QED BY <2>1 DEF cmd_tag_add, cmd_tag_remove, resolve_targets, record_people
<1>6. /\ NoBots(bot_added(d, m))
      /\ NoBots(member_joined(d, m))
      /\ NoBots(reaction_seen(d, m))
      /\ m.kind = "on_here" => NoBots(on_here(d, m))
  BY DEF bot_added, member_joined, reaction_seen, on_here, get_or_create_chat, record_person,
         upsert_user, ensure_membership, Possible
<1>7. /\ NoBots(service_members_added(d, m))
      /\ NoBots(service_member_left(d, m))
  BY DEF service_members_added, service_member_left, get_or_create_chat, record_people
<1>8. NoBots(chat_migrated(d, m))
  BY DEF chat_migrated, migrate_chat_id
<1> QED
  BY <1>1, <1>2, <1>3, <1>4, <1>5, <1>6, <1>7, <1>8
  DEF Handle, Update, MessageKinds, EventKinds, TagCommands, NeedsDbChat

\* /stats counts as many people as @all calls, in every chat and after any
\* updates, the tracker's failures and migrations included.
THEOREM StatsAreRightHolds == Spec => []StatsAreRight
<1> DEFINE Inv == Sound(db) /\ NoBots(db)
<1>1. Init => Inv
  BY DEF Init, EmptyDatabase, Sound, WellFormed, Database, ForeignKeys, UniqueTags, NoBots
<1>2. Inv /\ [Next]_db => Inv'
  <2> SUFFICES ASSUME Sound(db), NoBots(db), [Next]_db PROVE Sound(db') /\ NoBots(db')
    BY DEF Sound, WellFormed, ForeignKeys, UniqueTags, NoBots
  <2>1. CASE Next
    <3>1. PICK m \in Updates : \E tracked \in Tracked(m) : Applied(m, tracked, db, db')
      BY <2>1, NextHandles
    <3>2. PICK tracked \in Tracked(m) : Applied(m, tracked, db, db')
      BY <3>1
    <3> DEFINE d == Base(m, tracked, db)
    <3>3. m \in Update /\ Possible(m)
      BY RosterAssumption
    <3>4. NoBots(d)
      BY <3>3, NoBotsTracked DEF Base
    <3>5. Sound(d) /\ (db' = d \/ \E i : db' = Handle(d, m, i))
      BY <3>2, AppliedRuns
    <3>6. Sound(db')
      BY <3>2, AppliedSound
    <3> HIDE DEF d
    <3> QED BY <3>3, <3>4, <3>5, <3>6, NoBotsHandle
  <2>2. CASE UNCHANGED db
    BY <2>2
  <2> QED BY <2>1, <2>2
<1>3. Inv => StatsAreRight
  BY CountsAgree DEF StatsAreRight
<1> QED BY <1>1, <1>2, <1>3, PTL DEF Spec

-----------------------------------------------------------------------------
(* Coming back after leaving or /forget_me.                                *)

\* Who becomes an active member again by the work of a handler.
LEMMA Returned ==
  ASSUME NEW d, Sound(d), NEW m \in Update, NEW i, NEW c \in Chats, NEW u \in Users,
         <<c, u>> \in d.members \ d.active, <<c, u>> \in Handle(d, m, i).active
  PROVE  /\ m.chat = c
         /\ \/ /\ m.from = u
               /\ m.kind \in {"cmd_mute_me", "cmd_unmute_me", "member_joined", "reaction_seen",
                              "on_here"}
            \/ m.kind = "service_members_added" /\ u \in m.who
            \/ m.kind \in {"cmd_tag_add", "cmd_tag_remove"} /\ u \in m.who \union m.named
<1> USE DEF Sound, WellFormed, Database
<1>1. /\ cmd_join(d, m, i).active = d.active
      /\ cmd_leave(d, m, i).active = d.active
  BY DEF cmd_join, cmd_leave, add_tag_member, remove_tag_member
<1>2. /\ cmd_forget_me(d, m).active \subseteq d.active
      /\ member_left(d, m).active \subseteq d.active
  BY DEF cmd_forget_me, member_left, set_member_active, purge_user_from_chat_tags
<1>3. /\ cmd_mute_me(d, m).active = d.active \union {<<m.chat, m.from>>}
      /\ cmd_unmute_me(d, m).active = d.active \union {<<m.chat, m.from>>}
      /\ cmd_settings(d, m).active = d.active
  BY DEF cmd_mute_me, cmd_unmute_me, cmd_settings, set_muted, ensure_membership, update_settings
<1>4. /\ cmd_tag_create(d, m).active = d.active
      /\ cmd_tag_delete(d, m, i).active = d.active
  BY DEF cmd_tag_create, cmd_tag_delete, create_tag, delete_tag
<1>5. /\ cmd_tag_add(d, m, i).active = d.active \union {<<m.chat, v>> : v \in Targets(d, m)}
      /\ cmd_tag_remove(d, m, i).active = d.active \union {<<m.chat, v>> : v \in Targets(d, m)}
      /\ Targets(d, m) \subseteq m.who \union m.named
  <2>1. Targets(d, m) \subseteq m.who \union m.named
    BY DEF Targets
  <2> QED BY <2>1 DEF cmd_tag_add, cmd_tag_remove, resolve_targets, record_people
<1>6. /\ bot_added(d, m).active = d.active
      /\ member_joined(d, m).active \subseteq d.active \union {<<m.chat, m.from>>}
      /\ reaction_seen(d, m).active \subseteq d.active \union {<<m.chat, m.from>>}
      /\ on_here(d, m).active = d.active \union {<<m.chat, m.from>>}
  BY DEF bot_added, member_joined, reaction_seen, on_here, get_or_create_chat, record_person,
         upsert_user, ensure_membership
<1>7. /\ service_members_added(d, m).active
           \subseteq d.active \union {<<m.chat, v>> : v \in m.who}
      /\ service_member_left(d, m).active \subseteq d.active
  BY DEF service_members_added, service_member_left, get_or_create_chat, record_people
<1>8. ASSUME <<c, u>> \in chat_migrated(d, m).active PROVE FALSE
  <2> DEFINE movers == {v \in Users : <<m.chat, v>> \in d.members /\ <<m.to, v>> \notin d.members}
  <2>1. chat_migrated(d, m).active \subseteq d.active \union {<<m.to, v>> : v \in movers}
    BY DEF chat_migrated, migrate_chat_id
  <2> QED BY <1>8, <2>1
<1> QED
  BY <1>1, <1>2, <1>3, <1>4, <1>5, <1>6, <1>7, <1>8
  DEF Handle, Update, MessageKinds, EventKinds, TagCommands, NeedsDbChat

\* A person who leaves is not an active member when the handler is done, even when
\* the tracker has just recorded them as one.
LEMMA GoneWhenLeft ==
  ASSUME NEW d, Sound(d), NEW m \in Update, NEW i, m.kind \in {"cmd_forget_me", "member_left"}
  PROVE  <<m.chat, m.from>> \notin Handle(d, m, i).active
<1> DEFINE a == d.active \ {<<m.chat, m.from>>}
           t == d.tag_members \ (IdsOf(TagsOf(d, m.chat)) \X {m.from})
<1>1. /\ m.kind = "cmd_forget_me" => Handle(d, m, i) = cmd_forget_me(d, m)
      /\ m.kind = "member_left" => Handle(d, m, i) = member_left(d, m)
  BY DEF Handle
<1>2. /\ cmd_forget_me(d, m) = [d EXCEPT !.active = a, !.tag_members = t]
      /\ member_left(d, m) = [d EXCEPT !.active = a, !.tag_members = t]
  <2>1. m.chat \in Chats /\ m.from \in Users
    BY DEF Update
  <2> QED BY <2>1, LeavesAndForgets, Zenon
<1>3. [d EXCEPT !.active = a, !.tag_members = t].active = a
  BY DEF Sound, WellFormed, Database
<1> HIDE DEF a, t
<1>4. Handle(d, m, i).active = a
  BY <1>1, <1>2, <1>3
<1> QED BY <1>4 DEF a

LEMMA GoneWhenSeenLeaving ==
  ASSUME NEW d, Sound(d), NEW m \in Update, NEW i, m.kind = "service_member_left",
         NEW u \in m.who \ Bots
  PROVE  <<m.chat, u>> \notin Handle(d, m, i).active
<1>1. service_member_left(d, m).active = d.active \ ({m.chat} \X (m.who \ Bots))
  BY DEF Sound, WellFormed, Database, service_member_left
<1> QED BY <1>1 DEF Handle

\* Whoever left or did /forget_me is a member again only after an act of their own
\* other than leaving, or once the group names them, whatever fails and wherever
\* the chat migrates.
THEOREM ReturnsWhenSeenHolds == Spec => ReturnsWhenSeen
<1>1. Sound(db) /\ [Next]_db =>
        [\A c \in Chats, u \in Users :
           <<c, u>> \in (db.members \ db.active) /\ <<c, u>> \in db'.active =>
             \E m \in Updates :
               m.chat = c /\ Handled(m) /\ BringsBack(m, u)]_db
  <2> SUFFICES ASSUME Sound(db), Next, NEW c \in Chats, NEW u \in Users,
                      <<c, u>> \in (db.members \ db.active), <<c, u>> \in db'.active
               PROVE  \E m \in Updates :
                        m.chat = c /\ Handled(m) /\ BringsBack(m, u)
    OBVIOUS
  <2>1. PICK m \in Updates : \E tracked \in Tracked(m) : Applied(m, tracked, db, db')
    BY NextHandles
  <2>2. PICK tracked \in Tracked(m) : Applied(m, tracked, db, db')
    BY <2>1
  <2> DEFINE d == Base(m, tracked, db)
  <2>3. m \in Update
    BY RosterAssumption
  <2>4. Sound(d) /\ (d = db' \/ \E i : db' = Handle(d, m, i))
    BY <2>2, AppliedRuns
  <2>5. /\ <<c, u>> \in d.members
        /\ <<c, u>> \in d.active => tracked /\ m.chat = c /\ m.from = u /\ u \notin Bots
    BY DEF Base, Sound, WellFormed, Database, MemberTrackerMiddleware, get_or_create_chat,
           record_person, upsert_user, ensure_membership
  <2>6. tracked => m.kind \notin EventKinds
    BY DEF Tracked
  <2> HIDE DEF d
  <2>7. CASE <<c, u>> \in d.active
    <3>1. m.kind # "member_left"
      BY <2>5, <2>6, <2>7 DEF EventKinds
    <3>2. ASSUME \/ m.kind = "cmd_forget_me"
                 \/ m.kind = "service_member_left" /\ u \in m.who
          PROVE  FALSE
      <4>1. PICK i \in TagChoice(d, m, tracked) : db' = Handle(d, m, i)
        <5>1. m.kind \notin TagCommands
          BY <3>2 DEF TagCommands
        <5>2. TagChoice(d, m, tracked) = {NoTag}
          BY <5>1 DEF TagChoice
        <5> QED BY <2>2, <5>2 DEF Applied, Base, d
      <4> QED BY <2>3, <2>4, <2>5, <2>7, <3>2, <4>1, GoneWhenLeft, GoneWhenSeenLeaving
    <3> QED BY <2>1, <2>5, <2>7, <3>1, <3>2 DEF Handled, BringsBack
  <2>8. CASE <<c, u>> \notin d.active
    <3>1. PICK i : db' = Handle(d, m, i)
      BY <2>4, <2>8
    <3>2. /\ m.chat = c
          /\ \/ /\ m.from = u
                /\ m.kind \in {"cmd_mute_me", "cmd_unmute_me", "member_joined", "reaction_seen",
                               "on_here"}
             \/ m.kind = "service_members_added" /\ u \in m.who
             \/ m.kind \in {"cmd_tag_add", "cmd_tag_remove"} /\ u \in m.who \union m.named
      BY <2>3, <2>4, <2>5, <2>8, <3>1, Returned
    <3> QED BY <2>1, <3>2 DEF Handled, BringsBack
  <2> QED BY <2>7, <2>8
<1> QED BY <1>1, AlwaysSound, PTL DEF Spec, ReturnsWhenSeen

-----------------------------------------------------------------------------
(* One chat's updates and another chat's rows.                             *)

\* The rows whose first column is one of the keys.
Of(rows, keys) == {p \in rows : p[1] \in keys}

\* What makes the rows of chat c in d and in e the same.
LEMMA SameSlice ==
  ASSUME NEW d, NEW e, NEW c,
         c \in e.custom <=> c \in d.custom,
         Of(e.members, {c}) = Of(d.members, {c}),
         Of(e.active, {c}) = Of(d.active, {c}),
         Of(e.muted, {c}) = Of(d.muted, {c}),
         TagsOf(e, c) = TagsOf(d, c),
         Of(e.tag_members, IdsOf(TagsOf(d, c))) = Of(d.tag_members, IdsOf(TagsOf(d, c)))
  PROVE  Slice(e, c) = Slice(d, c)
<1> DEFINE Rows(rows) == {p \in rows : p[1] = c}
<1>1. \A rows : Rows(rows) = Of(rows, {c})
  BY DEF Of
<1> HIDE DEF Rows
<1>2. (c \in e.custom) = (c \in d.custom)
  OBVIOUS
<1>3. /\ Rows(e.members) = Rows(d.members)
      /\ Rows(e.active) = Rows(d.active)
      /\ Rows(e.muted) = Rows(d.muted)
  BY <1>1
<1> QED BY <1>2, <1>3 DEF Slice, Of, Rows

\* The ids of two chats' tags are apart.
LEMMA IdsApart ==
  ASSUME NEW d, Sound(d), NEW b, NEW c, b # c
  PROVE  IdsOf(TagsOf(d, b)) \intersect IdsOf(TagsOf(d, c)) = {}
BY DEF Sound, UniqueTags, IdsOf, TagsOf

\* People recorded in one chat.
LEMMA RecordElsewhere ==
  ASSUME NEW d, Sound(d), NEW b, NEW us, NEW c, b # c
  PROVE  Slice(record_people(d, b, us), c) = Slice(d, c)
<1> DEFINE e == record_people(d, b, us)
           rows == {<<b, u>> : u \in us}
<1>1. /\ e.custom = d.custom /\ e.muted = d.muted
      /\ e.tags = d.tags /\ e.tag_members = d.tag_members
      /\ e.members = d.members \union rows /\ e.active = d.active \union rows
  BY DEF Sound, WellFormed, Database, record_people
<1>2. \A x : Of(x \union rows, {c}) = Of(x, {c})
  BY DEF Of
<1> HIDE DEF e, rows
<1>3. TagsOf(e, c) = TagsOf(d, c)
  BY <1>1 DEF TagsOf
<1>4. Slice(e, c) = Slice(d, c)
  BY <1>1, <1>2, <1>3, SameSlice
<1> QED BY <1>4 DEF e

LEMMA KnownElsewhere ==
  ASSUME NEW d, Sound(d), NEW b, NEW c
  PROVE  Slice(get_or_create_chat(d, b), c) = Slice(d, c)
BY DEF Sound, WellFormed, Database, get_or_create_chat, Slice, TagsOf

LEMMA PersonElsewhere ==
  ASSUME NEW d, Sound(d), NEW b \in Chats, NEW u \in Users, NEW c, b # c
  PROVE  /\ Slice(record_person(d, b, u), c) = Slice(d, c)
         /\ Slice(record_person(get_or_create_chat(d, b), b, u), c) = Slice(d, c)
<1> DEFINE e == get_or_create_chat(d, b)
<1>1. Sound(e) /\ Slice(e, c) = Slice(d, c)
  BY GetOrCreateChat, KnownElsewhere
<1> HIDE DEF e
<1>2. ASSUME NEW f, Sound(f) PROVE Slice(record_person(f, b, u), c) = Slice(f, c)
  <2>1. record_person(f, b, u) = record_people(f, b, {u})
    BY <1>2, OnePerson
  <2>2. Slice(record_people(f, b, {u}), c) = Slice(f, c)
    BY <1>2, RecordElsewhere
  <2> QED BY <2>1, <2>2
<1> QED BY <1>1, <1>2 DEF e

LEMMA TrackedElsewhere ==
  ASSUME NEW d, Sound(d), NEW m \in Update, NEW c \in Chats, m.chat # c
  PROVE  Slice(MemberTrackerMiddleware(d, m), c) = Slice(d, c)
<1>1. m.chat \in Chats /\ m.from \in Users
  BY DEF Update
<1> QED BY <1>1, KnownElsewhere, PersonElsewhere DEF MemberTrackerMiddleware

\* Flags of one chat's rows and rows of one chat's tags.
LEMMA RowsElsewhere ==
  ASSUME NEW d, NEW e, NEW c,
         e.custom = d.custom, e.members = d.members, e.muted = d.muted, e.tags = d.tags,
         Of(e.active, {c}) = Of(d.active, {c}),
         Of(e.tag_members, IdsOf(TagsOf(d, c))) = Of(d.tag_members, IdsOf(TagsOf(d, c)))
  PROVE  Slice(e, c) = Slice(d, c)
<1>1. TagsOf(e, c) = TagsOf(d, c)
  BY DEF TagsOf
<1> QED BY <1>1, SameSlice

\* A migration touches the two chats it is about.
LEMMA MigrationElsewhere ==
  ASSUME NEW d, Sound(d), NEW old \in Chats, NEW new \in Chats, NEW c \in Chats,
         c # old, c # new
  PROVE  Slice(migrate_chat_id(d, old, new), c) = Slice(d, c)
<1> SUFFICES ASSUME old \in d.chats
             PROVE  Slice(migrate_chat_id(d, old, new), c) = Slice(d, c)
  BY DEF migrate_chat_id
<1> DEFINE oldTags == TagsOf(d, old)
           kept    == {t \in oldTags : t.name \notin NamesOf(TagsOf(d, new))}
           lost    == IdsOf(oldTags \ kept)
           movers  == {u \in Users : <<old, u>> \in d.members /\ <<new, u>> \notin d.members}
           Arrive(rows) == {<<new, u>> : u \in {v \in movers : <<old, v>> \in rows}}
           Stay(rows) == {p \in rows : p[1] # old}
           moved == {[t EXCEPT !.chat = new] : t \in kept}
           custom == (IF new \notin d.chats /\ old \in d.custom
                      THEN d.custom \union {new} ELSE d.custom) \ {old}
           e == migrate_chat_id(d, old, new)
<1>1. e = [d EXCEPT !.chats       = (d.chats \union {new}) \ {old},
                    !.custom      = custom,
                    !.members     = Stay(d.members) \union Arrive(d.members),
                    !.active      = Stay(d.active) \union Arrive(d.active),
                    !.muted       = Stay(d.muted) \union Arrive(d.muted),
                    !.tags        = (d.tags \ oldTags) \union moved,
                    !.tag_members = {p \in d.tag_members : p[1] \notin lost}]
  BY DEF migrate_chat_id
<1>2. ASSUME NEW rows PROVE Of(Stay(rows) \union Arrive(rows), {c}) = Of(rows, {c})
  <2>1. ASSUME NEW p \in Arrive(rows) PROVE p[1] # c
    <3>1. PICK u \in {v \in movers : <<old, v>> \in rows} : p = <<new, u>>
      OBVIOUS
    <3> QED BY <3>1
  <2> HIDE DEF Arrive
  <2> QED BY <2>1 DEF Of
<1>3. c \in custom <=> c \in d.custom
  OBVIOUS
<1>4. TagsOf(d, c) = {t \in (d.tags \ oldTags) \union moved : t.chat = c}
  <2>1. \A t \in moved : t.chat = new
    BY DEF Sound, WellFormed, Database, Tag, TagsOf
  <2> HIDE DEF moved
  <2> QED BY <2>1 DEF TagsOf
<1>5. Of({p \in d.tag_members : p[1] \notin lost}, IdsOf(TagsOf(d, c)))
        = Of(d.tag_members, IdsOf(TagsOf(d, c)))
  <2>1. lost \subseteq IdsOf(TagsOf(d, old))
    BY DEF IdsOf
  <2>2. IdsOf(TagsOf(d, old)) \intersect IdsOf(TagsOf(d, c)) = {}
    BY IdsApart
  <2> HIDE DEF lost
  <2> QED BY <2>1, <2>2 DEF Of
<1> HIDE DEF oldTags, lost, Arrive, Stay, moved, custom, e
<1>6. /\ e.custom = custom
      /\ e.members = Stay(d.members) \union Arrive(d.members)
      /\ e.active = Stay(d.active) \union Arrive(d.active)
      /\ e.muted = Stay(d.muted) \union Arrive(d.muted)
      /\ e.tags = (d.tags \ oldTags) \union moved
      /\ e.tag_members = {p \in d.tag_members : p[1] \notin lost}
  BY <1>1 DEF Sound, WellFormed, Database
<1>7. TagsOf(e, c) = TagsOf(d, c)
  BY <1>4, <1>6 DEF TagsOf
<1>8. /\ Of(e.members, {c}) = Of(d.members, {c})
      /\ Of(e.active, {c}) = Of(d.active, {c})
      /\ Of(e.muted, {c}) = Of(d.muted, {c})
      /\ Of(e.tag_members, IdsOf(TagsOf(d, c))) = Of(d.tag_members, IdsOf(TagsOf(d, c)))
      /\ c \in e.custom <=> c \in d.custom
  BY <1>2, <1>3, <1>5, <1>6
<1>9. Slice(e, c) = Slice(d, c)
  BY <1>7, <1>8, SameSlice
<1> QED BY <1>9 DEF e

\* Every handler, given that the tag it acts on is its chat's.
LEMMA HandleElsewhere ==
  ASSUME NEW d, Sound(d), NEW m \in Update, Possible(m), NEW i, NEW c \in Chats, m.chat # c,
         m.kind = "chat_migrated" => m.to # c,
         m.kind \in TagCommands => \E s \in TagsOf(d, m.chat) : s.id = i,
         m.kind \in {"cmd_tag_add", "cmd_tag_remove"} => m.chat \in d.chats
  PROVE  Slice(Handle(d, m, i), c) = Slice(d, c)
<1>1. /\ m.chat \in Chats /\ m.from \in Users /\ m.who \in SUBSET Users /\ m.to \in Chats
      /\ m.kind \in MessageKinds \union EventKinds
  BY DEF Update
<1> DEFINE b == m.chat
           ids == IdsOf(TagsOf(d, b))
           known == get_or_create_chat(d, b)
           Rows(a, t) == [d EXCEPT !.active = a, !.tag_members = t]
           e == Handle(d, m, i)
<1> DEFINE others == IdsOf(TagsOf(d, c))
<1>2. ids \intersect others = {} /\ (m.kind \in TagCommands => i \in ids)
  BY IdsApart DEF IdsOf
<1>3. CASE m.kind = "cmd_join"
  <2> DEFINE t == d.tag_members \union {<<i, m.from>>}
  <2>1. /\ e.custom = d.custom /\ e.members = d.members /\ e.muted = d.muted
        /\ e.tags = d.tags /\ e.active = d.active /\ e.tag_members = t
    BY <1>3 DEF Handle, cmd_join, add_tag_member, Sound, WellFormed, Database
  <2>2. Of(t, others) = Of(d.tag_members, others)
    <3> HIDE DEF ids, others
    <3> QED BY <1>2, <1>3 DEF TagCommands, Of
  <2> HIDE DEF t, e
  <2>3. Slice(e, c) = Slice(d, c)
    BY <2>1, <2>2, RowsElsewhere
  <2> QED BY <2>3 DEF e
<1>4. CASE m.kind = "cmd_leave"
  <2> DEFINE t == d.tag_members \ {<<i, m.from>>}
  <2>1. /\ e.custom = d.custom /\ e.members = d.members /\ e.muted = d.muted
        /\ e.tags = d.tags /\ e.active = d.active /\ e.tag_members = t
    BY <1>4 DEF Handle, cmd_leave, remove_tag_member, Sound, WellFormed, Database
  <2>2. Of(t, others) = Of(d.tag_members, others)
    <3> HIDE DEF ids, others
    <3> QED BY <1>2, <1>4 DEF TagCommands, Of
  <2> HIDE DEF t, e
  <2>3. Slice(e, c) = Slice(d, c)
    BY <2>1, <2>2, RowsElsewhere
  <2> QED BY <2>3 DEF e
<1>5. CASE m.kind \in {"cmd_mute_me", "cmd_unmute_me"}
  <2>0. ASSUME NEW f, f = cmd_mute_me(d, m) \/ f = cmd_unmute_me(d, m)
        PROVE  /\ f.custom = d.custom /\ f.tags = d.tags /\ f.tag_members = d.tag_members
               /\ f.members = d.members \union {<<b, m.from>>}
               /\ f.active = d.active \union {<<b, m.from>>}
               /\ \/ f.muted = d.muted \union {<<b, m.from>>}
                  \/ f.muted = d.muted \ {<<b, m.from>>}
    BY <2>0 DEF Sound, WellFormed, Database, cmd_mute_me, cmd_unmute_me, set_muted,
                ensure_membership
  <2>01. /\ m.kind = "cmd_mute_me" => e = cmd_mute_me(d, m)
         /\ m.kind = "cmd_unmute_me" => e = cmd_unmute_me(d, m)
    BY DEF Handle
  <2>1. /\ e.custom = d.custom /\ e.tags = d.tags /\ e.tag_members = d.tag_members
        /\ e.members = d.members \union {<<b, m.from>>}
        /\ e.active = d.active \union {<<b, m.from>>}
        /\ e.muted = d.muted \union {<<b, m.from>>} \/ e.muted = d.muted \ {<<b, m.from>>}
    <3> HIDE DEF e
    <3> QED BY <1>5, <2>0, <2>01
  <2> HIDE DEF e
  <2>2. TagsOf(e, c) = TagsOf(d, c)
    BY <2>1 DEF TagsOf
  <2>3. \A x : /\ Of(x \union {<<b, m.from>>}, {c}) = Of(x, {c})
              /\ Of(x \ {<<b, m.from>>}, {c}) = Of(x, {c})
    BY DEF Of
  <2>4. /\ Of(e.members, {c}) = Of(d.members, {c})
        /\ Of(e.active, {c}) = Of(d.active, {c})
        /\ Of(e.muted, {c}) = Of(d.muted, {c})
    BY <2>1, <2>3
  <2>5. Slice(e, c) = Slice(d, c)
    BY <2>1, <2>2, <2>4, SameSlice
  <2> QED BY <2>5 DEF e
<1>6. CASE m.kind \in {"cmd_forget_me", "member_left"}
  <2> DEFINE a == d.active \ {<<b, m.from>>}
             t == d.tag_members \ (ids \X {m.from})
  <2>1. /\ e.custom = d.custom /\ e.members = d.members /\ e.muted = d.muted
        /\ e.tags = d.tags /\ e.active = a /\ e.tag_members = t
    <3>1. /\ m.kind = "cmd_forget_me" => e = cmd_forget_me(d, m)
          /\ m.kind = "member_left" => e = member_left(d, m)
      BY DEF Handle
    <3>2. /\ cmd_forget_me(d, m) = Rows(a, t)
          /\ member_left(d, m) = Rows(a, t)
      BY LeavesAndForgets, Zenon
    <3>3. e = Rows(a, t)
      BY <1>6, <3>1, <3>2
    <3> HIDE DEF a, t, e
    <3> QED BY <3>3 DEF Sound, WellFormed, Database
  <2>2. Of(a, {c}) = Of(d.active, {c}) /\ Of(t, others) = Of(d.tag_members, others)
    <3> HIDE DEF ids, others
    <3> QED BY <1>2 DEF Of
  <2> HIDE DEF a, t, e
  <2>3. Slice(e, c) = Slice(d, c)
    BY <2>1, <2>2, RowsElsewhere
  <2> QED BY <2>3 DEF e
<1>7. CASE m.kind = "cmd_tag_create"
  <2>1. CASE e = d
    BY <2>1
  <2>2. CASE e # d
    <3> DEFINE row == [id |-> CHOOSE j \in TagIds : NewTagId(d, j), chat |-> b, name |-> m.name]
    <3>1. e = [d EXCEPT !.tags = @ \union {row}]
      BY <1>7, <2>2 DEF Handle, cmd_tag_create, create_tag
    <3>2. row.chat # c
      OBVIOUS
    <3> HIDE DEF e, row
    <3>3. /\ e.custom = d.custom /\ e.members = d.members /\ e.active = d.active
          /\ e.muted = d.muted /\ e.tag_members = d.tag_members /\ e.tags = d.tags \union {row}
      BY <3>1 DEF Sound, WellFormed, Database
    <3>4. TagsOf(e, c) = TagsOf(d, c)
      BY <3>2, <3>3 DEF TagsOf
    <3>5. Slice(e, c) = Slice(d, c)
      BY <3>3, <3>4, SameSlice
    <3> QED BY <3>5 DEF e
  <2> QED BY <2>1, <2>2
<1>8. CASE m.kind = "cmd_tag_delete"
  <2> DEFINE n == (CHOOSE t \in d.tags : t.id = i).name
             gone == {t \in TagsOf(d, b) : t.name = n}
  <2>1. e = [d EXCEPT !.tags = @ \ gone, !.tag_members = {p \in @ : p[1] \notin IdsOf(gone)}]
    BY <1>8 DEF Handle, cmd_tag_delete, delete_tag
  <2>2. /\ \A t \in gone : t.chat # c
        /\ IdsOf(gone) \subseteq ids
    BY DEF TagsOf, IdsOf
  <2> HIDE DEF e, gone
  <2>3. /\ e.custom = d.custom /\ e.members = d.members /\ e.active = d.active
        /\ e.muted = d.muted /\ e.tags = d.tags \ gone
        /\ e.tag_members = {p \in d.tag_members : p[1] \notin IdsOf(gone)}
    BY <2>1 DEF Sound, WellFormed, Database
  <2>4. TagsOf(e, c) = TagsOf(d, c)
    BY <2>2, <2>3 DEF TagsOf
  <2>5. Of(e.tag_members, others) = Of(d.tag_members, others)
    BY <1>2, <2>2, <2>3 DEF Of
  <2>6. Slice(e, c) = Slice(d, c)
    BY <2>3, <2>4, <2>5, SameSlice
  <2> QED BY <2>6 DEF e
<1>9. CASE m.kind \in {"cmd_tag_add", "cmd_tag_remove"}
  <2> DEFINE r == resolve_targets(d, m)
             gone == {<<i, u>> : u \in Targets(d, m)}
             t == IF m.kind = "cmd_tag_add" THEN r.tag_members \union gone
                  ELSE r.tag_members \ gone
  <2>1. Slice(r, c) = Slice(d, c)
    BY <1>1, RecordElsewhere DEF resolve_targets
  <2>2. r.tags = d.tags /\ r.active = r.active
    BY DEF Sound, WellFormed, Database, resolve_targets, record_people
  <2>3. Sound(r)
    <3>1. Targets(d, m) \in SUBSET Users
      BY <1>1 DEF Targets, Sound, WellFormed, Database
    <3> QED BY <1>1, <1>9, <3>1, RecordPeople DEF resolve_targets
  <2>4. Of(t, IdsOf(TagsOf(r, c))) = Of(r.tag_members, IdsOf(TagsOf(r, c)))
    <3>1. i \in ids
      BY <1>2, <1>9 DEF TagCommands
    <3>2. \A p \in gone : p[1] = i
      OBVIOUS
    <3>3. IdsOf(TagsOf(r, c)) = others
      BY <2>2 DEF TagsOf
    <3> HIDE DEF gone, r, ids, others
    <3> QED BY <1>2, <3>1, <3>2, <3>3 DEF Of
  <2>5. e = [r EXCEPT !.tag_members = t]
    BY <1>9 DEF Handle, cmd_tag_add, cmd_tag_remove
  <2> HIDE DEF r, t, e
  <2>6. /\ e.custom = r.custom /\ e.members = r.members /\ e.muted = r.muted
        /\ e.tags = r.tags /\ e.active = r.active /\ e.tag_members = t
    BY <2>3, <2>5 DEF Sound, WellFormed, Database
  <2>7. Slice(e, c) = Slice(r, c)
    BY <2>4, <2>6, RowsElsewhere
  <2> QED BY <2>1, <2>7 DEF e
<1>10. CASE m.kind = "cmd_settings"
  <2>1. /\ e.tags = d.tags /\ e.members = d.members /\ e.active = d.active
        /\ e.muted = d.muted /\ e.tag_members = d.tag_members
        /\ c \in e.custom <=> c \in d.custom
    BY <1>10 DEF Handle, Sound, WellFormed, Database, cmd_settings, update_settings
  <2> HIDE DEF e
  <2>2. TagsOf(e, c) = TagsOf(d, c)
    BY <2>1 DEF TagsOf
  <2>3. Slice(e, c) = Slice(d, c)
    BY <2>1, <2>2, SameSlice
  <2> QED BY <2>3 DEF e
<1>11. CASE m.kind \in {"bot_added", "message"}
  BY <1>1, <1>11, KnownElsewhere DEF Handle, bot_added
<1>12. CASE m.kind \in {"member_joined", "reaction_seen", "on_here"}
  BY <1>1, <1>12, PersonElsewhere DEF Handle, member_joined, reaction_seen, on_here
<1>13. CASE m.kind = "service_members_added"
  <2>1. Sound(known) /\ Slice(known, c) = Slice(d, c)
    BY <1>1, GetOrCreateChat, KnownElsewhere
  <2> HIDE DEF known
  <2>2. Slice(record_people(known, b, m.who \ Bots), c) = Slice(known, c)
    BY <1>1, <2>1, RecordElsewhere
  <2> QED BY <1>13, <2>1, <2>2 DEF Handle, service_members_added, known
<1>14. CASE m.kind = "service_member_left"
  <2> DEFINE a == d.active \ ({b} \X (m.who \ Bots))
             t == d.tag_members \ (ids \X (m.who \ Bots))
  <2>1. /\ e.custom = d.custom /\ e.members = d.members /\ e.muted = d.muted
        /\ e.tags = d.tags /\ e.active = a /\ e.tag_members = t
    BY <1>14 DEF Handle, service_member_left, Sound, WellFormed, Database
  <2>2. Of(a, {c}) = Of(d.active, {c}) /\ Of(t, others) = Of(d.tag_members, others)
    <3> HIDE DEF ids, others
    <3> QED BY <1>2 DEF Of
  <2> HIDE DEF a, t, e
  <2>3. Slice(e, c) = Slice(d, c)
    BY <2>1, <2>2, RowsElsewhere
  <2> QED BY <2>3 DEF e
<1>15. CASE m.kind = "chat_migrated"
  BY <1>1, <1>15, MigrationElsewhere DEF Handle, chat_migrated
<1> QED
  BY <1>1, <1>3, <1>4, <1>5, <1>6, <1>7, <1>8, <1>9, <1>10, <1>11, <1>12, <1>13, <1>14, <1>15
  DEF MessageKinds, EventKinds, TagCommands, NeedsDbChat

\* While the tracker is given the lock, an update of one chat leaves the rows of
\* every other chat as they are; a migration is of two chats.
THEOREM OtherChatsUntouchedHolds ==
  ASSUME ~TrackerMayFail
  PROVE  Spec => OtherChatsUntouched
<1>1. Sound(db) /\ [Next]_db =>
        [\A m \in Updates : Handled(m) =>
           \A c \in Chats \ (IF m.kind = "chat_migrated" THEN {m.chat, m.to} ELSE {m.chat}) :
             Slice(db', c) = Slice(db, c)]_db
  <2> SUFFICES ASSUME Sound(db), NEW m \in Updates, Handled(m),
                      NEW c \in Chats, c # m.chat, m.kind = "chat_migrated" => c # m.to
               PROVE  Slice(db', c) = Slice(db, c)
    OBVIOUS
  <2>1. PICK tracked \in Tracked(m) : Applied(m, tracked, db, db')
    BY DEF Handled
  <2> DEFINE d == Base(m, tracked, db)
  <2>2. m \in Update /\ Possible(m)
    BY RosterAssumption
  <2>3. Slice(d, c) = Slice(db, c)
    BY <2>2, TrackedElsewhere DEF Base
  <2>4. /\ Sound(d)
        /\ \/ db' = d
           \/ \E i \in TagChoice(d, m, tracked) : Ready(d, m, i) /\ db' = Handle(d, m, i)
    BY <2>1, AppliedRuns
  <2>5. m.kind \in TagCommands => tracked
    BY RosterAssumption DEF Tracked, TagCommands, EventKinds
  <2> HIDE DEF d
  <2>6. SUFFICES ASSUME NEW i \in TagChoice(d, m, tracked), Ready(d, m, i), db' = Handle(d, m, i)
                 PROVE  Slice(db', c) = Slice(d, c)
    BY <2>3, <2>4
  <2>7. m.kind \in TagCommands => \E s \in TagsOf(d, m.chat) : s.id = i
    <3> SUFFICES ASSUME m.kind \in TagCommands PROVE \E s \in TagsOf(d, m.chat) : s.id = i
      OBVIOUS
    <3>1. i \in resolve_tag_or_reply(d, m)
      BY <2>5 DEF TagChoice
    <3> QED BY <3>1, ResolvedIsTag DEF TagsOf
  <2>8. m.kind \in {"cmd_tag_add", "cmd_tag_remove"} => m.chat \in d.chats
    BY <2>6 DEF Ready, NeedsDbChat
  <2>9. Slice(Handle(d, m, i), c) = Slice(d, c)
    BY <2>2, <2>4, <2>7, <2>8, HandleElsewhere
  <2> QED BY <2>6, <2>9
<1> QED BY <1>1, AlwaysSound, PTL DEF Spec, OtherChatsUntouched

-----------------------------------------------------------------------------
(* The tag a command names.                                                *)

\* The exact name is found alone: names are unique within a chat.
LEMMA ExactFound ==
  ASSUME NEW d, Sound(d), NEW m, NEW s \in TagsOf(d, m.chat), s.name = m.name
  PROVE  resolve_tag_or_reply(d, m) = {s.id}
<1> DEFINE exact == {t \in TagsOf(d, m.chat) : t.name = m.name}
<1>1. exact = {s}
  BY DEF Sound, UniqueTags, TagsOf
<1>2. find_tags(d, m.chat, m.name) = {s}
  BY <1>1 DEF find_tags
<1> QED BY <1>2 DEF resolve_tag_or_reply, IdsOf

\* What a command on tag s of its chat does to s, and not to the chat's other tags.
LEMMA ActsOnNamed ==
  ASSUME NEW d, Sound(d), NEW m \in Update, m.kind \in TagCommands,
         NEW s \in TagsOf(d, m.chat), NEW e, e = Handle(d, m, s.id)
  PROVE  /\ m.kind = "cmd_join" => <<s.id, m.from>> \in e.tag_members
         /\ m.kind = "cmd_leave" => <<s.id, m.from>> \notin e.tag_members
         /\ m.kind = "cmd_tag_delete" => s \notin e.tags
         /\ \A t \in TagsOf(d, m.chat) \ {s} :
              /\ t \in e.tags
              /\ \A u \in Users : <<t.id, u>> \in d.tag_members <=> <<t.id, u>> \in e.tag_members
<1>1. /\ s \in d.tags /\ s.chat = m.chat
      /\ \A t \in TagsOf(d, m.chat) \ {s} : t \in d.tags /\ t.id # s.id
  BY DEF TagsOf, Sound, UniqueTags
<1>2. CASE m.kind = "cmd_join"
  <2>1. e = cmd_join(d, m, s.id)
    BY <1>2 DEF Handle
  <2>2. e.tags = d.tags /\ e.tag_members = d.tag_members \union {<<s.id, m.from>>}
    BY <2>1 DEF cmd_join, add_tag_member, Sound, WellFormed, Database
  <2> QED BY <1>1, <1>2, <2>2
<1>3. CASE m.kind = "cmd_leave"
  <2>1. e = cmd_leave(d, m, s.id)
    BY <1>3 DEF Handle
  <2>2. e.tags = d.tags /\ e.tag_members = d.tag_members \ {<<s.id, m.from>>}
    BY <2>1 DEF cmd_leave, remove_tag_member, Sound, WellFormed, Database
  <2> QED BY <1>1, <1>3, <2>2
<1>4. CASE m.kind = "cmd_tag_delete"
  <2> DEFINE gone == {r \in TagsOf(d, m.chat) : r.name = s.name}
  <2>1. (CHOOSE r \in d.tags : r.id = s.id) = s
    BY <1>1 DEF Sound, UniqueTags
  <2>2. gone = {s}
    BY <1>1 DEF TagsOf, Sound, UniqueTags
  <2>3. e = cmd_tag_delete(d, m, s.id)
    BY <1>4 DEF Handle
  <2>4. e = [d EXCEPT !.tags = @ \ gone, !.tag_members = {p \in @ : p[1] \notin IdsOf(gone)}]
    <3>1. e = delete_tag(d, m.chat, s.name)
      BY <2>1, <2>3 DEF cmd_tag_delete
    <3> QED BY <3>1 DEF delete_tag
  <2>5. IdsOf(gone) = {s.id}
    BY <2>2 DEF IdsOf
  <2> HIDE DEF gone
  <2>6. e.tags = d.tags \ {s} /\ e.tag_members = {p \in d.tag_members : p[1] # s.id}
    BY <2>2, <2>4, <2>5 DEF Sound, WellFormed, Database
  <2> QED BY <1>1, <1>4, <2>6
<1>5. CASE m.kind \in {"cmd_tag_add", "cmd_tag_remove"}
  <2> DEFINE r == resolve_targets(d, m)
             rows == {<<s.id, u>> : u \in Targets(d, m)}
  <2>1. r.tags = d.tags /\ r.tag_members = d.tag_members
    BY DEF Sound, WellFormed, Database, resolve_targets, record_people
  <2>2. /\ m.kind = "cmd_tag_add" => e = cmd_tag_add(d, m, s.id)
        /\ m.kind = "cmd_tag_remove" => e = cmd_tag_remove(d, m, s.id)
    BY DEF Handle
  <2>3. \/ e = [r EXCEPT !.tag_members = @ \union rows]
        \/ e = [r EXCEPT !.tag_members = @ \ rows]
    BY <1>5, <2>2 DEF cmd_tag_add, cmd_tag_remove
  <2>4. \A p \in rows : p[1] = s.id
    OBVIOUS
  <2>5. "tags" \in DOMAIN r /\ "tag_members" \in DOMAIN r
    BY DEF Sound, WellFormed, Database, resolve_targets, record_people
  <2> HIDE DEF r, rows
  <2>6. /\ e.tags = d.tags
        /\ \/ e.tag_members = d.tag_members \union rows
           \/ e.tag_members = d.tag_members \ rows
    BY <2>1, <2>3, <2>5
  <2>7. \A t \in TagsOf(d, m.chat) \ {s}, u \in Users : <<t.id, u>> \notin rows
    BY <1>1, <2>4
  <2> QED BY <1>1, <1>5, <2>6, <2>7
<1> QED BY <1>2, <1>3, <1>4, <1>5 DEF TagCommands

\* Under the lock that the tracker took, the exact name decides.
THEOREM ExactNameWinsHolds ==
  ASSUME ~TrackerMayFail
  PROVE  Spec => ExactNameWins
<1>1. Sound(db) /\ [Next]_db =>
        [\A m \in Updates : m.kind \in TagCommands /\ Handled(m) =>
           \A s \in TagsOf(db, m.chat) : s.name = m.name =>
             /\ m.kind = "cmd_join" => <<s.id, m.from>> \in db'.tag_members
             /\ m.kind = "cmd_leave" => <<s.id, m.from>> \notin db'.tag_members
             /\ m.kind = "cmd_tag_delete" => s \notin db'.tags
             /\ \A t \in TagsOf(db, m.chat) \ {s} :
                  /\ t \in db'.tags
                  /\ \A u \in Users :
                       <<t.id, u>> \in db.tag_members <=> <<t.id, u>> \in db'.tag_members]_db
  <2> SUFFICES ASSUME Sound(db), NEW m \in Updates, m.kind \in TagCommands, Handled(m),
                      NEW s \in TagsOf(db, m.chat), s.name = m.name
               PROVE  /\ m.kind = "cmd_join" => <<s.id, m.from>> \in db'.tag_members
                      /\ m.kind = "cmd_leave" => <<s.id, m.from>> \notin db'.tag_members
                      /\ m.kind = "cmd_tag_delete" => s \notin db'.tags
                      /\ \A t \in TagsOf(db, m.chat) \ {s} :
                           /\ t \in db'.tags
                           /\ \A u \in Users :
                                <<t.id, u>> \in db.tag_members <=> <<t.id, u>> \in db'.tag_members
    OBVIOUS
  <2>1. PICK tracked \in Tracked(m) : Applied(m, tracked, db, db')
    BY DEF Handled
  <2>2. m \in Update
    BY RosterAssumption
  <2>3. tracked
    BY RosterAssumption DEF Tracked, TagCommands, EventKinds
  <2> DEFINE d == MemberTrackerMiddleware(db, m)
  <2>4. d.tags = db.tags /\ d.tag_members = db.tag_members
    BY <2>2, TrackerKeeps
  <2>5. Sound(d)
    BY <2>2, TrackerSound
  <2> HIDE DEF d
  <2>6. TagsOf(d, m.chat) = TagsOf(db, m.chat)
    BY <2>4 DEF TagsOf
  <2>7. resolve_tag_or_reply(d, m) = {s.id}
    BY <2>5, <2>6, ExactFound
  <2>8. db' = Handle(d, m, s.id)
    BY <2>1, <2>3, <2>7 DEF Applied, TagChoice, d
  <2> DEFINE e == db'
  <2>9. /\ m.kind = "cmd_join" => <<s.id, m.from>> \in e.tag_members
        /\ m.kind = "cmd_leave" => <<s.id, m.from>> \notin e.tag_members
        /\ m.kind = "cmd_tag_delete" => s \notin e.tags
        /\ \A t \in TagsOf(d, m.chat) \ {s} :
             /\ t \in e.tags
             /\ \A u \in Users : <<t.id, u>> \in d.tag_members <=> <<t.id, u>> \in e.tag_members
    BY <2>2, <2>5, <2>6, <2>8, ActsOnNamed
  <2> QED BY <2>4, <2>6, <2>9
<1> QED BY <1>1, AlwaysSound, PTL DEF Spec, ExactNameWins
=============================================================================
