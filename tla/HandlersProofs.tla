----------------------------- MODULE HandlersProofs -----------------------------
(***************************************************************************)
(* Lemmas about the repository functions, the tracker and the handlers:    *)
(* each keeps a sound database sound.  They hold of any database, in the   *)
(* middle of a transaction as well as committed, and are cited by the      *)
(* proofs about Roster, Sessions, Rollcall and Calls.                      *)
(***************************************************************************)
EXTENDS Handlers, FiniteSetTheorems, TLAPS

\* The shape of the schema, foreign keys and unique tags.
WellFormed(d) ==
  /\ d \in Database
  /\ d.active \subseteq d.members
  /\ d.muted \subseteq d.members

Sound(d) == WellFormed(d) /\ ForeignKeys(d) /\ UniqueTags(d)

\* A chat's row is inserted or already there; no other table is touched.
LEMMA GetOrCreateChat ==
  ASSUME NEW d, Sound(d), NEW c \in Chats
  PROVE  /\ Sound(get_or_create_chat(d, c))
         /\ c \in get_or_create_chat(d, c).chats
BY DEF Sound, WellFormed, Database, ForeignKeys, UniqueTags, MembershipRefs, TagMemberRefs,
       IdsOf, get_or_create_chat

\* Users and active memberships of people in a known chat are inserted
\* (resolve_targets, service_members_added).
LEMMA RecordPeople ==
  ASSUME NEW d, Sound(d), NEW c \in d.chats, NEW us \in SUBSET Users
  PROVE  Sound(record_people(d, c, us))
<1> DEFINE e == record_people(d, c, us)
           rows == {<<c, u>> : u \in us}
<1>1. WellFormed(e)
  <2>1. rows \subseteq ChatMember
    BY DEF Sound, WellFormed, Database, ChatMember
  <2> HIDE DEF rows
  <2>2. record_people(d, c, us) =
          [d EXCEPT !.users = @ \union us, !.members = @ \union rows, !.active = @ \union rows]
    BY DEF record_people, rows
  <2> QED BY <2>1, <2>2 DEF Sound, WellFormed, Database
<1>2. ForeignKeys(e)
  BY DEF Sound, WellFormed, Database, ForeignKeys, MembershipRefs, TagMemberRefs, IdsOf,
         record_people
<1>3. UniqueTags(e)
  BY DEF Sound, WellFormed, Database, UniqueTags, record_people
<1> QED BY <1>1, <1>2, <1>3 DEF Sound

\* Recording one person is recording the people {u}.
LEMMA OnePerson ==
  ASSUME NEW d, Sound(d), NEW c, NEW u
  PROVE  record_person(d, c, u) = record_people(d, c, {u})
<1>1. {<<c, v>> : v \in {u}} = {<<c, u>>}
  OBVIOUS
<1> QED BY <1>1 DEF Sound, WellFormed, Database, record_person, record_people, upsert_user,
                    ensure_membership

\* upsert_user and ensure_membership together.
LEMMA RecordPerson ==
  ASSUME NEW d, Sound(d), NEW c \in d.chats, NEW u \in Users
  PROVE  Sound(record_person(d, c, u))
<1>1. record_person(d, c, u) = record_people(d, c, {u})
  BY OnePerson
<1>2. Sound(record_people(d, c, {u}))
  BY RecordPeople
<1> QED BY <1>1, <1>2

\* migrate_chat_id: what is re-pointed finds the new chat's row and collides with
\* none of its tags, and everything else goes with the old chat.
LEMMA MigrateChat ==
  ASSUME NEW d, Sound(d), NEW old \in Chats, NEW new \in Chats, old # new
  PROVE  Sound(migrate_chat_id(d, old, new))
<1> SUFFICES ASSUME old \in d.chats PROVE Sound(migrate_chat_id(d, old, new))
  BY DEF migrate_chat_id
<1> DEFINE oldTags == TagsOf(d, old)
           kept    == {t \in oldTags : t.name \notin NamesOf(TagsOf(d, new))}
           lost    == IdsOf(oldTags \ kept)
           movers  == {u \in Users : <<old, u>> \in d.members /\ <<new, u>> \notin d.members}
           Arrive(rows) == {<<new, u>> : u \in {v \in movers : <<old, v>> \in rows}}
           Stay(rows) == {p \in rows : p[1] # old}
           moved == {[t EXCEPT !.chat = new] : t \in kept}
           custom == (IF new \notin d.chats /\ old \in d.custom
                      THEN d.custom \union {new} ELSE d.custom) \ {old}
           e == migrate_chat_id(d, old, new)
<1>0. e = [d EXCEPT !.chats       = (d.chats \union {new}) \ {old},
                    !.custom      = custom,
                    !.members     = Stay(d.members) \union Arrive(d.members),
                    !.active      = Stay(d.active) \union Arrive(d.active),
                    !.muted       = Stay(d.muted) \union Arrive(d.muted),
                    !.tags        = (d.tags \ oldTags) \union moved,
                    !.tag_members = {p \in d.tag_members : p[1] \notin lost}]
  BY DEF migrate_chat_id
<1>f. /\ e.chats = (d.chats \union {new}) \ {old}
      /\ e.users = d.users
      /\ e.members = Stay(d.members) \union Arrive(d.members)
      /\ e.tags = (d.tags \ oldTags) \union moved
      /\ e.tag_members = {p \in d.tag_members : p[1] \notin lost}
  BY <1>0 DEF Sound, WellFormed, Database
<1>1. WellFormed(e)
  <2>1. ASSUME NEW rows PROVE Arrive(rows) \subseteq ChatMember
    <3> SUFFICES ASSUME NEW p \in Arrive(rows) PROVE p \in Chats \X Users
      BY DEF ChatMember
    <3>1. PICK u \in {v \in movers : <<old, v>> \in rows} : p = <<new, u>>
      OBVIOUS
    <3> QED BY <3>1
  <2>2. \A rows : Stay(rows) \subseteq rows
    OBVIOUS
  <2>3. moved \subseteq Tag
    BY DEF Sound, WellFormed, Database, TagsOf, Tag
  <2>4. custom \in SUBSET Chats
    BY DEF Sound, WellFormed, Database
  <2>5. /\ Arrive(d.active) \subseteq Arrive(d.members)
        /\ Arrive(d.muted) \subseteq Arrive(d.members)
        /\ Stay(d.active) \subseteq Stay(d.members)
        /\ Stay(d.muted) \subseteq Stay(d.members)
    BY DEF Sound, WellFormed
  <2>6. {p \in d.tag_members : p[1] \notin lost} \subseteq d.tag_members
    OBVIOUS
  <2> HIDE DEF Arrive, Stay, moved, custom, lost, oldTags, e
  <2>7. e \in Database
    BY <1>0, <2>1, <2>2, <2>3, <2>4, <2>6 DEF Sound, WellFormed, Database
  <2>8. /\ e.active = Stay(d.active) \union Arrive(d.active)
        /\ e.muted = Stay(d.muted) \union Arrive(d.muted)
    BY <1>0 DEF Sound, WellFormed, Database
  <2> QED BY <1>f, <2>5, <2>7, <2>8 DEF WellFormed
<1>2. ForeignKeys(e)
  <2>1. ASSUME NEW p \in e.members PROVE MembershipRefs(e, p[1], p[2])
    <3>1. CASE p \in Stay(d.members)
      BY <3>1, <1>f DEF Sound, ForeignKeys, MembershipRefs
    <3>2. CASE p \in Arrive(d.members)
      <4>1. PICK u \in movers : p = <<new, u>> /\ <<old, u>> \in d.members
        BY <3>2
      <4>2. u \in d.users
        BY <4>1 DEF Sound, ForeignKeys, MembershipRefs
      <4> QED BY <4>1, <4>2, <1>f DEF MembershipRefs
    <3> QED BY <3>1, <3>2, <1>f
  <2>2. ASSUME NEW t \in e.tags PROVE t.chat \in e.chats
    <3>1. CASE t \in d.tags \ oldTags
      BY <3>1, <1>f DEF Sound, ForeignKeys, TagsOf
    <3>2. CASE t \in moved
      <4>1. PICK r \in kept : t = [r EXCEPT !.chat = new]
        BY <3>2
      <4>2. t.chat = new
        BY <4>1 DEF Sound, WellFormed, Database, Tag, TagsOf
      <4> QED BY <4>2, <1>f
    <3> QED BY <3>1, <3>2, <1>f
  <2>3. ASSUME NEW p \in e.tag_members PROVE TagMemberRefs(e, p[1], p[2])
    <3>1. p \in d.tag_members /\ p[1] \notin lost
      BY <1>f
    <3>2. PICK t \in d.tags : t.id = p[1]
      BY <3>1 DEF Sound, ForeignKeys, TagMemberRefs, IdsOf
    <3>3. CASE t \in oldTags
      <4>1. t \in kept
        BY <3>1, <3>2, <3>3 DEF IdsOf
      <4>2. [t EXCEPT !.chat = new] \in e.tags
        BY <4>1, <1>f
      <4>3. [t EXCEPT !.chat = new].id = p[1]
        BY <3>2 DEF Sound, WellFormed, Database, Tag
      <4> QED BY <3>1, <4>2, <4>3, <1>f DEF Sound, ForeignKeys, TagMemberRefs, IdsOf
    <3>4. CASE t \notin oldTags
      BY <3>1, <3>2, <3>4, <1>f DEF Sound, ForeignKeys, TagMemberRefs, IdsOf
    <3> QED BY <3>3, <3>4
  <2> QED BY <2>1, <2>2, <2>3 DEF ForeignKeys
<1>3. UniqueTags(e)
  BY <1>f DEF Sound, WellFormed, Database, UniqueTags, TagsOf, NamesOf, Tag
<1> QED BY <1>1, <1>2, <1>3 DEF Sound

\* Flags cleared and rows taken out of tags break nothing (set_member_active with
\* FALSE, purge_user_from_chat_tags, remove_tag_member).
LEMMA Shrink ==
  ASSUME NEW d, Sound(d), NEW a \in SUBSET d.active, NEW t \in SUBSET d.tag_members
  PROVE  Sound([d EXCEPT !.active = a, !.tag_members = t])
<1> DEFINE e == [d EXCEPT !.active = a, !.tag_members = t]
<1>1. WellFormed(e)
  BY DEF Sound, WellFormed, Database
<1>2. ForeignKeys(e) /\ UniqueTags(e)
  BY DEF Sound, WellFormed, Database, ForeignKeys, UniqueTags, MembershipRefs, TagMemberRefs
<1> QED BY <1>1, <1>2 DEF Sound

\* set_muted changes the flag of rows that exist.
LEMMA SetMuted ==
  ASSUME NEW d, Sound(d), NEW c \in Chats, NEW u \in Users, NEW value \in BOOLEAN
  PROVE  Sound(set_muted(d, c, u, value))
<1> DEFINE e == set_muted(d, c, u, value)
<1>1. WellFormed(e)
  BY DEF Sound, WellFormed, Database, set_muted
<1>2. ForeignKeys(e) /\ UniqueTags(e)
  BY DEF Sound, WellFormed, Database, ForeignKeys, UniqueTags, MembershipRefs, TagMemberRefs,
         set_muted
<1> QED BY <1>1, <1>2 DEF Sound

\* update_settings changes the settings of a chat that exists.
LEMMA UpdateSettings ==
  ASSUME NEW d, Sound(d), NEW c \in Chats, NEW value \in BOOLEAN
  PROVE  Sound(update_settings(d, c, value))
<1> DEFINE e == update_settings(d, c, value)
<1>1. WellFormed(e)
  BY DEF Sound, WellFormed, Database, update_settings
<1>2. ForeignKeys(e) /\ UniqueTags(e)
  BY DEF Sound, WellFormed, Database, ForeignKeys, UniqueTags, MembershipRefs, TagMemberRefs,
         update_settings
<1> QED BY <1>1, <1>2 DEF Sound

\* Known people are added to a tag that exists.
LEMMA AddTagMembers ==
  ASSUME NEW d, Sound(d), NEW i \in IdsOf(d.tags), NEW us \in SUBSET d.users
  PROVE  Sound([d EXCEPT !.tag_members = @ \union {<<i, u>> : u \in us}])
<1> DEFINE rows == {<<i, u>> : u \in us}
           e == [d EXCEPT !.tag_members = @ \union rows]
<1>1. i \in TagIds
  BY DEF Sound, WellFormed, Database, IdsOf, Tag
<1>2. rows \subseteq TagMember
  BY <1>1 DEF Sound, WellFormed, Database, TagMember
<1>3. \A p \in rows : TagMemberRefs(d, p[1], p[2])
  BY DEF TagMemberRefs
<1> HIDE DEF rows
<1>4. WellFormed(e)
  BY <1>2 DEF Sound, WellFormed, Database
<1>5. ForeignKeys(e) /\ UniqueTags(e)
  BY <1>3 DEF Sound, WellFormed, Database, ForeignKeys, UniqueTags, MembershipRefs, TagMemberRefs
<1> QED BY <1>4, <1>5 DEF Sound, rows

\* create_tag with a free id and a name the chat has not got.
LEMMA CreateTag ==
  ASSUME NEW d, Sound(d), NEW c \in d.chats, NEW n \in Names,
         n \notin NamesOf(TagsOf(d, c)),
         \E i \in TagIds : NewTagId(d, i)
  PROVE  Sound(create_tag(d, c, n))
<1> DEFINE i == CHOOSE j \in TagIds : NewTagId(d, j)
           row == [id |-> i, chat |-> c, name |-> n]
           e == create_tag(d, c, n)
<1>1. i \in TagIds /\ NewTagId(d, i)
  OBVIOUS
<1>2. \A t \in d.tags : t.id # i
  <2>1. ASSUME NEW t \in d.tags PROVE t.id < i /\ t.id \in Int
    BY <1>1 DEF NewTagId, IdsOf, Sound, WellFormed, Database, Tag, TagIds
  <2> QED BY <1>1, <2>1 DEF TagIds
<1>3. row \in Tag
  BY <1>1 DEF Tag, Sound, WellFormed, Database
<1>4. e = [d EXCEPT !.tags = @ \union {row}]
  BY DEF create_tag
<1> HIDE DEF e, i
<1>5. WellFormed(e)
  BY <1>3, <1>4 DEF Sound, WellFormed, Database
<1>6. ForeignKeys(e)
  BY <1>4 DEF Sound, WellFormed, Database, ForeignKeys, MembershipRefs, TagMemberRefs, IdsOf
<1>7. UniqueTags(e)
  <2>1. \A t \in d.tags : ~(t.chat = c /\ t.name = n)
    BY DEF NamesOf, TagsOf
  <2>2. e.tags = d.tags \union {row}
    BY <1>4 DEF Sound, WellFormed, Database
  <2> QED BY <1>2, <2>1, <2>2 DEF UniqueTags, Sound
<1> QED BY <1>5, <1>6, <1>7 DEF Sound, e

\* delete_tag takes the rows of tag_members with it.
LEMMA DeleteTag ==
  ASSUME NEW d, Sound(d), NEW c, NEW n
  PROVE  Sound(delete_tag(d, c, n))
<1> DEFINE gone == {t \in TagsOf(d, c) : t.name = n}
           e == delete_tag(d, c, n)
<1>1. e = [d EXCEPT !.tags = @ \ gone, !.tag_members = {p \in @ : p[1] \notin IdsOf(gone)}]
  BY DEF delete_tag
<1> HIDE DEF e, gone
<1>2. WellFormed(e)
  BY <1>1 DEF Sound, WellFormed, Database
<1>3. ForeignKeys(e)
  BY <1>1 DEF Sound, WellFormed, Database, ForeignKeys, MembershipRefs, TagMemberRefs, IdsOf
<1>4. UniqueTags(e)
  BY <1>1 DEF Sound, WellFormed, Database, UniqueTags
<1> QED BY <1>2, <1>3, <1>4 DEF Sound, e

-----------------------------------------------------------------------------
(* The tracker and the handlers.                                           *)

\* The tracker middleware keeps the database sound and leaves the chat's row.
LEMMA TrackerSound ==
  ASSUME NEW d, Sound(d), NEW m \in Update
  PROVE  /\ Sound(MemberTrackerMiddleware(d, m))
         /\ m.chat \in MemberTrackerMiddleware(d, m).chats
<1> DEFINE e == get_or_create_chat(d, m.chat)
<1>1. m.chat \in Chats /\ m.from \in Users
  BY DEF Update
<1>2. Sound(e) /\ m.chat \in e.chats
  BY <1>1, GetOrCreateChat
<1>3. Sound(record_person(e, m.chat, m.from))
  BY <1>1, <1>2, RecordPerson
<1>4. record_person(e, m.chat, m.from).chats = e.chats
  BY <1>2 DEF Sound, WellFormed, Database, record_person, upsert_user, ensure_membership
<1> QED BY <1>2, <1>3, <1>4 DEF MemberTrackerMiddleware

\* What a handler may rely on when it runs.
Ready(d, m, i) ==
  /\ m.kind \in NeedsDbChat => m.chat \in d.chats
  /\ m.kind \in {"cmd_tag_add", "cmd_tag_remove"} => i \in IdsOf(d.tags)
  /\ m.kind = "cmd_tag_create" => \E j \in TagIds : NewTagId(d, j)

\* /forget_me and leaving the chat are the same change.
LEMMA LeavesAndForgets ==
  ASSUME NEW d, Sound(d), NEW m \in Update
  PROVE  LET a == d.active \ {<<m.chat, m.from>>}
             t == d.tag_members \ (IdsOf(TagsOf(d, m.chat)) \X {m.from})
         IN /\ cmd_forget_me(d, m) = [d EXCEPT !.active = a, !.tag_members = t]
            /\ member_left(d, m) = [d EXCEPT !.active = a, !.tag_members = t]
<1> DEFINE a == d.active \ {<<m.chat, m.from>>}
           t == d.tag_members \ (IdsOf(TagsOf(d, m.chat)) \X {m.from})
<1>1. cmd_forget_me(d, m) = [d EXCEPT !.active = a, !.tag_members = t]
  <2> DEFINE e == purge_user_from_chat_tags(d, m.chat, m.from)
  <2>1. e = [d EXCEPT !.tag_members = t] /\ e.active = d.active
    BY DEF Sound, WellFormed, Database, purge_user_from_chat_tags
  <2>2. cmd_forget_me(d, m) = [e EXCEPT !.active = a]
    BY <2>1 DEF cmd_forget_me, set_member_active
  <2> HIDE DEF e, a, t
  <2> QED BY <2>1, <2>2 DEF Sound, WellFormed, Database
<1>2. member_left(d, m) = [d EXCEPT !.active = a, !.tag_members = t]
  <2> DEFINE e == set_member_active(d, m.chat, m.from, FALSE)
  <2>1. e = [d EXCEPT !.active = a]
    BY DEF set_member_active
  <2>2. e.tags = d.tags /\ e.tag_members = d.tag_members
    BY <2>1 DEF Sound, WellFormed, Database
  <2>3. member_left(d, m) = [e EXCEPT !.tag_members = t]
    BY <2>2 DEF member_left, purge_user_from_chat_tags, TagsOf
  <2> HIDE DEF e, a, t
  <2> QED BY <2>1, <2>3 DEF Sound, WellFormed, Database
<1> QED BY <1>1, <1>2

\* Every handler keeps the database sound, given what its command resolved and
\* that SQLite refused no statement of it.
LEMMA HandleSound ==
  ASSUME NEW d, Sound(d), NEW m \in Update, Possible(m), NEW i, ~Raises(d, m, i), Ready(d, m, i)
  PROVE  Sound(Handle(d, m, i))
<1>1. /\ m.chat \in Chats /\ m.from \in Users /\ m.name \in Names /\ m.to \in Chats
      /\ m.who \in SUBSET Users /\ m.named \in SUBSET Users /\ m.custom \in BOOLEAN
      /\ m.kind \in MessageKinds \union EventKinds
  BY DEF Update
<1> DEFINE known == get_or_create_chat(d, m.chat)
           targets == Targets(d, m)
           resolved == resolve_targets(d, m)
<1>2. Sound(known) /\ m.chat \in known.chats
  BY <1>1, GetOrCreateChat
<1>3. ASSUME m.chat \in d.chats
      PROVE  /\ Sound(resolved)
             /\ targets \in SUBSET resolved.users
             /\ resolved.tags = d.tags
             /\ resolved.tag_members \in SUBSET resolved.tag_members
             /\ resolved.active \in SUBSET resolved.active
  <2>1. targets \in SUBSET Users
    BY <1>1 DEF Targets
  <2>2. Sound(resolved)
    BY <1>3, <2>1, RecordPeople DEF resolve_targets
  <2>3. resolved.users = d.users \union targets /\ resolved.tags = d.tags
    <3> HIDE DEF targets
    <3> QED BY DEF Sound, WellFormed, Database, resolve_targets, record_people, targets
  <2> QED BY <2>2, <2>3
<1>4. CASE m.kind = "cmd_join"
  <2>1. i \in IdsOf(d.tags) /\ {m.from} \in SUBSET d.users
    BY <1>4 DEF Raises, TagMemberRefs
  <2>2. {<<i, u>> : u \in {m.from}} = {<<i, m.from>>}
    OBVIOUS
  <2>3. Sound(cmd_join(d, m, i))
    BY <2>1, <2>2, AddTagMembers DEF cmd_join, add_tag_member
  <2> QED BY <1>4, <2>3 DEF Handle
<1>5. CASE m.kind = "cmd_leave"
  <2> DEFINE t == d.tag_members \ {<<i, m.from>>}
  <2>1. cmd_leave(d, m, i) = [d EXCEPT !.active = d.active, !.tag_members = t]
    BY DEF Sound, WellFormed, Database, cmd_leave, remove_tag_member
  <2>2. t \in SUBSET d.tag_members /\ d.active \in SUBSET d.active
    OBVIOUS
  <2> HIDE DEF t
  <2>3. Sound([d EXCEPT !.active = d.active, !.tag_members = t])
    BY <2>2, Shrink
  <2> QED BY <1>5, <2>1, <2>3 DEF Handle
<1>6. CASE m.kind \in {"cmd_mute_me", "cmd_unmute_me"}
  <2>1. m.chat \in d.chats /\ m.from \in d.users
    BY <1>6 DEF Raises, MembershipRefs
  <2>2. ensure_membership(d, m.chat, m.from) = record_person(d, m.chat, m.from)
    <3>1. d.users \union {m.from} = d.users
      BY <2>1
    <3>2. upsert_user(d, m.from) = d
      BY <3>1 DEF Sound, WellFormed, Database, upsert_user
    <3> QED BY <3>2 DEF record_person
  <2>3. Sound(ensure_membership(d, m.chat, m.from))
    BY <1>1, <2>1, <2>2, RecordPerson
  <2>4. Sound(cmd_mute_me(d, m)) /\ Sound(cmd_unmute_me(d, m))
    BY <1>1, <2>3, SetMuted DEF cmd_mute_me, cmd_unmute_me
  <2> QED BY <1>6, <2>4 DEF Handle
<1>7. CASE m.kind \in {"cmd_forget_me", "member_left"}
  <2> DEFINE a == d.active \ {<<m.chat, m.from>>}
             t == d.tag_members \ (IdsOf(TagsOf(d, m.chat)) \X {m.from})
  <2>1. Handle(d, m, i) = [d EXCEPT !.active = a, !.tag_members = t]
    BY <1>7, LeavesAndForgets DEF Handle
  <2>2. Sound([d EXCEPT !.active = a, !.tag_members = t])
    BY Shrink
  <2> QED BY <2>1, <2>2
<1>8. CASE m.kind = "cmd_tag_create"
  <2>1. m.chat \in d.chats /\ \E j \in TagIds : NewTagId(d, j)
    BY <1>8 DEF Ready, NeedsDbChat
  <2>1a. ASSUME m.name \notin NamesOf(TagsOf(d, m.chat))
         PROVE  Sound(create_tag(d, m.chat, m.name))
    BY <1>1, <2>1, <2>1a, CreateTag
  <2>1b. Sound(cmd_tag_create(d, m))
    BY <2>1a DEF cmd_tag_create
  <2> QED BY <1>8, <2>1b DEF Handle
<1>9. CASE m.kind = "cmd_tag_delete"
  <2>1. Sound(cmd_tag_delete(d, m, i))
    BY DeleteTag DEF cmd_tag_delete
  <2> QED BY <1>9, <2>1 DEF Handle
<1>10. CASE m.kind = "cmd_tag_add"
  <2>1. m.chat \in d.chats /\ i \in IdsOf(d.tags)
    BY <1>10 DEF Ready, NeedsDbChat
  <2> HIDE DEF resolved, targets
  <2>2. Sound([resolved EXCEPT !.tag_members = @ \union {<<i, u>> : u \in targets}])
    BY <1>3, <2>1, AddTagMembers
  <2> QED BY <1>10, <2>2 DEF Handle, cmd_tag_add, resolved, targets
<1>11. CASE m.kind = "cmd_tag_remove"
  <2>1. m.chat \in d.chats
    BY <1>11 DEF Ready, NeedsDbChat
  <2> HIDE DEF resolved, targets
  <2> DEFINE t == resolved.tag_members \ {<<i, u>> : u \in targets}
  <2>2. Sound([resolved EXCEPT !.active = resolved.active, !.tag_members = t])
    BY <1>3, <2>1, Shrink
  <2>3. [resolved EXCEPT !.active = resolved.active, !.tag_members = t]
          = [resolved EXCEPT !.tag_members = t]
    BY <1>3, <2>1 DEF Sound, WellFormed, Database
  <2> QED BY <1>11, <2>2, <2>3 DEF Handle, cmd_tag_remove, resolved, targets
<1>12. CASE m.kind = "cmd_settings"
  BY <1>1, <1>12, UpdateSettings DEF Handle, cmd_settings
<1>13. CASE m.kind = "bot_added"
  BY <1>2, <1>13 DEF Handle, bot_added
<1>14. CASE m.kind \in {"member_joined", "reaction_seen", "on_here"}
  <2>1. Sound(record_person(known, m.chat, m.from))
    BY <1>1, <1>2, RecordPerson
  <2> QED BY <1>14, <2>1 DEF Handle, member_joined, reaction_seen, on_here
<1>15. CASE m.kind = "service_members_added"
  BY <1>1, <1>2, <1>15, RecordPeople DEF Handle, service_members_added
<1>16. CASE m.kind = "service_member_left"
  BY <1>16, Shrink DEF Handle, service_member_left
<1>17. CASE m.kind = "chat_migrated"
  BY <1>1, <1>17, MigrateChat DEF Handle, chat_migrated, Possible
<1>18. CASE m.kind = "message"
  BY <1>18 DEF Handle
<1> QED
  BY <1>1, <1>4, <1>5, <1>6, <1>7, <1>8, <1>9, <1>10, <1>11, <1>12, <1>13, <1>14, <1>15,
     <1>16, <1>17, <1>18 DEF MessageKinds, EventKinds, TagCommands, NeedsDbChat

\* A tag id that the command resolved under the lock is the id of a tag of the
\* command's chat.
LEMMA ResolvedIsTag ==
  ASSUME NEW d, NEW m, NEW i \in resolve_tag_or_reply(d, m)
  PROVE  i \in IdsOf(d.tags) /\ \E s \in d.tags : s.id = i /\ s.chat = m.chat
BY DEF resolve_tag_or_reply, IdsOf, find_tags, TagsOf

\* What an update is handled from: the database the tracker leaves, or, when it
\* did not run, the one that was there.
Base(m, tracked, before) == IF tracked THEN MemberTrackerMiddleware(before, m) ELSE before

\* An update runs from a sound database, and its handler finds what it relies
\* on: the chat's row and a tag that exists, both thanks to the tracker.
LEMMA AppliedFrom ==
  ASSUME NEW before, Sound(before), NEW after, NEW m \in Update, NEW tracked,
         Applied(m, tracked, before, after)
  PROVE  LET d == Base(m, tracked, before)
         IN /\ Sound(d)
            /\ \/ after = d
               \/ \E i \in TagChoice(d, m, tracked) :
                    ~Raises(d, m, i) /\ Ready(d, m, i) /\ after = Handle(d, m, i)
<1> DEFINE d == Base(m, tracked, before)
<1>2. Sound(d) /\ (tracked => m.chat \in d.chats)
  BY TrackerSound DEF Base
<1>3. SUFFICES ASSUME NEW i \in TagChoice(d, m, tracked), ~Raises(d, m, i),
                      after = Handle(d, m, i)
               PROVE  Ready(d, m, i)
  BY <1>2 DEF Applied, Base
<1>4. m.kind \in NeedsDbChat => tracked
  BY DEF Applied
<1>5. ASSUME m.kind \in {"cmd_tag_add", "cmd_tag_remove"} PROVE i \in IdsOf(d.tags)
  <2>1. tracked /\ m.kind \in TagCommands
    BY <1>4, <1>5 DEF NeedsDbChat, TagCommands
  <2>2. i \in resolve_tag_or_reply(d, m)
    BY <1>3, <2>1 DEF TagChoice
  <2> QED BY <2>2, ResolvedIsTag
<1>6. m.kind = "cmd_tag_create" => \E j \in TagIds : NewTagId(d, j)
  BY DEF Applied, Base
<1> QED BY <1>2, <1>4, <1>5, <1>6 DEF Ready

\* One update, whichever it is, keeps the database sound.
LEMMA AppliedKeeps ==
  ASSUME NEW before, Sound(before), NEW after, NEW m \in Update, Possible(m), NEW tracked,
         Applied(m, tracked, before, after)
  PROVE  Sound(after)
BY AppliedFrom, HandleSound
=================================================================================
