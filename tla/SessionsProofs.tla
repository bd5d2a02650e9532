---------------------------- MODULE SessionsProofs ----------------------------
(***************************************************************************)
(* Sessions implements Roster, for every set of updates and tasks: however *)
(* the tasks interleave, time out and are cut off, the committed database  *)
(* changes by whole updates, one after another.                            *)
(*                                                                         *)
(* The argument: only the holder of the write lock has written, it holds   *)
(* the lock until it commits or rolls back, and so what it commits is its  *)
(* update applied to the database as it was when it took the lock, which   *)
(* is still the committed one.                                             *)
(***************************************************************************)
EXTENDS Sessions, HandlersProofs

PCs == {"idle", "track", "handle", "lock", "write", "commit", "rollback"}

TaskState ==
  [pc : PCs, upd : Updates \union {NoUpdate}, tracked : BOOLEAN,
   tags : SUBSET (TagIds \union {0})]

\* What a task's record says by itself.
StaticOK(k) ==
  k.pc # "idle" =>
    /\ k.upd \in Updates
    /\ k.pc = "track" => k.upd.kind \in MessageKinds /\ ~k.tracked
    /\ k.pc # "track" => k.tracked \in R!Tracked(k.upd)
    /\ k.pc \in {"lock", "write"} =>
         /\ k.upd.kind \in NeedsDbChat => k.tracked
         /\ k.upd.kind \notin TagCommands => k.tags = {0}

\* The holder of the lock has the tracker's work, the work of all of its update,
\* or nothing to commit; d is the committed database, w the holder's.
HolderOK(k, d, w) ==
  /\ k.pc \in {"handle", "write", "commit", "rollback"}
  /\ k.pc = "handle" => k.tracked
  /\ k.pc \in {"handle", "write"} => w = Base(k.upd, k.tracked, d)
  /\ k.pc = "write" /\ k.tracked /\ k.upd.kind \in TagCommands =>
       k.tags = resolve_tag_or_reply(w, k.upd)
  /\ k.pc = "commit" => w = d \/ R!Applied(k.upd, k.tracked, d, w)

\* The inductive invariant.
Typed ==
  /\ lock \in Tasks \union {NoTask}
  /\ task \in [Tasks -> TaskState]
  /\ queue \in Seq(Updates)
  /\ fetched \in 0 .. Len(queue)

SoundBoth == Sound(db) /\ Sound(work)

Static == \A t \in Tasks : StaticOK(task[t])

\* Whoever has written holds the lock.
Locked == \A t \in Tasks : task[t].tracked \/ task[t].pc = "write" => lock = t

Holder == \A t \in Tasks : lock = t => HolderOK(task[t], db, work)

IInv == SoundBoth /\ Typed /\ Static /\ Locked /\ Holder

-----------------------------------------------------------------------------
(* R's copies of the operators of Store and Handlers are those operators.  *)

\* The sets of kinds, the tracker, the search for a tag, rowids and constraints.
LEMMA SameHelpers ==
  /\ R!EventKinds = EventKinds /\ R!MessageKinds = MessageKinds
  /\ R!TagCommands = TagCommands /\ R!NeedsDbChat = NeedsDbChat /\ R!TagIds = TagIds
  /\ \A d, m : R!MemberTrackerMiddleware(d, m) = MemberTrackerMiddleware(d, m)
  /\ \A d, m : R!resolve_tag_or_reply(d, m) = resolve_tag_or_reply(d, m)
  /\ \A d, i : R!NewTagId(d, i) = NewTagId(d, i)
  /\ \A d, m, i : R!Raises(d, m, i) = Raises(d, m, i)
  /\ \A S : R!IdsOf(S) = IdsOf(S)
<1>1. /\ R!EventKinds = EventKinds /\ R!MessageKinds = MessageKinds
      /\ R!TagCommands = TagCommands /\ R!NeedsDbChat = NeedsDbChat /\ R!TagIds = TagIds
  BY DEF R!EventKinds, EventKinds, R!MessageKinds, MessageKinds, R!TagCommands, TagCommands,
         R!NeedsDbChat, NeedsDbChat, R!TagIds, TagIds
<1>2. \A d, m : R!MemberTrackerMiddleware(d, m) = MemberTrackerMiddleware(d, m)
  BY DEF R!MemberTrackerMiddleware, MemberTrackerMiddleware, R!get_or_create_chat,
         get_or_create_chat, R!record_person, record_person, R!upsert_user, upsert_user,
         R!ensure_membership, ensure_membership
<1>3. \A d, m : R!resolve_tag_or_reply(d, m) = resolve_tag_or_reply(d, m)
  BY DEF R!resolve_tag_or_reply, resolve_tag_or_reply, R!find_tags, find_tags, R!IdsOf, IdsOf,
         R!TagsOf, TagsOf
<1>4. \A d, i : R!NewTagId(d, i) = NewTagId(d, i)
  BY DEF R!NewTagId, NewTagId, R!IdsOf, IdsOf
<1>5. \A d, m, i : R!Raises(d, m, i) = Raises(d, m, i)
  BY DEF R!Raises, Raises, R!MembershipRefs, MembershipRefs, R!TagMemberRefs, TagMemberRefs,
         R!IdsOf, IdsOf
<1>6. \A S : R!IdsOf(S) = IdsOf(S)
  BY DEF R!IdsOf, IdsOf
<1> QED BY <1>1, <1>2, <1>3, <1>4, <1>5, <1>6

\* The handlers.
LEMMA SameHandle ==
  ASSUME NEW d, NEW m, NEW i
  PROVE  R!Handle(d, m, i) = Handle(d, m, i)
BY DEF R!Handle, Handle, R!cmd_join, cmd_join, R!cmd_leave, cmd_leave, R!cmd_mute_me,
       cmd_mute_me, R!cmd_unmute_me, cmd_unmute_me, R!cmd_forget_me, cmd_forget_me,
       R!cmd_tag_create, cmd_tag_create, R!cmd_tag_delete, cmd_tag_delete, R!cmd_tag_add,
       cmd_tag_add, R!cmd_tag_remove, cmd_tag_remove, R!cmd_settings, cmd_settings,
       R!bot_added, bot_added, R!member_joined, member_joined, R!member_left, member_left,
       R!service_members_added, service_members_added, R!service_member_left,
       service_member_left, R!reaction_seen, reaction_seen, R!on_here, on_here,
       R!chat_migrated, chat_migrated, R!get_or_create_chat, get_or_create_chat,
       R!record_person, record_person, R!record_people, record_people, R!resolve_targets,
       resolve_targets, R!Targets, Targets, R!upsert_user, upsert_user, R!ensure_membership,
       ensure_membership, R!set_muted, set_muted, R!set_member_active, set_member_active,
       R!purge_user_from_chat_tags, purge_user_from_chat_tags, R!add_tag_member,
       add_tag_member, R!remove_tag_member, remove_tag_member, R!delete_tag, delete_tag,
       R!update_settings, update_settings, R!create_tag, create_tag, R!IdsOf, IdsOf,
       R!TagsOf, TagsOf, R!NewTagId, NewTagId, R!TagIds, TagIds, R!NamesOf, NamesOf,
       R!migrate_chat_id, migrate_chat_id

\* So R!Applied is Applied.
LEMMA SameApplied ==
  ASSUME NEW m, NEW tracked, NEW before, NEW after, Applied(m, tracked, before, after)
  PROVE  R!Applied(m, tracked, before, after)
BY SameHelpers, SameHandle DEF Applied, TagChoice, NoTag, R!Applied, R!TagChoice, R!NoTag

-----------------------------------------------------------------------------
(* Steps.                                                                  *)

\* A step that changes the record of one task, and perhaps what only the holder
\* of the lock may change.
LEMMA OneTask ==
  ASSUME IInv, NEW t \in Tasks, NEW k \in TaskState,
         task' = [task EXCEPT ![t] = k],
         queue' \in Seq(Updates), fetched' \in 0 .. Len(queue'),
         Sound(db'), Sound(work'), lock' \in Tasks \union {NoTask},
         \A u \in Tasks \ {t} : lock' = u <=> lock = u,
         \A u \in Tasks \ {t} : lock = u => db' = db /\ work' = work,
         StaticOK(k),
         k.tracked \/ k.pc = "write" => lock' = t,
         lock' = t => HolderOK(k, db', work')
  PROVE  IInv'
<1>1. task \in [Tasks -> TaskState] /\ task' \in [Tasks -> TaskState]
  BY DEF IInv, Typed
<1>2. task'[t] = k /\ \A u \in Tasks \ {t} : task'[u] = task[u]
  BY <1>1
<1>3. SoundBoth'
  BY DEF SoundBoth
<1>4. Typed'
  BY <1>1 DEF Typed
<1>5. Static'
  <2>1. \A u \in Tasks : StaticOK(task'[u])
    BY <1>2 DEF IInv, Static
  <2> QED BY <2>1 DEF Static
<1>6. Locked'
  BY <1>2 DEF IInv, Locked
<1>7. Holder'
  <2>1. ASSUME NEW u \in Tasks, lock' = u PROVE HolderOK(task'[u], db', work')
    <3>1. CASE u = t
      BY <1>2, <2>1, <3>1
    <3>2. CASE u # t
      BY <1>2, <2>1, <3>2 DEF IInv, Holder
    <3> QED BY <3>1, <3>2
  <2> QED BY <2>1 DEF Holder
<1> QED BY <1>3, <1>4, <1>5, <1>6, <1>7 DEF IInv

\* What the invariant says of one task that is not idle.
LEMMA AtTask ==
  ASSUME IInv, NEW t \in Tasks
  PROVE  /\ task[t] \in TaskState /\ StaticOK(task[t])
         /\ task[t].tracked \/ task[t].pc = "write" => lock = t
         /\ lock = t => HolderOK(task[t], db, work)
         /\ Sound(db) /\ Sound(work)
         /\ lock \in Tasks \union {NoTask}
         /\ queue \in Seq(Updates) /\ fetched \in 0 .. Len(queue)
         /\ NoTask \notin Tasks
BY SessionsAssumption DEF IInv, SoundBoth, Typed, Static, Locked, Holder

\* A task at one place goes to another; nothing else changes.
LEMMA Moves ==
  ASSUME IInv, NEW t \in Tasks, NEW pc \in PCs, Goto(t, pc),
         UNCHANGED <<db, lock, work, telegram>>,
         StaticOK([task[t] EXCEPT !.pc = pc]),
         task[t].tracked \/ pc = "write" => lock = t,
         lock = t => HolderOK([task[t] EXCEPT !.pc = pc], db, work)
  PROVE  IInv'
<1> DEFINE k == [task[t] EXCEPT !.pc = pc]
<1>1. task[t] \in TaskState /\ task \in [Tasks -> TaskState]
  BY DEF IInv, Typed
<1>2. k \in TaskState /\ k.pc = pc /\ k.tracked = task[t].tracked
  BY <1>1 DEF TaskState
<1>3. task' = [task EXCEPT ![t] = k]
  BY DEF Goto
<1>4. /\ db' = db /\ work' = work /\ lock' = lock /\ queue' = queue /\ fetched' = fetched
  BY DEF telegram
<1> HIDE DEF k
<1>5. StaticOK(k) /\ (lock = t => HolderOK(k, db, work))
  BY DEF k
<1> QED BY <1>2, <1>3, <1>4, <1>5, OneTask, AtTask

\* No update is both a message and an event.
LEMMA KindsApart == MessageKinds \intersect EventKinds = {}
BY DEF MessageKinds, EventKinds, TagCommands, NeedsDbChat

\* The handler of a message runs with the tracker's work, or without it when
\* waits for the lock may time out; the handler of an event runs without.
LEMMA TrackedOrNot ==
  ASSUME NEW m
  PROVE  /\ m.kind \in MessageKinds => TRUE \in R!Tracked(m)
         /\ m.kind \in MessageKinds /\ LocksTimeOut => FALSE \in R!Tracked(m)
         /\ m.kind \in EventKinds => FALSE \in R!Tracked(m)
BY SameHelpers, KindsApart, SessionsAssumption DEF R!Tracked

\* A new task holds nothing.
LEMMA FetchKeeps ==
  ASSUME IInv, NEW t \in Tasks, Fetch(t) PROVE IInv'
<1> DEFINE m == queue[fetched + 1]
           k == [IdleTask EXCEPT !.pc = IF m.kind \in MessageKinds THEN "track" ELSE "handle",
                                 !.upd = m]
<1>1. /\ task[t] \in TaskState /\ lock \in Tasks \union {NoTask} /\ Sound(db) /\ Sound(work)
      /\ queue \in Seq(Updates) /\ fetched \in 0 .. Len(queue)
      /\ lock = t => HolderOK(task[t], db, work)
  BY AtTask
<1>2. m \in Updates /\ m.kind \in MessageKinds \union EventKinds
  BY <1>1, SessionsAssumption DEF Fetch, Update
<1>3. k \in TaskState /\ k.tracked = FALSE /\ k.upd = m
      /\ k.pc = (IF m.kind \in MessageKinds THEN "track" ELSE "handle")
  BY <1>2 DEF IdleTask, TaskState, PCs
<1>5. lock # t
  BY <1>1 DEF Fetch, HolderOK
<1>6. /\ task' = [task EXCEPT ![t] = k] /\ queue' = queue /\ fetched' \in 0 .. Len(queue)
      /\ db' = db /\ work' = work /\ lock' = lock
  BY <1>1 DEF Fetch
<1> HIDE DEF k, m
<1>4. StaticOK(k)
  <2>1. m.kind \notin MessageKinds => FALSE \in R!Tracked(m)
    BY <1>2, TrackedOrNot
  <2> QED BY <1>2, <1>3, <2>1 DEF StaticOK
<1> QED BY <1>1, <1>3, <1>4, <1>5, <1>6, OneTask

\* The tracker takes the lock, and the holder's database is the tracker's.
LEMMA TrackKeeps ==
  ASSUME IInv, NEW t \in Tasks, Track(t) PROVE IInv'
<1> DEFINE k == [task[t] EXCEPT !.pc = "handle", !.tracked = TRUE]
<1>1. /\ task[t] \in TaskState /\ StaticOK(task[t]) /\ Sound(db) /\ NoTask \notin Tasks
      /\ queue \in Seq(Updates) /\ fetched \in 0 .. Len(queue) /\ task[t].pc = "track"
  BY AtTask DEF Track
<1>2. task[t].upd \in Updates /\ task[t].upd.kind \in MessageKinds
  BY <1>1 DEF StaticOK
<1>3. k \in TaskState /\ k.tracked = TRUE /\ k.upd = task[t].upd /\ k.pc = "handle"
  BY <1>1 DEF TaskState, PCs
<1>5. /\ lock = NoTask /\ lock' = t /\ db' = db /\ queue' = queue /\ fetched' = fetched
      /\ work' = MemberTrackerMiddleware(db, task[t].upd)
  BY DEF Track, telegram
<1>6. task' = [task EXCEPT ![t] = k]
  BY <1>1 DEF Track
<1>7. Sound(work')
  BY <1>1, <1>2, <1>5, TrackerSound, SessionsAssumption
<1> HIDE DEF k
<1>4. StaticOK(k)
  BY <1>2, <1>3, TrackedOrNot DEF StaticOK
<1>8. HolderOK(k, db', work')
  BY <1>3, <1>5 DEF HolderOK, Base
<1> QED BY <1>1, <1>3, <1>4, <1>5, <1>6, <1>7, <1>8, OneTask

\* The tracker that timed out leaves nothing behind.
LEMMA TrackTimeoutKeeps ==
  ASSUME IInv, NEW t \in Tasks, TrackTimeout(t) PROVE IInv'
<1> DEFINE k == [task[t] EXCEPT !.pc = "handle"]
<1>1. /\ task[t] \in TaskState /\ StaticOK(task[t]) /\ task[t].pc = "track" /\ LocksTimeOut
      /\ lock = t => HolderOK(task[t], db, work)
  BY AtTask DEF TrackTimeout
<1>2. k.upd = task[t].upd /\ k.tracked = task[t].tracked /\ k.pc = "handle"
  BY <1>1 DEF TaskState
<1>3. lock # t
  BY <1>1 DEF HolderOK
<1> HIDE DEF k
<1>4. StaticOK(k)
  <2>1. /\ task[t].upd \in Updates /\ task[t].upd.kind \in MessageKinds
        /\ task[t].tracked = FALSE
    BY <1>1 DEF StaticOK, TaskState
  <2>2. task[t].tracked \in R!Tracked(task[t].upd)
    BY <1>1, <2>1, TrackedOrNot
  <2> QED BY <1>2, <2>1, <2>2 DEF StaticOK
<1>5. task[t].tracked => lock = t
  BY AtTask
<1>6. StaticOK([task[t] EXCEPT !.pc = "handle"])
  BY <1>4 DEF k
<1> QED BY <1>3, <1>5, <1>6, Moves DEF TrackTimeout, PCs

\* The TypeError of a handler without db_chat: only the rollback is left.
LEMMA MissingDbChatKeeps ==
  ASSUME IInv, NEW t \in Tasks, MissingDbChat(t) PROVE IInv'
<1> DEFINE k == [task[t] EXCEPT !.pc = "rollback"]
<1>1. /\ task[t] \in TaskState /\ StaticOK(task[t]) /\ task[t].pc = "handle"
      /\ task[t].tracked => lock = t
  BY AtTask DEF MissingDbChat
<1>2. k.upd = task[t].upd /\ k.tracked = task[t].tracked /\ k.pc = "rollback"
  BY <1>1 DEF TaskState
<1> HIDE DEF k
<1>3. StaticOK(k) /\ HolderOK(k, db, work)
  BY <1>1, <1>2 DEF StaticOK, HolderOK
<1>4. StaticOK([task[t] EXCEPT !.pc = "rollback"])
      /\ HolderOK([task[t] EXCEPT !.pc = "rollback"], db, work)
  BY <1>3 DEF k
<1> QED BY <1>1, <1>4, Moves DEF MissingDbChat, PCs

\* A task that could not write rolls back.
LEMMA LockTimeoutKeeps ==
  ASSUME IInv, NEW t \in Tasks, LockTimeout(t) PROVE IInv'
<1> DEFINE k == [task[t] EXCEPT !.pc = "rollback"]
<1>1. /\ task[t] \in TaskState /\ StaticOK(task[t]) /\ task[t].pc = "lock"
      /\ task[t].tracked => lock = t
  BY AtTask DEF LockTimeout
<1>2. k.upd = task[t].upd /\ k.tracked = task[t].tracked /\ k.pc = "rollback"
  BY <1>1 DEF TaskState
<1> HIDE DEF k
<1>3. StaticOK(k) /\ HolderOK(k, db, work)
  BY <1>1, <1>2 DEF StaticOK, HolderOK
<1>4. StaticOK([task[t] EXCEPT !.pc = "rollback"])
      /\ HolderOK([task[t] EXCEPT !.pc = "rollback"], db, work)
  BY <1>3 DEF k
<1> QED BY <1>1, <1>4, Moves DEF LockTimeout, PCs

\* The lock taken by a handler without the tracker's work: it starts from the
\* committed database.
LEMMA LockKeeps ==
  ASSUME IInv, NEW t \in Tasks, Lock(t) PROVE IInv'
<1> DEFINE k == [task[t] EXCEPT !.pc = "write"]
<1>1. /\ task[t] \in TaskState /\ StaticOK(task[t]) /\ task[t].pc = "lock"
      /\ task[t].tracked => lock = t
      /\ NoTask \notin Tasks /\ Sound(db) /\ queue \in Seq(Updates) /\ fetched \in 0 .. Len(queue)
  BY AtTask DEF Lock
<1>2. k \in TaskState /\ k.upd = task[t].upd /\ k.tracked = task[t].tracked /\ k.pc = "write"
      /\ k.tags = task[t].tags
  BY <1>1 DEF TaskState, PCs
<1>3. /\ lock = NoTask /\ lock' = t /\ work' = db /\ db' = db
      /\ queue' = queue /\ fetched' = fetched /\ task' = [task EXCEPT ![t] = k]
  BY DEF Lock, Goto, telegram
<1> HIDE DEF k
<1>4. StaticOK(k)
  BY <1>1, <1>2 DEF StaticOK
<1>5. HolderOK(k, db', work')
  BY <1>1, <1>2, <1>3 DEF HolderOK, Base
<1>6. Sound(db') /\ Sound(work')
  BY <1>1, <1>3
<1> QED BY <1>1, <1>2, <1>3, <1>4, <1>5, <1>6, OneTask

\* A holder whose handler writes nothing has its update's work: of the tag it
\* asked for there is none, or it is in the tag already.
LEMMA NothingToWrite ==
  ASSUME NEW m \in Updates, Sound(db),
         NEW w, w = MemberTrackerMiddleware(db, m), Sound(w),
         NEW found, found = IF m.kind \in TagCommands THEN resolve_tag_or_reply(w, m) ELSE {0},
         \/ m.kind = "message" \/ found = {}
         \/ m.kind = "cmd_join" /\ found \X {m.from} \subseteq w.tag_members
  PROVE  R!Applied(m, TRUE, db, w)
<1>1. CASE m.kind = "message"
  <2>1. m.kind \notin TagCommands /\ ~Raises(w, m, 0) /\ Handle(w, m, 0) = w
    BY <1>1 DEF TagCommands, Raises, Handle
  <2>2. Applied(m, TRUE, db, w)
    BY <1>1, <2>1 DEF Applied, TagChoice, NoTag
  <2> QED BY <2>2, SameApplied
<1>2. CASE found = {}
  <2>1. m.kind \in TagCommands /\ resolve_tag_or_reply(w, m) = {}
    BY <1>2
  <2>2. m.kind # "cmd_tag_create"
    BY <2>1 DEF TagCommands
  <2>3. Applied(m, TRUE, db, w)
    BY <2>1, <2>2 DEF Applied, TagChoice, NoTag
  <2> QED BY <2>3, SameApplied
<1>3. CASE m.kind = "cmd_join" /\ found \X {m.from} \subseteq w.tag_members /\ found # {}
  <2>1. m.kind \in TagCommands /\ found = resolve_tag_or_reply(w, m)
    BY <1>3 DEF TagCommands
  <2>2. PICK i \in found : <<i, m.from>> \in w.tag_members
    BY <1>3
  <2>3. ~Raises(w, m, i)
    BY <1>3, <2>2 DEF Raises, Sound, ForeignKeys
  <2>4. Handle(w, m, i) = w
    <3>1. w.tag_members \union {<<i, m.from>>} = w.tag_members
      BY <2>2
    <3>2. Handle(w, m, i) = add_tag_member(w, i, m.from)
      BY <1>3 DEF Handle, cmd_join
    <3> QED BY <3>1, <3>2 DEF add_tag_member, Sound, WellFormed, Database
  <2>5. Applied(m, TRUE, db, w)
    BY <1>3, <2>1, <2>2, <2>3, <2>4 DEF Applied, TagChoice, NoTag
  <2> QED BY <2>5, SameApplied
<1> QED BY <1>1, <1>2, <1>3

\* The handler's reads: what it resolved under the lock is what it will write to.
LEMMA ReadKeeps ==
  ASSUME IInv, NEW t \in Tasks, Read(t) PROVE IInv'
<1> DEFINE m     == task[t].upd
           found == IF m.kind \in TagCommands THEN resolve_tag_or_reply(View(t), m) ELSE {0}
           again == m.kind = "cmd_join" /\ found \X {m.from} \subseteq View(t).tag_members
           pc    == IF m.kind = "message" \/ found = {} \/ again THEN "commit"
                    ELSE IF lock = t THEN "write" ELSE "lock"
           k     == [task[t] EXCEPT !.tags = found, !.pc = pc]
<1>1. /\ task[t] \in TaskState /\ StaticOK(task[t]) /\ task[t].pc = "handle"
      /\ task[t].tracked => lock = t
      /\ lock = t => HolderOK(task[t], db, work)
      /\ Sound(db) /\ Sound(work) /\ lock \in Tasks \union {NoTask}
      /\ queue \in Seq(Updates) /\ fetched \in 0 .. Len(queue)
      /\ m.kind \in NeedsDbChat => task[t].tracked
  BY AtTask DEF Read
<1>2. Sound(View(t)) /\ (lock = t => View(t) = work)
  BY <1>1 DEF View
<1>3. found \in SUBSET (TagIds \union {0})
  <2>1. \A i \in resolve_tag_or_reply(View(t), m) : i \in IdsOf(View(t).tags)
    BY ResolvedIsTag
  <2>2. IdsOf(View(t).tags) \subseteq TagIds
    BY <1>2 DEF IdsOf, Sound, WellFormed, Database, Tag
  <2> QED BY <2>1, <2>2
<1>4. pc \in {"commit", "write", "lock"} /\ (pc = "write" => lock = t) /\ (pc = "lock" => lock # t)
  OBVIOUS
<1>5. /\ task' = [task EXCEPT ![t] = k] /\ db' = db /\ work' = work /\ lock' = lock
      /\ queue' = queue /\ fetched' = fetched
  BY DEF Read, telegram
<1> HIDE DEF found, pc
<1>6. k \in TaskState /\ k.pc = pc /\ k.tags = found /\ k.upd = m /\ k.tracked = task[t].tracked
  BY <1>1, <1>3, <1>4 DEF TaskState, PCs
<1> HIDE DEF k
<1>7. StaticOK(k)
  <2>1. m.kind \notin TagCommands => found = {0}
    BY DEF found
  <2> QED BY <1>1, <1>4, <1>6, <2>1 DEF StaticOK
<1>8. ASSUME lock = t PROVE HolderOK(k, db, work)
  <2>1. task[t].tracked /\ work = Base(task[t].upd, task[t].tracked, db)
    BY <1>1, <1>8 DEF HolderOK
  <2>2. work = MemberTrackerMiddleware(db, m) /\ work = Base(k.upd, k.tracked, db) /\ k.tracked
    BY <1>6, <2>1 DEF Base
  <2>3. found = IF m.kind \in TagCommands THEN resolve_tag_or_reply(work, m) ELSE {0}
    BY <1>2, <1>8 DEF found
  <2>4. ASSUME pc = "commit" PROVE R!Applied(m, TRUE, db, work)
    <3>1. m \in Updates
      BY <1>1 DEF StaticOK
    <3>2. m.kind = "message" \/ found = {} \/ again
      BY <2>4 DEF pc
    <3>3. \/ m.kind = "message" \/ found = {}
          \/ m.kind = "cmd_join" /\ found \X {m.from} \subseteq work.tag_members
      BY <1>2, <1>8, <3>2
    <3> QED BY <1>1, <2>2, <2>3, <3>1, <3>3, NothingToWrite
  <2>5. k.tracked = TRUE
    BY <2>2, <1>6, <1>1 DEF TaskState
  <2>6. k.pc = "commit" => R!Applied(k.upd, k.tracked, db, work)
    BY <1>6, <2>4, <2>5
  <2> QED BY <1>4, <1>6, <1>8, <2>2, <2>3, <2>6 DEF HolderOK
<1> QED BY <1>1, <1>4, <1>5, <1>6, <1>7, <1>8, OneTask

\* What a handler writes is its update applied to the committed database; /leave
\* without the tracker may mean a tag that is gone by now, and changes nothing.
LEMMA WriteApplies ==
  ASSUME NEW m \in Updates, NEW tracked \in BOOLEAN, Sound(db),
         NEW w, w = IF tracked THEN MemberTrackerMiddleware(db, m) ELSE db, Sound(w),
         m.kind \in NeedsDbChat => tracked,
         m.kind = "cmd_tag_create" => \E j \in TagIds : NewTagId(w, j),
         NEW tags,
         m.kind \notin TagCommands => tags = {0},
         tracked /\ m.kind \in TagCommands => tags = resolve_tag_or_reply(w, m),
         NEW i \in tags, ~Raises(w, m, i)
  PROVE  /\ Handle(w, m, i) = db \/ R!Applied(m, tracked, db, Handle(w, m, i))
         /\ Sound(Handle(w, m, i))
<1>1. CASE tracked \/ m.kind \notin TagCommands
  <2>1. Applied(m, tracked, db, Handle(w, m, i))
    BY <1>1 DEF Applied, TagChoice, NoTag
  <2>2. Ready(w, m, i)
    <3>1. m.kind \in NeedsDbChat => m.chat \in w.chats
      BY TrackerSound, SessionsAssumption
    <3>2. m.kind \in {"cmd_tag_add", "cmd_tag_remove"} => i \in IdsOf(w.tags)
      BY <1>1, ResolvedIsTag DEF TagCommands, NeedsDbChat
    <3> QED BY <3>1, <3>2 DEF Ready
  <2> QED BY <2>1, <2>2, SameApplied, HandleSound, SessionsAssumption
<1>2. CASE ~tracked /\ m.kind \in TagCommands
  <2>1. m.kind \in {"cmd_join", "cmd_leave"} /\ w = db
    BY <1>2 DEF TagCommands, NeedsDbChat
  <2>2. Ready(w, m, i)
    BY <2>1 DEF Ready, NeedsDbChat
  <2>3. Sound(Handle(w, m, i))
    BY <2>2, HandleSound, SessionsAssumption
  <2>4. CASE i \in IdsOf(w.tags)
    <3>1. Applied(m, tracked, db, Handle(w, m, i))
      BY <1>2, <2>1, <2>4 DEF Applied, TagChoice, NoTag
    <3> QED BY <2>3, <3>1, SameApplied
  <2>5. CASE i \notin IdsOf(w.tags)
    <3>1. m.kind = "cmd_leave"
      BY <2>1, <2>5 DEF Raises, TagMemberRefs
    <3>2. <<i, m.from>> \notin w.tag_members
      BY <2>5 DEF Sound, ForeignKeys, TagMemberRefs
    <3>3. w.tag_members \ {<<i, m.from>>} = w.tag_members
      BY <3>2
    <3>4. Handle(w, m, i) = remove_tag_member(w, i, m.from)
      BY <3>1 DEF Handle, cmd_leave
    <3>5. Handle(w, m, i) = w
      BY <3>3, <3>4 DEF remove_tag_member, Sound, WellFormed, Database
    <3> QED BY <2>1, <2>3, <3>5
  <2> QED BY <2>4, <2>5
<1> QED BY <1>1, <1>2

\* The handler's statements, or the one of them that SQLite refused.
LEMMA WriteKeeps ==
  ASSUME IInv, NEW t \in Tasks, Write(t) PROVE IInv'
<1> DEFINE m == task[t].upd
<1>1. /\ task[t] \in TaskState /\ StaticOK(task[t]) /\ task[t].pc = "write" /\ lock = t
      /\ HolderOK(task[t], db, work)
      /\ Sound(db) /\ Sound(work) /\ lock \in Tasks \union {NoTask}
      /\ queue \in Seq(Updates) /\ fetched \in 0 .. Len(queue)
  BY AtTask DEF Write
<1>2. /\ db' = db /\ lock' = lock /\ queue' = queue /\ fetched' = fetched
  BY DEF Write, telegram
<1>3. PICK i \in task[t].tags :
        IF Raises(work, m, i)
        THEN Goto(t, "rollback") /\ UNCHANGED work
        ELSE Goto(t, "commit") /\ work' = Handle(work, m, i)
  BY DEF Write
<1>4. CASE Raises(work, m, i)
  <2> DEFINE k == [task[t] EXCEPT !.pc = "rollback"]
  <2>1. k \in TaskState /\ k.pc = "rollback" /\ k.upd = m /\ k.tracked = task[t].tracked
    BY <1>1 DEF TaskState, PCs
  <2>2. task' = [task EXCEPT ![t] = k] /\ work' = work
    BY <1>3, <1>4 DEF Goto
  <2> HIDE DEF k
  <2>3. StaticOK(k) /\ HolderOK(k, db, work)
    BY <1>1, <2>1 DEF StaticOK, HolderOK
  <2> QED BY <1>1, <1>2, <2>1, <2>2, <2>3, OneTask
<1>5. CASE ~Raises(work, m, i)
  <2> DEFINE k == [task[t] EXCEPT !.pc = "commit"]
  <2>1. k \in TaskState /\ k.pc = "commit" /\ k.upd = m /\ k.tracked = task[t].tracked
    BY <1>1 DEF TaskState, PCs
  <2>2. task' = [task EXCEPT ![t] = k] /\ work' = Handle(work, m, i)
    BY <1>3, <1>5 DEF Goto
  <2> HIDE DEF k
  <2>3. /\ m \in Updates /\ task[t].tracked \in BOOLEAN
        /\ work = IF task[t].tracked THEN MemberTrackerMiddleware(db, m) ELSE db
        /\ m.kind \in NeedsDbChat => task[t].tracked
        /\ m.kind = "cmd_tag_create" => \E j \in TagIds : NewTagId(work, j)
        /\ m.kind \notin TagCommands => task[t].tags = {0}
        /\ task[t].tracked /\ m.kind \in TagCommands =>
             task[t].tags = resolve_tag_or_reply(work, m)
    BY <1>1 DEF StaticOK, HolderOK, Base, TaskState, Write
  <2>4. /\ work' = db \/ R!Applied(m, task[t].tracked, db, work')
        /\ Sound(work')
    BY <1>1, <1>3, <1>5, <2>2, <2>3, WriteApplies
  <2>5. StaticOK(k) /\ HolderOK(k, db, work')
    BY <1>1, <2>1, <2>4 DEF StaticOK, HolderOK
  <2> QED BY <1>1, <1>2, <2>1, <2>2, <2>4, <2>5, OneTask
<1> QED BY <1>4, <1>5

\* A task that is done leaves the lock free, and a record that claims nothing.
LEMMA IdleOK ==
  /\ IdleTask \in TaskState /\ StaticOK(IdleTask) /\ IdleTask.tracked = FALSE
  /\ IdleTask.pc = "idle"
BY DEF IdleTask, TaskState, PCs, StaticOK

\* The commit.
LEMMA CommitKeeps ==
  ASSUME IInv, NEW t \in Tasks, Commit(t) PROVE IInv'
<1>1. /\ Sound(db) /\ Sound(work) /\ lock \in Tasks \union {NoTask} /\ NoTask \notin Tasks
      /\ queue \in Seq(Updates) /\ fetched \in 0 .. Len(queue)
  BY AtTask
<1>2. /\ db' = View(t) /\ lock' = IF lock = t THEN NoTask ELSE lock
      /\ task' = [task EXCEPT ![t] = IdleTask]
      /\ work' = work /\ queue' = queue /\ fetched' = fetched
  BY DEF Commit, Finish, telegram
<1>3. Sound(db') /\ lock' # t /\ \A u \in Tasks \ {t} : lock = u => db' = db
  BY <1>1, <1>2 DEF View
<1>4. lock' \in Tasks \union {NoTask} /\ \A u \in Tasks \ {t} : lock' = u <=> lock = u
  BY <1>1, <1>2
<1> QED BY <1>1, <1>2, <1>3, <1>4, IdleOK, OneTask

\* The rollback.
LEMMA RollbackKeeps ==
  ASSUME IInv, NEW t \in Tasks, Rollback(t) PROVE IInv'
<1>1. /\ Sound(db) /\ Sound(work) /\ lock \in Tasks \union {NoTask} /\ NoTask \notin Tasks
      /\ queue \in Seq(Updates) /\ fetched \in 0 .. Len(queue)
  BY AtTask
<1>2. /\ lock' = IF lock = t THEN NoTask ELSE lock
      /\ work' = IF lock = t THEN db ELSE work
      /\ task' = [task EXCEPT ![t] = IdleTask]
      /\ db' = db /\ queue' = queue /\ fetched' = fetched
  BY DEF Rollback, Finish, telegram
<1>3. /\ Sound(work') /\ lock' # t /\ lock' \in Tasks \union {NoTask}
      /\ \A u \in Tasks \ {t} : lock' = u <=> lock = u
      /\ \A u \in Tasks \ {t} : lock = u => work' = work
  BY <1>1, <1>2
<1> QED BY <1>1, <1>2, <1>3, IdleOK, OneTask

\* A step of Telegram's, or none: only the queue changes.
LEMMA TelegramKeeps ==
  ASSUME IInv, UNCHANGED <<db, lock, work, task>>,
         queue' \in Seq(Updates), fetched' \in 0 .. Len(queue')
  PROVE  IInv'
BY DEF IInv, SoundBoth, Typed, Static, Locked, Holder

\* After a crash every task is idle and the database is the committed one.
LEMMA CrashKeeps ==
  ASSUME IInv, Crash PROVE IInv'
<1>1. /\ Sound(db) /\ queue \in Seq(Updates)
  BY DEF IInv, SoundBoth, Typed
<1>2. /\ db' = db /\ work' = db /\ lock' = NoTask /\ queue' = queue /\ fetched' = 0
      /\ task' = [t \in Tasks |-> IdleTask]
  BY DEF Crash
<1>3. SoundBoth' /\ Typed'
  BY <1>1, <1>2, IdleOK DEF SoundBoth, Typed
<1>4. Static' /\ Locked' /\ Holder'
  BY <1>2, IdleOK, SessionsAssumption DEF Static, Locked, Holder
<1> QED BY <1>3, <1>4 DEF IInv

-----------------------------------------------------------------------------
(* The invariant and what follows from it.                                 *)

\* The empty database is sound, and nobody holds anything.
LEMMA InitIInv == Init => IInv
<1> SUFFICES ASSUME Init PROVE IInv
  OBVIOUS
<1>1. Sound(EmptyDatabase)
  BY DEF EmptyDatabase, Sound, WellFormed, Database, ForeignKeys, UniqueTags
<1>2. SoundBoth /\ Typed
  BY <1>1, IdleOK DEF Init, SoundBoth, Typed
<1>3. Static /\ Locked /\ Holder
  BY IdleOK, SessionsAssumption DEF Init, Static, Locked, Holder
<1> QED BY <1>2, <1>3 DEF IInv

\* Every step keeps the invariant.
LEMMA NextIInv == IInv /\ [Next]_vars => IInv'
<1> SUFFICES ASSUME IInv, [Next]_vars PROVE IInv'
  OBVIOUS
<1>0. queue \in Seq(Updates) /\ fetched \in 0 .. Len(queue)
  BY DEF IInv, Typed
<1>1. CASE UNCHANGED vars
  BY <1>0, <1>1, TelegramKeeps DEF vars, telegram
<1>2. ASSUME NEW m \in Updates, Post(m) PROVE IInv'
  <2>1. queue' = Append(queue, m) /\ fetched' = fetched /\ UNCHANGED <<db, lock, work, task>>
    BY <1>2 DEF Post
  <2>2. queue' \in Seq(Updates) /\ Len(queue') = Len(queue) + 1
    BY <1>0, <2>1
  <2>3. fetched' \in 0 .. Len(queue')
    BY <1>0, <2>1, <2>2
  <2> QED BY <2>1, <2>2, <2>3, TelegramKeeps
<1>3. CASE Confirm
  <2>1. /\ queue' = SubSeq(queue, fetched + 1, Len(queue)) /\ fetched' = 0
        /\ UNCHANGED <<db, lock, work, task>>
    BY <1>3 DEF Confirm
  <2>2. queue' \in Seq(Updates)
    BY <1>0, <2>1
  <2>3. fetched' \in 0 .. Len(queue')
    BY <2>1, <2>2
  <2> QED BY <2>1, <2>2, <2>3, TelegramKeeps
<1>4. CASE Crash
  BY <1>4, CrashKeeps
<1>5. ASSUME NEW t \in Tasks, Fetch(t) \/ Step(t) PROVE IInv'
  BY <1>5, FetchKeeps, TrackKeeps, TrackTimeoutKeeps, MissingDbChatKeeps, ReadKeeps, LockKeeps,
     LockTimeoutKeeps, WriteKeeps, CommitKeeps, RollbackKeeps DEF Step
<1>6. CASE Rest
  BY <1>1, <1>6 DEF Rest
<1> QED BY <1>1, <1>2, <1>3, <1>4, <1>5, <1>6 DEF Next

\* The invariant holds in every reachable state.
THEOREM InFlight == Spec => []IInv
BY InitIInv, NextIInv, PTL DEF Spec

\* An update applied is one of Roster's actions.
LEMMA AppliedIsNext ==
  ASSUME NEW m \in Updates, NEW tracked \in R!Tracked(m), R!Applied(m, tracked, db, db')
  PROVE  R!Next
<1>1. R!Handled(m)
  BY DEF R!Handled
<1>2. R!On(m.kind)
  BY <1>1 DEF R!On
<1>3. m.kind \in MessageKinds \union EventKinds
  BY SessionsAssumption DEF Update
<1> QED
  BY <1>2, <1>3 DEF MessageKinds, EventKinds, TagCommands, NeedsDbChat, R!Next, R!Message,
     R!CmdJoin, R!CmdLeave, R!CmdMuteMe, R!CmdUnmuteMe, R!CmdForgetMe, R!CmdTagCreate,
     R!CmdTagDelete, R!CmdTagAdd, R!CmdTagRemove, R!CmdSettings, R!BotAdded, R!MemberJoined,
     R!MemberLeft, R!ServiceMembersAdded, R!ServiceMemberLeft, R!ReactionSeen, R!OnHere,
     R!ChatMigrated

\* Every step is a step of Roster or leaves the committed database alone.
LEMMA StepSimulation == IInv /\ [Next]_vars => [R!Next]_db
<1> SUFFICES ASSUME IInv, [Next]_vars, db' # db PROVE R!Next
  OBVIOUS
<1>1. PICK t \in Tasks : Commit(t)
  BY DEF Next, vars, Post, Fetch, Confirm, Crash, Rest, Step, Track, TrackTimeout,
     MissingDbChat, Read, Lock, LockTimeout, Write, Rollback
<1>2. lock = t /\ db' = work /\ task[t].pc = "commit"
  BY <1>1 DEF Commit, View
<1>3. StaticOK(task[t]) /\ HolderOK(task[t], db, work)
  BY <1>2, AtTask
<1>4. /\ task[t].upd \in Updates /\ task[t].tracked \in R!Tracked(task[t].upd)
      /\ R!Applied(task[t].upd, task[t].tracked, db, work)
  BY <1>2, <1>3 DEF StaticOK, HolderOK
<1> QED BY <1>2, <1>4, AppliedIsNext

\* Sessions implements Roster: whatever the tasks, the timeouts and the crashes,
\* the committed database changes by whole updates (OneUpdateAtATime).
THEOREM SessionsImplementRoster == Spec => OneUpdateAtATime
<1>1. Init => R!Init
  BY DEF Init, R!Init, EmptyDatabase, R!EmptyDatabase
<1>2. IInv /\ [Next]_vars => [R!Next]_db
  BY StepSimulation
<1> QED BY <1>1, <1>2, InFlight, PTL DEF Spec, R!Spec, OneUpdateAtATime

\* Every variable keeps its type.
THEOREM SessionsTyped == Spec => []TypeOK
<1>1. IInv => TypeOK
  BY DEF IInv, SoundBoth, Typed, Sound, WellFormed, TypeOK, TaskState, PCs
<1> QED BY <1>1, InFlight, PTL

\* The tag a tracked command writes to is the one it asked for: nobody can delete
\* it or take its id between the look-up and the write (AskedTag).
THEOREM TagIsTheOneAsked == Spec => []AskedTag
<1>1. IInv => AskedTag
  <2> SUFFICES ASSUME IInv, NEW t \in Tasks, task[t].pc = "write", task[t].tracked,
                      task[t].upd.kind \in TagCommands
               PROVE  task[t].tags = resolve_tag_or_reply(work, task[t].upd)
    BY DEF AskedTag
  <2>1. HolderOK(task[t], db, work)
    BY AtTask
  <2> QED BY <2>1 DEF HolderOK
<1> QED BY <1>1, InFlight, PTL
=============================================================================
