------------------------------- MODULE Sessions -------------------------------
(***************************************************************************)
(* Updates in flight: aiogram runs the handling of every update as a task  *)
(* of its own, and DatabaseMiddleware gives each task one session, whose   *)
(* transaction is committed when the handler returns and rolled back when  *)
(* it raises.                                                              *)
(*                                                                         *)
(* The driver opens a transaction at the first statement that writes, and  *)
(* SQLite lets one transaction write at a time: a task that has written    *)
(* holds the only write lock, across every await of its handler, until it  *)
(* commits or rolls back.  A task that waits for the lock longer than      *)
(* busy_timeout gets OperationalError.  Reads before the first write see   *)
(* the last committed database and hold nothing.                           *)
(*                                                                         *)
(* Telegram keeps an update until getUpdates is called with a later        *)
(* offset, which happens while the update's task may still run: a crash    *)
(* loses the updates that are confirmed and unfinished, and brings back    *)
(* the ones that are finished and unconfirmed.                             *)
(***************************************************************************)
EXTENDS Handlers, Sequences

CONSTANTS
  Updates,       \* the updates Telegram may deliver
  Tasks,         \* bound: how many updates are in flight at once
  NoTask,        \* the write lock is free
  NoUpdate,      \* the task is idle
  LocksTimeOut,  \* may a wait for the write lock exceed busy_timeout?
  MaxUpdates,    \* bound: updates posted in a behaviour
  MaxCrashes     \* bound: crashes (or restarts) of the bot

ASSUME SessionsAssumption ==
  /\ Updates \subseteq Update
  /\ \A m \in Updates : Possible(m)
  /\ NoTask \notin Tasks
  /\ NoUpdate \notin Updates
  /\ LocksTimeOut \in BOOLEAN
  /\ MaxUpdates \in Nat
  /\ MaxCrashes \in Nat

VARIABLES
  db,       \* the committed database
  lock,     \* the task that holds SQLite's write lock
  work,     \* the database as the lock's holder sees it
  task,     \* what each task does
  queue,    \* updates Telegram holds for the bot, in order
  fetched,  \* how many of them this process has been given
  present,  \* the truth: who is in which chat
  posted,   \* updates posted so far
  crashes

telegram == <<queue, fetched, present, posted, crashes>>
vars == <<db, lock, work, task, telegram>>

R == INSTANCE Roster WITH TrackerMayFail <- LocksTimeOut

-----------------------------------------------------------------------------
(* A task is a record: where it is, its update, whether data["db_chat"] was *)
(* set by the tracker, and the tags its command resolved to.                *)

IdleTask == [pc |-> "idle", upd |-> NoUpdate, tracked |-> FALSE, tags |-> {}]

Goto(t, pc) == task' = [task EXCEPT ![t].pc = pc]

Finish(t) == task' = [task EXCEPT ![t] = IdleTask]

View(t) == IF lock = t THEN work ELSE db

Init ==
  /\ db = EmptyDatabase
  /\ lock = NoTask
  /\ work = EmptyDatabase
  /\ task = [t \in Tasks |-> IdleTask]
  /\ queue = <<>>
  /\ fetched = 0
  /\ present \in SUBSET ChatMember   \* the group is older than the bot
  /\ posted = 0
  /\ crashes = 0

-----------------------------------------------------------------------------
(* Telegram and the dispatcher (external).                                 *)

\* People join, leave, and write where they are.
Post(m) ==
  LET row == <<m.chat, m.from>>
  IN /\ posted < MaxUpdates
     /\ row \in present <=> m.kind # "member_joined"
     /\ present' = CASE m.kind = "member_joined" -> present \union {row}
                     [] m.kind = "member_left"   -> present \ {row}
                     [] OTHER                    -> present
     /\ queue' = Append(queue, m)
     /\ posted' = posted + 1
     /\ UNCHANGED <<db, lock, work, task, fetched, crashes>>

\* start_polling hands the next update to a new task.
Fetch(t) ==
  /\ task[t].pc = "idle"
  /\ fetched < Len(queue)
  /\ LET m == queue[fetched + 1]
     IN task' = [task EXCEPT ![t] =
          [IdleTask EXCEPT !.pc = IF m.kind \in MessageKinds THEN "track" ELSE "handle",
                           !.upd = m]]
  /\ fetched' = fetched + 1
  /\ UNCHANGED <<db, lock, work, queue, present, posted, crashes>>

\* Mutant: the offset moves and the count does not.
ConfirmKeepsCount ==
  /\ fetched > 0
  /\ queue' = SubSeq(queue, fetched + 1, Len(queue))
  /\ UNCHANGED <<db, lock, work, task, fetched, present, posted, crashes>>

\* The next getUpdates confirms everything fetched so far.
Confirm ==
  /\ fetched > 0
  /\ queue' = SubSeq(queue, fetched + 1, Len(queue))
  /\ fetched' = 0
  /\ UNCHANGED <<db, lock, work, task, present, posted, crashes>>

-----------------------------------------------------------------------------
(* One task.                                                               *)

\* Mutants: a tracker that only reads a chat it knows, and one that does not wait
\* for the lock.
TrackReadsOnly(t) ==
  /\ task[t].pc = "track"
  /\ task' = [task EXCEPT ![t].pc = "handle", ![t].tracked = TRUE]
  /\ UNCHANGED <<db, lock, work, telegram>>

TrackNoWait(t) ==
  /\ task[t].pc = "track"
  /\ lock' = t
  /\ work' = MemberTrackerMiddleware(db, task[t].upd)
  /\ task' = [task EXCEPT ![t].pc = "handle", ![t].tracked = TRUE]
  /\ UNCHANGED <<db, telegram>>

\* MemberTrackerMiddleware: its first statement takes the lock.
Track(t) ==
  /\ task[t].pc = "track"
  /\ lock = NoTask
  /\ lock' = t
  /\ work' = MemberTrackerMiddleware(db, task[t].upd)
  /\ task' = [task EXCEPT ![t].pc = "handle", ![t].tracked = TRUE]
  /\ UNCHANGED <<db, telegram>>

\* The lock did not come in time: the tracker logs, rolls back and lets the
\* handler run without db_chat.
TrackTimeout(t) ==
  /\ task[t].pc = "track"
  /\ LocksTimeOut /\ lock # NoTask
  /\ Goto(t, "handle")
  /\ UNCHANGED <<db, lock, work, telegram>>

\* A handler that asks for db_chat cannot be called without it (TypeError).
MissingDbChat(t) ==
  /\ task[t].pc = "handle"
  /\ task[t].upd.kind \in NeedsDbChat /\ ~task[t].tracked
  /\ Goto(t, "rollback")
  /\ UNCHANGED <<db, lock, work, telegram>>

\* The handler up to its first write: it looks its tag up, if it has one, and
\* stops there when the tag is not found, when it is told to join a tag again,
\* or when it is one of those that write nothing.
Read(t) ==
  LET m     == task[t].upd
      found == IF m.kind \in TagCommands THEN resolve_tag_or_reply(View(t), m) ELSE {0}
      again == m.kind = "cmd_join" /\ found \X {m.from} \subseteq View(t).tag_members
  IN /\ task[t].pc = "handle"
     /\ m.kind \in NeedsDbChat => task[t].tracked
     /\ task' = [task EXCEPT ![t].tags = found,
                             ![t].pc = IF m.kind = "message" \/ found = {} \/ again THEN "commit"
                                       ELSE IF lock = t THEN "write" ELSE "lock"]
     /\ UNCHANGED <<db, lock, work, telegram>>

\* The first writing statement of a task whose tracker wrote nothing.
Lock(t) ==
  /\ task[t].pc = "lock"
  /\ lock = NoTask
  /\ lock' = t
  /\ work' = db
  /\ Goto(t, "write")
  /\ UNCHANGED <<db, telegram>>

LockTimeout(t) ==
  /\ task[t].pc = "lock"
  /\ LocksTimeOut /\ lock # NoTask
  /\ Goto(t, "rollback")
  /\ UNCHANGED <<db, lock, work, telegram>>

\* The handler's statements; while it is at "commit" it awaits the reply it
\* sends, with the lock held.
Write(t) ==
  LET m == task[t].upd
  IN /\ task[t].pc = "write"
     /\ m.kind = "cmd_tag_create" => \E i \in TagIds : NewTagId(work, i)  \* bound MaxTagId
     /\ \E i \in task[t].tags :
          IF Raises(work, m, i)
          THEN Goto(t, "rollback") /\ UNCHANGED work
          ELSE Goto(t, "commit") /\ work' = Handle(work, m, i)
     /\ UNCHANGED <<db, lock, telegram>>

\* DatabaseMiddleware after the handler: commit, or rollback and re-raise (the
\* dispatcher's error handler logs the exception and goes on).
Commit(t) ==
  /\ task[t].pc = "commit"
  /\ db' = View(t)
  /\ lock' = IF lock = t THEN NoTask ELSE lock
  /\ Finish(t)
  /\ UNCHANGED <<work, telegram>>

\* Mutant: what failed is tried again, and again.
RollbackRetries(t) ==
  /\ task[t].pc = "rollback"
  /\ lock' = IF lock = t THEN NoTask ELSE lock
  /\ work' = IF lock = t THEN db ELSE work
  /\ Goto(t, "handle")
  /\ UNCHANGED <<db, telegram>>

Rollback(t) ==
  /\ task[t].pc = "rollback"
  /\ lock' = IF lock = t THEN NoTask ELSE lock
  /\ work' = IF lock = t THEN db ELSE work
  /\ Finish(t)
  /\ UNCHANGED <<db, telegram>>

\* The process dies, or is stopped and its tasks cancelled: SQLite drops what
\* was not committed, and polling starts from the last confirmed offset.
Crash ==
  /\ crashes < MaxCrashes
  /\ crashes' = crashes + 1
  /\ lock' = NoTask
  /\ task' = [t \in Tasks |-> IdleTask]
  /\ fetched' = 0
  /\ work' = db
  /\ UNCHANGED <<db, queue, present, posted>>

Step(t) ==
  \/ Track(t) \/ TrackTimeout(t) \/ MissingDbChat(t) \/ Read(t)
  \/ Lock(t) \/ LockTimeout(t) \/ Write(t) \/ Commit(t) \/ Rollback(t)

Quiet == queue = <<>> /\ \A t \in Tasks : task[t].pc = "idle"

\* The bot waits for updates.
Rest == Quiet /\ UNCHANGED vars

Next ==
  \/ \E m \in Updates : Post(m)
  \/ \E t \in Tasks : Fetch(t)
  \/ Confirm
  \/ \E t \in Tasks : Step(t)
  \/ Crash
  \/ Rest

Spec == Init /\ [][Next]_vars

\* The event loop runs every task that can go on, and polling never stops
\* asking (module-level retry in bot/__main__.py).  A wait for the lock needs no
\* fairness of its own: it ends by the lock or by the timeout.
Fairness ==
  /\ \A t \in Tasks : WF_vars(Step(t))
  /\ WF_vars(\E t \in Tasks : Fetch(t))
  /\ WF_vars(Confirm)

FairSpec == Spec /\ Fairness

-----------------------------------------------------------------------------
(* Properties.                                                             *)

TypeOK ==
  /\ db \in Database /\ work \in Database
  /\ lock \in Tasks \union {NoTask}
  /\ task \in [Tasks -> [pc : {"idle", "track", "handle", "lock", "write", "commit", "rollback"},
                         upd : Updates \union {NoUpdate}, tracked : BOOLEAN,
                         tags : SUBSET (TagIds \union {0})]]
  /\ fetched \in 0 .. Len(queue)

\* Whatever the interleaving, the timeouts and the crashes, the committed
\* database changes only by whole updates, each applied to what the last one
\* committed: no update is lost under another, none is committed in part.
OneUpdateAtATime == R!Spec

\* A command holds the tag it was given: between looking the tag up and writing
\* nobody deletes it or gives its id to another (handlers/tags.py and
\* membership.py keep the Tag across awaits).
AskedTag ==
  \A t \in Tasks :
    task[t].pc = "write" /\ task[t].tracked /\ task[t].upd.kind \in TagCommands =>
      task[t].tags = resolve_tag_or_reply(work, task[t].upd)

\* No update stays unhandled: one that raises, times out or is cut off by a
\* crash never blocks the ones behind it.
EverythingHandled == (queue # <<>>) ~> Quiet

\* Once everything is handled, @all calls nobody who has left the chat
\* (docs/usage.md:122).
OnlyPresentCalled ==
  Quiet => \A c \in Chats : \A u \in list_active_users(db, c) : <<c, u>> \in present

\* bot/middlewares/tracker.py:65: the tracker's failure must not break the
\* handling of the message.
TrackerNeverBreaksHandler ==
  \A t \in Tasks : task[t].pc = "rollback" => task[t].upd.kind \notin NeedsDbChat
=============================================================================
