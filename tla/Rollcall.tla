------------------------------- MODULE Rollcall -------------------------------
(***************************************************************************)
(* One chat's commands that ask for administrators' rights, the roll-call  *)
(* message with its button and its counter, and the replies to all of them:*)
(* bot/handlers/rollcall.py and settings.py over services/policy.py and    *)
(* utils/replies.py.                                                       *)
(*                                                                         *)
(* A task is one update.  A command's tracker and a press's                *)
(* get_or_create_chat have written, so the task holds SQLite's write lock  *)
(* through all its awaits, and nothing else is committed meanwhile; the    *)
(* bot's removal writes before it drops the list of administrators, so it  *)
(* waits too, or is refused the lock and drops nothing.  The list and the  *)
(* counter's state are in memory only.                                     *)
(*                                                                         *)
(* The chat has many roll-call messages; the model follows the newest one. *)
(* _message_state is keyed by the message's id alone, and ids are counted  *)
(* in every chat anew: a message of another chat may share the entry.      *)
(* Time is in ticks, and ages stop at the greatest one that matters.       *)
(***************************************************************************)
EXTENDS Handlers, Policy, Replies

CONSTANTS
  Group,                    \* the chat
  Updates,                  \* other updates of the chat
  Commands,                 \* commands that may be given
  Promoted,                 \* whom the group may make administrators
  Totals,                   \* sizes of the group Telegram may answer
  Defaults,                 \* the settings of a new chat
  COUNTER_REFRESH_SECONDS,  \* bot/handlers/rollcall.py, in ticks
  MaxWait,                  \* bound: ticks that one request may take
  Nothing                   \* no text, no state, no answer

ASSUME RollcallAssumption ==
  /\ Group \in Chats /\ People = Users /\ ANON \in Bots
  /\ Updates \subseteq Update
  /\ \A m \in Updates : Possible(m) /\ m.kind # "chat_migrated"
  /\ \A c \in Commands :
       /\ c.chat = Group /\ c.from \in Users /\ c.values \in Seq(Token)
       /\ c.kind \in {"cmd_rollcall", "cmd_settings", "tag_command"}
  /\ Promoted \subseteq Users \ Bots
  /\ Totals \subseteq Nat \ {0}
  /\ Defaults \in ChatSettings
  /\ COUNTER_REFRESH_SECONDS \in Nat \ {0}
  /\ MaxWait \in Nat /\ MaxWait < TTL

VARIABLES
  db,        \* the committed database
  settings,  \* the committed settings of the chat
  admins,    \* the administrators, as Telegram knows them
  since,     \* for each person, ticks since that last changed
  cache,     \* AdminCache's entry of the chat
  shown,     \* the text of the roll-call message
  state,     \* _message_state's entry of that message
  doubt,     \* may the two differ: was the last edit given up, or the entry
             \* written for another chat's message of the same id?
  task       \* the update being handled

vars == <<db, settings, admins, since, cache, shown, state, doubt, task>>

\* _progress_line; 0 stands for a total that Telegram did not tell.
Text == [known : 0 .. Cardinality(Users), total : Totals \union {0}]

Idle == [pc |-> "idle"]

\* pc, the update, its uncommitted work and settings; the verdict on its author,
\* Telegram's answer, how the bot's removals ended since; ticks the request has
\* taken, the text and its delivery; for a press, whether it was answered and
\* whether it is past the throttle; whether an exception outside TelegramAPIError
\* came.
Task(m, work) ==
  [pc |-> "start", upd |-> m, work |-> work, keep |-> settings, verdict |-> "open",
   served |-> Nothing, outlived |-> {}, waited |-> 0,
   text |-> Nothing, d |-> safe_answer, told |-> FALSE, fresh |-> FALSE, escaped |-> FALSE]

Init ==
  /\ db = EmptyDatabase
  /\ settings = Defaults
  /\ admins \in SUBSET Promoted
  /\ since = [p \in Users |-> TTL]
  /\ cache = NoEntry
  /\ shown = Nothing /\ state = Nothing /\ doubt = FALSE
  /\ task = Idle

-----------------------------------------------------------------------------
(* Telegram, time and the rest of the chat.                                *)

OtherUpdate(m) ==
  /\ task = Idle
  /\ HandledAlone(m, db, db')
  /\ UNCHANGED <<settings, admins, since, cache, shown, state, doubt, task>>

\* A request for the list in flight outlives a removal that ends so.
Outlives(end) ==
  task' = IF task # Idle /\ task.pc = "fetch"
          THEN [task EXCEPT !.outlived = @ \union {end}] ELSE task

\* Mutant: the list is dropped at once, and not after a write to the database.
bot_removed_anytime ==
  /\ cache' = invalidate(cache)
  /\ Outlives("done")
  /\ UNCHANGED <<db, settings, admins, since, shown, state, doubt>>

\* The write lock is free: set_chat_active, and then the list is dropped.
RemovalDone ==
  /\ task = Idle
  /\ cache' = invalidate(cache)
  /\ UNCHANGED <<db, settings, admins, since, shown, state, doubt, task>>

\* A task of this chat or of another one holds the lock for longer than
\* busy_timeout: set_chat_active raises, and the list stays.
RemovalRefused ==
  /\ cache' = [cache EXCEPT !.outlived = Outlived(cache.ids, @ \union {"refused"})]
  /\ Outlives("refused")
  /\ UNCHANGED <<db, settings, admins, since, shown, state, doubt>>

bot_removed == RemovalDone \/ RemovalRefused

Promote(p) ==
  /\ admins' = IF p \in admins THEN admins \ {p} ELSE admins \union {p}
  /\ since' = [since EXCEPT ![p] = 0]
  /\ UNCHANGED <<db, settings, cache, shown, state, doubt, task>>

\* A roll call in another chat writes the entry of this id.  (Its update holds the
\* write lock then, so none of this chat is between two steps.)
SharedEntry ==
  /\ task = Idle /\ shown # Nothing
  /\ \E n \in Totals : state' = [age |-> 0, text |-> [shown EXCEPT !.total = n]]
  /\ doubt' = TRUE
  /\ UNCHANGED <<db, settings, admins, since, cache, shown, task>>

Capped(n, top) == IF n < top THEN n ELSE top

Awaits == {"fetch", "answer", "count", "deliver"}

\* Requests end by aiohttp's timeout; what is between them takes no tick.
Tick ==
  /\ task # Idle => task.pc \in Awaits /\ task.waited < MaxWait
  /\ task' = IF task = Idle THEN Idle ELSE [task EXCEPT !.waited = @ + 1]
  /\ since' = [p \in Users |-> Capped(since[p] + 1, TTL)]
  /\ cache' = Aged(cache)
  /\ state' = IF state = Nothing THEN Nothing
              ELSE [state EXCEPT !.age = Capped(@ + 1, COUNTER_REFRESH_SECONDS)]
  /\ UNCHANGED <<db, settings, admins, shown, doubt>>

-----------------------------------------------------------------------------
(* A command: the tracker, the question whether its author is an admin, and *)
(* the handler's work.                                                     *)

Ending(t, pc) == [t EXCEPT !.pc = pc, !.waited = 0, !.text = Nothing, !.d = safe_answer]

\* Mutant: the count is read outside the session of the update.
Counting_committed(t) ==
  [t EXCEPT !.pc = "count", !.waited = 0,
            !.text = [known |-> count_active_members(db, Group), total |-> 0]]

\* get_chat_member_count follows; the count is taken before that await.
Counting(t) ==
  [t EXCEPT !.pc = "count", !.waited = 0,
            !.text = [known |-> count_active_members(t.work, Group), total |-> 0]]

Replying(t) == [t EXCEPT !.pc = "deliver", !.waited = 0, !.d = safe_reply]

Granted(t) ==
  IF t.upd.kind = "cmd_rollcall" THEN Counting(t)
  ELSE IF t.upd.kind = "cmd_settings"
  THEN LET r == cmd_settings_values(t.keep, t.upd.key, t.upd.values)
       IN IF r.how = "raised" THEN Ending(t, "rollback")
          ELSE Replying([t EXCEPT !.keep = r.chat])
  ELSE Replying(t)

Judged(t, yes) ==
  LET u == [t EXCEPT !.served = Nothing, !.outlived = {}]
  IN IF yes THEN Granted([u EXCEPT !.verdict = "yes"]) ELSE Replying([u EXCEPT !.verdict = "no"])

\* /rollcall and /settings ask is_admin, commands on tags check_policy.
LetsAllIn(m) == m.kind = "tag_command" /\ PolicyLetsAllIn(settings.tag_policy)

Command(m) ==
  LET t == Task(m, MemberTrackerMiddleware(db, m))
  IN /\ task = Idle
     /\ task' = IF LetsAllIn(m) \/ ~NeedsList(m.from) THEN Judged(t, TRUE)
                ELSE IF Valid(cache) THEN Judged(t, is_admin(m.from, cache.ids))
                ELSE [t EXCEPT !.pc = "fetch"]
     /\ UNCHANGED <<db, settings, admins, since, cache, shown, state, doubt>>

\* getChatAdministrators: Telegram looks, and later the answer arrives.
Serve ==
  /\ task.pc = "fetch" /\ task.served = Nothing
  /\ task' = [task EXCEPT !.served = admins]
  /\ UNCHANGED <<db, settings, admins, since, cache, shown, state, doubt>>

Arrive ==
  /\ task.pc = "fetch" /\ task.served # Nothing
  /\ cache' = Fetched(task.served, task.waited, Outlived(task.served, task.outlived))
  /\ task' = Judged(task, is_admin(task.upd.from, task.served))
  /\ UNCHANGED <<db, settings, admins, since, shown, state, doubt>>

FetchFails ==
  /\ task.pc = "fetch"
  /\ \/ task' = Judged(task, is_admin(task.upd.from, Fallback(cache)))
     \/ task' = Ending([task EXCEPT !.served = Nothing, !.outlived = {}, !.escaped = TRUE], "rollback")
  /\ UNCHANGED <<db, settings, admins, since, cache, shown, state, doubt>>

-----------------------------------------------------------------------------
(* The button.                                                             *)

Press(u) ==
  /\ task = Idle /\ shown # Nothing
  /\ LET m == [kind |-> "on_here", chat |-> Group, from |-> u]
     IN task' = [Task(m, on_here(db, m)) EXCEPT !.pc = "answer"]
  /\ UNCHANGED <<db, settings, admins, since, cache, shown, state, doubt>>

\* _refresh_counter up to its first await.
Refreshing(t) ==
  IF state # Nothing /\ state.age < COUNTER_REFRESH_SECONDS THEN Ending(t, "commit")
  ELSE Counting([t EXCEPT !.fresh = TRUE])

\* safe_callback_answer swallows every TelegramAPIError; the answer may have
\* reached the person all the same.
Answer ==
  /\ task.pc = "answer"
  /\ \E told \in BOOLEAN :
       \/ task' = Refreshing([task EXCEPT !.told = told])
       \/ task' = Ending([task EXCEPT !.told = told, !.escaped = TRUE], "rollback")
  /\ UNCHANGED <<db, settings, admins, since, cache, shown, state, doubt>>

-----------------------------------------------------------------------------
(* The counter's text: get_chat_member_count answers or fails, and the     *)
(* message is sent, edited, or left as it is.                              *)

\* The age of a state whose time was read before the count was asked for.
Stated(t, text) == [age |-> Capped(t.waited, COUNTER_REFRESH_SECONDS), text |-> text]

Count ==
  /\ task.pc = "count"
  /\ \E n \in Totals \union {0} :
       LET text == [task.text EXCEPT !.total = n]
           t    == [task EXCEPT !.text = text, !.waited = 0, !.pc = "deliver"]
       IN IF task.upd.kind = "cmd_rollcall"
          THEN task' = [t EXCEPT !.d = safe_answer] /\ UNCHANGED state
          ELSE /\ state' = Stated(task, text)
               /\ task' = IF state # Nothing /\ state.text = text
                          THEN Ending(t, "commit") ELSE [t EXCEPT !.d = safe_edit]
  /\ UNCHANGED <<db, settings, admins, since, cache, shown, doubt>>

\* What the delivery is of.
Role(t) ==
  IF t.upd.kind = "on_here" THEN "edit"
  ELSE IF t.upd.kind = "cmd_rollcall" /\ t.verdict = "yes" THEN "announcement"
  ELSE "reply"

\* Telegram refuses an edit that changes nothing, and only that; only a reply can
\* miss the message it replies to.
MayEnd(t, o) ==
  /\ o = "not_modified" => Role(t) = "edit" /\ shown = t.text
  /\ o = "ok" => ~(Role(t) = "edit" /\ shown = t.text)
  /\ o = "reply_gone" => t.d.fallback

\* May the message be in the chat after a request that ended so?
MayArrive(o) ==
  IF o = "ok" THEN {TRUE} ELSE IF o \in {"network", "unreadable"} THEN BOOLEAN ELSE {FALSE}

\* Mutant: the state is the chat's and not the message's.
AnnouncedInChat(t, o) ==
  /\ shown' = t.text
  /\ state' = IF o = "ok" THEN [age |-> 0, text |-> t.text] ELSE state
  /\ doubt' = FALSE

\* A new message.  Its state is kept only if safe_answer returned it.
Announced(t, o) ==
  /\ shown' = t.text
  /\ state' = IF o = "ok" THEN [age |-> 0, text |-> t.text] ELSE Nothing
  /\ doubt' = FALSE

Edited(t, arrived, end) ==
  /\ shown' = IF arrived THEN t.text ELSE shown
  /\ doubt' = (end.result # "open" /\ shown' # t.text)
  /\ UNCHANGED state

Deliver(o) ==
  LET end == _deliver(task.d, o)
      t   == [task EXCEPT !.d = end, !.waited = 0, !.escaped = (o = "unreadable")]
  IN /\ task.pc = "deliver" /\ MayEnd(task, o)
     /\ task' = IF end.result = "open" THEN t
                ELSE IF end.result = "raised" THEN Ending(t, "rollback")
                ELSE Ending(t, "commit")
     /\ \E arrived \in MayArrive(o) :
          IF Role(task) = "edit" THEN Edited(task, arrived, end)
          ELSE IF Role(task) = "announcement" /\ arrived THEN Announced(task, o)
          ELSE UNCHANGED <<shown, state, doubt>>
     /\ UNCHANGED <<db, settings, admins, since, cache>>

-----------------------------------------------------------------------------
(* The end of an update (DatabaseMiddleware), and of the process.          *)

Commit ==
  /\ task.pc = "commit"
  /\ db' = task.work /\ settings' = task.keep
  /\ task' = Idle
  /\ UNCHANGED <<admins, since, cache, shown, state, doubt>>

Rollback ==
  /\ task.pc = "rollback"
  /\ task' = Idle
  /\ UNCHANGED <<db, settings, admins, since, cache, shown, state, doubt>>

Crash ==
  /\ task' = Idle
  /\ cache' = NoEntry
  /\ state' = Nothing /\ doubt' = FALSE
  /\ UNCHANGED <<db, settings, admins, since, shown>>

Step ==
  \/ Serve \/ Arrive \/ FetchFails
  \/ Answer \/ Count
  \/ \E o \in Outcomes : Deliver(o)
  \/ Commit \/ Rollback

Next ==
  \/ \E m \in Updates : OtherUpdate(m)
  \/ \E m \in Commands : Command(m)
  \/ \E u \in Users \ Bots : Press(u)
  \/ \E p \in Promoted : Promote(p)
  \/ bot_removed
  \/ SharedEntry
  \/ Tick
  \/ Step
  \/ Crash

Spec == Init /\ [][Next]_vars

\* The event loop resumes a task whose await is over, and every request ends: every
\* step of the task changes it.
FairSpec == Spec /\ WF_task(Step)

-----------------------------------------------------------------------------
(* Properties.                                                             *)

TypeOK ==
  /\ db \in Database /\ settings \in ChatSettings
  /\ admins \subseteq Promoted /\ since \in [Users -> 0 .. TTL]
  /\ cache \in Entry
  /\ shown \in Text \union {Nothing} /\ doubt \in BOOLEAN
  /\ state # Nothing => state.age \in 0 .. COUNTER_REFRESH_SECONDS /\ state.text \in Text
  /\ task # Idle =>
       /\ task.pc \in {"fetch", "count", "answer", "deliver", "commit", "rollback"}
       /\ task.work \in Database /\ task.keep \in ChatSettings
       /\ task.waited \in 0 .. MaxWait /\ task.d \in Delivery

\* When p was last an administrator, and last was not, in ticks ago.
LastIn(p)  == IF p \in admins THEN 0 ELSE since[p]
LastOut(p) == IF p \in admins THEN since[p] ELSE 0

\* Is the author judged in this step, by a list that Telegram did not refuse?
Judges ==
  /\ task' # Idle /\ task'.verdict # "open" /\ (task = Idle \/ task.verdict = "open")
  /\ NeedsList(task'.upd.from) /\ ~LetsAllIn(task'.upd)
  /\ ~FetchFails

\* A verdict is no older than the list may be: who is let in was an administrator
\* less than TTL ago, who is refused was none less than TTL ago, however long the
\* request for the list took, and however often their rights changed.  (Not so
\* when Telegram refused the list: the old one is used at any age.)
RightsAreRecent ==
  [][Judges =>
       LET p == task'.upd.from
       IN IF task'.verdict = "yes" THEN LastIn(p) < TTL ELSE LastOut(p) < TTL]_vars

\* The bot's removal drops the list (docs/architecture.md:340): one that was asked
\* for before it, in memory or still in flight, outlives it only if the removal's
\* UPDATE (chat_events.py:64) was refused the write lock.
DroppedWithTheBot == cache.outlived \subseteq {"refused"}

\* What the bot remembers of its message is what the chat sees, so that a press is
\* passed over only when there is nothing to change, unless an edit was given up
\* or another chat's message has the same id.
StateMatchesChat ==
  state # Nothing /\ ~doubt /\ ~(task # Idle /\ Role(task) = "edit" /\ task.pc = "deliver") =>
    state.text = shown

\* After a press that was not throttled the chat sees the number of people in the
\* database, with the same two exceptions.
PressShows ==
  [][Commit /\ task.upd.kind = "on_here" /\ task.fresh /\ ~doubt =>
       shown.known = count_active_members(db', Group)]_vars

\* Whoever was told "recorded" is recorded, unless the process died or an answer
\* of Telegram could not be read: no refusal undoes a press.
ToldIsRecorded ==
  [][task # Idle /\ task' = Idle /\ task.upd.kind = "on_here" /\ task.told =>
       task.escaped \/ Crash \/ <<Group, task.upd.from>> \in db'.active]_vars

\* Every update ends, and frees the write lock, however Telegram answers: again and
\* again no task is under way.
UpdateEnds == []<>(task = Idle)
=============================================================================
