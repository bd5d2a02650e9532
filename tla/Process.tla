-------------------------------- MODULE Process --------------------------------
(***************************************************************************)
(* The bot's process: main() and _run_polling_forever of bot/__main__.py,  *)
(* with the lock of bot/utils/singleton.py, the heartbeat that             *)
(* deploy/healthcheck.py reads, and the filter of log records.  A second   *)
(* copy of the bot runs in the same data directory, reduced to what it     *)
(* does to the lock and to the heartbeat's file.                           *)
(*                                                                         *)
(* aiogram's start_polling is external: getUpdates succeeds or fails       *)
(* inside it, its record "Connection established" is written by the first  *)
(* success after a failure of the same call, and SIGTERM and SIGINT end it *)
(* while it runs (while the loop sleeps between two calls they are lost).  *)
(* Time is in ticks, and ages stop at the greatest one that matters.       *)
(***************************************************************************)
EXTENDS ConflictFilter

CONSTANTS
  POLLING_RESTART_MIN_DELAY,  \* the pauses, in ticks
  POLLING_RESTART_MAX_DELAY,
  POLLING_STABLE_UPTIME,      \* in ticks
  MAX_AGE_SECONDS,            \* of the heartbeat, in ticks
  Levels                      \* of the log: "INFO" stands for DEBUG and INFO,
                              \* "WARNING" for WARNING and ERROR

ASSUME ProcessAssumption ==
  /\ POLLING_RESTART_MIN_DELAY \in Nat \ {0}
  /\ POLLING_RESTART_MAX_DELAY \in Nat
  /\ POLLING_RESTART_MIN_DELAY <= POLLING_RESTART_MAX_DELAY
  /\ POLLING_STABLE_UPTIME \in Nat
  /\ MAX_AGE_SECONDS \in Nat
  /\ Levels \subseteq {"INFO", "WARNING"}

VARIABLES
  phase,     \* where main() is; "down" when there is no process
  lock,      \* who holds the flock of lock_file
  mine,      \* what acquire() found: "held", or "unopened" when open() failed
  other,     \* the second copy: "down", or what its acquire() found
  delay,     \* _run_polling_forever's delay
  left,      \* ticks of the pause that are left
  uptime,    \* ticks since start_polling was called
  failed,    \* aiogram's flag: has the last getUpdates of this call failed?
  filter,    \* the state of the filter
  level,     \* log_level
  stamp,     \* age of the mark in heartbeat_file
  \* History.
  polled,    \* ticks since a copy of this directory was in _run_polling_forever
  fails,     \* failures of start_polling since the last stable one
  span,      \* ticks since the first conflict after the last success
  blamed,    \* ticks since the log blamed a second copy
  unseen     \* has a success passed, since this process began, without its record?

vars == <<phase, lock, mine, other, delay, left, uptime, failed, filter, level, stamp,
          polled, fails, span, blamed, unseen>>

loopVars == <<delay, left, uptime, fails>>
lockVars == <<lock, mine, other>>
logVars  == <<failed, filter, span, blamed, unseen>>
ageVars  == <<stamp, polled>>

Lasting == escalate_after + repeat_interval

Init ==
  /\ phase = "down" /\ lock = "free" /\ mine = "none" /\ other = "down"
  /\ delay = POLLING_RESTART_MIN_DELAY /\ left = 0 /\ uptime = 0 /\ fails = 0
  /\ failed = FALSE /\ filter = NewFilter /\ level \in Levels
  /\ span = NoStreak /\ blamed = repeat_interval /\ unseen = FALSE
  /\ stamp = MAX_AGE_SECONDS + 1 /\ polled = MAX_AGE_SECONDS + 1

-----------------------------------------------------------------------------
(* The lock (singleton.py).  A start that finds the lock taken ends at once *)
(* and changes nothing; without fcntl a start is as one without the file.  *)

\* Mutant: the refusal of flock is not looked at.
acquire_anyway(who, opened, found) ==
  \/ opened /\ lock' = (IF lock = "free" THEN who ELSE lock) /\ found = "held"
  \/ ~opened /\ UNCHANGED lock /\ found = "unopened"

\* What is found by an acquire() that returns True.
acquire(who, opened, found) ==
  \/ opened /\ lock = "free" /\ lock' = who /\ found = "held"
  \/ ~opened /\ UNCHANGED lock /\ found = "unopened"

\* Mutant: the lock is a file that stays behind.
FreedNever(who) == UNCHANGED lock

\* By release(), or by the operating system when the process ends without it.
Freed(who) == lock' = IF lock = who THEN "free" ELSE lock

OtherStarts ==
  /\ other = "down"
  /\ \E opened \in BOOLEAN : \E found \in {"held", "unopened"} :
       acquire("other", opened, found) /\ other' = found
  /\ UNCHANGED <<phase, mine, loopVars, logVars, level, ageVars>>

OtherStops ==
  /\ other # "down"
  /\ other' = "down" /\ Freed("other")
  /\ UNCHANGED <<phase, mine, loopVars, logVars, level, ageVars>>

-----------------------------------------------------------------------------
(* main().                                                                 *)

Start ==
  /\ phase = "down"
  /\ \E opened \in BOOLEAN : \E found \in {"held", "unopened"} :
       acquire("me", opened, found) /\ mine' = found
  /\ phase' = "starting"
  /\ filter' = NewFilter /\ span' = NoStreak /\ blamed' = repeat_interval /\ unseen' = FALSE
  /\ UNCHANGED <<other, loopVars, failed, level, ageVars>>

\* A call of start_polling.
Polling == phase' = "polling" /\ uptime' = 0 /\ failed' = FALSE

\* bot.me() has answered, and the two calls after it may fail: polling and the
\* heartbeat begin.
Started ==
  /\ phase = "starting"
  /\ Polling /\ delay' = POLLING_RESTART_MIN_DELAY /\ fails' = 0
  /\ polled' = 0 /\ stamp' \in {0, stamp}
  /\ UNCHANGED <<lockVars, left, filter, level, span, blamed, unseen>>

\* bot.me() raised, for a bad token or for any other reason.
StartFails ==
  /\ phase = "starting"
  /\ phase' = "closing"
  /\ UNCHANGED <<lockVars, loopVars, logVars, level, ageVars>>

\* start_polling has returned because of a signal.
Stop ==
  /\ phase = "polling"
  /\ phase' = "closing"
  /\ UNCHANGED <<lockVars, loopVars, logVars, level, ageVars>>

Gone == phase' = "down" /\ mine' = "none" /\ Freed("me")

\* The session and the database are closed, then the lock is released; when
\* closing raises, the process ends without release().
Closed == phase = "closing" /\ Gone /\ UNCHANGED <<other, loopVars, logVars, level, ageVars>>

Crash == phase # "down" /\ Gone /\ UNCHANGED <<other, loopVars, logVars, level, ageVars>>

-----------------------------------------------------------------------------
(* _run_polling_forever.                                                   *)

\* Mutant: a stable run does not reset the pause.
DelayAfter_never_reset == delay

DelayAfter ==
  IF uptime > POLLING_STABLE_UPTIME THEN POLLING_RESTART_MIN_DELAY ELSE delay

\* start_polling raised something that is not CancelledError.
PollingFails ==
  /\ phase = "polling"
  /\ phase' = "sleeping"
  /\ delay' = DelayAfter /\ left' = DelayAfter
  /\ fails' = IF uptime > POLLING_STABLE_UPTIME THEN 1
              ELSE Older(fails, POLLING_RESTART_MAX_DELAY)
  /\ UNCHANGED <<lockVars, uptime, logVars, level, ageVars>>

\* Mutant: the pause has no ceiling.
Doubled_without_end(d) == IF d > POLLING_RESTART_MAX_DELAY THEN d ELSE 2 * d

Doubled(d) ==
  IF 2 * d < POLLING_RESTART_MAX_DELAY THEN 2 * d ELSE POLLING_RESTART_MAX_DELAY

\* Mutant: only a stable call is repeated.
Wake_if_stable ==
  /\ phase = "sleeping" /\ left = 0 /\ uptime > POLLING_STABLE_UPTIME
  /\ Polling /\ delay' = Doubled(delay)
  /\ UNCHANGED <<lockVars, left, fails, filter, level, span, blamed, unseen, ageVars>>

Wake ==
  /\ phase = "sleeping" /\ left = 0
  /\ Polling /\ delay' = Doubled(delay)
  /\ UNCHANGED <<lockVars, left, fails, filter, level, span, blamed, unseen, ageVars>>

-----------------------------------------------------------------------------
(* getUpdates, and what the log shows of it.                               *)

\* The record of a success is written after a failure of the same call, at a level
\* that may be off.
Recorded == failed /\ level = "INFO"

FetchSucceeds ==
  /\ phase = "polling"
  /\ failed' = FALSE
  /\ filter' = IF Recorded THEN Recovered(filter) ELSE filter
  /\ span' = NoStreak
  /\ unseen' = IF Recorded THEN FALSE ELSE (unseen \/ filter.streak # NoStreak)
  /\ UNCHANGED <<phase, lockVars, loopVars, level, blamed, ageVars>>

\* Another copy polls too, or Telegram still holds a request of this one.
FetchConflicts ==
  /\ phase = "polling"
  /\ failed' = TRUE
  /\ filter' = Conflicted(filter)
  /\ span' = IF span = NoStreak THEN 0 ELSE span
  /\ blamed' = IF Shows(filter) = "error" THEN 0 ELSE blamed
  /\ UNCHANGED <<phase, lockVars, loopVars, level, unseen, ageVars>>

\* Any other exception: the filter lets its record pass.
FetchFails ==
  /\ phase = "polling"
  /\ failed' = TRUE
  /\ UNCHANGED <<phase, lockVars, loopVars, filter, level, span, blamed, unseen, ageVars>>

-----------------------------------------------------------------------------
(* Time, and the heartbeats written in it.                                 *)

\* Mutant: the heartbeat begins before the bot is known to Telegram.
Beating_from_start == phase \in {"starting", "polling", "sleeping"}

\* The heartbeat is a task of its own beside polling.
Beating == phase \in {"polling", "sleeping"}

\* A write may fail (OSError), or come late from a busy loop.
Tick ==
  /\ left' = IF left > 0 THEN left - 1 ELSE 0
  /\ uptime' = IF phase = "polling" THEN Older(uptime, POLLING_STABLE_UPTIME + 1) ELSE uptime
  /\ filter' = Later(filter)
  /\ span' = IF span = NoStreak THEN NoStreak ELSE Older(span, Lasting)
  /\ blamed' = Older(blamed, repeat_interval)
  /\ \E wrote, otherWrote \in BOOLEAN :
       /\ wrote => Beating
       /\ otherWrote => other # "down"
       /\ stamp' = IF wrote \/ otherWrote THEN 0 ELSE Older(stamp, MAX_AGE_SECONDS + 1)
       /\ polled' = IF phase \in {"polling", "sleeping"} \/ otherWrote THEN 0
                    ELSE Older(polled, MAX_AGE_SECONDS + 1)
  /\ UNCHANGED <<phase, lockVars, delay, fails, failed, level, unseen>>

\* deploy/healthcheck.py
Healthy == stamp <= MAX_AGE_SECONDS

-----------------------------------------------------------------------------
Next ==
  \/ OtherStarts \/ OtherStops
  \/ Start \/ Started \/ StartFails \/ Stop \/ Closed \/ Crash
  \/ PollingFails \/ Wake
  \/ FetchSucceeds \/ FetchConflicts \/ FetchFails
  \/ Tick

Spec == Init /\ [][Next]_vars

\* Time passes, requests end by their timeouts, and the event loop goes on.
FairSpec ==
  /\ Spec
  /\ WF_vars(Tick) /\ WF_vars(Wake)
  /\ WF_vars(Started \/ StartFails) /\ WF_vars(Closed)

-----------------------------------------------------------------------------
(* Properties.                                                             *)

Phases == {"down", "starting", "polling", "sleeping", "closing"}
Found  == {"held", "unopened"}

TypeOK ==
  /\ phase \in Phases
  /\ lock \in {"free", "me", "other"}
  /\ mine \in Found \union {"none"} /\ other \in Found \union {"down"}
  /\ delay \in POLLING_RESTART_MIN_DELAY .. POLLING_RESTART_MAX_DELAY
  /\ left \in 0 .. POLLING_RESTART_MAX_DELAY
  /\ uptime \in 0 .. POLLING_STABLE_UPTIME + 1
  /\ failed \in BOOLEAN /\ filter \in Filter /\ level \in Levels
  /\ stamp \in 0 .. MAX_AGE_SECONDS + 1 /\ polled \in 0 .. MAX_AGE_SECONDS + 1
  /\ fails \in 0 .. POLLING_RESTART_MAX_DELAY
  /\ span \in {NoStreak} \union (0 .. Lasting)
  /\ blamed \in 0 .. repeat_interval /\ unseen \in BOOLEAN

\* Two copies run in one directory only if one of them could not open the lock
\* file (singleton.py:38-40), in whatever order they start, stop and die.
OneInstance == phase # "down" /\ other # "down" => "unopened" \in {mine, other}

\* No dead lock: the lock is held by a process that runs (singleton.py:22-23), and
\* by the one that thinks so.
LockOfTheLiving ==
  /\ lock = "me" <=> mine = "held"
  /\ lock = "other" <=> other = "held"
  /\ mine = "none" <=> phase = "down"

\* The log blames a second copy only after conflicts without one success for
\* escalate_after (log_filters.py:32-36), as long as the filter has seen the
\* record of every success.  It sees none at LOG_LEVEL=WARNING, and none of the
\* first success after a restart of polling.
BlamesOnlyLasting ==
  [][FetchConflicts /\ Shows(filter) = "error" /\ ~unseen => span >= escalate_after]_vars

\* A conflict that lasts is not lost in the noise: a record that blames a second
\* copy is at most repeat_interval old, however the conflicts are spaced.
LastingIsBlamed ==
  [][FetchConflicts /\ span = Lasting => blamed' < repeat_interval]_vars

\* The pauses of one series of failures are MIN, 2 MIN, 4 MIN, ... up to MAX, and
\* a series ends with a stable call (docs/architecture.md:380-382).
BackoffGrows ==
  phase = "sleeping" =>
    LET grown == POLLING_RESTART_MIN_DELAY * 2 ^ (fails - 1)
    IN delay = IF grown < POLLING_RESTART_MAX_DELAY THEN grown ELSE POLLING_RESTART_MAX_DELAY

\* The health check is passed only while some copy of this directory has been in
\* _run_polling_forever less than MAX_AGE_SECONDS ago: a process that does not get
\* there, at whatever rate it is restarted, is not healthy.
HealthyHasPolled == Healthy => polled <= MAX_AGE_SECONDS

\* The bot is never silent for good: it polls again, or its process ends and can
\* be started anew.
NeverSilent == phase \in {"starting", "sleeping", "closing"} ~> phase \in {"polling", "down"}
=============================================================================
