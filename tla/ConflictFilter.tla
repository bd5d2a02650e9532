---------------------------- MODULE ConflictFilter ----------------------------
(***************************************************************************)
(* What bot/utils/log_filters.py makes of aiogram's records about          *)
(* getUpdates: ConflictNoiseFilter as a step from its state to the next    *)
(* and what the log shows.                                                 *)
(*                                                                         *)
(* A state is [last, streak]: ticks since _last_shown and since            *)
(* _streak_started, which stop at the interval they are compared with.     *)
(* None of _last_shown is the age repeat_interval, which is as good as     *)
(* never; None of _streak_started is NoStreak.  Left out: the text, its    *)
(* number of hidden records, and _swallow_next_sleep, since aiogram writes *)
(* its "Sleep for" right after the failure it belongs to.                  *)
(***************************************************************************)
EXTENDS Integers

CONSTANTS
  repeat_interval,  \* in ticks
  escalate_after    \* in ticks

ASSUME FilterAssumption ==
  /\ repeat_interval \in Nat \ {0}
  /\ escalate_after \in Nat \ {0}

NoStreak == -1

Filter == [last : 0 .. repeat_interval, streak : {NoStreak} \union (0 .. escalate_after)]

NewFilter == [last |-> repeat_interval, streak |-> NoStreak]

Older(age, top) == IF age < top THEN age + 1 ELSE top

\* A tick of the clock.
Later(f) ==
  [last |-> Older(f.last, repeat_interval),
   streak |-> IF f.streak = NoStreak THEN NoStreak ELSE Older(f.streak, escalate_after)]

\* Mutant: the recovery is not looked for.
Recovered_ignored(f) == f

\* "Connection established".
Recovered(f) == [f EXCEPT !.streak = NoStreak]

\* _streak_started is set by the first conflict, shown or hidden.
Streaked(f) == IF f.streak = NoStreak THEN [f EXCEPT !.streak = 0] ELSE f

\* What the log shows of a conflict: nothing, the transient explanation as a
\* WARNING, or the second copy as an ERROR.
Shows(f) ==
  IF f.last < repeat_interval THEN "hidden"
  ELSE IF Streaked(f).streak >= escalate_after THEN "error" ELSE "warning"

\* Mutant: a hidden conflict counts as shown.
Conflicted_always_dates(f) == [Streaked(f) EXCEPT !.last = 0]

Conflicted(f) ==
  IF Shows(f) = "hidden" THEN Streaked(f) ELSE [Streaked(f) EXCEPT !.last = 0]
=============================================================================
