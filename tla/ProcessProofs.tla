----------------------------- MODULE ProcessProofs -----------------------------
(***************************************************************************)
(* Proofs about Process for every length of the intervals.  The invariants *)
(* are of the types, of the lock (Locks), of the heartbeat (Beats), of     *)
(* what the filter knows of the conflicts (Streaks), and of the pauses of  *)
(* a series of failures (Series).  The last two rest on the types.         *)
(***************************************************************************)
EXTENDS Process, FiniteSetTheorems, FunctionTheorems, TLAPS

-----------------------------------------------------------------------------
(* Types.                                                                  *)

\* Ages and pauses stay in their ranges, and a pause never exceeds the ceiling.
THEOREM TypeCorrect == Spec => []TypeOK
<1> USE FilterAssumption, ProcessAssumption
        DEF NoStreak, Filter, Phases, Found, Lasting, Older
<1>1. Init => TypeOK
  <2>1. NewFilter \in Filter
    BY DEF NewFilter
  <2>2. Init => /\ delay \in POLLING_RESTART_MIN_DELAY .. POLLING_RESTART_MAX_DELAY
                /\ left \in 0 .. POLLING_RESTART_MAX_DELAY
                /\ uptime \in 0 .. POLLING_STABLE_UPTIME + 1
                /\ fails \in 0 .. POLLING_RESTART_MAX_DELAY
    BY DEF Init
  <2>3. Init => /\ stamp \in 0 .. MAX_AGE_SECONDS + 1 /\ polled \in 0 .. MAX_AGE_SECONDS + 1
                /\ blamed \in 0 .. repeat_interval /\ span \in {NoStreak} \union (0 .. Lasting)
    BY DEF Init
  <2>4. Init => level \in Levels /\ failed \in BOOLEAN /\ unseen \in BOOLEAN
    BY DEF Init
  <2> QED
    BY <2>1, <2>2, <2>3, <2>4 DEF Init, TypeOK
<1>2. TypeOK /\ [Next]_vars => TypeOK'
  <2> SUFFICES ASSUME TypeOK, [Next]_vars PROVE TypeOK'
    OBVIOUS
  <2>1. CASE OtherStarts
    BY <2>1 DEF TypeOK, OtherStarts, acquire, loopVars, logVars, ageVars
  <2>2. CASE OtherStops
    BY <2>2 DEF TypeOK, OtherStops, Freed, loopVars, logVars, ageVars
  <2>3. CASE Start
    <3>1. filter' \in Filter /\ mine' \in Found /\ lock' \in {"free", "me", "other"}
      BY <2>3 DEF TypeOK, Start, acquire, NewFilter
    <3>2. failed' \in BOOLEAN /\ unseen' \in BOOLEAN
      BY <2>3 DEF TypeOK, Start
    <3> QED
      BY <2>3, <3>1, <3>2 DEF TypeOK, Start, loopVars, ageVars
  <2>4. CASE Started
    <3>1. delay' \in POLLING_RESTART_MIN_DELAY .. POLLING_RESTART_MAX_DELAY
      BY <2>4 DEF Started
    <3>2. stamp' \in 0 .. MAX_AGE_SECONDS + 1 /\ polled' \in 0 .. MAX_AGE_SECONDS + 1
      BY <2>4 DEF TypeOK, Started
    <3>3. failed' \in BOOLEAN /\ uptime' = 0
      BY <2>4 DEF Started, Polling
    <3> QED
      BY <2>4, <3>1, <3>2, <3>3 DEF TypeOK, Started, Polling, lockVars
  <2>5. CASE StartFails \/ Stop
    BY <2>5 DEF TypeOK, StartFails, Stop, lockVars, loopVars, logVars, ageVars
  <2>6. CASE Closed \/ Crash
    BY <2>6 DEF TypeOK, Closed, Crash, Gone, Freed, loopVars, logVars, ageVars
  <2>7. CASE PollingFails
    BY <2>7 DEF TypeOK, PollingFails, DelayAfter, lockVars, logVars, ageVars
  <2>8. CASE Wake
    <3>1. delay' \in POLLING_RESTART_MIN_DELAY .. POLLING_RESTART_MAX_DELAY
      BY <2>8 DEF TypeOK, Wake, Doubled
    <3>2. failed' \in BOOLEAN /\ uptime' = 0
      BY <2>8 DEF Wake, Polling
    <3> QED
      BY <2>8, <3>1, <3>2 DEF TypeOK, Wake, Polling, lockVars, ageVars
  <2>9. CASE FetchSucceeds
    BY <2>9 DEF TypeOK, FetchSucceeds, Recorded, Recovered, lockVars, loopVars, ageVars
  <2>10. CASE FetchConflicts
    BY <2>10 DEF TypeOK, FetchConflicts, Conflicted, Streaked, Shows, lockVars, loopVars, ageVars
  <2>11. CASE FetchFails
    BY <2>11 DEF TypeOK, FetchFails, lockVars, loopVars, ageVars
  <2>12. CASE Tick
    <3>1. filter' \in Filter
      BY <2>12 DEF TypeOK, Tick, Later
    <3> QED
      BY <2>12, <3>1 DEF TypeOK, Tick, lockVars
  <2>13. CASE UNCHANGED vars
    BY <2>13 DEF TypeOK, vars
  <2> QED
    BY <2>1, <2>2, <2>3, <2>4, <2>5, <2>6, <2>7, <2>8, <2>9, <2>10, <2>11, <2>12, <2>13
       DEF Next
<1> QED
  BY <1>1, <1>2, PTL DEF Spec

-----------------------------------------------------------------------------
(* The lock.  LockOfTheLiving is inductive with the ranges of its variables,*)
(* and two copies that both hold the lock would be two holders of one lock. *)

Locks ==
  /\ LockOfTheLiving
  /\ lock \in {"free", "me", "other"}
  /\ mine \in Found \union {"none"} /\ other \in Found \union {"down"}

THEOREM LocksHold == Spec => []Locks
<1>1. Init => Locks
  BY DEF Init, Locks, LockOfTheLiving, Found
<1>2. Locks /\ [Next]_vars => Locks'
  <2> SUFFICES ASSUME Locks, [Next]_vars PROVE Locks'
    OBVIOUS
  <2> USE DEF Locks, LockOfTheLiving, Found
  <2>1. CASE OtherStarts \/ OtherStops
    BY <2>1 DEF OtherStarts, OtherStops, acquire, Freed
  <2>2. CASE Start
    BY <2>2 DEF Start, acquire
  <2>3. CASE Started \/ StartFails \/ Stop
    BY <2>3 DEF Started, StartFails, Stop, Polling, lockVars
  <2>4. CASE Closed \/ Crash
    BY <2>4 DEF Closed, Crash, Gone, Freed
  <2>5. CASE PollingFails \/ Wake
    BY <2>5 DEF PollingFails, Wake, Polling, lockVars
  <2>6. CASE FetchSucceeds \/ FetchConflicts \/ FetchFails
    BY <2>6 DEF FetchSucceeds, FetchConflicts, FetchFails, lockVars
  <2>7. CASE Tick \/ UNCHANGED vars
    BY <2>7 DEF Tick, lockVars, vars
  <2> QED
    BY <2>1, <2>2, <2>3, <2>4, <2>5, <2>6, <2>7 DEF Next
<1> QED
  BY <1>1, <1>2, PTL DEF Spec

\* The lock is held by a process that runs and thinks so, after any sequence of
\* starts, stops and deaths of both copies.
THEOREM LockOfTheLivingHolds == Spec => []LockOfTheLiving
<1>1. Locks => LockOfTheLiving
  BY DEF Locks
<1> QED
  BY <1>1, LocksHold, PTL

\* Two copies run in one directory only past a lock file that could not be opened.
THEOREM OneInstanceHolds == Spec => []OneInstance
<1>1. Locks => OneInstance
  BY DEF Locks, LockOfTheLiving, OneInstance, Found
<1> QED
  BY <1>1, LocksHold, PTL

-----------------------------------------------------------------------------
(* The heartbeat: its mark is never younger than polling.                  *)

Beats ==
  /\ stamp \in 0 .. MAX_AGE_SECONDS + 1 /\ polled \in 0 .. MAX_AGE_SECONDS + 1
  /\ polled <= stamp

\* Who passes the health check has been in _run_polling_forever lately.
THEOREM HealthyHasPolledHolds == Spec => []HealthyHasPolled
<1> USE FilterAssumption, ProcessAssumption
<1>1. Init => Beats
  BY DEF Init, Beats
<1>2. Beats /\ [Next]_vars => Beats'
  <2> SUFFICES ASSUME Beats, [Next]_vars PROVE Beats'
    OBVIOUS
  <2>1. CASE OtherStarts \/ OtherStops \/ Start \/ StartFails \/ Stop \/ Closed \/ Crash
    BY <2>1 DEF Beats, OtherStarts, OtherStops, Start, StartFails, Stop, Closed, Crash, ageVars
  <2>2. CASE Started
    BY <2>2 DEF Beats, Started
  <2>3. CASE PollingFails \/ Wake \/ FetchSucceeds \/ FetchConflicts \/ FetchFails
    BY <2>3 DEF Beats, PollingFails, Wake, FetchSucceeds, FetchConflicts, FetchFails, ageVars
  <2>4. CASE Tick
    BY <2>4 DEF Beats, Tick, Beating, Older
  <2>5. CASE UNCHANGED vars
    BY <2>5 DEF Beats, vars
  <2> QED
    BY <2>1, <2>2, <2>3, <2>4, <2>5 DEF Next
<1>3. Beats => HealthyHasPolled
  BY DEF Beats, HealthyHasPolled, Healthy
<1> QED
  BY <1>1, <1>2, <1>3, PTL DEF Spec

-----------------------------------------------------------------------------
(* The filter.  As long as it has seen every success, its streak is not    *)
(* older than the conflicts (so no false blame); it is never younger than  *)
(* they are, up to escalate_after (so a lasting conflict escalates); and   *)
(* what it showed last, when they were lasting already, blamed a copy.     *)

Streaks ==
  /\ ~unseen /\ filter.streak # NoStreak => filter.streak <= span
  /\ span # NoStreak => filter.streak # NoStreak
  /\ span <= filter.streak \/ filter.streak = escalate_after
  /\ filter.last < repeat_interval /\ span >= escalate_after + filter.last =>
       blamed <= filter.last

LEMMA StreaksStep == ASSUME TypeOK, TypeOK', Streaks, [Next]_vars PROVE Streaks'
<1> USE FilterAssumption, ProcessAssumption DEF NoStreak, Lasting
<1>0. /\ filter.last \in 0 .. repeat_interval
      /\ filter.streak \in {NoStreak} \union (0 .. escalate_after)
      /\ span \in {NoStreak} \union (0 .. Lasting) /\ blamed \in 0 .. repeat_interval
      /\ filter = [last |-> filter.last, streak |-> filter.streak]
      /\ unseen \in BOOLEAN
  BY DEF TypeOK, Filter
<1>1. CASE OtherStarts \/ OtherStops \/ StartFails \/ Stop \/ Closed \/ Crash \/ PollingFails
  BY <1>1 DEF Streaks, OtherStarts, OtherStops, StartFails, Stop, Closed, Crash, PollingFails,
              logVars
<1>2. CASE Start
  BY <1>2 DEF Streaks, Start, NewFilter
<1>3. CASE Started \/ Wake
  BY <1>3 DEF Streaks, Started, Wake
<1>4. CASE FetchSucceeds
  <2>1. CASE Recorded
    BY <1>0, <1>4, <2>1 DEF Streaks, FetchSucceeds, Recovered
  <2>2. CASE ~Recorded
    <3>1. ~unseen' => ~unseen /\ filter.streak = NoStreak
      BY <1>4, <2>2 DEF FetchSucceeds
    <3>2. filter' = filter /\ span' = NoStreak /\ blamed' = blamed
      BY <1>4, <2>2 DEF FetchSucceeds
    <3> QED
      BY <1>0, <3>1, <3>2 DEF Streaks
  <2> QED
    BY <2>1, <2>2
<1>5. CASE FetchConflicts
  <2> DEFINE st == IF filter.streak = NoStreak THEN 0 ELSE filter.streak
  <2>1. Streaked(filter) = [last |-> filter.last, streak |-> st]
    BY <1>0 DEF Streaked
  <2>2. span' = IF span = NoStreak THEN 0 ELSE span
    BY <1>5 DEF FetchConflicts
  <2>3. CASE filter.last < repeat_interval
    <3>1. filter' = [last |-> filter.last, streak |-> st] /\ blamed' = blamed
      BY <1>5, <2>1, <2>3 DEF FetchConflicts, Conflicted, Shows
    <3> QED
      BY <1>0, <1>5, <2>2, <3>1 DEF Streaks, FetchConflicts
  <2>4. CASE ~(filter.last < repeat_interval)
    <3>1. filter' = [last |-> 0, streak |-> st]
      BY <1>5, <2>1, <2>4 DEF FetchConflicts, Conflicted, Shows
    <3>2. st >= escalate_after => blamed' = 0
      BY <1>5, <2>1, <2>4 DEF FetchConflicts, Shows
    <3> QED
      BY <1>0, <1>5, <2>2, <3>1, <3>2 DEF Streaks, FetchConflicts
  <2> QED
    BY <2>3, <2>4
<1>6. CASE FetchFails
  BY <1>6 DEF Streaks, FetchFails
<1>7. CASE Tick
  <2>1. filter' = [last |-> Older(filter.last, repeat_interval),
                   streak |-> IF filter.streak = NoStreak THEN NoStreak
                              ELSE Older(filter.streak, escalate_after)]
    BY <1>7 DEF Tick, Later
  <2>2. /\ span' = (IF span = NoStreak THEN NoStreak ELSE Older(span, Lasting))
        /\ blamed' = Older(blamed, repeat_interval) /\ unseen' = unseen
    BY <1>7 DEF Tick
  <2> QED
    BY <1>0, <2>1, <2>2 DEF Streaks, Older
<1>8. CASE UNCHANGED vars
  BY <1>8 DEF Streaks, vars
<1> QED
  BY <1>1, <1>2, <1>3, <1>4, <1>5, <1>6, <1>7, <1>8 DEF Next

\* What the filter knows of the conflicts, over every sequence of successes,
\* failures, restarts and pauses.
THEOREM StreaksHold == Spec => []Streaks
<1>1. Init => Streaks
  BY FilterAssumption DEF Init, Streaks, NewFilter, NoStreak
<1>2. TypeOK /\ TypeOK' /\ Streaks /\ [Next]_vars => Streaks'
  BY StreaksStep
<1> QED
  BY <1>1, <1>2, TypeCorrect, PTL DEF Spec

\* No false blame, as long as no success went unseen.
THEOREM BlamesOnlyLastingHolds == Spec => BlamesOnlyLasting
<1>1. TypeOK /\ Streaks =>
        (FetchConflicts /\ Shows(filter) = "error" /\ ~unseen => span >= escalate_after)
  <2> SUFFICES ASSUME TypeOK, Streaks, Shows(filter) = "error", ~unseen
               PROVE  span >= escalate_after
    OBVIOUS
  <2>1. Streaked(filter).streak >= escalate_after
    BY DEF Shows
  <2>2. filter.streak # NoStreak /\ filter.streak >= escalate_after
    BY <2>1, FilterAssumption DEF Streaked, TypeOK, Filter, NoStreak
  <2> QED
    BY <2>2, FilterAssumption DEF Streaks, TypeOK, Filter, NoStreak, Lasting
<1> QED
  BY <1>1, TypeCorrect, StreaksHold, PTL DEF BlamesOnlyLasting

\* A lasting conflict is in the log.
THEOREM LastingIsBlamedHolds == Spec => LastingIsBlamed
<1> USE FilterAssumption DEF NoStreak, Lasting
<1>1. ASSUME TypeOK, Streaks, FetchConflicts, span = Lasting PROVE blamed' < repeat_interval
  <2>0. filter.last \in 0 .. repeat_interval /\ blamed \in 0 .. repeat_interval
    BY <1>1 DEF TypeOK, Filter
  <2>1. CASE filter.last < repeat_interval
    BY <1>1, <2>0, <2>1 DEF Streaks, FetchConflicts, Shows
  <2>2. CASE ~(filter.last < repeat_interval)
    <3>1. filter.streak = escalate_after
      BY <1>1 DEF Streaks, TypeOK, Filter
    <3>2. Shows(filter) = "error"
      BY <2>2, <3>1 DEF Shows, Streaked
    <3> QED
      BY <1>1, <3>2 DEF FetchConflicts
  <2> QED
    BY <2>1, <2>2
<1>2. TypeOK /\ Streaks => (FetchConflicts /\ span = Lasting => blamed' < repeat_interval)
  BY <1>1
<1> QED
  BY <1>2, TypeCorrect, StreaksHold, PTL DEF LastingIsBlamed

-----------------------------------------------------------------------------
(* The pauses between restarts of polling.                                 *)

\* Twice as many sets can be made of one element more.
LEMMA PowerDoubles ==
  ASSUME NEW k \in Nat
  PROVE  2 ^ k \in Nat /\ 2 ^ (k + 1) = 2 * 2 ^ k
<1> DEFINE A == 1 .. k
           B == 1 .. (k + 1)
           T == {s \union {k + 1} : s \in SUBSET A}
           f == [s \in SUBSET A |-> s \union {k + 1}]
<1>1. IsFiniteSet(A) /\ Cardinality(A) = k /\ IsFiniteSet(B) /\ Cardinality(B) = k + 1
  BY FS_Interval
<1>2. /\ IsFiniteSet(SUBSET A) /\ Cardinality(SUBSET A) = 2 ^ k
      /\ Cardinality(SUBSET B) = 2 ^ (k + 1)
  BY <1>1, FS_SUBSET
<1>3. IsFiniteSet(T) /\ Cardinality(T) = Cardinality(SUBSET A)
  <2>1. f \in [SUBSET A -> T] /\ \A t \in T : \E s \in SUBSET A : f[s] = t
    OBVIOUS
  <2>2. ASSUME NEW s \in SUBSET A, NEW t \in SUBSET A, f[s] = f[t] PROVE s = t
    <3>1. k + 1 \notin s /\ k + 1 \notin t
      OBVIOUS
    <3>2. s \union {k + 1} = t \union {k + 1}
      BY <2>2
    <3> QED
      BY <3>1, <3>2
  <2> HIDE DEF f, T, A
  <2>3. f \in Bijection(SUBSET A, T)
    BY <2>1, <2>2, Fun_IsBij
  <2>4. ExistsBijection(SUBSET A, T)
    BY <2>3 DEF ExistsBijection
  <2> QED
    BY <1>2, <2>4, FS_Bijection
<1>4. SUBSET B = (SUBSET A) \union T
  <2>1. ASSUME NEW s \in SUBSET B, k + 1 \in s PROVE s \in T
    <3>1. s \ {k + 1} \in SUBSET A /\ s = (s \ {k + 1}) \union {k + 1}
      BY <2>1
    <3> QED
      BY <3>1
  <2>2. ASSUME NEW s \in SUBSET B, k + 1 \notin s PROVE s \in SUBSET A
    BY <2>2
  <2>3. SUBSET A \subseteq SUBSET B /\ T \subseteq SUBSET B
    <3>1. A \subseteq B /\ k + 1 \in B
      OBVIOUS
    <3> HIDE DEF A, B
    <3> QED
      BY <3>1
  <2> QED
    BY <2>1, <2>2, <2>3
<1>5. (SUBSET A) \intersect T = {}
  OBVIOUS
<1> HIDE DEF A, B, T
<1>6. Cardinality(SUBSET B) = Cardinality(SUBSET A) + Cardinality(T) - Cardinality({})
  BY <1>2, <1>3, <1>4, <1>5, FS_Union
<1>7. Cardinality({}) = 0 /\ Cardinality(SUBSET A) \in Nat
  BY <1>2, FS_EmptySet, FS_CardinalityType
<1> QED
  BY <1>2, <1>3, <1>6, <1>7

\* The pause after n doublings.
Capped(n) ==
  LET grown == POLLING_RESTART_MIN_DELAY * 2 ^ n
  IN IF grown < POLLING_RESTART_MAX_DELAY THEN grown ELSE POLLING_RESTART_MAX_DELAY

\* No pause of the series is below MIN or above MAX, and each is the double of the
\* one before it, up to MAX.
LEMMA CappedDoubles ==
  /\ Capped(0) = POLLING_RESTART_MIN_DELAY
  /\ \A n \in Nat : /\ Capped(n) \in Nat /\ Capped(n) <= POLLING_RESTART_MAX_DELAY
                    /\ Capped(n + 1) = Doubled(Capped(n))
<1>1. 2 ^ 0 = 1
  OBVIOUS
<1>2. Capped(0) = POLLING_RESTART_MIN_DELAY
  BY <1>1, ProcessAssumption DEF Capped
<1>3. ASSUME NEW n \in Nat
      PROVE  /\ Capped(n) \in Nat /\ Capped(n) <= POLLING_RESTART_MAX_DELAY
             /\ Capped(n + 1) = Doubled(Capped(n))
  <2> DEFINE p == POLLING_RESTART_MIN_DELAY * 2 ^ n
  <2>1. p \in Nat /\ POLLING_RESTART_MIN_DELAY * 2 ^ (n + 1) = 2 * p
    BY PowerDoubles, ProcessAssumption
  <2> HIDE DEF p
  <2>2. Capped(n + 1) = IF 2 * p < POLLING_RESTART_MAX_DELAY THEN 2 * p
                        ELSE POLLING_RESTART_MAX_DELAY
    BY <2>1 DEF Capped
  <2>3. Capped(n) = IF p < POLLING_RESTART_MAX_DELAY THEN p ELSE POLLING_RESTART_MAX_DELAY
    BY DEF Capped, p
  <2> QED
    BY <2>1, <2>2, <2>3, ProcessAssumption DEF Doubled
<1> QED
  BY <1>2, <1>3

\* The pause is the one of the number of failures, and as long as it has not
\* reached MAX it is at least that number, so that it has when the count stops.
Series ==
  /\ phase = "sleeping" =>
       /\ fails >= 1 /\ delay = Capped(fails - 1)
       /\ fails <= delay \/ delay = POLLING_RESTART_MAX_DELAY
  /\ phase = "polling" =>
       /\ delay = Capped(fails)
       /\ fails + 1 <= delay \/ delay = POLLING_RESTART_MAX_DELAY
       /\ fails = POLLING_RESTART_MAX_DELAY => Capped(fails - 1) = POLLING_RESTART_MAX_DELAY

LEMMA SeriesStep == ASSUME TypeOK, Series, [Next]_vars PROVE Series'
<1>0. /\ POLLING_RESTART_MIN_DELAY \in Nat \ {0} /\ POLLING_RESTART_MAX_DELAY \in Nat
      /\ POLLING_RESTART_MIN_DELAY <= POLLING_RESTART_MAX_DELAY
      /\ fails \in 0 .. POLLING_RESTART_MAX_DELAY
      /\ delay \in POLLING_RESTART_MIN_DELAY .. POLLING_RESTART_MAX_DELAY
  BY ProcessAssumption DEF TypeOK
<1>1. CASE Started
  BY <1>0, <1>1, CappedDoubles DEF Series, Started, Polling
<1>2. CASE PollingFails
  <2>1. phase = "polling" /\ phase' = "sleeping" /\ delay' = DelayAfter
        /\ fails' = IF uptime > POLLING_STABLE_UPTIME THEN 1
                    ELSE Older(fails, POLLING_RESTART_MAX_DELAY)
    BY <1>2 DEF PollingFails
  <2>2. CASE uptime > POLLING_STABLE_UPTIME
    <3>1. delay' = POLLING_RESTART_MIN_DELAY /\ fails' = 1
      BY <2>1, <2>2 DEF DelayAfter
    <3> QED
      BY <1>0, <2>1, <3>1, CappedDoubles DEF Series
  <2>3. CASE ~(uptime > POLLING_STABLE_UPTIME) /\ fails < POLLING_RESTART_MAX_DELAY
    <3>1. delay' = delay /\ fails' = fails + 1
      BY <2>1, <2>3 DEF DelayAfter, Older
    <3>2. (fails + 1) - 1 = fails /\ fails + 1 >= 1
      BY <1>0
    <3> QED
      BY <1>0, <2>1, <3>1, <3>2 DEF Series
  <2>4. CASE ~(uptime > POLLING_STABLE_UPTIME) /\ ~(fails < POLLING_RESTART_MAX_DELAY)
    <3>1. delay' = delay /\ fails' = POLLING_RESTART_MAX_DELAY
          /\ fails = POLLING_RESTART_MAX_DELAY
      BY <1>0, <2>1, <2>4 DEF DelayAfter, Older
    <3>2. delay = POLLING_RESTART_MAX_DELAY
      BY <1>0, <2>1, <3>1 DEF Series
    <3> QED
      BY <1>0, <2>1, <3>1, <3>2 DEF Series
  <2> QED
    BY <2>2, <2>3, <2>4
<1>3. CASE Wake
  <2>1. phase = "sleeping" /\ phase' = "polling" /\ delay' = Doubled(delay) /\ fails' = fails
    BY <1>3 DEF Wake, Polling
  <2>2. fails - 1 \in Nat /\ (fails - 1) + 1 = fails
    BY <1>0, <2>1 DEF Series
  <2>3. delay' = Capped(fails)
    BY <2>1, <2>2, CappedDoubles DEF Series
  <2>4. fails + 1 <= delay' \/ delay' = POLLING_RESTART_MAX_DELAY
    BY <1>0, <2>1, <2>2 DEF Series, Doubled
  <2>5. fails = POLLING_RESTART_MAX_DELAY => Capped(fails - 1) = POLLING_RESTART_MAX_DELAY
    BY <1>0, <2>1 DEF Series
  <2> QED
    BY <2>1, <2>3, <2>4, <2>5 DEF Series
<1>4. CASE Start \/ StartFails \/ Stop \/ Closed \/ Crash
  BY <1>4 DEF Series, Start, StartFails, Stop, Closed, Crash, Gone
<1>5. CASE \/ OtherStarts \/ OtherStops \/ Tick \/ UNCHANGED vars
           \/ FetchSucceeds \/ FetchConflicts \/ FetchFails
  <2>1. UNCHANGED <<phase, delay, fails>>
    BY <1>5 DEF OtherStarts, OtherStops, Tick, FetchSucceeds, FetchConflicts, FetchFails,
                loopVars, vars
  <2> QED
    BY <2>1 DEF Series
<1> QED
  BY <1>1, <1>2, <1>3, <1>4, <1>5 DEF Next

\* The pauses of one series of failures are MIN, 2 MIN, 4 MIN, ... up to MAX, for
\* any MIN and MAX.
THEOREM BackoffGrowsHolds == Spec => []BackoffGrows
<1>1. Init => Series
  BY DEF Init, Series
<1>2. TypeOK /\ Series /\ [Next]_vars => Series'
  BY SeriesStep
<1>3. Series => BackoffGrows
  BY DEF Series, BackoffGrows, Capped
<1> QED
  BY <1>1, <1>2, <1>3, TypeCorrect, PTL DEF Spec
=============================================================================
