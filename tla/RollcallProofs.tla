----------------------------- MODULE RollcallProofs -----------------------------
(***************************************************************************)
(* Proofs about Rollcall and the operators it is built from, for any chat, *)
(* people, commands, intervals and answers of Telegram: how many requests  *)
(* a reply may cost, when the bot is quiet, what /settings may store, that *)
(* verdicts on administrators' rights are recent (IInv), and that the      *)
(* counter and what people are told agree with the database (Good).        *)
(***************************************************************************)
EXTENDS Rollcall, HandlersProofs, FunctionTheorems

-----------------------------------------------------------------------------
(* utils/replies.py                                                        *)

\* Every request of a delivery leaves strictly fewer to be made, whatever its
\* outcome; a reply begins with at most four, an answer or an edit with two.
THEOREM DeliveryEnds ==
  /\ RequestsLeft(safe_reply) = 4 /\ RequestsLeft(safe_answer) = 2 /\ RequestsLeft(safe_edit) = 2
  /\ \A d \in Delivery, o \in Outcomes :
       d.result = "open" =>
         /\ _deliver(d, o) \in Delivery
         /\ RequestsLeft(_deliver(d, o)) \in 0 .. (RequestsLeft(d) - 1)
<1>1. /\ RequestsLeft(safe_reply) = 4 /\ RequestsLeft(safe_answer) = 2
      /\ RequestsLeft(safe_edit) = 2
  BY DEF RequestsLeft, safe_reply, safe_answer, safe_edit
<1>2. ASSUME NEW d \in Delivery, NEW o \in Outcomes, d.result = "open"
      PROVE  /\ _deliver(d, o) \in Delivery
             /\ RequestsLeft(_deliver(d, o)) \in 0 .. (RequestsLeft(d) - 1)
  <2>0. d.attempt \in {1, 2} /\ d.fallback \in BOOLEAN
    BY DEF Delivery
  <2>1. CASE o \in {"retry_after", "network"}
    <3>1. _deliver(d, o) = Again(d)
      BY <2>1 DEF _deliver
    <3>2. CASE d.attempt = 2
      BY <1>2, <2>0, <3>1, <3>2, SMT DEF Again, RequestsLeft, Delivery
    <3>3. CASE d.attempt = 1
      BY <1>2, <2>0, <3>1, <3>3, SMT DEF Again, RequestsLeft, Delivery
    <3> QED
      BY <2>0, <3>2, <3>3
  <2>2. CASE o = "reply_gone" /\ d.fallback
    <3>1. _deliver(d, o) = [d EXCEPT !.fallback = FALSE, !.attempt = 1]
      BY <2>2 DEF _deliver
    <3>2. PICK a : d = [attempt |-> a, fallback |-> TRUE, result |-> "open"]
      BY <1>2, <2>2 DEF Delivery
    <3>3. _deliver(d, o) = [attempt |-> 1, fallback |-> FALSE, result |-> "open"]
      BY <3>1, <3>2
    <3>4. RequestsLeft(_deliver(d, o)) = 2 /\ _deliver(d, o) \in Delivery
      BY <3>3, SMT DEF RequestsLeft, Delivery
    <3>5. RequestsLeft(d) \in {3, 4}
      BY <1>2, <2>0, <2>2, SMT DEF RequestsLeft
    <3> QED
      BY <3>4, <3>5
  <2>3. CASE o \notin {"retry_after", "network"} /\ ~(o = "reply_gone" /\ d.fallback)
    <3>1. \E r \in {"sent", "raised", "none"} : _deliver(d, o) = [d EXCEPT !.result = r]
      BY <2>3 DEF _deliver
    <3> QED
      BY <1>2, <2>0, <3>1 DEF RequestsLeft, Delivery
  <2> QED
    BY <2>1, <2>2, <2>3
<1> QED
  BY <1>1, <1>2

-----------------------------------------------------------------------------
(* services/policy.py and handlers/settings.py                             *)

\* Quiet hours are the hours from quiet_start up to quiet_end, counted round the
\* clock, for each of the 24 * 24 intervals; an empty interval is never quiet.
THEOREM QuietHoursWrap ==
  ASSUME NEW chat \in ChatSettings, NEW hour \in Hours
  PROVE  is_quiet_now(chat, hour) <=>
           /\ chat.quiet_hours_enabled
           /\ (hour - chat.quiet_start) % 24 < (chat.quiet_end - chat.quiet_start) % 24
<1>1. chat.quiet_start \in Hours /\ chat.quiet_end \in Hours
  BY DEF ChatSettings
<1>2. \A a, b \in 0 .. 23 : (a - b) % 24 = IF a >= b THEN a - b ELSE a - b + 24
  OBVIOUS
<1> DEFINE from == chat.quiet_start
           to   == chat.quiet_end
<1>3. from \in 0 .. 23 /\ to \in 0 .. 23 /\ hour \in 0 .. 23
  BY <1>1 DEF Hours
<1>4. is_quiet_now(chat, hour) <=>
        /\ chat.quiet_hours_enabled
        /\ from # to
        /\ IF from < to THEN from <= hour /\ hour < to ELSE hour >= from \/ hour < to
  BY DEF is_quiet_now
<1> HIDE DEF from, to
<1>5. (hour - from) % 24 = IF hour >= from THEN hour - from ELSE hour - from + 24
  BY <1>2, <1>3
<1>6. (to - from) % 24 = IF to >= from THEN to - from ELSE to - from + 24
  BY <1>2, <1>3
<1>7. (IF from < to THEN from <= hour /\ hour < to ELSE hour >= from \/ hour < to) /\ from # to
        <=> (hour - from) % 24 < (to - from) % 24
  BY <1>3, <1>5, <1>6, SMT
<1> QED
  BY <1>4, <1>7 DEF from, to

LEMMA Columns ==
  ASSUME NEW chat \in ChatSettings
  PROVE  /\ \A v \in Policies : [chat EXCEPT !.all_policy = v] \in ChatSettings
         /\ \A v \in Policies : [chat EXCEPT !.tag_policy = v] \in ChatSettings
         /\ \A v \in CooldownSeconds : [chat EXCEPT !.cooldown_seconds = v] \in ChatSettings
         /\ \A v \in Zones : [chat EXCEPT !.timezone = v] \in ChatSettings
         /\ [chat EXCEPT !.quiet_hours_enabled = FALSE] \in ChatSettings
         /\ \A v, w \in Hours :
              [chat EXCEPT !.quiet_hours_enabled = TRUE, !.quiet_start = v, !.quiet_end = w]
                \in ChatSettings
<1> DEFINE Flags == BOOLEAN
           Settings ==
             [all_policy : Policies, tag_policy : Policies, cooldown_seconds : CooldownSeconds,
              timezone : Zones, quiet_hours_enabled : Flags, quiet_start : Hours,
              quiet_end : Hours]
<1>1. ChatSettings = Settings
  BY DEF ChatSettings
<1>2. TRUE \in Flags /\ FALSE \in Flags
  OBVIOUS
<1> HIDE DEF Flags
<1>3. ASSUME NEW c \in Settings
      PROVE  /\ \A v \in Policies : [c EXCEPT !.all_policy = v] \in Settings
             /\ \A v \in Policies : [c EXCEPT !.tag_policy = v] \in Settings
             /\ \A v \in CooldownSeconds : [c EXCEPT !.cooldown_seconds = v] \in Settings
             /\ \A v \in Zones : [c EXCEPT !.timezone = v] \in Settings
             /\ \A v \in Flags : [c EXCEPT !.quiet_hours_enabled = v] \in Settings
             /\ \A v \in Hours : [c EXCEPT !.quiet_start = v] \in Settings
             /\ \A v \in Hours : [c EXCEPT !.quiet_end = v] \in Settings
  <2>1. \A v \in Policies : [c EXCEPT !.all_policy = v] \in Settings
    BY SMT
  <2>2. \A v \in Policies : [c EXCEPT !.tag_policy = v] \in Settings
    BY SMT
  <2>3. \A v \in CooldownSeconds : [c EXCEPT !.cooldown_seconds = v] \in Settings
    BY SMT
  <2>4. \A v \in Zones : [c EXCEPT !.timezone = v] \in Settings
    BY SMT
  <2>5. \A v \in Flags : [c EXCEPT !.quiet_hours_enabled = v] \in Settings
    BY SMT
  <2>6. \A v \in Hours : [c EXCEPT !.quiet_start = v] \in Settings
    BY SMT
  <2>7. \A v \in Hours : [c EXCEPT !.quiet_end = v] \in Settings
    BY SMT
  <2> HIDE DEF Settings
  <2> QED
    BY <2>1, <2>2, <2>3, <2>4, <2>5, <2>6, <2>7
<1> HIDE DEF Settings
<1>4. ASSUME NEW v \in Hours, NEW w \in Hours
      PROVE  [chat EXCEPT !.quiet_hours_enabled = TRUE, !.quiet_start = v, !.quiet_end = w]
               \in Settings
  <2>1. [chat EXCEPT !.quiet_hours_enabled = TRUE] \in Settings
    BY <1>1, <1>2, <1>3
  <2>2. [chat EXCEPT !.quiet_hours_enabled = TRUE, !.quiet_start = v] \in Settings
    BY <1>3, <2>1
  <2> QED
    BY <1>3, <2>2
<1> QED
  BY <1>1, <1>2, <1>3, <1>4

LEMMA SetPolicy ==
  ASSUME NEW chat \in ChatSettings, NEW key, NEW vs
  PROVE  set_policy(chat, key, vs).chat \in ChatSettings
<1>1. CASE vs # <<>> /\ vs[1].form \in Policies
  <2>1. [chat EXCEPT !.all_policy = vs[1].form] \in ChatSettings
    BY <1>1, Columns
  <2>2. [chat EXCEPT !.tag_policy = vs[1].form] \in ChatSettings
    BY <1>1, Columns
  <2>3. set_policy(chat, key, vs).chat =
          IF key = "all_policy" THEN [chat EXCEPT !.all_policy = vs[1].form]
                                ELSE [chat EXCEPT !.tag_policy = vs[1].form]
    BY <1>1 DEF set_policy, Saved
  <2> QED
    BY <2>1, <2>2, <2>3
<1>2. CASE ~(vs # <<>> /\ vs[1].form \in Policies)
  BY <1>2 DEF set_policy, Told
<1> QED
  BY <1>1, <1>2

LEMMA SetCooldown ==
  ASSUME NEW chat \in ChatSettings, NEW vs
  PROVE  set_cooldown(chat, vs).chat \in ChatSettings
<1>1. set_cooldown(chat, vs) \in {Told(chat), Raised(chat)}
        \/ /\ vs # <<>> /\ vs[1].value \in CooldownSeconds
           /\ set_cooldown(chat, vs) = Saved([chat EXCEPT !.cooldown_seconds = vs[1].value])
  BY DEF set_cooldown
<1>2. CASE set_cooldown(chat, vs) \in {Told(chat), Raised(chat)}
  BY <1>2 DEF Told, Raised
<1>3. CASE /\ vs # <<>> /\ vs[1].value \in CooldownSeconds
           /\ set_cooldown(chat, vs) = Saved([chat EXCEPT !.cooldown_seconds = vs[1].value])
  <2>1. [chat EXCEPT !.cooldown_seconds = vs[1].value] \in ChatSettings
    BY <1>3, Columns
  <2> QED
    BY <1>3, <2>1 DEF Saved
<1> QED
  BY <1>1, <1>2, <1>3

LEMMA SetTimezone ==
  ASSUME NEW chat \in ChatSettings, NEW vs, vs # <<>> => vs[1].zone \in Zones
  PROVE  set_timezone(chat, vs).chat \in ChatSettings
<1>1. CASE vs # <<>> /\ vs[1].form = "zone"
  <2>1. [chat EXCEPT !.timezone = vs[1].zone] \in ChatSettings
    BY <1>1, Columns
  <2> QED
    BY <1>1, <2>1 DEF set_timezone, Saved
<1>2. CASE ~(vs # <<>> /\ vs[1].form = "zone")
  BY <1>2 DEF set_timezone, Told
<1> QED
  BY <1>1, <1>2

LEMMA SetQuiet ==
  ASSUME NEW chat \in ChatSettings, NEW vs \in Seq(Token)
  PROVE  set_quiet(chat, vs).chat \in ChatSettings
<1> DEFINE off   == [chat EXCEPT !.quiet_hours_enabled = FALSE]
           hours == [chat EXCEPT !.quiet_hours_enabled = TRUE,
                                 !.quiet_start = vs[1].value, !.quiet_end = vs[2].value]
<1>1. \/ set_quiet(chat, vs) \in {Told(chat), Raised(chat), Saved(off)}
      \/ /\ Len(vs) = 2 /\ ~(\E i \in DOMAIN vs : vs[i].value \notin Hours)
         /\ set_quiet(chat, vs) = Saved(hours)
  BY DEF set_quiet
<1>2. off \in ChatSettings
  BY Columns
<1>3. Len(vs) = 2 /\ ~(\E i \in DOMAIN vs : vs[i].value \notin Hours) => hours \in ChatSettings
  <2>1. Len(vs) = 2 => 1 \in DOMAIN vs /\ 2 \in DOMAIN vs
    OBVIOUS
  <2> QED
    BY <2>1, Columns
<1> HIDE DEF off, hours
<1> QED
  BY <1>1, <1>2, <1>3 DEF Told, Raised, Saved

\* Whatever /settings is given, the columns it leaves are in their ranges.
THEOREM SettingsStayInRange ==
  ASSUME NEW chat \in ChatSettings, NEW key, NEW vs \in Seq(Token)
  PROVE  cmd_settings_values(chat, key, vs).chat \in ChatSettings
<1>1. vs # <<>> => vs[1] \in Token
  BY SMT
<1>2. vs # <<>> => vs[1].zone \in Zones
  BY <1>1 DEF Token
<1>3. /\ set_policy(chat, key, vs).chat \in ChatSettings
      /\ set_cooldown(chat, vs).chat \in ChatSettings
      /\ set_timezone(chat, vs).chat \in ChatSettings
      /\ set_quiet(chat, vs).chat \in ChatSettings
  BY <1>2, SetPolicy, SetCooldown, SetTimezone, SetQuiet
<1>4. Told(chat).chat \in ChatSettings
  BY DEF Told
<1>5. cmd_settings_values(chat, key, vs)
        \in {set_policy(chat, key, vs), set_cooldown(chat, vs), set_timezone(chat, vs),
             set_quiet(chat, vs), Told(chat)}
  BY DEF cmd_settings_values
<1> QED
  BY <1>3, <1>4, <1>5

-----------------------------------------------------------------------------
(* The task as a record: what the operators of a command do to it.         *)

Fields ==
  {"pc", "upd", "work", "keep", "verdict", "served", "outlived", "waited", "text", "d", "told",
   "fresh", "escaped"}

Shape(t) == t = [f \in Fields |-> t[f]]

LEMMA TaskShape ==
  ASSUME NEW m, NEW work
  PROVE  LET t == Task(m, work)
         IN Shape(t) /\ t.pc = "start" /\ t.upd = m /\ t.verdict = "open" /\ t.served = Nothing
              /\ t.outlived = {} /\ t.waited = 0
BY DEF Task, Shape, Fields

LEMMA Endings ==
  ASSUME NEW t, Shape(t), NEW pc
  PROVE  LET e == Ending(t, pc)
         IN Shape(e) /\ e.pc = pc /\ e.waited = 0
              /\ e.upd = t.upd /\ e.verdict = t.verdict /\ e.outlived = t.outlived
BY DEF Ending, Shape, Fields

LEMMA Countings ==
  ASSUME NEW t, Shape(t)
  PROVE  LET e == Counting(t)
         IN Shape(e) /\ e.pc = "count" /\ e.waited = 0
              /\ e.upd = t.upd /\ e.verdict = t.verdict /\ e.outlived = t.outlived
BY DEF Counting, Shape, Fields

LEMMA Replyings ==
  ASSUME NEW t, Shape(t)
  PROVE  LET e == Replying(t)
         IN Shape(e) /\ e.pc = "deliver" /\ e.waited = 0
              /\ e.upd = t.upd /\ e.verdict = t.verdict /\ e.outlived = t.outlived
BY DEF Replying, Shape, Fields

LEMMA Grants ==
  ASSUME NEW t, Shape(t)
  PROVE  LET e == Granted(t)
         IN Shape(e) /\ e.pc \in {"count", "deliver", "rollback"} /\ e.waited = 0
              /\ e.upd = t.upd /\ e.verdict = t.verdict /\ e.outlived = t.outlived
<1> DEFINE r == cmd_settings_values(t.keep, t.upd.key, t.upd.values)
           s == [t EXCEPT !.keep = r.chat]
<1>1. Shape(s) /\ s.upd = t.upd /\ s.verdict = t.verdict /\ s.outlived = t.outlived
  BY DEF Shape, Fields
<1>2. Granted(t) \in {Counting(t), Ending(t, "rollback"), Replying(s), Replying(t)}
  BY DEF Granted
<1> HIDE DEF r, s
<1> QED
  BY <1>1, <1>2, Countings, Endings, Replyings

LEMMA Judgements ==
  ASSUME NEW t, Shape(t), NEW yes \in BOOLEAN
  PROVE  LET e == Judged(t, yes)
         IN Shape(e) /\ e.pc \in {"count", "deliver", "rollback"} /\ e.waited = 0
              /\ e.upd = t.upd /\ e.verdict = (IF yes THEN "yes" ELSE "no")
              /\ e.outlived = {}
<1> DEFINE s(v) == [[t EXCEPT !.served = Nothing, !.outlived = {}] EXCEPT !.verdict = v]
<1>1. \A v : Shape(s(v)) /\ s(v).upd = t.upd /\ s(v).verdict = v /\ s(v).outlived = {}
  BY DEF Shape, Fields
<1>2. Judged(t, yes) = IF yes THEN Granted(s("yes")) ELSE Replying(s("no"))
  BY DEF Judged
<1> HIDE DEF s
<1>3. CASE yes
  BY <1>1, <1>2, <1>3, Grants
<1>4. CASE ~yes
  BY <1>1, <1>2, <1>4, Replyings
<1> QED
  BY <1>3, <1>4

-----------------------------------------------------------------------------
(* The invariant: what is known of the list of administrators.             *)

\* The list ids may be wrong only about people whose rights changed in the last
\* "age" ticks.
Agree(ids, age, who, ages) ==
  \A p \in Users : ~(p \in ids <=> p \in who) => ages[p] <= age

CacheFields == {"left", "ids", "outlived"}

CacheOK ==
  /\ cache = [f \in CacheFields |-> cache[f]]
  /\ cache.left \in 0 .. TTL
  /\ cache.left > 0 => Agree(cache.ids, TTL - cache.left, admins, since)
  /\ cache.outlived \subseteq {"refused"}

PCs == {"fetch", "count", "answer", "deliver", "commit", "rollback"}

\* A task under way; the answer on its way is as old as the request at most.
TaskSound(t, who, ages) ==
  /\ Shape(t) /\ t.pc \in PCs
  /\ t.upd.from \in Users
  /\ t.waited \in 0 .. MaxWait
  /\ t.outlived \subseteq {"refused"}
  /\ t.pc = "fetch" /\ t.served # Nothing => Agree(t.served, t.waited, who, ages)

TaskOK == task = Idle \/ TaskSound(task, admins, since)

IInv ==
  /\ since \in [Users -> 0 .. TTL]
  /\ CacheOK
  /\ TaskOK

\* A task that waits for no list is sound by its shape alone.
LEMMA SoundElsewhere ==
  ASSUME NEW t, NEW who, NEW ages, Shape(t), t.pc \in PCs \ {"fetch"}, t.upd.from \in Users,
         t.waited = 0, t.outlived \subseteq {"refused"}
  PROVE  TaskSound(t, who, ages)
BY RollcallAssumption DEF TaskSound

\* So are the ends of a step that only moves a task on.
LEMMA SoundMoves ==
  ASSUME NEW t, NEW who, NEW ages, Shape(t), t.upd.from \in Users,
         t.outlived \subseteq {"refused"}
  PROVE  /\ TaskSound(Counting(t), who, ages) /\ TaskSound(Replying(t), who, ages)
         /\ \A pc \in {"commit", "rollback"} : TaskSound(Ending(t, pc), who, ages)
         /\ \A yes \in BOOLEAN : TaskSound(Judged(t, yes), who, ages)
<1>1. TaskSound(Counting(t), who, ages)
  BY Countings, SoundElsewhere DEF PCs
<1>2. TaskSound(Replying(t), who, ages)
  BY Replyings, SoundElsewhere DEF PCs
<1>3. ASSUME NEW pc \in {"commit", "rollback"}
      PROVE  TaskSound(Ending(t, pc), who, ages)
  BY Endings, SoundElsewhere DEF PCs
<1>4. ASSUME NEW yes \in BOOLEAN
      PROVE  TaskSound(Judged(t, yes), who, ages)
  BY Judgements, SoundElsewhere DEF PCs
<1> QED
  BY <1>1, <1>2, <1>3, <1>4

LEMMA Begins == Init => IInv
<1> SUFFICES ASSUME Init PROVE IInv
  OBVIOUS
<1>1. since \in [Users -> 0 .. TTL]
  BY PolicyAssumption DEF Init
<1>2. CacheOK
  BY PolicyAssumption DEF Init, CacheOK, NoEntry, CacheFields
<1>3. TaskOK
  BY DEF Init, TaskOK
<1> QED
  BY <1>1, <1>2, <1>3 DEF IInv

LEMMA Busy ==
  ASSUME TaskOK, task.pc # "idle"
  PROVE  TaskSound(task, admins, since)
BY DEF TaskOK, Idle

\* Nobody is judged in this step.
Unjudged ==
  task' = Idle \/ task'.verdict = "open" \/ (task # Idle /\ task'.verdict = task.verdict)

\* A step that changes none of the list, the administrators and the time.
LEMMA TaskAlone ==
  ASSUME IInv, UNCHANGED <<admins, since, cache>>, task' = Idle \/ TaskSound(task', admins, since)
  PROVE  IInv'
<1>1. (since \in [Users -> 0 .. TTL])'
  BY DEF IInv
<1>2. CacheOK'
  BY DEF IInv, CacheOK
<1>3. TaskOK'
  BY DEF TaskOK, Idle
<1> QED
  BY <1>1, <1>2, <1>3 DEF IInv

-----------------------------------------------------------------------------
(* The steps, one by one.                                                  *)

LEMMA OtherUpdateKeeps ==
  ASSUME IInv, NEW m \in Updates, OtherUpdate(m)
  PROVE  IInv' /\ Unjudged
BY TaskAlone DEF OtherUpdate, Unjudged

LEMMA SharedEntryKeeps ==
  ASSUME IInv, SharedEntry
  PROVE  IInv' /\ Unjudged
<1>1. task = Idle /\ task' = Idle /\ UNCHANGED <<admins, since, cache>>
  BY DEF SharedEntry
<1> QED
  BY <1>1, TaskAlone DEF Unjudged

LEMMA RemovalKeeps ==
  ASSUME IInv, bot_removed
  PROVE  IInv' /\ Unjudged
<1>1. CASE RemovalDone
  <2>1. cache' = NoEntry /\ task = Idle /\ task' = Idle /\ UNCHANGED <<admins, since>>
    BY <1>1 DEF RemovalDone, invalidate
  <2>2. CacheOK'
    BY <2>1, PolicyAssumption DEF CacheOK, NoEntry, CacheFields
  <2> QED
    BY <2>1, <2>2 DEF IInv, TaskOK, Idle, Unjudged
<1>2. CASE RemovalRefused
  <2>1. UNCHANGED <<admins, since>>
    BY <1>2 DEF RemovalRefused
  <2>2. CacheOK'
    <3>1. /\ cache' = [f \in CacheFields |-> cache'[f]]
          /\ cache'.left = cache.left /\ cache'.ids = cache.ids
          /\ cache'.outlived = Outlived(cache.ids, cache.outlived \union {"refused"})
      BY <1>2 DEF IInv, CacheOK, CacheFields, RemovalRefused
    <3>2. cache'.outlived \subseteq {"refused"}
      BY <3>1 DEF IInv, CacheOK, Outlived
    <3> QED
      BY <2>1, <3>1, <3>2 DEF IInv, CacheOK
  <2>3. CASE task' = task
    BY <2>1, <2>2, <2>3 DEF IInv, TaskOK, Unjudged
  <2>4. CASE task' # task
    <3>1. /\ task # Idle /\ task' = [task EXCEPT !.outlived = @ \union {"refused"}]
      BY <1>2, <2>4 DEF RemovalRefused, Outlives
    <3>2. TaskSound(task, admins, since)
      BY <3>1 DEF IInv, TaskOK
    <3>3. /\ Shape(task') /\ task'.outlived = task.outlived \union {"refused"}
          /\ task'.pc = task.pc /\ task'.upd = task.upd /\ task'.waited = task.waited
          /\ task'.served = task.served /\ task'.verdict = task.verdict
      BY <3>1, <3>2 DEF TaskSound, Shape, Fields
    <3>4. TaskSound(task', admins, since)
      BY <3>2, <3>3 DEF TaskSound
    <3> QED
      BY <2>1, <2>2, <3>1, <3>3, <3>4 DEF IInv, TaskOK, Unjudged
  <2> QED
    BY <2>3, <2>4
<1> QED
  BY <1>1, <1>2 DEF bot_removed

LEMMA CrashKeeps ==
  ASSUME IInv, Crash
  PROVE  IInv' /\ Unjudged
<1>1. cache' = NoEntry /\ task' = Idle /\ UNCHANGED <<admins, since>>
  BY DEF Crash
<1>2. CacheOK'
  BY <1>1, PolicyAssumption DEF CacheOK, NoEntry, CacheFields
<1> QED
  BY <1>1, <1>2 DEF IInv, TaskOK, Idle, Unjudged

\* Whose rights change now is excused from agreement.
LEMMA PromoteKeeps ==
  ASSUME IInv, NEW p \in Promoted, Promote(p)
  PROVE  IInv' /\ Unjudged
<1>1. /\ since \in [Users -> 0 .. TTL] /\ p \in Users
      /\ since' = [since EXCEPT ![p] = 0]
      /\ admins' = IF p \in admins THEN admins \ {p} ELSE admins \union {p}
      /\ UNCHANGED <<cache, task>>
  BY RollcallAssumption DEF IInv, Promote
<1>2. since' \in [Users -> 0 .. TTL]
  BY <1>1, PolicyAssumption
<1>3. ASSUME NEW ids, NEW age \in Nat, Agree(ids, age, admins, since)
      PROVE  Agree(ids, age, admins', since')
  <2> SUFFICES ASSUME NEW q \in Users, ~(q \in ids <=> q \in admins')
               PROVE  since'[q] <= age
    BY DEF Agree
  <2>1. CASE q = p
    BY <1>1, <2>1
  <2>2. CASE q # p
    <3>1. q \in admins' <=> q \in admins
      BY <1>1, <2>2
    <3>2. since'[q] = since[q]
      BY <1>1, <2>2
    <3> QED
      BY <1>3, <3>1, <3>2 DEF Agree
  <2> QED
    BY <2>1, <2>2
<1>4. CacheOK'
  <2>1. CacheOK
    BY DEF IInv
  <2>2. cache.left > 0 => TTL - cache.left \in Nat
    BY <2>1, PolicyAssumption DEF CacheOK
  <2>3. cache.left > 0 => Agree(cache.ids, TTL - cache.left, admins', since')
    BY <1>3, <2>1, <2>2 DEF CacheOK
  <2> QED
    BY <1>1, <2>1, <2>3 DEF CacheOK
<1>5. TaskOK'
  <2>1. CASE task = Idle
    BY <1>1, <2>1 DEF TaskOK, Idle
  <2>2. CASE TaskSound(task, admins, since)
    <3>1. task.waited \in Nat
      BY <2>2, RollcallAssumption DEF TaskSound
    <3>2. TaskSound(task, admins', since')
      BY <1>3, <2>2, <3>1 DEF TaskSound
    <3> QED
      BY <1>1, <3>2 DEF TaskOK
  <2> QED
    BY <2>1, <2>2 DEF IInv, TaskOK
<1> QED
  BY <1>1, <1>2, <1>4, <1>5 DEF IInv, Unjudged

\* The list, the request and the change of rights all grow a tick older.
LEMMA TickKeeps ==
  ASSUME IInv, Tick
  PROVE  IInv' /\ Unjudged
<1>1. /\ since \in [Users -> 0 .. TTL]
      /\ since' = [p \in Users |-> Capped(since[p] + 1, TTL)]
      /\ cache' = Aged(cache) /\ UNCHANGED admins
  BY DEF IInv, Tick
<1>2. \A p \in Users : since[p] \in 0 .. TTL /\ since'[p] \in 0 .. TTL /\ since'[p] <= since[p] + 1
  BY <1>1, PolicyAssumption DEF Capped
<1>3. since' \in [Users -> 0 .. TTL]
  BY <1>1, <1>2
<1>4. ASSUME NEW ids, NEW age \in Nat, Agree(ids, age, admins, since)
      PROVE  Agree(ids, age + 1, admins', since')
  <2> SUFFICES ASSUME NEW q \in Users, ~(q \in ids <=> q \in admins)
               PROVE  since'[q] <= age + 1
    BY <1>1 DEF Agree
  <2>1. since[q] <= age
    BY <1>4 DEF Agree
  <2> QED
    BY <1>2, <2>1
<1>5. CacheOK'
  <2>1. /\ cache = [f \in CacheFields |-> cache[f]]
        /\ cache.left \in 0 .. TTL
        /\ cache.left > 0 => Agree(cache.ids, TTL - cache.left, admins, since)
        /\ cache.outlived \subseteq {"refused"}
    BY DEF IInv, CacheOK
  <2>2. /\ cache' = [f \in CacheFields |-> cache'[f]]
        /\ cache'.left = IF cache.left > 0 THEN cache.left - 1 ELSE 0
        /\ cache'.ids = cache.ids /\ cache'.outlived = cache.outlived
    BY <1>1, <2>1 DEF Aged, CacheFields
  <2>3. cache'.left \in 0 .. TTL
    BY <2>1, <2>2, PolicyAssumption
  <2>4. ASSUME cache'.left > 0
        PROVE  Agree(cache'.ids, TTL - cache'.left, admins', since')
    <3>1. cache.left > 0 /\ cache'.left = cache.left - 1
      BY <2>1, <2>2, <2>4
    <3>2. TTL - cache.left \in Nat /\ TTL - cache'.left = (TTL - cache.left) + 1
      BY <2>1, <3>1, PolicyAssumption
    <3> QED
      BY <1>4, <2>1, <2>2, <3>1, <3>2
  <2> QED
    BY <2>1, <2>2, <2>3, <2>4 DEF CacheOK
<1>6. TaskOK' /\ Unjudged
  <2>1. CASE task = Idle
    BY <2>1 DEF Tick, TaskOK, Idle, Unjudged
  <2>2. CASE task # Idle
    <3>1. TaskSound(task, admins, since)
      BY <2>2 DEF IInv, TaskOK
    <3>2. task' = [task EXCEPT !.waited = @ + 1] /\ task.waited < MaxWait
      BY <2>2 DEF Tick
    <3>3. /\ Shape(task') /\ task'.waited = task.waited + 1
          /\ task'.pc = task.pc /\ task'.upd = task.upd /\ task'.outlived = task.outlived
          /\ task'.served = task.served /\ task'.verdict = task.verdict
      BY <3>1, <3>2 DEF TaskSound, Shape, Fields
    <3>4. task.waited \in Nat /\ task'.waited \in 0 .. MaxWait
      BY <3>1, <3>2, <3>3, RollcallAssumption DEF TaskSound
    <3>5. task'.pc = "fetch" /\ task'.served # Nothing
            => Agree(task'.served, task'.waited, admins', since')
      BY <1>4, <3>1, <3>3, <3>4 DEF TaskSound
    <3>6. TaskSound(task', admins', since')
      BY <3>1, <3>3, <3>4, <3>5 DEF TaskSound
    <3> QED
      BY <2>2, <3>3, <3>6 DEF TaskOK, Unjudged
  <2> QED
    BY <2>1, <2>2
<1> QED
  BY <1>3, <1>5, <1>6 DEF IInv

\* Telegram looks: the list it answers with is right at that moment.
LEMMA ServeKeeps ==
  ASSUME IInv, Serve
  PROVE  IInv' /\ Unjudged
<1>1. task.pc = "fetch" /\ task' = [task EXCEPT !.served = admins]
        /\ UNCHANGED <<admins, since, cache>>
  BY DEF Serve
<1>2. TaskSound(task, admins, since) /\ task # Idle
  BY <1>1, Busy DEF IInv, Idle
<1>3. /\ Shape(task') /\ task'.served = admins
      /\ task'.waited = task.waited /\ task'.pc = task.pc /\ task'.upd = task.upd
      /\ task'.outlived = task.outlived /\ task'.verdict = task.verdict
  BY <1>1, <1>2 DEF TaskSound, Shape, Fields
<1>4. Agree(admins, task.waited, admins, since)
  BY DEF Agree
<1>5. TaskSound(task', admins, since)
  BY <1>2, <1>3, <1>4 DEF TaskSound
<1> QED
  BY <1>1, <1>2, <1>3, <1>5, TaskAlone DEF Unjudged

LEMMA FetchFailsKeeps ==
  ASSUME IInv, FetchFails
  PROVE  IInv'
<1>1. task.pc = "fetch" /\ UNCHANGED <<admins, since, cache>>
  BY DEF FetchFails
<1>2. TaskSound(task, admins, since)
  BY <1>1, Busy DEF IInv
<1>3. CASE task' = Judged(task, is_admin(task.upd.from, Fallback(cache)))
  <2>1. is_admin(task.upd.from, Fallback(cache)) \in BOOLEAN
    BY DEF is_admin
  <2> QED
    BY <1>1, <1>2, <1>3, <2>1, SoundMoves, TaskAlone DEF TaskSound
<1>4. CASE task' = Ending([task EXCEPT !.served = Nothing, !.outlived = {}, !.escaped = TRUE],
                          "rollback")
  <2> DEFINE t == [task EXCEPT !.served = Nothing, !.outlived = {}, !.escaped = TRUE]
  <2>1. Shape(t) /\ t.upd = task.upd /\ t.outlived = {}
    BY <1>2 DEF TaskSound, Shape, Fields
  <2> HIDE DEF t
  <2>2. TaskSound(Ending(t, "rollback"), admins, since)
    BY <1>2, <2>1, SoundMoves DEF TaskSound
  <2> QED
    BY <1>1, <1>4, <2>2, TaskAlone DEF t
<1> QED
  BY <1>3, <1>4 DEF FetchFails

LEMMA PressKeeps ==
  ASSUME IInv, NEW u \in Users \ Bots, Press(u)
  PROVE  IInv' /\ Unjudged
<1> DEFINE m == [kind |-> "on_here", chat |-> Group, from |-> u]
           t == Task(m, on_here(db, m))
<1>1. task' = [t EXCEPT !.pc = "answer"] /\ UNCHANGED <<admins, since, cache>>
  BY DEF Press
<1>2. m.from \in Users
  OBVIOUS
<1> HIDE DEF m
<1>3. Shape(t) /\ t.upd = m /\ t.verdict = "open" /\ t.outlived = {} /\ t.waited = 0
  BY TaskShape
<1> HIDE DEF t
<1>4. Shape(task') /\ task'.pc = "answer" /\ task'.upd = m /\ task'.verdict = "open"
        /\ task'.outlived = {} /\ task'.waited = 0
  BY <1>1, <1>3 DEF Shape, Fields
<1>5. TaskSound(task', admins, since)
  BY <1>2, <1>4, SoundElsewhere DEF PCs
<1> QED
  BY <1>1, <1>4, <1>5, TaskAlone DEF Unjudged

LEMMA AnswerKeeps ==
  ASSUME IInv, Answer
  PROVE  IInv' /\ Unjudged
<1>1. task.pc = "answer" /\ UNCHANGED <<admins, since, cache>>
  BY DEF Answer
<1>2. TaskSound(task, admins, since) /\ task # Idle
  BY <1>1, Busy DEF IInv, Idle
<1>3. ASSUME NEW told \in BOOLEAN
      PROVE  LET t == [task EXCEPT !.told = told]
             IN Shape(t) /\ t.upd = task.upd /\ t.outlived = task.outlived
                  /\ t.verdict = task.verdict
  BY <1>2 DEF TaskSound, Shape, Fields
<1>4. ASSUME NEW t, Shape(t)
      PROVE  LET w == [t EXCEPT !.fresh = TRUE] x == [t EXCEPT !.escaped = TRUE]
             IN /\ Shape(w) /\ w.upd = t.upd /\ w.outlived = t.outlived /\ w.verdict = t.verdict
                /\ Shape(x) /\ x.upd = t.upd /\ x.outlived = t.outlived /\ x.verdict = t.verdict
  BY <1>4 DEF Shape, Fields
<1>5. ASSUME NEW t, Shape(t), t.upd = task.upd, t.outlived = task.outlived, t.verdict = task.verdict
      PROVE  /\ TaskSound(Ending(t, "commit"), admins, since) /\ TaskSound(Counting(t), admins, since)
             /\ TaskSound(Ending(t, "rollback"), admins, since)
             /\ Ending(t, "commit").verdict = task.verdict
             /\ Ending(t, "rollback").verdict = task.verdict
             /\ Counting(t).verdict = task.verdict
  <2>1. t.upd.from \in Users /\ t.outlived \subseteq {"refused"}
    BY <1>2, <1>5 DEF TaskSound
  <2>2. /\ TaskSound(Ending(t, "commit"), admins, since) /\ TaskSound(Counting(t), admins, since)
        /\ TaskSound(Ending(t, "rollback"), admins, since)
    BY <1>5, <2>1, SoundMoves
  <2> QED
    BY <1>5, <2>2, Endings, Countings
<1>6. PICK told \in BOOLEAN :
        LET t == [task EXCEPT !.told = told]
        IN task' \in {Ending(t, "commit"), Counting([t EXCEPT !.fresh = TRUE]),
                      Ending([t EXCEPT !.escaped = TRUE], "rollback")}
  BY DEF Answer, Refreshing
<1> DEFINE t == [task EXCEPT !.told = told]
           w == [t EXCEPT !.fresh = TRUE]
           x == [t EXCEPT !.escaped = TRUE]
<1>7. Shape(t) /\ t.upd = task.upd /\ t.outlived = task.outlived /\ t.verdict = task.verdict
  BY <1>3
<1>8. task' \in {Ending(t, "commit"), Counting(w), Ending(x, "rollback")}
  BY <1>6
<1> HIDE DEF t
<1>9. /\ Shape(w) /\ w.upd = t.upd /\ w.outlived = t.outlived /\ w.verdict = t.verdict
      /\ Shape(x) /\ x.upd = t.upd /\ x.outlived = t.outlived /\ x.verdict = t.verdict
  BY <1>4, <1>7
<1> HIDE DEF w, x
<1>10. TaskSound(task', admins, since) /\ task'.verdict = task.verdict
  BY <1>5, <1>7, <1>8, <1>9
<1> QED
  BY <1>1, <1>2, <1>10, TaskAlone DEF Unjudged

LEMMA CountKeeps ==
  ASSUME IInv, Count
  PROVE  IInv' /\ Unjudged
<1>1. task.pc = "count" /\ UNCHANGED <<admins, since, cache>>
  BY DEF Count
<1>2. TaskSound(task, admins, since) /\ task # Idle
  BY <1>1, Busy DEF IInv, Idle
<1>3. PICK text :
        LET t == [task EXCEPT !.text = text, !.waited = 0, !.pc = "deliver"]
        IN \/ \E d : task' = [t EXCEPT !.d = d]
           \/ task' = Ending(t, "commit")
  BY DEF Count
<1> DEFINE t == [task EXCEPT !.text = text, !.waited = 0, !.pc = "deliver"]
<1>4. CASE task' = Ending(t, "commit")
  <2>1. Shape(t) /\ t.upd = task.upd /\ t.outlived = task.outlived /\ t.verdict = task.verdict
    BY <1>2 DEF TaskSound, Shape, Fields
  <2> HIDE DEF t
  <2>2. TaskSound(task', admins, since) /\ task'.verdict = task.verdict
    BY <1>2, <1>4, <2>1, SoundMoves, Endings DEF TaskSound
  <2> QED
    BY <1>1, <1>2, <2>2, TaskAlone DEF Unjudged
<1>5. CASE \E d : task' = [t EXCEPT !.d = d]
  <2>1. PICK d : task' = [t EXCEPT !.d = d]
    BY <1>5
  <2>2. /\ Shape(task') /\ task'.upd = task.upd /\ task'.outlived = task.outlived
        /\ task'.verdict = task.verdict /\ task'.pc = "deliver" /\ task'.waited = 0
    BY <1>2, <2>1 DEF TaskSound, Shape, Fields
  <2>3. TaskSound(task', admins, since)
    BY <1>2, <2>2, SoundElsewhere DEF TaskSound, PCs
  <2> QED
    BY <1>1, <1>2, <2>2, <2>3, TaskAlone DEF Unjudged
<1> QED
  BY <1>3, <1>4, <1>5

LEMMA DeliverKeeps ==
  ASSUME IInv, NEW o \in Outcomes, Deliver(o)
  PROVE  IInv' /\ Unjudged
<1> DEFINE end == _deliver(task.d, o)
           late == (o = "unreadable")
           t == [task EXCEPT !.d = end, !.waited = 0, !.escaped = late]
<1>1. /\ task.pc = "deliver" /\ UNCHANGED <<admins, since, cache>>
      /\ task' \in {t, Ending(t, "rollback"), Ending(t, "commit")}
  BY DEF Deliver
<1>2. TaskSound(task, admins, since) /\ task # Idle
  BY <1>1, Busy DEF IInv, Idle
<1> HIDE DEF end, late
<1>3. /\ Shape(t) /\ t.upd = task.upd /\ t.outlived = task.outlived
      /\ t.verdict = task.verdict /\ t.pc = "deliver" /\ t.waited = 0
  BY <1>1, <1>2 DEF TaskSound, Shape, Fields
<1> HIDE DEF t
<1>4. TaskSound(t, admins, since)
  BY <1>2, <1>3, SoundElsewhere DEF TaskSound, PCs
<1>5. TaskSound(task', admins, since) /\ task'.verdict = task.verdict
  BY <1>1, <1>2, <1>3, <1>4, SoundMoves, Endings DEF TaskSound
<1> QED
  BY <1>1, <1>2, <1>5, TaskAlone DEF Unjudged

LEMMA EndKeeps ==
  ASSUME IInv, Commit \/ Rollback
  PROVE  IInv' /\ Unjudged
<1>1. task' = Idle /\ UNCHANGED <<admins, since, cache>>
  BY DEF Commit, Rollback
<1> QED
  BY <1>1, TaskAlone DEF Unjudged

\* The verdict of this step is recent.
Recent ==
  NeedsList(task'.upd.from) /\ ~LetsAllIn(task'.upd) =>
    LET p == task'.upd.from
    IN IF task'.verdict = "yes" THEN LastIn(p) < TTL ELSE LastOut(p) < TTL

\* A list that agrees with the truth but for young changes gives recent verdicts.
LEMMA VerdictIsRecent ==
  ASSUME NEW p \in Users, NEW ids, NEW age \in 0 .. (TTL - 1),
         since \in [Users -> 0 .. TTL], Agree(ids, age, admins, since)
  PROVE  IF p \in ids THEN LastIn(p) < TTL ELSE LastOut(p) < TTL
<1>1. since[p] \in 0 .. TTL /\ (~(p \in ids <=> p \in admins) => since[p] < TTL)
  BY PolicyAssumption DEF Agree
<1> QED
  BY <1>1, PolicyAssumption DEF LastIn, LastOut

\* The answer came in time: it is written down with its age, and judged by.
LEMMA ArriveKeeps ==
  ASSUME IInv, Arrive
  PROVE  IInv' /\ Recent
<1> DEFINE yes == is_admin(task.upd.from, task.served)
<1>1. /\ task.pc = "fetch" /\ task.served # Nothing /\ UNCHANGED <<admins, since>>
      /\ cache' = Fetched(task.served, task.waited, Outlived(task.served, task.outlived))
      /\ task' = Judged(task, yes)
  BY DEF Arrive
<1>2. TaskSound(task, admins, since) /\ task # Idle
  BY <1>1, Busy DEF IInv, Idle
<1>3. /\ task.waited \in 0 .. (TTL - 1) /\ task.upd.from \in Users
      /\ task.outlived \subseteq {"refused"} /\ Agree(task.served, task.waited, admins, since)
  BY <1>1, <1>2, RollcallAssumption, PolicyAssumption DEF TaskSound
<1>4. CacheOK'
  <2>0. task.waited < TTL
    BY <1>3, PolicyAssumption
  <2>1. /\ cache' = [f \in CacheFields |-> cache'[f]]
        /\ cache'.left = TTL - task.waited /\ cache'.ids = task.served
        /\ cache'.outlived \subseteq {"refused"}
    <3> DEFINE out == Outlived(task.served, task.outlived)
    <3>1. cache' = [left |-> TTL - task.waited, ids |-> task.served, outlived |-> out]
      BY <1>1, <2>0 DEF Fetched
    <3>2. out \subseteq {"refused"}
      BY <1>3 DEF Outlived
    <3> HIDE DEF out
    <3> QED
      BY <3>1, <3>2 DEF CacheFields
  <2>2. TTL - task.waited \in 0 .. TTL /\ TTL - (TTL - task.waited) = task.waited
    BY <1>3, PolicyAssumption
  <2> QED
    BY <1>1, <1>3, <2>1, <2>2 DEF CacheOK
<1>5. yes \in BOOLEAN
  BY DEF is_admin
<1>6. /\ TaskSound(task', admins, since) /\ task'.upd = task.upd
      /\ task'.verdict = IF yes THEN "yes" ELSE "no"
  <2> HIDE DEF yes
  <2> QED
    BY <1>1, <1>2, <1>5, SoundMoves, Judgements DEF TaskSound
<1>7. IInv'
  BY <1>1, <1>4, <1>6 DEF IInv, TaskOK
<1>8. NeedsList(task.upd.from) => (yes <=> task.upd.from \in task.served)
  BY DEF NeedsList, is_admin
<1> HIDE DEF yes
<1>9. Recent
  BY <1>3, <1>6, <1>8, VerdictIsRecent DEF IInv, Recent
<1> QED
  BY <1>7, <1>9

LEMMA CommandKeeps ==
  ASSUME IInv, NEW m \in Commands, Command(m)
  PROVE  IInv' /\ (Unjudged \/ Recent)
<1> DEFINE work == MemberTrackerMiddleware(db, m)
           yes  == is_admin(m.from, cache.ids)
<1> HIDE DEF work
<1> DEFINE t == Task(m, work)
<1>1. /\ UNCHANGED <<admins, since, cache>> /\ task = Idle
      /\ task' = IF LetsAllIn(m) \/ ~NeedsList(m.from) THEN Judged(t, TRUE)
                 ELSE IF Valid(cache) THEN Judged(t, yes) ELSE [t EXCEPT !.pc = "fetch"]
  BY DEF Command, work
<1>2. m.from \in Users
  BY RollcallAssumption
<1>3. Shape(t) /\ t.upd = m /\ t.verdict = "open" /\ t.served = Nothing /\ t.outlived = {}
        /\ t.waited = 0
  BY TaskShape
<1> HIDE DEF t
<1>4. yes \in BOOLEAN /\ (NeedsList(m.from) => (yes <=> m.from \in cache.ids))
  BY DEF is_admin, NeedsList
<1> HIDE DEF yes
<1>5. ASSUME NEW b \in BOOLEAN, task' = Judged(t, b)
      PROVE  IInv' /\ task'.upd = m /\ task'.verdict = IF b THEN "yes" ELSE "no"
  <2>1. TaskSound(task', admins, since)
    BY <1>2, <1>3, <1>5, SoundMoves
  <2>2. task'.upd = m /\ task'.verdict = IF b THEN "yes" ELSE "no"
    BY <1>3, <1>5, Judgements
  <2> QED
    BY <1>1, <2>1, <2>2, TaskAlone
<1>6. CASE LetsAllIn(m) \/ ~NeedsList(m.from)
  <2>1. task' = Judged(t, TRUE)
    BY <1>1, <1>6
  <2> QED
    BY <1>5, <1>6, <2>1 DEF Recent
<1>7. CASE ~(LetsAllIn(m) \/ ~NeedsList(m.from)) /\ Valid(cache)
  <2>1. task' = Judged(t, yes)
    BY <1>1, <1>7
  <2>2. IInv' /\ task'.upd = m /\ task'.verdict = IF yes THEN "yes" ELSE "no"
    BY <1>4, <1>5, <2>1
  <2>3. TTL - cache.left \in 0 .. (TTL - 1) /\ Agree(cache.ids, TTL - cache.left, admins, since)
    BY <1>7, PolicyAssumption DEF IInv, CacheOK, Valid
  <2>4. Recent
    BY <1>2, <1>4, <1>7, <2>2, <2>3, VerdictIsRecent DEF IInv, Recent
  <2> QED
    BY <2>2, <2>4
<1>8. CASE ~(LetsAllIn(m) \/ ~NeedsList(m.from)) /\ ~Valid(cache)
  <2>1. task' = [t EXCEPT !.pc = "fetch"]
    BY <1>1, <1>8
  <2>2. Shape(task') /\ task'.upd = m /\ task'.verdict = "open" /\ task'.served = Nothing
          /\ task'.outlived = {} /\ task'.waited = 0 /\ task'.pc = "fetch"
    BY <1>3, <2>1 DEF Shape, Fields
  <2>3. TaskSound(task', admins, since)
    BY <1>2, <2>2, RollcallAssumption DEF TaskSound, PCs
  <2> QED
    BY <1>1, <2>2, <2>3, TaskAlone DEF Unjudged
<1> QED
  BY <1>6, <1>7, <1>8

-----------------------------------------------------------------------------
(* Together.                                                               *)

LEMMA Keeps ==
  ASSUME IInv, [Next]_vars
  PROVE  IInv' /\ (Unjudged \/ Recent \/ FetchFails)
<1>1. CASE UNCHANGED vars
  <2>1. UNCHANGED <<admins, since, cache, task>>
    BY <1>1 DEF vars
  <2>2. task' = Idle \/ TaskSound(task', admins, since)
    BY <2>1 DEF IInv, TaskOK
  <2>3. Unjudged
    BY <2>1 DEF Unjudged
  <2> QED
    BY <2>1, <2>2, <2>3, TaskAlone
<1>2. CASE Step
  <2>1. CASE FetchFails
    BY <2>1, FetchFailsKeeps
  <2>2. CASE \E o \in Outcomes : Deliver(o)
    BY <2>2, DeliverKeeps
  <2>3. CASE Serve \/ Arrive \/ Answer \/ Count \/ Commit \/ Rollback
    BY <2>3, ServeKeeps, ArriveKeeps, AnswerKeeps, CountKeeps, EndKeeps
  <2> QED
    BY <1>2, <2>1, <2>2, <2>3 DEF Step
<1>3. CASE \E m \in Updates : OtherUpdate(m)
  BY <1>3, OtherUpdateKeeps
<1>4. CASE \E m \in Commands : Command(m)
  BY <1>4, CommandKeeps
<1>5. CASE \E u \in Users \ Bots : Press(u)
  BY <1>5, PressKeeps
<1>6. CASE \E p \in Promoted : Promote(p)
  BY <1>6, PromoteKeeps
<1>7. CASE bot_removed \/ SharedEntry \/ Tick \/ Crash
  BY <1>7, RemovalKeeps, SharedEntryKeeps, TickKeeps, CrashKeeps
<1> QED
  BY <1>1, <1>2, <1>3, <1>4, <1>5, <1>6, <1>7 DEF Next

LEMMA Invariant == Spec => []IInv
<1>1. Init => IInv
  BY Begins
<1>2. IInv /\ [Next]_vars => IInv'
  BY Keeps
<1> QED
  BY <1>1, <1>2, PTL DEF Spec

\* A list of administrators asked for before the bot's removal from the chat outlives
\* it only if the removal's UPDATE was refused the write lock: otherwise the removal
\* waits for the task that asked for the list.
THEOREM DroppedWithTheBotHolds == Spec => []DroppedWithTheBot
<1>1. IInv => DroppedWithTheBot
  BY DEF IInv, CacheOK, DroppedWithTheBot
<1> QED
  BY <1>1, Invariant, PTL

\* Verdicts on rights are younger than the list may grow, for any ttl and any
\* request shorter than it.
THEOREM RightsAreRecentHolds == Spec => RightsAreRecent
<1> DEFINE Fine ==
      Judges => LET p == task'.upd.from
                IN IF task'.verdict = "yes" THEN LastIn(p) < TTL ELSE LastOut(p) < TTL
<1>1. IInv /\ [Next]_vars => [Fine]_vars
  <2> SUFFICES ASSUME IInv, [Next]_vars, Judges PROVE Fine
    OBVIOUS
  <2>1. ~Unjudged /\ ~FetchFails
    BY DEF Judges, Unjudged
  <2>2. Recent
    BY <2>1, Keeps
  <2> QED
    BY <2>2 DEF Recent, Judges
<1> QED
  BY <1>1, Invariant, PTL DEF Spec, RightsAreRecent

-----------------------------------------------------------------------------
(* The invariant: what the task carries, and what the chat sees.           *)

IsPress(t) == t.upd.kind = "on_here"

\* What a task carries from its first step to its last.
Carries(t) ==
  /\ Sound(t.work) /\ t.keep \in ChatSettings
  /\ t.served # Nothing => t.served \subseteq Users
  /\ IF IsPress(t) THEN <<Group, t.upd.from>> \in t.work.active ELSE t.upd \in Commands

Counted(t) == count_active_members(t.work, Group)

\* Where it is: its text counts its own work, and a press that was confirmed is
\* undone only by an exception outside TelegramAPIError.
Placed(t) ==
  /\ t.d \in Delivery
  /\ t.pc = "deliver" => t.d.result = "open"
  /\ t.pc = "count" =>
       /\ t.upd.kind \in {"cmd_rollcall", "on_here"}
       /\ t.text = [known |-> Counted(t), total |-> 0]
  /\ t.pc = "deliver" /\ Role(t) # "reply" => t.text \in Text
  /\ t.pc = "answer" => IsPress(t) /\ ~t.fresh
  /\ IsPress(t) =>
       /\ t.pc # "fetch"
       /\ t.pc = "rollback" /\ t.told => t.escaped
       /\ t.pc = "deliver" => t.text.known = Counted(t)

Typed ==
  /\ Sound(db) /\ settings \in ChatSettings
  /\ admins \subseteq Promoted /\ cache \in Entry
  /\ shown \in Text \union {Nothing} /\ doubt \in BOOLEAN
  /\ state # Nothing => state.age \in 0 .. COUNTER_REFRESH_SECONDS /\ state.text \in Text

\* While an edit is under way the state is ahead of the chat, by that edit.
Shows ==
  /\ StateMatchesChat
  /\ task # Idle /\ IsPress(task) =>
       /\ task.pc = "deliver" /\ state # Nothing => state.text = task.text
       /\ task.pc = "commit" /\ task.fresh /\ ~doubt =>
            shown.known = Counted(task)

Carried == task = Idle \/ (Carries(task) /\ Placed(task))

Good == IInv /\ Typed /\ Carried /\ Shows

-----------------------------------------------------------------------------
(* The operators of a task, field by field.                                *)

\* Two tasks that carry the same, and were judged the same.
Alike(e, t) ==
  /\ e.upd = t.upd /\ e.work = t.work /\ e.keep = t.keep /\ e.served = t.served
  /\ e.told = t.told /\ e.fresh = t.fresh /\ e.escaped = t.escaped /\ e.verdict = t.verdict

LEMMA AlikeCarries ==
  ASSUME NEW t, NEW e, Carries(t), Alike(e, t)
  PROVE  Carries(e) /\ IsPress(e) = IsPress(t) /\ Counted(e) = Counted(t) /\ Role(e) = Role(t)
BY DEF Carries, Alike, IsPress, Counted, Role

LEMMA EndingAlike ==
  ASSUME NEW t, Shape(t), NEW pc
  PROVE  LET e == Ending(t, pc)
         IN Alike(e, t) /\ e.pc = pc /\ e.text = Nothing /\ e.d = safe_answer
BY DEF Ending, Shape, Fields, Alike

LEMMA CountingAlike ==
  ASSUME NEW t, Shape(t)
  PROVE  LET e == Counting(t)
         IN Alike(e, t) /\ e.pc = "count" /\ e.d = t.d
              /\ e.text = [known |-> Counted(t), total |-> 0]
BY DEF Counting, Shape, Fields, Alike, Counted

LEMMA ReplyingAlike ==
  ASSUME NEW t, Shape(t)
  PROVE  LET e == Replying(t)
         IN Alike(e, t) /\ e.pc = "deliver" /\ e.d = safe_reply /\ e.text = t.text
BY DEF Replying, Shape, Fields, Alike

LEMMA Beginnings ==
  /\ safe_answer \in Delivery /\ safe_reply \in Delivery /\ safe_edit \in Delivery
  /\ safe_answer.result = "open" /\ safe_reply.result = "open" /\ safe_edit.result = "open"
BY DEF safe_answer, safe_reply, safe_edit, Delivery

\* A task that is over is placed, unless it undoes a press that was confirmed.
LEMMA EndingPlaced ==
  ASSUME NEW t, Shape(t), Carries(t), NEW pc \in {"commit", "rollback"},
         pc = "rollback" /\ IsPress(t) /\ t.told => t.escaped
  PROVE  Carries(Ending(t, pc)) /\ Placed(Ending(t, pc))
<1> DEFINE e == Ending(t, pc)
<1>1. Alike(e, t) /\ e.pc = pc /\ e.d = safe_answer
  BY EndingAlike
<1> HIDE DEF e
<1>2. Carries(e) /\ IsPress(e) = IsPress(t)
  BY <1>1, AlikeCarries
<1>3. Placed(e)
  BY <1>1, <1>2, Beginnings DEF Placed, Alike
<1> QED
  BY <1>2, <1>3 DEF e

\* So is one that counts, if counting is what its update asks for.
LEMMA CountingPlaced ==
  ASSUME NEW t, Shape(t), Carries(t), t.d \in Delivery,
         t.upd.kind \in {"cmd_rollcall", "on_here"}
  PROVE  Carries(Counting(t)) /\ Placed(Counting(t))
<1> DEFINE e == Counting(t)
<1>1. Alike(e, t) /\ e.pc = "count" /\ e.d = t.d /\ e.text = [known |-> Counted(t), total |-> 0]
  BY CountingAlike
<1> HIDE DEF e
<1>2. Carries(e) /\ Counted(e) = Counted(t)
  BY <1>1, AlikeCarries
<1>3. Placed(e)
  BY <1>1, <1>2 DEF Placed, Alike
<1> QED
  BY <1>2, <1>3 DEF e

\* And one that only replies.
LEMMA ReplyingPlaced ==
  ASSUME NEW t, Shape(t), Carries(t), ~IsPress(t), Role(t) = "reply"
  PROVE  Carries(Replying(t)) /\ Placed(Replying(t))
<1> DEFINE e == Replying(t)
<1>1. Alike(e, t) /\ e.pc = "deliver" /\ e.d = safe_reply
  BY ReplyingAlike
<1> HIDE DEF e
<1>2. Carries(e) /\ IsPress(e) = IsPress(t) /\ Role(e) = Role(t)
  BY <1>1, AlikeCarries
<1>3. Placed(e)
  BY <1>1, <1>2, Beginnings DEF Placed
<1> QED
  BY <1>2, <1>3 DEF e

LEMMA GrantedPlaced ==
  ASSUME NEW t, Shape(t), Carries(t), t.d \in Delivery, ~IsPress(t)
  PROVE  Carries(Granted(t)) /\ Placed(Granted(t)) /\ ~IsPress(Granted(t))
<1> DEFINE r == cmd_settings_values(t.keep, t.upd.key, t.upd.values)
           s == [t EXCEPT !.keep = r.chat]
<1>1. t.upd \in Commands
  BY DEF Carries
<1>2. /\ t.upd.kind \in {"cmd_rollcall", "cmd_settings", "tag_command"}
      /\ t.upd.values \in Seq(Token)
  BY <1>1, RollcallAssumption
<1>3. CASE t.upd.kind = "cmd_rollcall"
  <2>1. Granted(t) = Counting(t)
    BY <1>3 DEF Granted
  <2> QED
    BY <1>3, <2>1, CountingPlaced, CountingAlike DEF IsPress, Alike
<1>4. CASE t.upd.kind = "tag_command"
  <2>1. Granted(t) = Replying(t)
    BY <1>4 DEF Granted
  <2>2. Role(t) = "reply"
    BY <1>4 DEF Role
  <2> QED
    BY <2>1, <2>2, ReplyingPlaced, ReplyingAlike DEF IsPress, Alike
<1>5. CASE t.upd.kind = "cmd_settings"
  <2>1. r.chat \in ChatSettings
    BY <1>2, SettingsStayInRange DEF Carries
  <2>2. Granted(t) = IF r.how = "raised" THEN Ending(t, "rollback") ELSE Replying(s)
    BY <1>5 DEF Granted
  <2> HIDE DEF r
  <2>3. Shape(s) /\ s.upd = t.upd /\ s.work = t.work /\ s.served = t.served /\ s.keep = r.chat
    BY DEF Shape, Fields
  <2> HIDE DEF s
  <2>4. Carries(s) /\ ~IsPress(s) /\ Role(s) = "reply"
    BY <1>5, <2>1, <2>3 DEF Carries, IsPress, Role
  <2> QED
    BY <2>2, <2>3, <2>4, ReplyingPlaced, ReplyingAlike, EndingPlaced, EndingAlike
       DEF IsPress, Alike
<1> QED
  BY <1>2, <1>3, <1>4, <1>5

LEMMA JudgedPlaced ==
  ASSUME NEW t, Shape(t), Carries(t), t.d \in Delivery, ~IsPress(t), NEW yes \in BOOLEAN
  PROVE  Carries(Judged(t, yes)) /\ Placed(Judged(t, yes)) /\ ~IsPress(Judged(t, yes))
<1> DEFINE s(v) == [[t EXCEPT !.served = Nothing, !.outlived = {}] EXCEPT !.verdict = v]
<1>1. \A v : /\ Shape(s(v)) /\ s(v).upd = t.upd /\ s(v).work = t.work /\ s(v).keep = t.keep
              /\ s(v).d = t.d /\ s(v).served = Nothing /\ s(v).verdict = v
  BY DEF Shape, Fields
<1>2. Judged(t, yes) = IF yes THEN Granted(s("yes")) ELSE Replying(s("no"))
  BY DEF Judged
<1> HIDE DEF s
<1>3. \A v : Carries(s(v)) /\ ~IsPress(s(v))
  BY <1>1 DEF Carries, IsPress
<1>4. Role(s("no")) = "reply"
  BY <1>1 DEF Role, IsPress
<1>5. CASE yes
  BY <1>1, <1>2, <1>3, <1>5, GrantedPlaced
<1>6. CASE ~yes
  BY <1>1, <1>2, <1>3, <1>4, <1>6, ReplyingPlaced, ReplyingAlike DEF IsPress, Alike
<1> QED
  BY <1>5, <1>6

-----------------------------------------------------------------------------
(* What the handlers leave in the database.                                *)

\* People who are in the chat are at most all people: the text's number is one of
\* Text.
LEMMA CountInRange ==
  ASSUME NEW d, Sound(d)
  PROVE  count_active_members(d, Group) \in 0 .. Cardinality(Users)
<1> DEFINE rows == {p \in d.active : p[1] = Group}
           f == [u \in Users |-> <<Group, u>>]
           all == {Group} \X Users
<1>1. /\ f \in [Users -> all]
      /\ \A u, v \in Users : f[u] = f[v] => u = v
      /\ \A p \in all : \E u \in Users : f[u] = p
  OBVIOUS
<1>2. rows \subseteq all
  BY DEF Sound, WellFormed, Database, ChatMember
<1> HIDE DEF f, all
<1>3. ExistsBijection(Users, all)
  BY <1>1, Fun_IsBij DEF ExistsBijection
<1>4. IsFiniteSet(Users)
  BY StoreAssumption
<1>5. IsFiniteSet(all) /\ Cardinality(all) = Cardinality(Users)
  BY <1>3, <1>4, FS_Bijection
<1>6. Cardinality(rows) \in Nat /\ Cardinality(rows) <= Cardinality(all)
  BY <1>2, <1>5, FS_Subset, FS_CardinalityType
<1>7. Cardinality(Users) \in Nat
  BY <1>4, FS_CardinalityType
<1> QED
  BY <1>5, <1>6, <1>7 DEF count_active_members

LEMMA TextsOfCounts ==
  ASSUME NEW d, Sound(d), NEW n \in Totals \union {0}
  PROVE  [known |-> count_active_members(d, Group), total |-> n] \in Text
BY CountInRange DEF Text

\* The tracker's work, and the press's, is sound; the person is recorded.
LEMMA RecordedSound ==
  ASSUME NEW d, Sound(d), NEW u \in Users
  PROVE  LET e == record_person(get_or_create_chat(d, Group), Group, u)
         IN Sound(e) /\ <<Group, u>> \in e.active
<1> DEFINE e == get_or_create_chat(d, Group)
<1>1. Sound(e) /\ Group \in e.chats
  BY GetOrCreateChat, RollcallAssumption
<1> HIDE DEF e
<1>2. Sound(record_person(e, Group, u))
  BY <1>1, RecordPerson
<1>3. e.active \subseteq Chats \X Users /\ e = [e EXCEPT !.users = e.users]
  BY <1>1 DEF Sound, WellFormed, Database, ChatMember
<1>4. record_person(e, Group, u).active = e.active \union {<<Group, u>>}
  BY <1>1 DEF record_person, upsert_user, ensure_membership, Sound, WellFormed, Database
<1> QED
  BY <1>2, <1>4 DEF e

LEMMA CommandTracked ==
  ASSUME NEW d, Sound(d), NEW m \in Commands
  PROVE  Sound(MemberTrackerMiddleware(d, m))
<1>1. m.chat = Group /\ m.from \in Users
  BY RollcallAssumption
<1>2. Sound(get_or_create_chat(d, Group))
  BY GetOrCreateChat, RollcallAssumption
<1> QED
  BY <1>1, <1>2, RecordedSound DEF MemberTrackerMiddleware

\* The rest of the chat's updates, each in one step.
LEMMA OthersSound ==
  ASSUME Sound(db), NEW m \in Updates, HandledAlone(m, db, db')
  PROVE  Sound(db')
BY AppliedKeeps, RollcallAssumption DEF HandledAlone

-----------------------------------------------------------------------------
(* The steps, and all that they keep.                                     *)

\* What a step that only moves the task, or none, leaves of the chat's view.
LEMMA SameView ==
  ASSUME Shows, UNCHANGED <<state, shown, doubt>>,
         task = Idle \/ task.pc # "deliver" \/ ~IsPress(task),
         task' = Idle \/ ~IsPress(task') \/ (task'.pc # "deliver" /\ (task'.pc = "commit" => ~task'.fresh))
  PROVE  Shows'
<1>1. state # Nothing /\ ~doubt => state.text = shown
  BY DEF Shows, StateMatchesChat, IsPress, Role
<1> QED
  BY <1>1 DEF Shows, StateMatchesChat, IsPress, Role

Kept == Typed' /\ Carried' /\ Shows'

LEMMA OtherUpdateGood ==
  ASSUME Good, NEW m \in Updates, OtherUpdate(m)
  PROVE  Kept
<1>1. task = Idle /\ UNCHANGED <<settings, admins, since, cache, shown, state, doubt, task>>
        /\ HandledAlone(m, db, db')
  BY DEF OtherUpdate
<1>2. Sound(db')
  BY <1>1, OthersSound DEF Good, Typed
<1>3. Shows'
  BY <1>1, SameView DEF Good
<1>4. Typed'
  BY <1>1, <1>2 DEF Good, Typed
<1> QED
  BY <1>1, <1>3, <1>4 DEF Kept, Carried

LEMMA RemovalDoneGood ==
  ASSUME Good, RemovalDone
  PROVE  Kept
<1>1. task = Idle /\ cache' = NoEntry
        /\ UNCHANGED <<db, settings, admins, since, shown, state, doubt, task>>
  BY DEF RemovalDone, invalidate
<1>2. NoEntry \in Entry
  BY PolicyAssumption DEF NoEntry, Entry
<1>3. Shows'
  BY <1>1, SameView DEF Good
<1> QED
  BY <1>1, <1>2, <1>3 DEF Good, Typed, Kept, Carried

LEMMA PromoteGood ==
  ASSUME Good, NEW p \in Promoted, Promote(p)
  PROVE  Kept
<1>1. admins' \subseteq Promoted /\ UNCHANGED <<db, settings, cache, shown, state, doubt, task>>
  BY DEF Promote, Good, Typed
<1>2. Shows'
  BY <1>1 DEF Good, Shows, StateMatchesChat
<1> QED
  BY <1>1, <1>2 DEF Good, Typed, Kept, Carried

LEMMA SharedEntryGood ==
  ASSUME Good, SharedEntry
  PROVE  Kept
<1>1. /\ task = Idle /\ shown # Nothing /\ doubt' = TRUE
      /\ UNCHANGED <<db, settings, admins, since, cache, shown, task>>
  BY DEF SharedEntry
<1>2. PICK n \in Totals : state' = [age |-> 0, text |-> [shown EXCEPT !.total = n]]
  BY DEF SharedEntry
<1>3. shown \in Text
  BY <1>1 DEF Good, Typed
<1>4. [shown EXCEPT !.total = n] \in Text
  BY <1>3 DEF Text
<1>5. state'.age \in 0 .. COUNTER_REFRESH_SECONDS /\ state'.text \in Text
  BY <1>2, <1>4, RollcallAssumption
<1>6. Typed'
  BY <1>1, <1>5 DEF Good, Typed
<1>7. Shows'
  BY <1>1 DEF Shows, StateMatchesChat
<1> QED
  BY <1>1, <1>6, <1>7 DEF Kept, Carried


LEMMA TickGood ==
  ASSUME Good, Tick
  PROVE  Kept /\ (task # Idle => task' # Idle)
<1>1. /\ task' = IF task = Idle THEN Idle ELSE [task EXCEPT !.waited = @ + 1]
      /\ cache' = Aged(cache)
      /\ state' = IF state = Nothing THEN Nothing
                  ELSE [state EXCEPT !.age = Capped(@ + 1, COUNTER_REFRESH_SECONDS)]
      /\ UNCHANGED <<db, settings, admins, shown, doubt>>
  BY DEF Tick
<1>2. cache' \in Entry
  <2>1. cache \in Entry
    BY DEF Good, Typed
  <2>2. \A n \in 0 .. TTL : [cache EXCEPT !.left = n] \in Entry
    BY <2>1 DEF Entry
  <2>3. (IF cache.left > 0 THEN cache.left - 1 ELSE 0) \in 0 .. TTL
    BY <2>1, PolicyAssumption DEF Entry
  <2> QED
    BY <1>1, <2>2, <2>3 DEF Aged
<1>3. state # Nothing =>
        LET s == [state EXCEPT !.age = Capped(@ + 1, COUNTER_REFRESH_SECONDS)]
        IN s.text \in Text /\ s.age \in 0 .. COUNTER_REFRESH_SECONDS
             /\ s.text = state.text
  BY RollcallAssumption DEF Good, Typed, Capped
<1>4. Typed'
  BY <1>1, <1>2, <1>3 DEF Good, Typed
<1>5. state' # Nothing => state # Nothing /\ state'.text = state.text
  BY <1>1, <1>3
<1>6. CASE task = Idle
  <2>1. task' = Idle
    BY <1>1, <1>6
  <2>2. Shows'
    BY <1>1, <1>5, <1>6, <2>1 DEF Good, Shows, StateMatchesChat
  <2> QED
    BY <1>4, <1>6, <2>1, <2>2 DEF Kept, Carried
<1>7. CASE task # Idle
  <2>1. Shape(task) /\ task.pc \in PCs
    BY <1>7 DEF Good, IInv, TaskOK, TaskSound
  <2>2. /\ Alike(task', task) /\ task'.pc = task.pc /\ task'.d = task.d /\ task'.text = task.text
    BY <1>1, <1>7, <2>1 DEF Shape, Fields, Alike
  <2>3. Carries(task) /\ Placed(task)
    BY <1>7 DEF Good, Carried
  <2>4. /\ Carries(task') /\ IsPress(task') = IsPress(task) /\ Counted(task') = Counted(task)
        /\ Role(task') = Role(task)
    BY <2>2, <2>3, AlikeCarries
  <2>5. Placed(task')
    BY <2>2, <2>3, <2>4 DEF Placed, Alike
  <2>6. task' # Idle
    BY <2>1, <2>2 DEF PCs, Idle
  <2>7. Shows'
    <3>1. /\ (IsPress(task') <=> IsPress(task)) /\ Counted(task') = Counted(task)
          /\ Role(task') = Role(task) /\ task'.pc = task.pc /\ task'.text = task.text
          /\ task'.fresh = task.fresh /\ shown' = shown /\ doubt' = doubt
      BY <1>1, <2>2, <2>4 DEF Alike
    <3>2. StateMatchesChat'
      BY <1>5, <1>7, <2>6, <3>1 DEF Good, Shows, StateMatchesChat
    <3> QED
      BY <1>5, <1>7, <2>6, <3>1, <3>2 DEF Good, Shows
  <2> QED
    BY <1>4, <2>4, <2>5, <2>6, <2>7 DEF Kept, Carried
<1> QED
  BY <1>6, <1>7

\* A step of the task alone: what it carries, where it is, and that it goes on.
LEMMA MovesGood ==
  ASSUME Good, UNCHANGED <<db, settings, admins, shown, state, doubt>>, cache' \in Entry,
         Shape(task'), task'.pc \in PCs, Carries(task'), Placed(task'),
         task = Idle \/ task.pc # "deliver",
         IsPress(task') => task'.pc # "deliver" /\ (task'.pc = "commit" => ~task'.fresh)
  PROVE  Kept /\ task' # Idle
<1>1. Shows'
  BY SameView DEF Good
<1>2. task' # Idle
  BY DEF PCs, Idle
<1>3. Typed'
  BY DEF Good, Typed
<1> QED
  BY <1>1, <1>2, <1>3 DEF Kept, Carried

\* What is known of a task that is under way.
LEMMA UnderWay ==
  ASSUME Good, task.pc # "idle"
  PROVE  /\ task # Idle /\ Shape(task) /\ task.pc \in PCs /\ task.upd.from \in Users
         /\ task.outlived \subseteq {"refused"} /\ task.waited \in 0 .. MaxWait
         /\ Carries(task) /\ Placed(task)
BY DEF Good, IInv, TaskOK, TaskSound, Carried, Idle

LEMMA RemovalRefusedGood ==
  ASSUME Good, RemovalRefused
  PROVE  Kept /\ (task # Idle => task' # Idle)
<1>1. UNCHANGED <<db, settings, admins, since, shown, state, doubt>>
  BY DEF RemovalRefused
<1>2. cache' \in Entry
  <2> DEFINE out == Outlived(cache.ids, cache.outlived \union {"refused"})
  <2>1. cache \in Entry /\ cache' = [cache EXCEPT !.outlived = out]
    BY DEF Good, Typed, RemovalRefused
  <2>2. out \subseteq RemovalEnds
    BY <2>1 DEF Entry, Outlived, RemovalEnds
  <2> HIDE DEF out
  <2> QED
    BY <2>1, <2>2 DEF Entry
<1>3. CASE task' = task
  BY <1>1, <1>2, <1>3 DEF Good, Typed, Carried, Shows, StateMatchesChat, Kept
<1>4. CASE task' # task
  <2>1. /\ task # Idle /\ task.pc = "fetch"
        /\ task' = [task EXCEPT !.outlived = @ \union {"refused"}]
    BY <1>4 DEF RemovalRefused, Outlives
  <2>2. Shape(task) /\ Carries(task) /\ Placed(task)
    BY <2>1, UnderWay
  <2>3. /\ Shape(task') /\ Alike(task', task)
        /\ task'.pc = "fetch" /\ task'.d = task.d /\ task'.text = task.text
    BY <2>1, <2>2 DEF Shape, Fields, Alike
  <2>4. Carries(task') /\ IsPress(task') = IsPress(task) /\ ~IsPress(task)
    BY <2>1, <2>2, <2>3, AlikeCarries DEF Placed
  <2>5. Placed(task')
    BY <2>2, <2>3, <2>4 DEF Placed
  <2> QED
    BY <1>1, <1>2, <2>1, <2>3, <2>4, <2>5, MovesGood DEF PCs
<1> QED
  BY <1>3, <1>4

LEMMA ServeGood ==
  ASSUME Good, Serve
  PROVE  Kept /\ task' # Idle
<1>1. /\ task.pc = "fetch" /\ task' = [task EXCEPT !.served = admins]
      /\ UNCHANGED <<db, settings, admins, since, cache, shown, state, doubt>>
  BY DEF Serve
<1>2. Shape(task) /\ Carries(task) /\ Placed(task)
  BY <1>1, UnderWay
<1>3. /\ Shape(task') /\ task'.served = admins /\ task'.pc = "fetch" /\ task'.upd = task.upd
      /\ task'.work = task.work /\ task'.keep = task.keep /\ task'.d = task.d
  BY <1>1, <1>2 DEF Shape, Fields
<1>4. admins \subseteq Users
  BY RollcallAssumption DEF Good, Typed
<1>5. Carries(task') /\ ~IsPress(task')
  BY <1>1, <1>2, <1>3, <1>4 DEF Carries, IsPress, Placed
<1>6. Placed(task')
  BY <1>2, <1>3, <1>5 DEF Placed
<1>7. cache' \in Entry
  BY <1>1 DEF Good, Typed
<1> QED
  BY <1>1, <1>3, <1>5, <1>6, <1>7, MovesGood DEF PCs

LEMMA ArriveGood ==
  ASSUME Good, Arrive
  PROVE  Kept /\ task' # Idle
<1> DEFINE yes == is_admin(task.upd.from, task.served)
           out == Outlived(task.served, task.outlived)
<1>1. /\ task.pc = "fetch" /\ task.served # Nothing
      /\ cache' = Fetched(task.served, task.waited, out)
      /\ task' = Judged(task, yes)
      /\ UNCHANGED <<db, settings, admins, since, shown, state, doubt>>
  BY DEF Arrive
<1>2. yes \in BOOLEAN /\ out \subseteq RemovalEnds
  BY <1>1, UnderWay DEF is_admin, Outlived, RemovalEnds
<1> HIDE DEF yes, out
<1>3. Shape(task) /\ Carries(task) /\ Placed(task) /\ task.waited \in 0 .. MaxWait
  BY <1>1, UnderWay
<1>4. cache' \in Entry
  <2>1. task.served \subseteq People
    BY <1>1, <1>3, RollcallAssumption DEF Carries
  <2>2. (IF task.waited < TTL THEN TTL - task.waited ELSE 0) \in 0 .. TTL
    BY <1>3, PolicyAssumption, RollcallAssumption
  <2> QED
    BY <1>1, <1>2, <2>1, <2>2 DEF Fetched, Entry
<1>5. ~IsPress(task) /\ task.d \in Delivery
  BY <1>1, <1>3 DEF Placed
<1>6. Carries(task') /\ Placed(task') /\ ~IsPress(task') /\ Shape(task') /\ task'.pc \in PCs
  BY <1>1, <1>2, <1>3, <1>5, JudgedPlaced, Judgements DEF PCs
<1> QED
  BY <1>1, <1>4, <1>6, MovesGood

LEMMA FetchFailsGood ==
  ASSUME Good, FetchFails
  PROVE  Kept /\ task' # Idle
<1>1. /\ task.pc = "fetch"
      /\ UNCHANGED <<db, settings, admins, since, cache, shown, state, doubt>>
  BY DEF FetchFails
<1>2. Shape(task) /\ Carries(task) /\ Placed(task)
  BY <1>1, UnderWay
<1>3. ~IsPress(task) /\ task.d \in Delivery
  BY <1>1, <1>2 DEF Placed
<1>4. Carries(task') /\ Placed(task') /\ ~IsPress(task') /\ Shape(task') /\ task'.pc \in PCs
  <2>1. CASE task' = Judged(task, is_admin(task.upd.from, Fallback(cache)))
    <3>1. is_admin(task.upd.from, Fallback(cache)) \in BOOLEAN
      BY DEF is_admin
    <3> QED
      BY <1>2, <1>3, <2>1, <3>1, JudgedPlaced, Judgements DEF PCs
  <2>2. CASE task' = Ending([task EXCEPT !.served = Nothing, !.outlived = {}, !.escaped = TRUE],
                            "rollback")
    <3> DEFINE t == [task EXCEPT !.served = Nothing, !.outlived = {}, !.escaped = TRUE]
    <3>1. Shape(t) /\ t.upd = task.upd /\ t.work = task.work /\ t.keep = task.keep
            /\ t.served = Nothing
      BY <1>2 DEF Shape, Fields
    <3> HIDE DEF t
    <3>2. Carries(t) /\ ~IsPress(t)
      BY <1>2, <1>3, <3>1 DEF Carries, IsPress
    <3>3. task' = Ending(t, "rollback")
      BY <2>2 DEF t
    <3> QED
      BY <3>1, <3>2, <3>3, EndingPlaced, EndingAlike, Endings DEF PCs, Alike, IsPress
  <2> QED
    BY <2>1, <2>2 DEF FetchFails
<1>5. cache' \in Entry
  BY <1>1 DEF Good, Typed
<1> QED
  BY <1>1, <1>4, <1>5, MovesGood

LEMMA CommandGood ==
  ASSUME Good, NEW m \in Commands, Command(m)
  PROVE  Kept
<1> DEFINE work == MemberTrackerMiddleware(db, m)
           yes  == is_admin(m.from, cache.ids)
<1>1. yes \in BOOLEAN /\ Sound(work)
  BY CommandTracked DEF is_admin, Good, Typed
<1> HIDE DEF work, yes
<1> DEFINE t == Task(m, work)
<1>2. /\ UNCHANGED <<db, settings, admins, since, cache, shown, state, doubt>> /\ task = Idle
      /\ task' \in {Judged(t, TRUE), Judged(t, yes), [t EXCEPT !.pc = "fetch"]}
  BY DEF Command, work, yes
<1>3. Shape(t) /\ t.upd = m /\ t.work = work /\ t.keep = settings /\ t.served = Nothing
        /\ t.d = safe_answer
  BY DEF Task, Shape, Fields
<1> DEFINE s == [t EXCEPT !.pc = "fetch"]
<1>4. Shape(s) /\ s.upd = m /\ s.work = work /\ s.keep = settings /\ s.served = Nothing
        /\ s.d = safe_answer /\ s.pc = "fetch"
  BY <1>3 DEF Shape, Fields
<1> HIDE DEF t, s
<1>5. Carries(t) /\ ~IsPress(t) /\ Carries(s) /\ ~IsPress(s)
  BY <1>1, <1>3, <1>4, RollcallAssumption DEF Carries, IsPress, Good, Typed
<1>6. Placed(s) /\ s.pc \in PCs
  BY <1>4, <1>5, Beginnings DEF Placed, PCs
<1>7. \A b \in BOOLEAN : /\ Carries(Judged(t, b)) /\ Placed(Judged(t, b)) /\ ~IsPress(Judged(t, b))
                         /\ Shape(Judged(t, b)) /\ Judged(t, b).pc \in PCs
  BY <1>3, <1>5, Beginnings, JudgedPlaced, Judgements DEF PCs
<1>8. task' \in {Judged(t, TRUE), Judged(t, yes), s}
  BY <1>2 DEF s
<1>9. Carries(task') /\ Placed(task') /\ ~IsPress(task') /\ Shape(task') /\ task'.pc \in PCs
  BY <1>1, <1>4, <1>5, <1>6, <1>7, <1>8
<1>10. cache' \in Entry
  BY <1>2 DEF Good, Typed
<1> QED
  BY <1>2, <1>9, <1>10, MovesGood

LEMMA PressGood ==
  ASSUME Good, NEW u \in Users \ Bots, Press(u)
  PROVE  Kept
<1> DEFINE m == [kind |-> "on_here", chat |-> Group, from |-> u]
           work == on_here(db, m)
<1>1. /\ task' = [Task(m, work) EXCEPT !.pc = "answer"] /\ task = Idle
      /\ UNCHANGED <<db, settings, admins, since, cache, shown, state, doubt>>
  BY DEF Press
<1>2. Sound(work) /\ <<Group, u>> \in work.active
  BY RecordedSound DEF on_here, Good, Typed
<1>3. m.kind = "on_here" /\ m.from = u
  OBVIOUS
<1> HIDE DEF m, work
<1>4. /\ Shape(task') /\ task'.pc = "answer" /\ task'.upd = m /\ task'.work = work
      /\ task'.keep = settings /\ task'.served = Nothing /\ task'.d = safe_answer
      /\ ~task'.fresh
  BY <1>1 DEF Task, Shape, Fields
<1>5. Carries(task') /\ IsPress(task')
  BY <1>2, <1>3, <1>4 DEF Carries, IsPress, Good, Typed
<1>6. Placed(task') /\ task'.pc \in PCs
  BY <1>4, <1>5, Beginnings DEF Placed, PCs
<1>7. cache' \in Entry
  BY <1>1 DEF Good, Typed
<1> QED
  BY <1>1, <1>4, <1>5, <1>6, <1>7, MovesGood

LEMMA AnswerGood ==
  ASSUME Good, Answer
  PROVE  Kept /\ task' # Idle
<1>1. /\ task.pc = "answer"
      /\ UNCHANGED <<db, settings, admins, since, cache, shown, state, doubt>>
  BY DEF Answer
<1>2. Shape(task) /\ Carries(task) /\ Placed(task)
  BY <1>1, UnderWay
<1>3. IsPress(task) /\ ~task.fresh /\ task.d \in Delivery
  BY <1>1, <1>2 DEF Placed
<1>4. PICK told \in BOOLEAN :
        LET t == [task EXCEPT !.told = told]
        IN task' \in {Ending(t, "commit"), Counting([t EXCEPT !.fresh = TRUE]),
                      Ending([t EXCEPT !.escaped = TRUE], "rollback")}
  BY DEF Answer, Refreshing
<1> DEFINE t == [task EXCEPT !.told = told]
           w == [t EXCEPT !.fresh = TRUE]
           x == [t EXCEPT !.escaped = TRUE]
<1>5. task' \in {Ending(t, "commit"), Counting(w), Ending(x, "rollback")}
  BY <1>4
<1>6. /\ Shape(t) /\ t.upd = task.upd /\ t.work = task.work /\ t.keep = task.keep
      /\ t.served = task.served /\ t.d = task.d /\ ~t.fresh
  BY <1>2, <1>3 DEF Shape, Fields
<1> HIDE DEF t
<1>7. /\ Shape(w) /\ w.upd = task.upd /\ w.work = task.work /\ w.keep = task.keep
      /\ w.served = task.served /\ w.d = task.d
      /\ Shape(x) /\ x.upd = task.upd /\ x.work = task.work /\ x.keep = task.keep
      /\ x.served = task.served /\ x.escaped
  BY <1>6 DEF Shape, Fields
<1> HIDE DEF w, x
<1>8. Carries(t) /\ IsPress(t) /\ Carries(w) /\ IsPress(w) /\ Carries(x) /\ IsPress(x)
  BY <1>2, <1>3, <1>6, <1>7 DEF Carries, IsPress
<1>9. CASE task' = Ending(t, "commit")
  BY <1>1, <1>6, <1>8, <1>9, EndingPlaced, EndingAlike, Endings, MovesGood
     DEF PCs, Alike, Good, Typed
<1>10. CASE task' = Counting(w)
  BY <1>1, <1>3, <1>7, <1>8, <1>10, CountingPlaced, Countings, MovesGood
     DEF PCs, IsPress, Good, Typed
<1>11. CASE task' = Ending(x, "rollback")
  BY <1>1, <1>7, <1>8, <1>11, EndingPlaced, Endings, MovesGood
     DEF PCs, Good, Typed
<1> QED
  BY <1>5, <1>9, <1>10, <1>11

\* The count has arrived: the text is complete.  A press whose text the state has
\* already ends here, and what the chat sees is that text.
LEMMA CountGood ==
  ASSUME Good, Count
  PROVE  Kept /\ task' # Idle
<1>1. /\ task.pc = "count"
      /\ UNCHANGED <<db, settings, admins, since, cache, shown, doubt>>
  BY DEF Count
<1>2. /\ Shape(task) /\ Carries(task) /\ Placed(task) /\ task # Idle
      /\ task.waited \in 0 .. MaxWait
  BY <1>1, UnderWay
<1>3. PICK n \in Totals \union {0} :
        LET text == [task.text EXCEPT !.total = n]
            t    == [task EXCEPT !.text = text, !.waited = 0, !.pc = "deliver"]
        IN IF task.upd.kind = "cmd_rollcall"
           THEN task' = [t EXCEPT !.d = safe_answer] /\ UNCHANGED state
           ELSE /\ state' = Stated(task, text)
                /\ task' = IF state # Nothing /\ state.text = text
                           THEN Ending(t, "commit") ELSE [t EXCEPT !.d = safe_edit]
  BY DEF Count
<1> DEFINE text == [task.text EXCEPT !.total = n]
           t    == [task EXCEPT !.text = text, !.waited = 0, !.pc = "deliver"]
           a    == [t EXCEPT !.d = safe_answer]
           e    == [t EXCEPT !.d = safe_edit]
<1>4. /\ task.upd.kind \in {"cmd_rollcall", "on_here"}
      /\ task.text = [known |-> Counted(task), total |-> 0]
  BY <1>1, <1>2 DEF Placed
<1>5. text = [known |-> Counted(task), total |-> n]
  BY <1>4
<1>6. text \in Text /\ text.known = Counted(task)
  BY <1>2, <1>5, TextsOfCounts DEF Carries, Counted
<1>7. /\ task.upd.kind = "cmd_rollcall" => task' = a /\ UNCHANGED state
      /\ task.upd.kind # "cmd_rollcall" =>
           /\ state' = Stated(task, text)
           /\ task' = IF state # Nothing /\ state.text = text THEN Ending(t, "commit") ELSE e
  BY <1>3
<1> HIDE DEF text
<1>8. Shape(t) /\ Alike(t, task) /\ t.text = text /\ t.pc = "deliver" /\ t.d = task.d
  BY <1>2 DEF Shape, Fields, Alike
<1> HIDE DEF t
<1>9. /\ Shape(a) /\ Alike(a, task) /\ a.text = text /\ a.pc = "deliver" /\ a.d = safe_answer
      /\ Shape(e) /\ Alike(e, task) /\ e.text = text /\ e.pc = "deliver" /\ e.d = safe_edit
  BY <1>8 DEF Shape, Fields, Alike
<1> HIDE DEF a, e
<1>10. \A b \in {a, e} : /\ Carries(b) /\ IsPress(b) = IsPress(task)
                         /\ Counted(b) = Counted(task) /\ Role(b) = Role(task)
  BY <1>2, <1>9, AlikeCarries
<1>11. \A b \in {a, e} : Placed(b)
  BY <1>6, <1>9, <1>10, Beginnings DEF Placed
<1>12. CASE task.upd.kind = "cmd_rollcall"
  <2>1. task' = a /\ UNCHANGED state
    BY <1>7, <1>12
  <2>2. ~IsPress(task')
    BY <1>10, <1>12, <2>1 DEF IsPress
  <2> QED
    BY <1>1, <1>9, <1>10, <1>11, <2>1, <2>2, MovesGood DEF PCs, Good, Typed
<1>13. CASE task.upd.kind # "cmd_rollcall"
  <2>1. IsPress(task) /\ state' = Stated(task, text)
    BY <1>4, <1>7, <1>13 DEF IsPress
  <2>2. state'.text = text /\ state'.age \in 0 .. COUNTER_REFRESH_SECONDS
    BY <1>2, <2>1, RollcallAssumption DEF Stated, Capped
  <2>3. Typed'
    BY <1>1, <1>6, <2>2 DEF Good, Typed
  <2>4. state # Nothing /\ ~doubt => state.text = shown
    BY <1>1 DEF Good, Shows, StateMatchesChat
  <2>5. CASE state # Nothing /\ state.text = text
    <3>1. task' = Ending(t, "commit")
      BY <1>7, <1>13, <2>5
    <3>2. Carries(t) /\ IsPress(t) /\ Counted(t) = Counted(task)
      BY <1>2, <1>8, <2>1, AlikeCarries
    <3>3. Alike(task', t) /\ task'.pc = "commit"
      BY <1>8, <3>1, EndingAlike
    <3>4. Carries(task') /\ Placed(task') /\ Counted(task') = Counted(task)
      BY <1>8, <3>1, <3>2, <3>3, EndingPlaced, AlikeCarries
    <3>5. Shows'
      BY <1>1, <1>6, <2>2, <2>4, <2>5, <3>3, <3>4 DEF Shows, StateMatchesChat
    <3> QED
      BY <2>3, <3>3, <3>4, <3>5 DEF Kept, Carried, Idle
  <2>6. CASE ~(state # Nothing /\ state.text = text)
    <3>1. task' = e
      BY <1>7, <1>13, <2>6
    <3>2. task'.pc = "deliver" /\ Role(task') = "edit" /\ task' # Idle
      BY <1>9, <1>10, <2>1, <3>1 DEF Role, IsPress, Idle
    <3>3. Shows'
      BY <1>9, <2>2, <3>1, <3>2 DEF Shows, StateMatchesChat
    <3> QED
      BY <1>10, <1>11, <2>3, <3>1, <3>2, <3>3 DEF Kept, Carried
  <2> QED
    BY <2>5, <2>6
<1> QED
  BY <1>12, <1>13

\* Only an answer that could not be read is raised.
LEMMA RaisedUnread ==
  ASSUME NEW d \in Delivery, d.result = "open", NEW o \in Outcomes, _deliver(d, o).result = "raised"
  PROVE  o = "unreadable"
<1> SUFFICES ASSUME o # "unreadable" PROVE _deliver(d, o).result # "raised"
  OBVIOUS
<1>1. \/ _deliver(d, o) = Again(d)
      \/ _deliver(d, o) = [d EXCEPT !.fallback = FALSE, !.attempt = 1]
      \/ \E r \in {"sent", "none"} : _deliver(d, o) = [d EXCEPT !.result = r]
  BY DEF _deliver
<1>2. \A r \in {"sent", "none"} : [d EXCEPT !.result = r].result = r
  BY DEF Delivery
<1>3. [d EXCEPT !.fallback = FALSE, !.attempt = 1].result = "open"
  BY DEF Delivery
<1>4. Again(d).result \in {"none", "open"}
  BY DEF Again, Delivery
<1> QED
  BY <1>1, <1>2, <1>3, <1>4

\* What a request leaves in the chat: of an edit, and of anything else.
LEMMA DeliveredView ==
  ASSUME Good, task.pc = "deliver", NEW o, NEW end,
         \E arrived \in MayArrive(o) :
           IF Role(task) = "edit" THEN Edited(task, arrived, end)
           ELSE IF Role(task) = "announcement" /\ arrived THEN Announced(task, o)
           ELSE UNCHANGED <<shown, state, doubt>>
  PROVE  /\ shown' \in Text \union {Nothing} /\ doubt' \in BOOLEAN
         /\ state' # Nothing =>
              state'.age \in 0 .. COUNTER_REFRESH_SECONDS /\ state'.text \in Text
         /\ IsPress(task) =>
              /\ state' # Nothing => state'.text = task.text
              /\ end.result # "open" /\ ~doubt' => shown' = task.text
         /\ ~IsPress(task) => (state' # Nothing /\ ~doubt' => state'.text = shown')
<1>1. Carries(task) /\ Placed(task) /\ task # Idle
  BY UnderWay
<1>2. /\ shown \in Text \union {Nothing} /\ doubt \in BOOLEAN
      /\ state # Nothing => state.age \in 0 .. COUNTER_REFRESH_SECONDS /\ state.text \in Text
  BY DEF Good, Typed
<1>3. CASE Role(task) = "edit"
  <2>1. PICK arrived \in MayArrive(o) : Edited(task, arrived, end)
    BY <1>3
  <2>2. task.text \in Text
    BY <1>1, <1>3 DEF Placed
  <2>3. IsPress(task)
    BY <1>3 DEF Role, IsPress
  <2>4. shown' \in {task.text, shown} /\ state' = state
    BY <2>1 DEF Edited
  <2>5. doubt' \in BOOLEAN /\ (end.result # "open" /\ ~doubt' => shown' = task.text)
    BY <2>1 DEF Edited
  <2>6. state # Nothing => state.text = task.text
    BY <1>1, <2>3 DEF Good, Shows
  <2> QED
    BY <1>2, <2>2, <2>3, <2>4, <2>5, <2>6
<1>4. CASE Role(task) # "edit"
  <2>1. ~IsPress(task)
    BY <1>4 DEF Role, IsPress
  <2>2. PICK arrived \in MayArrive(o) :
          IF Role(task) = "announcement" /\ arrived THEN Announced(task, o)
          ELSE UNCHANGED <<shown, state, doubt>>
    BY <1>4
  <2>3. CASE UNCHANGED <<shown, state, doubt>>
    <3>1. state # Nothing /\ ~doubt => state.text = shown
      BY <1>4 DEF Good, Shows, StateMatchesChat
    <3> QED
      BY <1>2, <2>1, <2>3, <3>1
  <2>4. CASE Role(task) = "announcement" /\ Announced(task, o)
    <3>1. task.text \in Text
      BY <1>1, <2>4 DEF Placed
    <3>2. /\ shown' = task.text /\ ~doubt' /\ doubt' = FALSE
          /\ state' # Nothing => state' = [age |-> 0, text |-> task.text]
      BY <2>4 DEF Announced
    <3>3. 0 \in 0 .. COUNTER_REFRESH_SECONDS
      BY RollcallAssumption
    <3>4. state' # Nothing =>
            /\ state'.age \in 0 .. COUNTER_REFRESH_SECONDS
            /\ state'.text \in Text /\ state'.text = task.text
      BY <3>1, <3>2, <3>3
    <3> QED
      BY <2>1, <3>1, <3>2, <3>4
  <2> QED
    BY <2>2, <2>3, <2>4
<1> QED
  BY <1>3, <1>4

LEMMA DeliverGood ==
  ASSUME Good, NEW o \in Outcomes, Deliver(o)
  PROVE  Kept /\ task' # Idle
<1> DEFINE end == _deliver(task.d, o)
           late == (o = "unreadable")
           t == [task EXCEPT !.d = end, !.waited = 0, !.escaped = late]
<1>1. /\ task.pc = "deliver" /\ UNCHANGED <<db, settings, admins, since, cache>>
      /\ task' = IF end.result = "open" THEN t
                 ELSE IF end.result = "raised" THEN Ending(t, "rollback")
                 ELSE Ending(t, "commit")
      /\ \E arrived \in MayArrive(o) :
           IF Role(task) = "edit" THEN Edited(task, arrived, end)
           ELSE IF Role(task) = "announcement" /\ arrived THEN Announced(task, o)
           ELSE UNCHANGED <<shown, state, doubt>>
  BY DEF Deliver
<1>2. Shape(task) /\ Carries(task) /\ Placed(task) /\ task # Idle
  BY <1>1, UnderWay
<1>3. end \in Delivery /\ (end.result = "raised" => late)
  BY <1>1, <1>2, DeliveryEnds, RaisedUnread DEF Placed
<1> HIDE DEF end, late
<1>4. /\ shown' \in Text \union {Nothing} /\ doubt' \in BOOLEAN
      /\ state' # Nothing =>
           state'.age \in 0 .. COUNTER_REFRESH_SECONDS /\ state'.text \in Text
      /\ IsPress(task) =>
           /\ state' # Nothing => state'.text = task.text
           /\ end.result # "open" /\ ~doubt' => shown' = task.text
      /\ ~IsPress(task) => (state' # Nothing /\ ~doubt' => state'.text = shown')
  BY <1>1, DeliveredView
<1>5. Typed'
  BY <1>1, <1>4 DEF Good, Typed
<1>6. /\ Shape(t) /\ t.upd = task.upd /\ t.work = task.work /\ t.keep = task.keep
      /\ t.served = task.served /\ t.verdict = task.verdict /\ t.pc = "deliver"
      /\ t.text = task.text /\ t.d = end /\ (late => t.escaped)
  BY <1>1, <1>2 DEF Shape, Fields
<1> HIDE DEF t
<1>7. /\ Carries(t) /\ (IsPress(t) <=> IsPress(task)) /\ Counted(t) = Counted(task)
      /\ Role(t) = Role(task)
  BY <1>2, <1>6 DEF Carries, IsPress, Counted, Role
<1>8. CASE end.result = "open"
  <2>1. task' = t
    BY <1>1, <1>8
  <2>2. Placed(t)
    BY <1>1, <1>2, <1>3, <1>6, <1>7, <1>8 DEF Placed
  <2>3. t # Idle
    BY <1>6 DEF Idle
  <2>4. Shows'
    BY <1>4, <1>6, <1>7, <2>1, <2>3 DEF Shows, StateMatchesChat, Role, IsPress
  <2> QED
    BY <1>5, <1>7, <2>1, <2>2, <2>3, <2>4 DEF Kept, Carried
<1>9. CASE end.result # "open"
  <2>1. PICK pc \in {"commit", "rollback"} :
          task' = Ending(t, pc) /\ (pc = "rollback" => end.result = "raised")
    BY <1>1, <1>9
  <2>2. pc = "rollback" => t.escaped
    BY <1>3, <1>6, <2>1
  <2>3. Carries(task') /\ Placed(task')
    BY <1>6, <1>7, <2>1, <2>2, EndingPlaced
  <2>4. Alike(task', t) /\ task'.pc = pc
    BY <1>6, <2>1, EndingAlike
  <2>5. task' # Idle
    BY <2>4 DEF Idle
  <2>6. (IsPress(task') <=> IsPress(task)) /\ Counted(task') = Counted(task)
    BY <1>7, <2>4, AlikeCarries
  <2>7. IsPress(task) => task.text.known = Counted(task)
    BY <1>1, <1>2 DEF Placed
  <2>8. state' # Nothing /\ ~doubt' => state'.text = shown'
    BY <1>4, <1>9
  <2>9. IsPress(task') /\ ~doubt' => shown'.known = Counted(task')
    BY <1>4, <1>9, <2>6, <2>7
  <2>10. Shows'
    BY <2>4, <2>5, <2>8, <2>9 DEF Shows, StateMatchesChat
  <2> QED
    BY <1>5, <2>3, <2>5, <2>10 DEF Kept, Carried
<1> QED
  BY <1>8, <1>9

LEMMA EndGood ==
  ASSUME Good, Commit \/ Rollback
  PROVE  Kept
<1>1. /\ task.pc \in {"commit", "rollback"} /\ task' = Idle
      /\ UNCHANGED <<admins, since, cache, shown, state, doubt>>
      /\ db' \in {db, task.work} /\ settings' \in {settings, task.keep}
  BY DEF Commit, Rollback
<1>2. Carries(task)
  BY <1>1, UnderWay
<1>3. Shows'
  BY <1>1, SameView DEF Good
<1>4. Typed'
  BY <1>1, <1>2 DEF Good, Typed, Carries
<1> QED
  BY <1>1, <1>3, <1>4 DEF Kept, Carried

LEMMA CrashGood ==
  ASSUME Good, Crash
  PROVE  Kept
<1>1. /\ task' = Idle /\ cache' = NoEntry /\ state' = Nothing /\ doubt' = FALSE
      /\ UNCHANGED <<db, settings, admins, since, shown>>
  BY DEF Crash
<1>2. NoEntry \in Entry
  BY PolicyAssumption DEF NoEntry, Entry
<1> QED
  BY <1>1, <1>2 DEF Good, Typed, Shows, StateMatchesChat, Kept, Carried

LEMMA GoodBegins == Init => Good
<1> SUFFICES ASSUME Init PROVE Good
  OBVIOUS
<1>1. NoEntry \in Entry
  BY PolicyAssumption DEF NoEntry, Entry
<1>2. Sound(EmptyDatabase)
  BY DEF EmptyDatabase, Sound, WellFormed, Database, ForeignKeys, UniqueTags
<1>3. Typed
  BY <1>1, <1>2, RollcallAssumption DEF Init, Typed
<1>4. Shows /\ Carried
  BY DEF Init, Shows, StateMatchesChat, Carried
<1> QED
  BY <1>3, <1>4, Begins DEF Good

\* Only the end of an update, and the end of the process, leave the chat idle.
LEMMA GoodKept ==
  ASSUME Good, [Next]_vars
  PROVE  Good' /\ (task # Idle /\ task' = Idle => Commit \/ Rollback \/ Crash)
<1>1. IInv'
  BY Keeps DEF Good
<1>2. SUFFICES Kept /\ (task # Idle /\ task' = Idle => Commit \/ Rollback \/ Crash)
  BY <1>1 DEF Kept, Good
<1>3. CASE UNCHANGED vars
  <2>1. UNCHANGED <<db, settings, admins, since, cache, shown, state, doubt, task>>
    BY <1>3 DEF vars
  <2> QED
    BY <2>1 DEF Good, Typed, Carried, Shows, StateMatchesChat, Kept
<1>4. CASE Step
  <2>1. CASE \E o \in Outcomes : Deliver(o)
    BY <2>1, DeliverGood
  <2>2. CASE Serve \/ Arrive \/ FetchFails \/ Answer \/ Count
    BY <2>2, ServeGood, ArriveGood, FetchFailsGood, AnswerGood, CountGood
  <2>3. CASE Commit \/ Rollback
    BY <2>3, EndGood
  <2> QED
    BY <1>4, <2>1, <2>2, <2>3 DEF Step
<1>5. CASE \E m \in Updates : OtherUpdate(m)
  BY <1>5, OtherUpdateGood DEF OtherUpdate
<1>6. CASE \E m \in Commands : Command(m)
  BY <1>6, CommandGood DEF Command
<1>7. CASE \E u \in Users \ Bots : Press(u)
  BY <1>7, PressGood DEF Press
<1>8. CASE \E p \in Promoted : Promote(p)
  BY <1>8, PromoteGood DEF Promote
<1>9. CASE bot_removed \/ SharedEntry
  BY <1>9, RemovalDoneGood, RemovalRefusedGood, SharedEntryGood
     DEF bot_removed, RemovalDone, SharedEntry
<1>10. CASE Tick
  BY <1>10, TickGood
<1>11. CASE Crash
  BY <1>11, CrashGood
<1> QED
  BY <1>3, <1>4, <1>5, <1>6, <1>7, <1>8, <1>9, <1>10, <1>11 DEF Next

\* The inductive invariant of the whole module.
LEMMA AlwaysGood == Spec => []Good
<1>1. Good /\ [Next]_vars => Good'
  BY GoodKept
<1> QED
  BY <1>1, GoodBegins, PTL DEF Spec

\* Type correctness.
THEOREM TypeOKHolds == Spec => []TypeOK
<1>1. Good => TypeOK
  <2> SUFFICES ASSUME Good PROVE TypeOK
    OBVIOUS
  <2>1. /\ db \in Database /\ settings \in ChatSettings
        /\ admins \subseteq Promoted /\ since \in [Users -> 0 .. TTL]
        /\ cache \in Entry
        /\ shown \in Text \union {Nothing} /\ doubt \in BOOLEAN
        /\ state # Nothing => state.age \in 0 .. COUNTER_REFRESH_SECONDS /\ state.text \in Text
    BY DEF Good, Typed, IInv, Sound, WellFormed
  <2>2. ASSUME task # Idle
        PROVE  /\ task.pc \in {"fetch", "count", "answer", "deliver", "commit", "rollback"}
               /\ task.work \in Database /\ task.keep \in ChatSettings
               /\ task.waited \in 0 .. MaxWait /\ task.d \in Delivery
    BY <2>2 DEF Good, Carried, IInv, TaskOK, TaskSound, PCs, Carries, Placed, Sound, WellFormed
  <2> QED
    BY <2>1, <2>2 DEF TypeOK
<1> QED
  BY <1>1, AlwaysGood, PTL

\* What the bot remembers of its message is what the chat sees, for any answers of
\* Telegram, but for an edit under way or given up and an id shared with another chat.
THEOREM StateMatchesChatHolds == Spec => []StateMatchesChat
<1>1. Good => StateMatchesChat
  BY DEF Good, Shows
<1> QED
  BY <1>1, AlwaysGood, PTL

\* After a press that was not throttled the chat sees the number in the database.
THEOREM PressShowsHolds == Spec => PressShows
<1> DEFINE Fine == Commit /\ task.upd.kind = "on_here" /\ task.fresh /\ ~doubt =>
                     shown.known = count_active_members(db', Group)
<1>1. Good /\ [Next]_vars => [Fine]_vars
  <2> SUFFICES ASSUME Good, Commit, task.upd.kind = "on_here", task.fresh, ~doubt
               PROVE  shown.known = count_active_members(db', Group)
    OBVIOUS
  <2>1. task.pc = "commit" /\ db' = task.work
    BY DEF Commit
  <2>2. task # Idle
    BY <2>1, UnderWay
  <2> QED
    BY <2>1, <2>2 DEF Good, Shows, IsPress, Counted
<1> QED
  BY <1>1, AlwaysGood, PTL DEF Spec, PressShows

\* Whoever was told "recorded" is recorded: no refusal of Telegram, however it is
\* retried, undoes a press.
THEOREM ToldIsRecordedHolds == Spec => ToldIsRecorded
<1> DEFINE Fine == task # Idle /\ task' = Idle /\ task.upd.kind = "on_here" /\ task.told =>
                     task.escaped \/ Crash \/ <<Group, task.upd.from>> \in db'.active
<1>1. Good /\ [Next]_vars => [Fine]_vars
  <2> SUFFICES ASSUME Good, [Next]_vars, task # Idle, task' = Idle,
                      task.upd.kind = "on_here", task.told, ~task.escaped, ~Crash
               PROVE  <<Group, task.upd.from>> \in db'.active
    OBVIOUS
  <2>1. Commit \/ Rollback
    BY GoodKept
  <2>2. Carries(task) /\ Placed(task) /\ IsPress(task)
    BY DEF Good, Carried, IsPress
  <2>3. task.pc # "rollback"
    BY <2>2 DEF Placed
  <2>4. db' = task.work
    BY <2>1, <2>3 DEF Commit, Rollback
  <2> QED
    BY <2>2, <2>4 DEF Carries
<1> QED
  BY <1>1, AlwaysGood, PTL DEF Spec, ToldIsRecorded
=============================================================================
