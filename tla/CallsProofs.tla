------------------------------ MODULE CallsProofs ------------------------------
(***************************************************************************)
(* Proofs about Calls, for any people, words, pauses, batch size and       *)
(* answers of Telegram: whom a message may call is still true of them when *)
(* it goes out, a call that gave nothing up reached everybody, and, while  *)
(* the process does not die, pauses are kept.                              *)
(***************************************************************************)
EXTENDS Calls, HandlersProofs, FunctionTheorems

Keyed == Chats \X Keys

Got ==
  [targets : SUBSET Users, handled : Nat, noted : BOOLEAN, used : SUBSET Keys, cool : Cooldowns]

Call ==
  [pc : {"read", "send", "commit"}, msg : Messages, word : Nat \ {0}, got : Got,
   texts : Seq(SUBSET Users), batch : Nat, attempt : 1 .. MAX_RETRY_AFTER_ATTEMPTS,
   reply : BOOLEAN, reached : SUBSET Users, dropped : BOOLEAN, gone : BOOLEAN]

\* The messages of texts are for the people in targets, and between them for all of them.
Split(texts, targets) ==
  /\ \A k \in 1 .. Len(texts) : texts[k] \subseteq targets
  /\ \A u \in targets : \E k \in 1 .. Len(texts) : u \in texts[k]

\* A call that reads words has sent nothing.
Reads(c) ==
  /\ c.pc = "read"
  /\ MoreToRead(c.got, c.msg, c.word)
  /\ c.texts = <<>> /\ c.batch = 1
  /\ c.reached = {} /\ ~c.dropped /\ ~c.gone

\* A call that sends has, unless it gave one up, delivered the messages before batch.
Sends(c) ==
  /\ c.pc = "send"
  /\ Split(c.texts, c.got.targets)
  /\ c.batch \in 1 .. Len(c.texts)
  /\ c.reached \subseteq c.got.targets /\ ~c.gone
  /\ ~c.dropped => \A k \in 1 .. c.batch - 1 : c.texts[k] \subseteq c.reached

\* A call that has sent has reached all it is for, unless it gave up.
Ends(c) ==
  /\ c.pc = "commit"
  /\ c.batch \in 1 .. (IF c.texts = <<>> THEN 1 ELSE Len(c.texts))
  /\ c.reached \subseteq c.got.targets
  /\ ~c.dropped /\ ~c.gone => c.reached = c.got.targets

Placed(c) == c \in Call /\ (Reads(c) \/ Sends(c) \/ Ends(c))

\* Everybody collected may be called.
Meant(c, d, worn) == \A u \in c.got.targets : MayCall(d, worn, c.msg, u)

\* A key used at q may be used again, or was never used.
Later(p, q) == q # Never /\ (p = Never \/ q - p >= COOLDOWN)

\* What a call for m has written of pauses since the table held "before".
Paused(acc, m, before) ==
  /\ COOLDOWN = 0 => acc.cool = before
  /\ \A r \in Keyed : acc.cool[r] = before[r] \/ Later(before[r], acc.cool[r])
  /\ COOLDOWN > 0 => \A k \in acc.used : Later(before[<<m.chat, k>>], acc.cool[<<m.chat, k>>])

\* No pause is dated in the future.
Dated(table) == \A r \in Keyed : table[r] <= now

Stored ==
  /\ Sound(db) /\ titles \in TelegramTags
  /\ cool \in Cooldowns /\ called \in Cooldowns
  /\ inactive \subseteq db.chats
  /\ now \in 0 .. MaxTime /\ crashes \in 0 .. MaxCrashes

Carried ==
  call # Idle =>
    /\ Placed(call)
    /\ Meant(call, Tracked(call.msg), TitlesTracked(call.msg))

IInv == Stored /\ Carried

\* A key is as recently used as the last call of it that reached anybody, in the
\* table or in what the call in progress will commit.
Remembered ==
  /\ crashes = 0
  /\ COOLDOWN = 0 => \A r \in Keyed : cool[r] = Never /\ called[r] = Never
  /\ Dated(cool)
  /\ call # Idle => Paused(call.got, call.msg, cool) /\ Dated(call.got.cool)
  /\ \A r \in Keyed :
       \/ called[r] <= cool[r]
       \/ /\ call # Idle /\ call.pc # "read"
          /\ r \in {call.msg.chat} \X call.got.used
          /\ called[r] = call.got.cool[r]

-----------------------------------------------------------------------------
(* The operators a call is built from.                                     *)

\* Between the multiples of b lies every number.
LEMMA Quotient ==
  ASSUME NEW a \in Nat, NEW b \in Nat \ {0}
  PROVE  a \div b \in Nat /\ (a \div b) * b <= a /\ a < (a \div b) * b + b
BY SMT

\* Everybody to be called is in a message, and nobody else.
LEMMA MessagesSplit ==
  ASSUME NEW people \in SUBSET Users
  PROVE  /\ build_mention_messages(people) \in Seq(SUBSET Users)
         /\ Split(build_mention_messages(people), people)
<1> DEFINE n == Cardinality(people)
           onto(f) == \A p \in people : \E i \in 1 .. n : f[i] = p
           order == CHOOSE f \in [1 .. n -> people] : onto(f)
           last(k) == IF k * BatchSize < n THEN k * BatchSize ELSE n
           slices == (n + BatchSize - 1) \div BatchSize
           slice(k) == {order[i] : i \in ((k - 1) * BatchSize + 1) .. last(k)}
           texts == [k \in 1 .. slices |-> slice(k)]
<1>1. n \in Nat /\ ExistsBijection(1 .. n, people)
  <2>1. IsFiniteSet(people)
    BY StoreAssumption, FS_Subset
  <2> QED
    BY <2>1, FS_CardinalityType
<1>2. BatchSize \in Nat \ {0}
  BY MentionsAssumption
<1>3. order \in [1 .. n -> people] /\ onto(order)
  <2>1. PICK f \in Bijection(1 .. n, people) : TRUE
    BY <1>1 DEF ExistsBijection
  <2>2. f \in [1 .. n -> people] /\ onto(f)
    BY <2>1 DEF Bijection, Injection, Surjection
  <2> HIDE DEF n, onto
  <2> QED
    BY <2>2
<1>4. build_mention_messages(people) = texts
  BY DEF build_mention_messages
<1>5. slices \in Nat /\ slices * BatchSize <= n + BatchSize - 1
      /\ n + BatchSize - 1 < slices * BatchSize + BatchSize
  <2>1. n + BatchSize - 1 \in Nat
    BY <1>1, <1>2
  <2> QED
    BY <2>1, <1>2, Quotient
<1> HIDE DEF n, order, slices
<1>6. ASSUME NEW k \in 1 .. slices
      PROVE  slice(k) \subseteq people
  <2> SUFFICES ASSUME NEW i \in ((k - 1) * BatchSize + 1) .. last(k) PROVE order[i] \in people
    OBVIOUS
  <2>0. k \in Nat /\ k - 1 \in Nat
    BY <1>5
  <2>1. (k - 1) * BatchSize \in Nat /\ k * BatchSize \in Nat
    BY <2>0, <1>2
  <2>2. i \in 1 .. n
    BY <1>1, <2>1
  <2> QED
    BY <1>3, <2>2
<1>7. ASSUME NEW p \in people
      PROVE  \E k \in 1 .. slices : p \in slice(k)
  <2>1. PICK i \in 1 .. n : order[i] = p
    BY <1>3
  <2> DEFINE q == (i - 1) \div BatchSize
  <2>2. q \in Nat /\ q * BatchSize <= i - 1 /\ i - 1 < q * BatchSize + BatchSize
    BY <1>2, <2>1, Quotient
  <2> HIDE DEF q
  <2>3. q + 1 \in 1 .. slices
    BY <1>1, <1>2, <1>5, <2>1, <2>2
  <2>4. (q + 1) * BatchSize = q * BatchSize + BatchSize /\ (q + 1) - 1 = q
    BY <1>2, <2>2
  <2>5. q * BatchSize \in Nat
    BY <1>2, <2>2
  <2>6. i \in (((q + 1) - 1) * BatchSize + 1) .. last(q + 1)
    BY <1>1, <1>2, <2>1, <2>2, <2>4, <2>5
  <2> QED
    BY <2>1, <2>3, <2>6
<1> HIDE DEF slice
<1>8. texts \in Seq(SUBSET Users) /\ Len(texts) = slices
  BY <1>5, <1>6
<1> QED
  BY <1>4, <1>6, <1>7, <1>8 DEF Split

\* What the tracker writes of a Telegram tag is one.
LEMMA WornIsTag ==
  ASSUME NEW worn \in TelegramTags, NEW c \in Chats, NEW u \in Users, NEW s \in SenderTags
  PROVE  Worn(worn, c, u, s) \in TelegramTags
<1>1. s[2] \in Titles \union {None}
  <2>1. s = <<FALSE, None>> \/ s \in {TRUE} \X (Titles \union {None})
    BY DEF SenderTags
  <2>2. CASE s = <<FALSE, None>>
    BY <2>2
  <2>3. CASE s \in {TRUE} \X (Titles \union {None})
    BY <2>3
  <2> QED
    BY <2>1, <2>2, <2>3
<1>2. <<c, u>> \in ChatMember
  BY DEF ChatMember
<1> QED
  BY <1>1, <1>2 DEF Worn, TelegramTags

\* The tracker finds the chat, or inserts it, and removes none.
LEMMA TrackerKeepsChats ==
  ASSUME NEW d, Sound(d), NEW m, m.chat \in Chats, m.from \in Users
  PROVE  /\ Sound(MemberTrackerMiddleware(d, m))
         /\ MemberTrackerMiddleware(d, m).chats = d.chats \union {m.chat}
<1> DEFINE e == get_or_create_chat(d, m.chat)
<1>1. Sound(e) /\ m.chat \in e.chats /\ e.chats = d.chats \union {m.chat}
  BY GetOrCreateChat DEF Sound, WellFormed, Database, get_or_create_chat
<1>2. Sound(record_person(e, m.chat, m.from))
  BY <1>1, RecordPerson
<1>3. record_person(e, m.chat, m.from).chats = e.chats
  BY <1>1 DEF Sound, WellFormed, Database, record_person, upsert_user, ensure_membership
<1> QED
  BY <1>1, <1>2, <1>3 DEF MemberTrackerMiddleware

\* A tag found by a word is a tag of the chat whose name has the word in it.
LEMMA FoundTags ==
  ASSUME NEW d, NEW c, NEW q \in Names, NEW t \in find_tags(d, c, q)
  PROVE  t \in TagsOf(d, c) /\ <<t.name, q>> \in Contains
BY MentionsAssumption DEF find_tags

-----------------------------------------------------------------------------
(* One word.                                                               *)

\* Whom the word q means in a message m (a part of MayCall).
Means(d, worn, m, q, u) ==
  /\ u \in d.users \ Bots /\ <<m.chat, u>> \in d.active /\ u # m.from
  /\ \/ q \in ALL_TAG_ALIASES /\ m.allowed /\ <<m.chat, u>> \notin d.muted
     \/ q \in Names /\ \E t \in TagsOf(d, m.chat) :
          <<t.name, q>> \in Contains /\ <<t.id, u>> \in d.tag_members
     \/ \E l \in 1 .. 3 : <<q, worn[<<m.chat, u>>], l>> \in TitleLevel

\* What reading a word may do: people are added, some of the free keys ks go into
\* the header, and all of them are written.
Grown(acc, next, people, used, ks, m, t) ==
  /\ next \in Got
  /\ people \subseteq Users /\ ks \subseteq Keys /\ used \subseteq ks
  /\ next.targets = acc.targets \union people
  /\ next.used = acc.used \union used
  /\ next.cool = Acquire(acc.cool, m.chat, ks, t)
  /\ \A k \in ks : ~MustWait(acc.cool, m.chat, k, t)

\* A pause written is a reading of the clock; the others stay.
LEMMA AcquireWrites ==
  ASSUME NEW before \in Cooldowns, NEW c \in Chats, NEW ks \in SUBSET Keys, NEW t \in 0 .. MaxTime
  PROVE  LET after == Acquire(before, c, ks, t)
         IN /\ after \in Cooldowns
            /\ COOLDOWN = 0 \/ ks = {} => after = before
            /\ \A r \in Keyed :
                 after[r] = IF COOLDOWN # 0 /\ r \in {c} \X ks THEN t ELSE before[r]
<1>1. DOMAIN before = Keyed /\ \A r \in Keyed : before[r] \in (0 .. MaxTime) \union {Never}
  BY DEF Cooldowns, Keyed
<1>2. CASE COOLDOWN = 0
  BY <1>2 DEF Acquire, Cooldowns, Keyed
<1>3. CASE COOLDOWN # 0
  <2> DEFINE after == [r \in Keyed |-> IF r \in {c} \X ks THEN t ELSE before[r]]
  <2>1. Acquire(before, c, ks, t) = after
    BY <1>1, <1>3 DEF Acquire
  <2>2. after \in Cooldowns
    BY <1>1 DEF Cooldowns, Keyed
  <2>3. ks = {} => after = before
    BY <1>1 DEF Cooldowns, Keyed
  <2> QED
    BY <1>3, <2>1, <2>2, <2>3
<1> QED
  BY <1>2, <1>3

\* Nothing is written for no keys.
LEMMA AcquireNothing ==
  ASSUME NEW before \in Cooldowns, NEW c \in Chats, NEW t \in 0 .. MaxTime
  PROVE  Acquire(before, c, {}, t) = before
<1>1. {} \in SUBSET Keys
  OBVIOUS
<1>2. LET after == Acquire(before, c, {}, t)
      IN COOLDOWN = 0 \/ {} = {} => after = before
  BY <1>1, AcquireWrites, Zenon
<1> QED
  BY <1>2

\* A refusal leaves a note at most.
LEMMA Refusal ==
  ASSUME NEW acc \in Got, NEW m \in MentionMessage, NEW t \in 0 .. MaxTime
  PROVE  /\ Grown(acc, acc, {}, {}, {}, m, t)
         /\ Grown(acc, [acc EXCEPT !.noted = TRUE], {}, {}, {}, m, t)
<1>1. acc.cool \in Cooldowns /\ m.chat \in Chats /\ {} \in SUBSET Keys
  BY DEF Got, MentionMessage
<1>2. Acquire(acc.cool, m.chat, {}, t) = acc.cool
  BY <1>1, AcquireNothing
<1> QED
  BY <1>1, <1>2 DEF Grown, Got

\* @all.
LEMMA AllGrows ==
  ASSUME NEW acc \in Got, NEW d, Sound(d), NEW worn, NEW m \in MentionMessage,
         NEW t \in 0 .. MaxTime, NEW q \in ALL_TAG_ALIASES
  PROVE  \E people, used, ks :
           /\ Grown(acc, _collect_all(acc, d, m, t), people, used, ks, m, t)
           /\ \A u \in people : Means(d, worn, m, q, u)
<1> DEFINE next == _collect_all(acc, d, m, t)
           people == list_active_users(d, m.chat) \ {m.from}
           wrote == [acc EXCEPT !.cool = Acquire(@, m.chat, {AllKey}, t)]
<1>1. CASE ~m.allowed \/ MustWait(acc.cool, m.chat, AllKey, t)
  <2>1. Grown(acc, next, {}, {}, {}, m, t)
    BY <1>1, Refusal DEF _collect_all
  <2> QED
    BY <2>1
<1>2. CASE m.allowed /\ ~MustWait(acc.cool, m.chat, AllKey, t)
  <2>1. acc.cool \in Cooldowns /\ m.chat \in Chats /\ {AllKey} \subseteq Keys
    BY DEF Got, MentionMessage, Keys
  <2>2. Acquire(acc.cool, m.chat, {AllKey}, t) \in Cooldowns
    BY <2>1, AcquireWrites
  <2>3. wrote \in Got /\ wrote.targets = acc.targets /\ wrote.used = acc.used
        /\ wrote.cool = Acquire(acc.cool, m.chat, {AllKey}, t)
    BY <2>2 DEF Got
  <2>4. CASE people = {}
    <3>1. next = [wrote EXCEPT !.noted = TRUE]
      BY <1>2, <2>4 DEF _collect_all
    <3>2. Grown(acc, next, {}, {}, {AllKey}, m, t)
      BY <1>2, <2>1, <2>3, <3>1 DEF Grown, Got
    <3> QED
      BY <3>2
  <2>5. CASE people # {}
    <3>1. next = [wrote EXCEPT !.handled = @ + 1, !.used = @ \union {AllKey},
                               !.targets = @ \union people]
      BY <1>2, <2>5 DEF _collect_all
    <3>2. people \subseteq Users
      BY DEF list_active_users, Sound, WellFormed, Database
    <3> HIDE DEF people, wrote
    <3>3. Grown(acc, next, people, {AllKey}, {AllKey}, m, t)
      <4>0. wrote.handled + 1 \in Nat /\ wrote.targets \union people \in SUBSET Users
            /\ wrote.used \union {AllKey} \in SUBSET Keys
        BY <2>1, <2>3, <3>2 DEF Got
      <4>1. next \in Got
        BY <2>3, <3>1, <4>0 DEF Got
      <4>2. /\ next.targets = acc.targets \union people
            /\ next.used = acc.used \union {AllKey}
            /\ next.cool = Acquire(acc.cool, m.chat, {AllKey}, t)
        BY <2>3, <3>1 DEF Got
      <4> QED
        BY <1>2, <2>1, <3>2, <4>1, <4>2 DEF Grown
    <3>4. \A u \in people : Means(d, worn, m, q, u)
      BY <1>2 DEF people, list_active_users, Means
    <3> QED
      BY <3>3, <3>4
  <2> QED
    BY <2>4, <2>5
<1> QED
  BY <1>1, <1>2

\* A Telegram tag.
LEMMA TitleGrows ==
  ASSUME NEW acc \in Got, NEW d, Sound(d), NEW worn, NEW m \in MentionMessage,
         NEW t \in 0 .. MaxTime, NEW q \in Names
  PROVE  \E people, used, ks :
           /\ Grown(acc, _collect_by_telegram_tag(acc, d, worn, m, q, t), people, used, ks, m, t)
           /\ \A u \in people : Means(d, worn, m, q, u)
<1> DEFINE next == _collect_by_telegram_tag(acc, d, worn, m, q, t)
           people == find_users_by_telegram_tag(d, worn, m.chat, q, {m.from})
           key == TitleKey(q)
<1>1. CASE people = {}
  <2>1. Grown(acc, next, {}, {}, {}, m, t)
    BY <1>1, Refusal DEF _collect_by_telegram_tag
  <2> QED
    BY <2>1
<1>2. CASE people # {} /\ MustWait(acc.cool, m.chat, key, t)
  <2>1. Grown(acc, next, {}, {}, {}, m, t)
    BY <1>2, Refusal DEF _collect_by_telegram_tag
  <2> QED
    BY <2>1
<1>3. CASE people # {} /\ ~MustWait(acc.cool, m.chat, key, t)
  <2>1. acc.cool \in Cooldowns /\ m.chat \in Chats /\ {key} \in SUBSET Keys
    BY DEF Got, MentionMessage, Keys
  <2>2. Acquire(acc.cool, m.chat, {key}, t) \in Cooldowns
    BY <2>1, AcquireWrites
  <2>3. next = [acc EXCEPT !.cool = Acquire(@, m.chat, {key}, t), !.handled = @ + 1,
                           !.used = @ \union {key}, !.targets = @ \union people]
    BY <1>3 DEF _collect_by_telegram_tag
  <2>4. people \subseteq Users /\ \A u \in people : Means(d, worn, m, q, u)
    <3> SUFFICES ASSUME NEW u \in people PROVE u \in Users /\ Means(d, worn, m, q, u)
      OBVIOUS
    <3>1. PICK l \in 1 .. 3 :
            /\ u \in d.users \ (Bots \union {m.from})
            /\ <<m.chat, u>> \in d.active /\ <<q, worn[<<m.chat, u>>], l>> \in TitleLevel
      BY DEF find_users_by_telegram_tag
    <3> QED
      BY <3>1 DEF Means, Sound, WellFormed, Database
  <2> HIDE DEF people, key, next
  <2>5. acc.handled + 1 \in Nat /\ acc.targets \union people \in SUBSET Users
        /\ acc.used \union {key} \in SUBSET Keys
    BY <2>1, <2>4 DEF Got
  <2>6. next \in Got
    BY <2>2, <2>3, <2>5 DEF Got
  <2>7. /\ next.targets = acc.targets \union people
        /\ next.used = acc.used \union {key}
        /\ next.cool = Acquire(acc.cool, m.chat, {key}, t)
    BY <2>3 DEF Got
  <2>8. Grown(acc, next, people, {key}, {key}, m, t)
    BY <1>3, <2>1, <2>4, <2>6, <2>7 DEF Grown
  <2> QED
    BY <2>4, <2>8 DEF next
<1> QED
  BY <1>1, <1>2, <1>3

\* The tags of the group that the word matches.
LEMMA TagsGrow ==
  ASSUME NEW acc \in Got, NEW d, Sound(d), NEW worn, NEW m \in MentionMessage,
         NEW t \in 0 .. MaxTime, NEW q \in Names
  PROVE  \E people, used, ks :
           /\ Grown(acc, CollectTags(acc, d, m, find_tags(d, m.chat, q), t), people, used, ks, m, t)
           /\ \A u \in people : Means(d, worn, m, q, u)
<1> DEFINE tags == find_tags(d, m.chat, q)
           next == CollectTags(acc, d, m, tags, t)
           free == {s \in tags : ~MustWait(acc.cool, m.chat, TagKey(s.name), t)}
           Called(s) == get_tag_users(d, s) \ {m.from}
           ks == {TagKey(s.name) : s \in free}
           people == UNION {Called(s) : s \in free}
           note == acc.noted \/ free # tags \/ \E s \in free : Called(s) = {}
<1>1. next = [acc EXCEPT !.handled = @ + 1, !.noted = note,
                         !.cool = Acquire(@, m.chat, ks, t),
                         !.used = @ \union ks, !.targets = @ \union people]
  BY DEF CollectTags
<1>2. \A s \in tags : s \in d.tags /\ s.chat = m.chat /\ s.name \in Names
                      /\ <<s.name, q>> \in Contains
  BY FoundTags DEF TagsOf, Sound, WellFormed, Database, Tag
<1>3. ks \in SUBSET Keys /\ \A k \in ks : ~MustWait(acc.cool, m.chat, k, t)
  BY <1>2 DEF Keys
<1>4. people \subseteq Users /\ \A u \in people : Means(d, worn, m, q, u)
  <2> SUFFICES ASSUME NEW u \in people PROVE u \in Users /\ Means(d, worn, m, q, u)
    OBVIOUS
  <2>1. PICK s \in free : u \in Called(s)
    OBVIOUS
  <2>2. /\ u \in d.users \ Bots /\ u # m.from
        /\ <<s.id, u>> \in d.tag_members /\ <<s.chat, u>> \in d.active
    BY <2>1 DEF get_tag_users
  <2>3. s \in TagsOf(d, m.chat) /\ <<s.name, q>> \in Contains /\ s.chat = m.chat
    BY <1>2 DEF TagsOf
  <2> QED
    BY <2>2, <2>3 DEF Means, Sound, WellFormed, Database
<1>5. acc.cool \in Cooldowns /\ m.chat \in Chats
  BY DEF Got, MentionMessage
<1> HIDE DEF ks, people, free, next, tags
<1>6. Acquire(acc.cool, m.chat, ks, t) \in Cooldowns
  BY <1>3, <1>5, AcquireWrites
<1>7. acc.handled + 1 \in Nat /\ acc.targets \union people \in SUBSET Users
      /\ acc.used \union ks \in SUBSET Keys
  BY <1>3, <1>4 DEF Got
<1>8. note \in BOOLEAN
  OBVIOUS
<1> HIDE DEF note
<1>9. next \in Got
  BY <1>1, <1>6, <1>7, <1>8 DEF Got
<1>10. /\ next.targets = acc.targets \union people
       /\ next.used = acc.used \union ks
       /\ next.cool = Acquire(acc.cool, m.chat, ks, t)
  BY <1>1 DEF Got
<1>11. Grown(acc, next, people, ks, ks, m, t)
  BY <1>3, <1>4, <1>9, <1>10 DEF Grown
<1> QED
  BY <1>4, <1>11 DEF next, tags

\* Whatever a word is, reading it adds only people it means.
LEMMA CandidateGrows ==
  ASSUME NEW acc \in Got, NEW d, Sound(d), NEW worn, NEW m \in MentionMessage,
         NEW t \in 0 .. MaxTime, NEW q \in Words
  PROVE  \E people, used, ks :
           /\ Grown(acc, Candidate(acc, d, worn, m, q, t), people, used, ks, m, t)
           /\ \A u \in people : Means(d, worn, m, q, u)
<1> DEFINE tags == find_tags(d, m.chat, q)
<1>1. CASE q \in ALL_TAG_ALIASES
  BY <1>1, AllGrows DEF Candidate
<1>2. CASE q \notin ALL_TAG_ALIASES /\ tags = {}
  BY <1>2, TitleGrows DEF Candidate, Words
<1>3. CASE q \notin ALL_TAG_ALIASES /\ tags # {} /\ Cardinality(tags) > MAX_FUZZY_TAG_MATCHES
  <2>1. Grown(acc, Candidate(acc, d, worn, m, q, t), {}, {}, {}, m, t)
    BY <1>3, Refusal DEF Candidate
  <2> QED
    BY <2>1
<1>4. CASE q \notin ALL_TAG_ALIASES /\ tags # {} /\ ~(Cardinality(tags) > MAX_FUZZY_TAG_MATCHES)
  <2>1. Candidate(acc, d, worn, m, q, t) = CollectTags(acc, d, m, tags, t)
    BY <1>4 DEF Candidate
  <2> QED
    BY <1>4, <2>1, TagsGrow DEF Words
<1> QED
  BY <1>1, <1>2, <1>3, <1>4

\* The people collected may be called by what was read, the next word included.
LEMMA WordMeant ==
  ASSUME NEW acc \in Got, NEW d, Sound(d), NEW worn, NEW m \in MentionMessage,
         NEW t \in 0 .. MaxTime, NEW i \in DOMAIN m.words,
         \A u \in acc.targets : MayCall(d, worn, m, u)
  PROVE  LET next == Candidate(acc, d, worn, m, m.words[i], t)
         IN next \in Got /\ \A u \in next.targets : MayCall(d, worn, m, u)
<1> DEFINE q == m.words[i]
           next == Candidate(acc, d, worn, m, q, t)
<1>1. q \in Words /\ q \in {m.words[j] : j \in DOMAIN m.words}
  BY DEF MentionMessage
<1>2. PICK people, used, ks :
        /\ Grown(acc, next, people, used, ks, m, t)
        /\ \A u \in people : Means(d, worn, m, q, u)
  BY <1>1, CandidateGrows
<1> HIDE DEF q, next
<1>3. next \in Got /\ next.targets = acc.targets \union people
  BY <1>2 DEF Grown
<1>4. ASSUME NEW u \in people PROVE MayCall(d, worn, m, u)
  BY <1>1, <1>2 DEF Means, MayCall
<1> QED
  BY <1>3, <1>4 DEF next, q

\* Every pause a word writes is due.
LEMMA WordPauses ==
  ASSUME NEW acc \in Got, NEW d, Sound(d), NEW worn, NEW m \in MentionMessage,
         NEW t \in 0 .. MaxTime, NEW q \in Words, NEW before \in Cooldowns,
         Paused(acc, m, before), \A r \in Keyed : acc.cool[r] <= t
  PROVE  LET next == Candidate(acc, d, worn, m, q, t)
         IN Paused(next, m, before) /\ \A r \in Keyed : next.cool[r] <= t
<1> DEFINE next == Candidate(acc, d, worn, m, q, t)
<1>1. PICK people, used, ks : Grown(acc, next, people, used, ks, m, t)
  BY CandidateGrows
<1> HIDE DEF next
<1>2. acc.cool \in Cooldowns /\ m.chat \in Chats /\ COOLDOWN \in Nat /\ ks \in SUBSET Keys
  BY <1>1, MentionsAssumption DEF Got, MentionMessage, Grown
<1>3. next.cool = Acquire(acc.cool, m.chat, ks, t)
  BY <1>1 DEF Grown
<1>4. COOLDOWN = 0 => next.cool = acc.cool
  BY <1>3 DEF Acquire
<1>5. \A r \in Keyed :
        next.cool[r] = IF COOLDOWN # 0 /\ r \in {m.chat} \X ks THEN t ELSE acc.cool[r]
  BY <1>2, <1>3, AcquireWrites
<1>6. \A r \in Keyed : /\ acc.cool[r] \in Int /\ (acc.cool[r] = Never \/ acc.cool[r] >= 0)
                       /\ before[r] \in Int
  BY <1>2 DEF Cooldowns, Keyed, Never
<1>7. ASSUME NEW k \in ks, COOLDOWN # 0
      PROVE  Later(acc.cool[<<m.chat, k>>], t)
  <2>1. ~MustWait(acc.cool, m.chat, k, t)
    BY <1>1 DEF Grown
  <2>2. <<m.chat, k>> \in Keyed
    BY <1>2 DEF Keyed
  <2> QED
    BY <1>2, <1>6, <1>7, <2>1, <2>2 DEF MustWait, Later, Never
<1>8. ASSUME NEW r \in Keyed, Later(acc.cool[r], t)
      PROVE  Later(before[r], t)
  <2>1. acc.cool[r] = before[r] \/ Later(before[r], acc.cool[r])
    BY DEF Paused
  <2> QED
    BY <1>2, <1>6, <1>8, <2>1 DEF Later, Never
<1>9. \A r \in Keyed : next.cool[r] = before[r] \/ Later(before[r], next.cool[r])
  <2> SUFFICES ASSUME NEW r \in Keyed PROVE next.cool[r] = before[r] \/ Later(before[r], next.cool[r])
    OBVIOUS
  <2>1. CASE COOLDOWN # 0 /\ r \in {m.chat} \X ks
    <3>1. PICK k \in ks : r = <<m.chat, k>>
      BY <2>1
    <3> QED
      BY <1>5, <1>7, <1>8, <2>1, <3>1
  <2>2. CASE ~(COOLDOWN # 0 /\ r \in {m.chat} \X ks)
    BY <1>5, <2>2 DEF Paused
  <2> QED
    BY <2>1, <2>2
<1>10. ASSUME COOLDOWN > 0, NEW k \in next.used
       PROVE  Later(before[<<m.chat, k>>], next.cool[<<m.chat, k>>])
  <2>0. COOLDOWN # 0
    BY <1>10
  <2>1. <<m.chat, k>> \in Keyed /\ (k \in acc.used \/ k \in ks)
    BY <1>1, <1>2 DEF Grown, Keyed, Got
  <2>2. CASE k \in ks
    BY <1>5, <1>7, <1>8, <2>0, <2>1, <2>2
  <2>3. CASE k \in acc.used /\ k \notin ks
    <3>1. Later(before[<<m.chat, k>>], acc.cool[<<m.chat, k>>])
      BY <1>10, <2>3 DEF Paused
    <3>2. <<m.chat, k>> \notin {m.chat} \X ks
      BY <2>3
    <3> QED
      BY <1>5, <2>1, <3>1, <3>2
  <2> QED
    BY <2>1, <2>2, <2>3
<1>11. \A r \in Keyed : next.cool[r] <= t
  BY <1>5, <1>6
<1> QED
  BY <1>4, <1>9, <1>10, <1>11 DEF Paused, next

-----------------------------------------------------------------------------
(* Sending.                                                                *)

SameCall(c, e) == e.msg = c.msg /\ e.got = c.got

\* A call goes on to the next message when it has delivered this one, or gave it up.
LEMMA AdvancePlaced ==
  ASSUME NEW c \in Call, Sends(c), ~c.dropped => c.texts[c.batch] \subseteq c.reached
  PROVE  Placed(Advance(c)) /\ SameCall(c, Advance(c)) /\ Advance(c).pc \in {"send", "commit"}
<1>1. Len(c.texts) \in Nat /\ c.batch \in 1 .. Len(c.texts)
  BY DEF Call, Sends
<1>2. 1 \in 1 .. MAX_RETRY_AFTER_ATTEMPTS
  BY CallsAssumption
<1>3. ~c.dropped => \A k \in 1 .. c.batch : c.texts[k] \subseteq c.reached
  BY <1>1 DEF Sends
<1>4. CASE c.batch = Len(c.texts)
  <2> DEFINE e == [c EXCEPT !.pc = "commit"]
  <2>1. Advance(c) = e
    BY <1>4 DEF Advance
  <2>2. e \in Call /\ SameCall(c, e) /\ e.pc = "commit" /\ e.batch = c.batch
        /\ e.texts = c.texts /\ e.reached = c.reached /\ e.dropped = c.dropped
    BY DEF Call, SameCall
  <2>3. ~c.dropped => c.reached = c.got.targets
    BY <1>3, <1>4 DEF Sends, Split
  <2>4. c.texts # <<>>
    BY <1>1
  <2> HIDE DEF e
  <2>5. Ends(e)
    BY <1>1, <2>2, <2>3, <2>4 DEF Ends, Sends, SameCall
  <2> QED
    BY <2>1, <2>2, <2>5 DEF Placed
<1>5. CASE c.batch # Len(c.texts)
  <2> DEFINE b == c.batch + 1
             e == [c EXCEPT !.batch = b, !.attempt = 1, !.reply = FALSE]
  <2>1. Advance(c) = e /\ b \in Nat
    BY <1>1, <1>5 DEF Advance
  <2> HIDE DEF b
  <2>2. e \in Call /\ SameCall(c, e) /\ e.pc = c.pc /\ e.batch = b
        /\ e.texts = c.texts /\ e.reached = c.reached /\ e.dropped = c.dropped /\ e.gone = c.gone
    BY <1>2, <2>1 DEF Call, SameCall
  <2> HIDE DEF e
  <2>3. (e.batch - 1) = c.batch /\ e.batch \in 1 .. Len(c.texts)
    BY <1>1, <1>5, <2>2 DEF b
  <2>4. Sends(e)
    BY <1>3, <2>2, <2>3 DEF Sends, SameCall
  <2> QED
    BY <2>1, <2>2, <2>4 DEF Placed, Sends
<1> QED
  BY <1>4, <1>5

\* Giving a message up, or reaching the people of it, leaves the call where it is.
LEMMA MarksPlaced ==
  ASSUME NEW c \in Call, Sends(c)
  PROVE  /\ LET e == [c EXCEPT !.dropped = TRUE]
            IN e \in Call /\ Sends(e) /\ SameCall(c, e) /\ e.dropped
         /\ LET e == [c EXCEPT !.reply = FALSE]
            IN e \in Call /\ Sends(e) /\ SameCall(c, e)
         /\ LET e == Reach(c)
            IN /\ e \in Call /\ Sends(e) /\ SameCall(c, e)
               /\ e.texts[e.batch] \subseteq e.reached
<1>1. LET e == [c EXCEPT !.dropped = TRUE]
      IN e \in Call /\ Sends(e) /\ SameCall(c, e) /\ e.dropped
  BY DEF Call, Sends, SameCall
<1>2. LET e == [c EXCEPT !.reply = FALSE]
      IN e \in Call /\ Sends(e) /\ SameCall(c, e)
  BY DEF Call, Sends, SameCall
<1>3. LET e == Reach(c)
      IN e \in Call /\ Sends(e) /\ SameCall(c, e) /\ e.texts[e.batch] \subseteq e.reached
  <2> DEFINE e == Reach(c)
  <2>1. c.texts[c.batch] \subseteq c.got.targets /\ c.got.targets \subseteq Users
    BY DEF Sends, Split, Call, Got
  <2>2. c.reached \union c.texts[c.batch] \in SUBSET Users
    BY <2>1 DEF Call
  <2>3. e = [c EXCEPT !.reached = c.reached \union c.texts[c.batch]]
    BY DEF Reach
  <2>4. e \in Call /\ SameCall(c, e) /\ e.reached = c.reached \union c.texts[c.batch]
        /\ e.pc = c.pc /\ e.texts = c.texts /\ e.batch = c.batch /\ e.dropped = c.dropped
        /\ e.gone = c.gone
    BY <2>2, <2>3 DEF Call, SameCall
  <2> HIDE DEF e
  <2>5. Sends(e)
    BY <2>1, <2>4 DEF Sends, SameCall
  <2> QED
    BY <2>4, <2>5 DEF e
<1> QED
  BY <1>1, <1>2, <1>3

\* Another attempt, or the message is given up.
LEMMA RetryPlaced ==
  ASSUME NEW c \in Call, Sends(c)
  PROVE  Placed(Retry(c)) /\ SameCall(c, Retry(c)) /\ Retry(c).pc \in {"send", "commit"}
<1>1. CASE c.attempt = MAX_RETRY_AFTER_ATTEMPTS
  <2> DEFINE e == [c EXCEPT !.dropped = TRUE]
  <2>1. e \in Call /\ Sends(e) /\ SameCall(c, e) /\ e.dropped
    BY MarksPlaced
  <2>2. Retry(c) = Advance(e)
    BY <1>1 DEF Retry
  <2> HIDE DEF e
  <2> QED
    BY <2>1, <2>2, AdvancePlaced DEF SameCall
<1>2. CASE c.attempt # MAX_RETRY_AFTER_ATTEMPTS
  <2> DEFINE e == [c EXCEPT !.attempt = c.attempt + 1]
  <2>1. Retry(c) = e
    BY <1>2 DEF Retry
  <2>2. c.attempt + 1 \in 1 .. MAX_RETRY_AFTER_ATTEMPTS
    BY <1>2, CallsAssumption DEF Call
  <2>3. e \in Call /\ Sends(e) /\ SameCall(c, e) /\ e.pc = "send"
    BY <2>2 DEF Call, Sends, SameCall
  <2> QED
    BY <2>1, <2>3 DEF Placed
<1> QED
  BY <1>1, <1>2

-----------------------------------------------------------------------------
(* Steps.                                                                  *)

\* The handler, with what it read so far, goes on as the invariant says.
LEMMA CollectedPlaced ==
  ASSUME NEW c \in Call, c.pc = "read", c.texts = <<>>, c.batch = 1,
         c.reached = {}, ~c.dropped, ~c.gone
  PROVE  Placed(Collected(c)) /\ SameCall(c, Collected(c))
<1>1. CASE MoreToRead(c.got, c.msg, c.word)
  BY <1>1 DEF Collected, Placed, Reads, SameCall
<1>2. CASE ~MoreToRead(c.got, c.msg, c.word) /\ c.got.targets = {}
  <2> DEFINE e == [c EXCEPT !.pc = "commit"]
  <2>1. Collected(c) = e
    BY <1>2 DEF Collected
  <2>2. e \in Call /\ SameCall(c, e) /\ e.pc = "commit" /\ e.batch = 1
        /\ e.texts = <<>> /\ e.reached = {}
    BY DEF Call, SameCall
  <2> HIDE DEF e
  <2>3. Ends(e)
    BY <1>2, <2>2 DEF Ends, SameCall
  <2> QED
    BY <2>1, <2>2, <2>3 DEF Placed
<1>3. CASE ~MoreToRead(c.got, c.msg, c.word) /\ c.got.targets # {}
  <2> DEFINE texts == build_mention_messages(c.got.targets)
             e == [c EXCEPT !.pc = "send", !.texts = texts]
  <2>1. Collected(c) = e
    BY <1>3 DEF Collected
  <2>2. texts \in Seq(SUBSET Users) /\ Split(texts, c.got.targets)
    BY MessagesSplit DEF Call, Got
  <2>3. Len(texts) \in Nat /\ 1 \in 1 .. Len(texts)
    BY <1>3, <2>2 DEF Split
  <2> HIDE DEF texts
  <2>4. e \in Call /\ SameCall(c, e) /\ e.pc = "send" /\ e.batch = 1
        /\ e.texts = texts /\ e.reached = {} /\ ~e.gone
    BY <2>2 DEF Call, SameCall
  <2> HIDE DEF e
  <2>5. \A k \in 1 .. 1 - 1 : FALSE
    OBVIOUS
  <2>6. Sends(e)
    BY <2>2, <2>3, <2>4, <2>5 DEF Sends, SameCall
  <2> QED
    BY <2>1, <2>4, <2>6 DEF Placed
<1> QED
  BY <1>1, <1>2, <1>3

\* No handler but the one of a migration takes a chat away.
LEMMA HandleKeepsChats ==
  ASSUME NEW d, Sound(d), NEW m \in Update, m.kind # "chat_migrated", NEW i
  PROVE  d.chats \subseteq Handle(d, m, i).chats
<1> DEFINE known == get_or_create_chat(d, m.chat)
<1>0. /\ m.chat \in Chats /\ m.from \in Users
      /\ m.kind \in (MessageKinds \union EventKinds) \ {"chat_migrated"}
  BY DEF Update
<1>1. d \in Database /\ known \in Database /\ known.chats = d.chats \union {m.chat}
  BY <1>0 DEF Sound, WellFormed, Database, get_or_create_chat
<1>2. CASE m.kind \in {"cmd_join", "cmd_leave"}
  BY <1>1, <1>2 DEF Handle, cmd_join, add_tag_member, cmd_leave, remove_tag_member, Database
<1>3. CASE m.kind \in {"cmd_mute_me", "cmd_unmute_me"}
  BY <1>1, <1>3 DEF Handle, cmd_mute_me, cmd_unmute_me, set_muted, ensure_membership, Database
<1>4. CASE m.kind \in {"cmd_forget_me", "member_left"}
  BY <1>1, <1>4 DEF Handle, cmd_forget_me, member_left, set_member_active,
                    purge_user_from_chat_tags, Database
<1>5. CASE m.kind \in {"cmd_tag_create", "cmd_tag_delete"}
  BY <1>1, <1>5 DEF Handle, cmd_tag_create, create_tag, cmd_tag_delete, delete_tag, Database
<1>6. CASE m.kind \in {"cmd_tag_add", "cmd_tag_remove"}
  BY <1>1, <1>6 DEF Handle, cmd_tag_add, cmd_tag_remove, resolve_targets, record_people, Database
<1>7. CASE m.kind \in {"cmd_settings", "bot_added"}
  BY <1>1, <1>7 DEF Handle, cmd_settings, update_settings, bot_added, Database
<1>8. CASE m.kind \in {"member_joined", "reaction_seen", "on_here"}
  BY <1>1, <1>8 DEF Handle, member_joined, reaction_seen, on_here, record_person,
                    upsert_user, ensure_membership, Database
<1>9. CASE m.kind \in {"service_members_added", "service_member_left"}
  BY <1>1, <1>9 DEF Handle, service_members_added, service_member_left, record_people, Database
<1>10. CASE m.kind = "message"
  BY <1>10 DEF Handle
<1> QED
  BY <1>0, <1>2, <1>3, <1>4, <1>5, <1>6, <1>7, <1>8, <1>9, <1>10
     DEF MessageKinds, EventKinds, TagCommands, NeedsDbChat

\* Nor does a whole update.
LEMMA HandledKeepsChats ==
  ASSUME NEW before, Sound(before), NEW after, NEW m \in Update, m.kind # "chat_migrated",
         HandledAlone(m, before, after)
  PROVE  before.chats \subseteq after.chats
<1> DEFINE tracked == m.kind \notin EventKinds
           d == Base(m, tracked, before)
<1>1. Sound(d) /\ before.chats \subseteq d.chats
  BY TrackerKeepsChats DEF Base, Update
<1>2. after = d \/ \E i : after = Handle(d, m, i)
  BY DEF HandledAlone, Applied, Base
<1> HIDE DEF d
<1> QED
  BY <1>1, <1>2, HandleKeepsChats

\* A call in progress is a record with a message that may be sent.
LEMMA UnderWay ==
  ASSUME IInv, call.pc # "idle"
  PROVE  /\ call # Idle /\ call \in Call /\ Placed(call)
         /\ call.msg \in Messages /\ call.msg \in MentionMessage
         /\ call.msg.chat \in Chats /\ call.msg.from \in Users
         /\ call.got \in Got /\ call.got.cool \in Cooldowns
<1>1. call # Idle
  BY DEF Idle
<1>2. call \in Call /\ Placed(call)
  BY <1>1 DEF IInv, Carried, Placed
<1>3. call.msg \in Messages /\ call.got \in Got
  BY <1>2 DEF Call
<1>4. call.msg \in MentionMessage
  BY <1>3, CallsAssumption
<1> QED
  BY <1>1, <1>2, <1>3, <1>4 DEF MentionMessage, Got

\* What call does not sit idle with is a call; Idle is none.
LEMMA NotIdle ==
  ASSUME NEW c, Placed(c)
  PROVE  c # Idle /\ c.pc # "idle"
BY DEF Placed, Reads, Sends, Ends, Idle

Sent == Delivered \/ RetryAfter \/ NetworkError \/ ReplyGone \/ Refused \/ Forbidden

\* Whatever Telegram answers, the call is for the same people afterwards, and only
\* called and the call itself have changed.
LEMMA SentPlaced ==
  ASSUME IInv, Sent
  PROVE  /\ call.pc = "send" /\ call'.pc \in {"send", "commit"}
         /\ Placed(call') /\ SameCall(call, call')
         /\ UNCHANGED <<db, titles, cool, inactive, now, crashes>>
         /\ UNCHANGED called \/ NoteCalled
<1>1. call.pc = "send"
  BY DEF Sent, Delivered, RetryAfter, NetworkError, ReplyGone, Refused, Forbidden
<1>2. call \in Call /\ Sends(call)
  BY <1>1, UnderWay DEF Placed, Reads, Ends
<1> DEFINE next == call'
           fine(e) == Placed(e) /\ SameCall(call, e) /\ e.pc \in {"send", "commit"}
<1>3. fine(next)
  <2>1. CASE Delivered
    <3>1. LET e == Reach(call)
          IN e \in Call /\ Sends(e) /\ SameCall(call, e) /\ e.texts[e.batch] \subseteq e.reached
      BY <1>2, MarksPlaced
    <3>2. next = Advance(Reach(call))
      BY <2>1 DEF Delivered, Sending
    <3> QED
      BY <3>1, <3>2, AdvancePlaced DEF SameCall
  <2>2. CASE RetryAfter
    BY <1>2, <2>2, RetryPlaced DEF RetryAfter, Sending
  <2>3. CASE NetworkError
    <3>1. LET e == Reach(call) IN e \in Call /\ Sends(e) /\ SameCall(call, e)
      BY <1>2, MarksPlaced
    <3>2. next = Retry(call) \/ next = Retry(Reach(call))
      BY <2>3 DEF NetworkError, Sending
    <3> QED
      BY <1>2, <3>1, <3>2, RetryPlaced DEF SameCall
  <2>4. CASE ReplyGone
    <3> DEFINE e == [call EXCEPT !.reply = FALSE]
    <3>1. e \in Call /\ Sends(e) /\ SameCall(call, e)
      BY <1>2, MarksPlaced
    <3>2. next = Retry(e)
      BY <2>4 DEF ReplyGone, Sending
    <3> HIDE DEF e
    <3> QED
      BY <3>1, <3>2, RetryPlaced DEF SameCall
  <2>5. CASE Refused
    <3> DEFINE e == [call EXCEPT !.dropped = TRUE]
    <3>1. e \in Call /\ Sends(e) /\ SameCall(call, e) /\ e.dropped
      BY <1>2, MarksPlaced
    <3>2. next = Advance(e)
      BY <2>5 DEF Refused, Sending
    <3> HIDE DEF e
    <3> QED
      BY <3>1, <3>2, AdvancePlaced DEF SameCall
  <2>6. CASE Forbidden
    <3> DEFINE e == [call EXCEPT !.pc = "commit", !.gone = TRUE]
    <3>1. next = e
      BY <2>6 DEF Forbidden, Sending
    <3>2. e \in Call /\ SameCall(call, e) /\ e.pc = "commit" /\ e.gone
          /\ e.batch = call.batch /\ e.texts = call.texts /\ e.reached = call.reached
      BY <1>2 DEF Call, SameCall
    <3> HIDE DEF e
    <3>3. Len(call.texts) # 0 /\ call.batch \in 1 .. Len(call.texts)
      BY <1>2 DEF Sends, Call
    <3>4. call.texts # <<>>
      BY <3>3
    <3>5. Ends(e)
      BY <1>2, <3>2, <3>3, <3>4 DEF Ends, Sends, SameCall
    <3> QED
      BY <3>1, <3>2, <3>5 DEF Placed
  <2> QED
    BY <2>1, <2>2, <2>3, <2>4, <2>5, <2>6 DEF Sent
<1>4. /\ UNCHANGED <<db, titles, cool, inactive, now, crashes>>
      /\ UNCHANGED called \/ NoteCalled
  BY DEF Sent, Delivered, RetryAfter, NetworkError, ReplyGone, Refused, Forbidden, Sending
<1> QED
  BY <1>1, <1>3, <1>4

\* The tracker and the call, on the database as it is committed.
LEMMA TrackedSound ==
  ASSUME Stored, NEW m \in MentionMessage
  PROVE  /\ Sound(Tracked(m)) /\ Tracked(m).chats = db.chats \union {m.chat}
         /\ TitlesTracked(m) \in TelegramTags
<1>1. m.chat \in Chats /\ m.from \in Users /\ m.sender_tag \in SenderTags
  BY DEF MentionMessage
<1> QED
  BY <1>1, TrackerKeepsChats, WornIsTag DEF Stored, Tracked, TitlesTracked

\* One word read: the call is still for people it may call.
LEMMA WordPlaced ==
  ASSUME IInv, ReadWord
  PROVE  /\ call.pc = "read" /\ Placed(call') /\ call'.msg = call.msg
         /\ call'.got = Candidate(call.got, Tracked(call.msg), TitlesTracked(call.msg), call.msg,
                                  call.msg.words[call.word], now)
         /\ call.word \in DOMAIN call.msg.words
         /\ \A u \in call'.got.targets :
              MayCall(Tracked(call.msg), TitlesTracked(call.msg), call.msg, u)
         /\ UNCHANGED <<db, titles, cool, inactive, now, called, crashes>>
<1> DEFINE m == call.msg
           got == Candidate(call.got, Tracked(m), TitlesTracked(m), m, m.words[call.word], now)
           c == [call EXCEPT !.got = got, !.word = @ + 1]
<1>1. call.pc = "read" /\ call' = Collected(c)
      /\ UNCHANGED <<db, titles, cool, inactive, now, called, crashes>>
  BY DEF ReadWord
<1>2. /\ call \in Call /\ Placed(call) /\ m \in MentionMessage /\ call.got \in Got
      /\ call # Idle
  BY <1>1, UnderWay
<1>3. Reads(call)
  BY <1>1, <1>2 DEF Placed, Sends, Ends
<1>4. call.word \in Nat \ {0} /\ call.word <= Len(m.words) /\ Len(m.words) \in Nat
  BY <1>2, <1>3 DEF Reads, MoreToRead, Call, MentionMessage
<1>5. Sound(Tracked(m)) /\ now \in 0 .. MaxTime
  BY <1>2, TrackedSound DEF IInv, Stored
<1>6. \A u \in call.got.targets : MayCall(Tracked(m), TitlesTracked(m), m, u)
  BY <1>2 DEF IInv, Carried, Meant
<1>7. call.word \in DOMAIN m.words
  BY <1>2, <1>4 DEF MentionMessage
<1>8. got \in Got /\ \A u \in got.targets : MayCall(Tracked(m), TitlesTracked(m), m, u)
  BY <1>2, <1>5, <1>6, <1>7, WordMeant
<1> HIDE DEF got
<1>9. /\ c \in Call /\ c.pc = "read" /\ c.texts = <<>> /\ c.batch = 1 /\ c.reached = {}
      /\ ~c.dropped /\ ~c.gone /\ c.got = got /\ c.msg = m
  <2>1. call.word + 1 \in Nat \ {0}
    BY <1>4
  <2> QED
    BY <1>1, <1>2, <1>3, <1>8, <2>1 DEF Call, Reads
<1> HIDE DEF c
<1>10. Placed(Collected(c)) /\ SameCall(c, Collected(c))
  BY <1>9, CollectedPlaced
<1> QED
  BY <1>1, <1>7, <1>8, <1>9, <1>10 DEF SameCall, got

\* A pause of an untouched table, and the keys of a call, are clock readings.
LEMMA NoteCalledTyped ==
  ASSUME IInv, call.pc # "idle", NoteCalled
  PROVE  /\ called' \in Cooldowns
         /\ \A r \in Keyed : called'[r] = IF r \in {call.msg.chat} \X call.got.used
                                          THEN call.got.cool[r] ELSE called[r]
<1>1. called \in Cooldowns /\ call.got.cool \in Cooldowns
  BY UnderWay DEF IInv, Stored
<1> QED
  BY <1>1 DEF NoteCalled, Cooldowns, Keyed

-----------------------------------------------------------------------------
(* The invariant holds.                                                    *)

LEMMA InitGood == Init => IInv
<1> SUFFICES ASSUME Init PROVE IInv
  OBVIOUS
<1>1. Sound(db)
  BY DEF Init, EmptyDatabase, Sound, WellFormed, Database, ForeignKeys, UniqueTags
<1>2. titles \in TelegramTags /\ cool \in Cooldowns /\ called \in Cooldowns
  BY DEF Init, TelegramTags, Cooldowns
<1>3. now \in 0 .. MaxTime /\ crashes \in 0 .. MaxCrashes /\ inactive = {} /\ call = Idle
  BY MentionsAssumption, CallsAssumption DEF Init
<1> QED
  BY <1>1, <1>2, <1>3 DEF IInv, Stored, Carried

LEMMA StoredKept == IInv /\ [Next]_vars => Stored'
<1> SUFFICES ASSUME IInv, [Next]_vars PROVE Stored'
  OBVIOUS
<1>0. Stored
  BY DEF IInv
<1>1. ASSUME NEW o \in Updates, OtherUpdate(o) PROVE Stored'
  <2> DEFINE m == o.upd
  <2>1. /\ m \in Update /\ o.sender_tag \in SenderTags
        /\ Possible(m) /\ m.kind # "chat_migrated"
    BY CallsAssumption
  <2>2. m.chat \in Chats /\ m.from \in Users
    BY <2>1 DEF Update
  <2>3. HandledAlone(m, db, db')
    BY <1>1 DEF OtherUpdate
  <2>4. Sound(db')
    BY <1>0, <2>1, <2>3, AppliedKeeps DEF HandledAlone, Stored
  <2>5. db.chats \subseteq db'.chats
    BY <1>0, <2>1, <2>3, HandledKeepsChats DEF Stored
  <2>6. titles' \in TelegramTags
    BY <1>0, <1>1, <2>1, <2>2, WornIsTag DEF OtherUpdate, Stored
  <2>7. inactive' \subseteq inactive /\ UNCHANGED <<cool, called, now, crashes>>
    BY <1>1 DEF OtherUpdate
  <2> QED
    BY <1>0, <2>4, <2>5, <2>6, <2>7 DEF Stored
<1>2. ASSUME NEW c \in Chats, bot_removed(c) PROVE Stored'
  BY <1>0, <1>2 DEF bot_removed, Stored
<1>3. ASSUME NEW m \in Messages, Begin(m) PROVE Stored'
  BY <1>0, <1>3 DEF Begin, Stored
<1>4. CASE ReadWord
  BY <1>0, <1>4 DEF ReadWord, Stored
<1>5. CASE Sent
  <2>1. called' \in Cooldowns
    BY <1>0, <1>5, SentPlaced, NoteCalledTyped DEF Stored
  <2> QED
    BY <1>0, <1>5, <2>1, SentPlaced DEF Stored
<1>6. CASE Commit
  <2>1. call.pc # "idle"
    BY <1>6 DEF Commit
  <2>2. call.msg \in MentionMessage /\ call.msg.chat \in Chats /\ call.got.cool \in Cooldowns
    BY <2>1, UnderWay
  <2>3. /\ Sound(db') /\ titles' \in TelegramTags /\ db'.chats = db.chats \union {call.msg.chat}
    BY <1>0, <1>6, <2>2, TrackedSound DEF Commit
  <2>4. /\ inactive' \subseteq inactive \union {call.msg.chat}
        /\ cool' \in Cooldowns /\ UNCHANGED <<now, called, crashes>>
    BY <1>6, <2>2 DEF Commit
  <2> QED
    BY <1>0, <2>3, <2>4 DEF Stored
<1>7. CASE Crash
  <2>1. crashes' \in 0 .. MaxCrashes
    BY <1>0, <1>7, CallsAssumption DEF Crash, Stored
  <2> QED
    BY <1>0, <1>7, <2>1 DEF Crash, Stored
<1>8. CASE Tick
  <2>1. now' \in 0 .. MaxTime
    BY <1>0, <1>8, MentionsAssumption DEF Tick, Stored
  <2> QED
    BY <1>0, <1>8, <2>1 DEF Tick, Stored
<1>9. CASE UNCHANGED vars
  BY <1>0, <1>9 DEF vars, Stored
<1> QED
  BY <1>1, <1>2, <1>3, <1>4, <1>5, <1>6, <1>7, <1>8, <1>9 DEF Next, Step, Sent

LEMMA CarriedKept == IInv /\ [Next]_vars => Carried'
<1> SUFFICES ASSUME IInv, [Next]_vars PROVE Carried'
  OBVIOUS
<1>1. ASSUME UNCHANGED <<call, db, titles>> PROVE Carried'
  BY <1>1 DEF IInv, Carried, Tracked, TitlesTracked
<1>2. ASSUME call' = Idle PROVE Carried'
  BY <1>2 DEF Carried
<1>3. ASSUME NEW o \in Updates, OtherUpdate(o) PROVE Carried'
  <2>1. call = Idle
    BY <1>3, NotIdle DEF OtherUpdate, IInv, Carried
  <2> QED
    BY <1>2, <1>3, <2>1 DEF OtherUpdate
<1>4. ASSUME NEW m \in Messages, Begin(m) PROVE Carried'
  <2> DEFINE c == [pc |-> "read", msg |-> m, word |-> 1, got |-> Nobody(cool),
                   texts |-> <<>>, batch |-> 1, attempt |-> 1, reply |-> TRUE,
                   reached |-> {}, dropped |-> FALSE, gone |-> FALSE]
  <2>1. Nobody(cool) \in Got /\ Nobody(cool).targets = {}
    BY DEF Nobody, Got, IInv, Stored
  <2>2. 1 \in 1 .. MAX_RETRY_AFTER_ATTEMPTS
    BY CallsAssumption
  <2>3. c \in Call
    BY <2>1, <2>2 DEF Call
  <2>4. Placed(Collected(c)) /\ SameCall(c, Collected(c))
    BY <2>3, CollectedPlaced
  <2>5. call' = Collected(c)
    BY <1>4 DEF Begin
  <2>6. call'.got.targets = {}
    BY <2>1, <2>4, <2>5 DEF SameCall
  <2> QED
    BY <2>4, <2>5, <2>6 DEF Carried, Meant
<1>5. CASE ReadWord
  <2>1. \A u \in call'.got.targets :
          MayCall(Tracked(call.msg), TitlesTracked(call.msg), call.msg, u)
    BY <1>5, WordPlaced
  <2>2. call'.msg = call.msg /\ Placed(call') /\ UNCHANGED <<db, titles>>
    BY <1>5, WordPlaced
  <2> QED
    BY <2>1, <2>2 DEF Carried, Meant, Tracked, TitlesTracked
<1>6. CASE Sent
  <2>1. Placed(call') /\ SameCall(call, call') /\ UNCHANGED <<db, titles>> /\ call.pc # "idle"
    BY <1>6, SentPlaced
  <2>2. Meant(call, Tracked(call.msg), TitlesTracked(call.msg))
    BY <2>1, UnderWay DEF IInv, Carried
  <2> QED
    BY <2>1, <2>2 DEF Carried, Meant, SameCall, Tracked, TitlesTracked
<1> QED
  BY <1>1, <1>2, <1>3, <1>4, <1>5, <1>6
     DEF Next, Step, Sent, Commit, Crash, Tick, bot_removed, vars

LEMMA AlwaysIInv == Spec => []IInv
<1>1. IInv /\ [Next]_vars => IInv'
  BY StoredKept, CarriedKept DEF IInv
<1> QED
  BY <1>1, InitGood, PTL DEF Spec

-----------------------------------------------------------------------------
(* The theorems.                                                           *)

\* The committed state and the call in progress are well typed, and what the call
\* has reached is a part of those it is for.
THEOREM TypeOKHolds == Spec => []TypeOK
<1>1. IInv => TypeOK
  <2> SUFFICES ASSUME IInv PROVE TypeOK
    OBVIOUS
  <2>1. db \in Database /\ titles \in TelegramTags /\ cool \in Cooldowns /\ called \in Cooldowns
        /\ inactive \subseteq db.chats
    BY DEF IInv, Stored, Sound, WellFormed
  <2>2. ASSUME call.pc # "idle"
        PROVE  /\ call.pc \in {"read", "send", "commit"}
               /\ call.msg \in Messages /\ call.got.cool \in Cooldowns
               /\ call.batch \in 1 .. (IF call.texts = <<>> THEN 1 ELSE Len(call.texts))
               /\ call.attempt \in 1 .. MAX_RETRY_AFTER_ATTEMPTS
               /\ call.reached \subseteq call.got.targets
    <3>1. call \in Call /\ Placed(call) /\ call.got.cool \in Cooldowns
      BY <2>2, UnderWay
    <3>2. call.texts = <<>> => Len(call.texts) = 0
      OBVIOUS
    <3>3. call.batch \in 1 .. (IF call.texts = <<>> THEN 1 ELSE Len(call.texts))
      BY <3>1, <3>2 DEF Placed, Reads, Sends, Ends
    <3> QED
      BY <3>1, <3>3 DEF Placed, Reads, Sends, Ends, Call
  <2> QED
    BY <2>1, <2>2 DEF TypeOK
<1> QED
  BY <1>1, AlwaysIInv, PTL

\* However long sending takes and whatever Telegram answers, a message calls only
\* people who may be called by the database as it is when the message goes out.
THEOREM OnlyThoseMeantHolds == Spec => []OnlyThoseMeant
<1>1. IInv => OnlyThoseMeant
  <2> SUFFICES ASSUME IInv, call.pc = "send", NEW u \in call.texts[call.batch]
               PROVE  MayCall(Tracked(call.msg), TitlesTracked(call.msg), call.msg, u)
    BY DEF OnlyThoseMeant
  <2>1. call # Idle /\ Placed(call)
    BY UnderWay
  <2>2. u \in call.got.targets
    BY <2>1 DEF Placed, Reads, Sends, Ends, Split
  <2> QED
    BY <2>1, <2>2 DEF IInv, Carried, Meant
<1> QED
  BY <1>1, AlwaysIInv, PTL

\* A call that gave nothing up has reached everybody it is for.
THEOREM NobodyForgottenHolds == Spec => []NobodyForgotten
<1>1. IInv => NobodyForgotten
  BY UnderWay DEF NobodyForgotten, Placed, Reads, Sends, Ends
<1> QED
  BY <1>1, AlwaysIInv, PTL

-----------------------------------------------------------------------------
(* Pauses.                                                                 *)

\* What the tables hold are readings of the clock, or Never, which is below them.
LEMMA Readings ==
  ASSUME NEW table \in Cooldowns, NEW r \in Keyed
  PROVE  table[r] \in Int /\ (table[r] = Never \/ table[r] >= 0) /\ Never = -1
BY DEF Cooldowns, Keyed, Never

\* The pauses of a call are written after those it found.
LEMMA PausedGrows ==
  ASSUME NEW acc \in Got, NEW m, NEW before \in Cooldowns, Paused(acc, m, before), NEW r \in Keyed
  PROVE  before[r] <= acc.cool[r]
<1>1. acc.cool[r] \in Int /\ before[r] \in Int /\ (acc.cool[r] = Never \/ acc.cool[r] >= 0)
  BY Readings DEF Got
<1>2. acc.cool[r] = before[r] \/ Later(before[r], acc.cool[r])
  BY DEF Paused
<1> QED
  BY <1>1, <1>2, MentionsAssumption DEF Later, Never

LEMMA InitRemembered == Init => Remembered
BY MentionsAssumption DEF Init, Remembered, Dated, Keyed, Never

\* While nothing crashes, every call that reached somebody left its pause.
LEMMA RememberedKept ==
  ASSUME MaxCrashes = 0
  PROVE  IInv /\ Remembered /\ [Next]_vars => Remembered'
<1> SUFFICES ASSUME IInv, Remembered, [Next]_vars PROVE Remembered'
  OBVIOUS
<1>0. /\ cool \in Cooldowns /\ called \in Cooldowns /\ now \in 0 .. MaxTime
      /\ crashes = 0 /\ COOLDOWN \in Nat
  BY MentionsAssumption DEF IInv, Stored, Remembered
<1> DEFINE Held(r) == \/ called[r] <= cool[r]
                      \/ /\ call # Idle /\ call.pc # "read"
                         /\ r \in {call.msg.chat} \X call.got.used
                         /\ called[r] = call.got.cool[r]
<1>H. \A r \in Keyed : Held(r)
  BY DEF Remembered
<1>1. ASSUME UNCHANGED <<cool, call, now, called, crashes>> PROVE Remembered'
  BY <1>1 DEF Remembered, Dated
<1>2. ASSUME NEW m \in Messages, Begin(m) PROVE Remembered'
  <2> DEFINE c == [pc |-> "read", msg |-> m, word |-> 1, got |-> Nobody(cool),
                   texts |-> <<>>, batch |-> 1, attempt |-> 1, reply |-> TRUE,
                   reached |-> {}, dropped |-> FALSE, gone |-> FALSE]
  <2>1. Nobody(cool) \in Got /\ Nobody(cool).used = {} /\ Nobody(cool).cool = cool
    BY <1>0 DEF Nobody, Got
  <2>2. 1 \in 1 .. MAX_RETRY_AFTER_ATTEMPTS
    BY CallsAssumption
  <2>3. c \in Call
    BY <2>1, <2>2 DEF Call
  <2>4. SameCall(c, Collected(c))
    BY <2>3, CollectedPlaced
  <2>5. call' = Collected(c) /\ UNCHANGED <<cool, now, called, crashes>>
    BY <1>2 DEF Begin
  <2>6. call'.got.cool = cool /\ call'.got.used = {}
    BY <2>1, <2>4, <2>5 DEF SameCall
  <2>7. Paused(call'.got, call'.msg, cool)
    BY <2>6 DEF Paused
  <2>8. call = Idle
    BY <1>2, NotIdle DEF Begin, IInv, Carried
  <2>9. \A r \in Keyed : called[r] <= cool[r]
    BY <1>H, <2>8
  <2> QED
    BY <2>5, <2>6, <2>7, <2>9 DEF Remembered, Dated
<1>3. CASE ReadWord
  <2>1. call.pc = "read" /\ call.pc # "idle"
    BY <1>3, WordPlaced
  <2>2. /\ call # Idle /\ call.got \in Got /\ call.msg \in MentionMessage
    BY <2>1, UnderWay
  <2>3. Sound(Tracked(call.msg))
    BY <2>2, TrackedSound DEF IInv
  <2>4. /\ call'.msg = call.msg
        /\ call'.got = Candidate(call.got, Tracked(call.msg), TitlesTracked(call.msg), call.msg,
                                 call.msg.words[call.word], now)
        /\ call.word \in DOMAIN call.msg.words
        /\ UNCHANGED <<cool, now, called, crashes>>
    BY <1>3, WordPlaced
  <2>5. call.msg.words[call.word] \in Words
    BY <2>2, <2>4 DEF MentionMessage
  <2>6. Paused(call.got, call.msg, cool) /\ \A r \in Keyed : call.got.cool[r] <= now
    BY <2>2 DEF Remembered, Dated
  <2>7. Paused(call'.got, call.msg, cool) /\ \A r \in Keyed : call'.got.cool[r] <= now
    BY <1>0, <2>2, <2>3, <2>4, <2>5, <2>6, WordPauses
  <2>8. \A r \in Keyed : called[r] <= cool[r]
    BY <1>H, <2>1
  <2> QED
    BY <2>4, <2>7, <2>8 DEF Remembered, Dated
<1>4. CASE Sent
  <2>1. /\ call.pc = "send" /\ call.pc # "idle" /\ call'.pc \in {"send", "commit"}
        /\ Placed(call') /\ SameCall(call, call')
        /\ UNCHANGED <<cool, now, crashes>> /\ (UNCHANGED called \/ NoteCalled)
    BY <1>4, SentPlaced
  <2>2. call # Idle /\ call' # Idle /\ call.got \in Got
    BY <2>1, UnderWay, NotIdle
  <2>3. Paused(call.got, call.msg, cool) /\ Dated(call.got.cool)
    BY <2>2 DEF Remembered
  <2>4. Paused(call'.got, call'.msg, cool') /\ Dated(call.got.cool)'
    BY <2>1, <2>3 DEF SameCall, Dated
  <2>5. \A r \in Keyed : \/ called'[r] = called[r]
                         \/ /\ r \in {call.msg.chat} \X call.got.used
                            /\ called'[r] = call.got.cool[r]
    <3>1. CASE UNCHANGED called
      BY <3>1
    <3>2. CASE NoteCalled
      BY <2>1, <3>2, NoteCalledTyped
    <3> QED
      BY <2>1, <3>1, <3>2
  <2>6. \A r \in Keyed : Held(r)'
    BY <1>H, <2>1, <2>2, <2>5 DEF SameCall
  <2>7. ASSUME COOLDOWN = 0, NEW r \in Keyed
        PROVE  cool'[r] = Never /\ called'[r] = Never
    BY <2>1, <2>3, <2>5, <2>7 DEF Remembered, Paused
  <2> QED
    BY <2>1, <2>4, <2>6, <2>7 DEF Remembered, Dated
<1>5. CASE Commit
  <2>1. call.pc = "commit" /\ call.pc # "idle"
    BY <1>5 DEF Commit
  <2>2. call # Idle /\ call.got \in Got
    BY <2>1, UnderWay
  <2>3. Paused(call.got, call.msg, cool) /\ Dated(call.got.cool)
    BY <2>2 DEF Remembered
  <2>4. call' = Idle /\ cool' = call.got.cool /\ UNCHANGED <<now, called, crashes>>
    BY <1>5 DEF Commit
  <2>5. ASSUME NEW r \in Keyed PROVE called[r] <= call.got.cool[r]
    <3>1. cool[r] <= call.got.cool[r]
      BY <1>0, <2>2, <2>3, PausedGrows
    <3>2. called[r] \in Int /\ cool[r] \in Int /\ call.got.cool[r] \in Int
      BY <1>0, <2>2, Readings DEF Got
    <3> QED
      BY <1>H, <3>1, <3>2
  <2>6. COOLDOWN = 0 => \A r \in Keyed : cool'[r] = Never /\ called'[r] = Never
    BY <2>3, <2>4 DEF Remembered, Paused
  <2> QED
    BY <2>3, <2>4, <2>5, <2>6 DEF Remembered, Dated
<1>6. CASE Crash
  BY <1>0, <1>6 DEF Crash
<1>7. CASE Tick
  <2>1. now' = now + 1 /\ UNCHANGED <<cool, call, called, crashes>>
    BY <1>7 DEF Tick
  <2>2. ASSUME NEW table \in Cooldowns, Dated(table) PROVE \A r \in Keyed : table[r] <= now'
    BY <1>0, <2>1, <2>2, Readings DEF Dated
  <2>3. call # Idle => call.got.cool \in Cooldowns
    BY DEF IInv, Carried, Placed, Call, Got
  <2> QED
    BY <1>0, <2>1, <2>2, <2>3 DEF Remembered, Dated
<1> QED
  BY <1>1, <1>2, <1>3, <1>4, <1>5, <1>6, <1>7
     DEF Next, Step, Sent, OtherUpdate, bot_removed, vars

\* Between two calls of a key that reached anybody a pause of COOLDOWN passes, in
\* a bot that is not stopped while it calls and whose handler lets no exception out.
THEOREM PauseKeptHolds == ASSUME MaxCrashes = 0 PROVE Spec => PauseKept
<1> DEFINE Due == \A r \in Chats \X Keys :
                    called[r] # Never /\ called'[r] # called[r] => called'[r] - called[r] >= COOLDOWN
<1>1. IInv /\ Remembered /\ [Next]_vars => [Due]_vars
  <2> SUFFICES ASSUME IInv, Remembered, [Next]_vars, NEW r \in Keyed,
                      called[r] # Never, called'[r] # called[r]
               PROVE  called'[r] - called[r] >= COOLDOWN
    BY DEF Keyed
  <2>1. Sent
    BY DEF Next, Step, Sent, OtherUpdate, bot_removed, Begin, ReadWord, Commit, Crash, Tick, vars
  <2>2. call.pc = "send" /\ call.pc # "idle" /\ NoteCalled
    BY <2>1, SentPlaced
  <2>3. call # Idle /\ call.got \in Got
    BY <2>2, UnderWay
  <2>4. r \in {call.msg.chat} \X call.got.used /\ called'[r] = call.got.cool[r]
    BY <2>2, NoteCalledTyped
  <2>5. called[r] <= cool[r]
    BY <2>4 DEF Remembered
  <2>6. /\ called[r] \in Int /\ cool[r] \in Int /\ call.got.cool[r] \in Int
        /\ (called[r] = Never \/ called[r] >= 0) /\ Never = -1
    BY <2>3, Readings DEF Got, IInv, Stored
  <2>7. COOLDOWN > 0
    BY MentionsAssumption DEF Remembered
  <2>8. PICK k \in call.got.used : r = <<call.msg.chat, k>>
    BY <2>4
  <2>9. Later(cool[r], call.got.cool[r])
    BY <2>3, <2>7, <2>8 DEF Remembered, Paused
  <2> QED
    BY <2>4, <2>5, <2>6, <2>9, MentionsAssumption DEF Later
<1>2. IInv /\ Remembered /\ [Next]_vars => (IInv /\ Remembered)'
  BY RememberedKept, StoredKept, CarriedKept DEF IInv
<1>3. Init => IInv /\ Remembered
  BY InitGood, InitRemembered
<1> QED
  BY <1>1, <1>2, <1>3, PTL DEF Spec, PauseKept
=============================================================================
