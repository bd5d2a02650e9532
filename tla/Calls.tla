--------------------------------- MODULE Calls ---------------------------------
(***************************************************************************)
(* A message that calls people, from the transaction it opens to the last  *)
(* batch it sends: handlers/mentions.py over services/sender.py, between   *)
(* the tracker and the commit of DatabaseMiddleware.                       *)
(*                                                                         *)
(* handle_mentions asks for db_chat, so the tracker has written and the    *)
(* task holds SQLite's write lock while it sends: one call at a time in    *)
(* the whole bot, and no other update is committed meanwhile.  What it     *)
(* wrote, the pauses included, is committed after the last batch.          *)
(***************************************************************************)
EXTENDS Handlers, Mentions

CONSTANTS
  Updates,                   \* other updates of the chats, with their author's tag
  Messages,                  \* messages with @words that people may send
  MAX_RETRY_AFTER_ATTEMPTS,  \* bot/services/sender.py
  MaxCrashes                 \* bound: crashes (or restarts) of the bot

ASSUME CallsAssumption ==
  /\ Updates \subseteq [upd : Update, sender_tag : SenderTags]
  /\ \A o \in Updates : Possible(o.upd) /\ o.upd.kind # "chat_migrated"
  /\ Messages \subseteq MentionMessage
  /\ MAX_RETRY_AFTER_ATTEMPTS \in Nat \ {0}
  /\ MaxCrashes \in Nat

VARIABLES
  db,        \* the committed database
  titles,    \* the committed column chat_members.telegram_tag
  cool,      \* the committed table mention_cooldowns
  inactive,  \* chats whose is_active column is false
  call,      \* the call in progress
  now,       \* the clock
  called,    \* for each key, when a call that reached somebody was last made
  crashes

vars == <<db, titles, cool, inactive, call, now, called, crashes>>

\* pc, the message, the word to read next, what was collected so far, the messages
\* to send, the one being sent, the attempt, whether it is a reply, the people
\* reached, whether a message was given up, whether the chat is gone.
Idle == [pc |-> "idle"]

Init ==
  /\ db = EmptyDatabase
  /\ titles = [r \in ChatMember |-> None]
  /\ cool = [r \in Chats \X Keys |-> Never]
  /\ inactive = {}
  /\ call = Idle
  /\ now = 0
  /\ called = [r \in Chats \X Keys |-> Never]
  /\ crashes = 0

-----------------------------------------------------------------------------
(* Between calls.                                                          *)

\* Updates that look the chat up without get_or_create_chat, which sets
\* is_active, leave that column alone.
LooksChatUp(m) ==
  \/ m.kind = "member_left"
  \/ m.kind \in {"member_joined", "reaction_seen"} /\ m.from \in Bots

\* Mutant: the call does not hold the write lock while it sends.
OtherUpdateAnyTime(o) ==
  LET m == o.upd
  IN /\ HandledAlone(m, db, db')
     /\ titles' = IF m.kind \in MessageKinds THEN Worn(titles, m.chat, m.from, o.sender_tag)
                 ELSE titles
     /\ inactive' = IF LooksChatUp(m) THEN inactive ELSE inactive \ {m.chat}
     /\ UNCHANGED <<cool, call, now, called, crashes>>

OtherUpdate(o) ==
  LET m == o.upd
  IN /\ call.pc = "idle"
     /\ HandledAlone(m, db, db')
     /\ titles' = IF m.kind \in MessageKinds THEN Worn(titles, m.chat, m.from, o.sender_tag)
                 ELSE titles
     /\ inactive' = IF LooksChatUp(m) THEN inactive ELSE inactive \ {m.chat}
     /\ UNCHANGED <<cool, call, now, called, crashes>>

\* (A removal that is refused the write lock leaves is_active as it is.)
bot_removed(c) ==
  /\ call.pc = "idle"
  /\ inactive' = IF c \in db.chats THEN inactive \union {c} ELSE inactive
  /\ UNCHANGED <<db, titles, cool, call, now, called, crashes>>

Tick ==
  /\ now < MaxTime
  /\ now' = now + 1
  /\ UNCHANGED <<db, titles, cool, inactive, call, called, crashes>>

-----------------------------------------------------------------------------
(* One call.                                                               *)

\* The database as the tracker leaves it to the handler of the message.
Tracked(m) == MemberTrackerMiddleware(db, m)

TitlesTracked(m) == Worn(titles, m.chat, m.from, m.sender_tag)

\* Where the handler goes on: to the next word, to the first message, or, with
\* nobody to call, to the commit.
Collected(c) ==
  IF MoreToRead(c.got, c.msg, c.word) THEN c
  ELSE IF c.got.targets = {} THEN [c EXCEPT !.pc = "commit"]
  ELSE [c EXCEPT !.pc = "send", !.texts = build_mention_messages(c.got.targets)]

\* The tracker has written; the handler has looked at nothing yet.
Begin(m) ==
  /\ call.pc = "idle"
  /\ call' = Collected([pc |-> "read", msg |-> m, word |-> 1, got |-> Nobody(cool),
                        texts |-> <<>>, batch |-> 1, attempt |-> 1, reply |-> TRUE,
                        reached |-> {}, dropped |-> FALSE, gone |-> FALSE])
  /\ UNCHANGED <<db, titles, cool, inactive, now, called, crashes>>

\* One word, with the clock as it stands when it is read.
ReadWord ==
  /\ call.pc = "read"
  /\ LET m == call.msg
         got == Candidate(call.got, Tracked(m), TitlesTracked(m), m, m.words[call.word], now)
     IN call' = Collected([call EXCEPT !.got = got, !.word = @ + 1])
  /\ UNCHANGED <<db, titles, cool, inactive, now, called, crashes>>

\* Mutant: the last message is left out.
AdvanceShort(c) ==
  IF c.batch >= Len(c.texts) - 1 THEN [c EXCEPT !.pc = "commit"]
  ELSE [c EXCEPT !.batch = @ + 1, !.attempt = 1, !.reply = FALSE]

\* send_batches goes on to the next message; only the first is a reply.
Advance(c) ==
  IF c.batch = Len(c.texts) THEN [c EXCEPT !.pc = "commit"]
  ELSE [c EXCEPT !.batch = @ + 1, !.attempt = 1, !.reply = FALSE]

\* Mutants: one attempt too many, and attempts counted from one again.
RetryOnceMore(c) ==
  IF c.attempt > MAX_RETRY_AFTER_ATTEMPTS THEN Advance([c EXCEPT !.dropped = TRUE])
  ELSE [c EXCEPT !.attempt = @ + 1]

RetryForever(c) ==
  [c EXCEPT !.attempt = IF @ = MAX_RETRY_AFTER_ATTEMPTS THEN 1 ELSE @ + 1]

\* _send_one tries again, or gives the message up.
Retry(c) ==
  IF c.attempt = MAX_RETRY_AFTER_ATTEMPTS THEN Advance([c EXCEPT !.dropped = TRUE])
  ELSE [c EXCEPT !.attempt = @ + 1]

Reach(c) == [c EXCEPT !.reached = @ \union c.texts[c.batch]]

\* The keys of the header were used at the reading that is now in cool.
NoteCalled ==
  called' = [r \in DOMAIN called |->
               IF r \in {call.msg.chat} \X call.got.used THEN call.got.cool[r] ELSE called[r]]

Sending(next) ==
  /\ call.pc = "send"
  /\ call' = next
  /\ UNCHANGED <<db, titles, cool, inactive, now, crashes>>

Delivered == call.pc = "send" /\ Sending(Advance(Reach(call))) /\ NoteCalled

\* 429: wait and try again.
RetryAfter == call.pc = "send" /\ Sending(Retry(call)) /\ UNCHANGED called

\* The request or its answer was lost: Telegram may have sent the message.
NetworkError ==
  /\ call.pc = "send"
  /\ \/ Sending(Retry(call)) /\ UNCHANGED called
     \/ Sending(Retry(Reach(call))) /\ NoteCalled

\* The message replied to is deleted: again without the reply, at the cost of an
\* attempt.
ReplyGone ==
  /\ call.pc = "send" /\ call.reply
  /\ Sending(Retry([call EXCEPT !.reply = FALSE]))
  /\ UNCHANGED called

\* Any other refusal gives this message up, not the ones after it.
Refused ==
  call.pc = "send" /\ Sending(Advance([call EXCEPT !.dropped = TRUE])) /\ UNCHANGED called

\* ChatUnavailableError ends the call; set_chat_active follows.
Forbidden ==
  call.pc = "send" /\ Sending([call EXCEPT !.pc = "commit", !.gone = TRUE]) /\ UNCHANGED called

Commit ==
  /\ call.pc = "commit"
  /\ db' = Tracked(call.msg)
  /\ titles' = TitlesTracked(call.msg)
  /\ cool' = call.got.cool
  /\ inactive' = IF call.gone THEN inactive \union {call.msg.chat}
                              ELSE inactive \ {call.msg.chat}
  /\ call' = Idle
  /\ UNCHANGED <<now, called, crashes>>

\* The process dies or is stopped, or an exception leaves the handler: the
\* transaction is gone, the messages are not.
Crash ==
  /\ call.pc # "idle" /\ crashes < MaxCrashes
  /\ call' = Idle
  /\ crashes' = crashes + 1
  /\ UNCHANGED <<db, titles, cool, inactive, now, called>>

Step ==
  \/ ReadWord \/ Delivered \/ RetryAfter \/ NetworkError \/ ReplyGone \/ Refused \/ Forbidden \/ Commit

Next ==
  \/ \E o \in Updates : OtherUpdate(o)
  \/ \E c \in Chats : bot_removed(c)
  \/ \E m \in Messages : Begin(m)
  \/ Step
  \/ Crash
  \/ Tick

Spec == Init /\ [][Next]_vars

\* The event loop resumes a task whose request is answered, and the HTTP client's
\* timeout makes every request end.  (Every Step changes call.)
FairSpec == Spec /\ WF_call(Step)

-----------------------------------------------------------------------------
(* Properties.                                                             *)

TypeOK ==
  /\ db \in Database /\ titles \in TelegramTags
  /\ cool \in Cooldowns /\ called \in Cooldowns
  /\ inactive \subseteq db.chats
  /\ call.pc \in {"idle", "read", "send", "commit"}
  /\ call.pc # "idle" =>
       /\ call.msg \in Messages /\ call.got.cool \in Cooldowns
       /\ call.batch \in 1 .. (IF call.texts = <<>> THEN 1 ELSE Len(call.texts))
       /\ call.attempt \in 1 .. MAX_RETRY_AFTER_ATTEMPTS
       /\ call.reached \subseteq call.got.targets

\* What the documents promise of a call (docs/usage.md:118-122): the person is
\* there, is no bot and not the author; and is called as one of all, then not if
\* muted, or in a tag or by a Telegram tag that one of the words means.
MayCall(d, worn, m, u) ==
  LET word == {m.words[i] : i \in DOMAIN m.words}
  IN /\ u \in d.users \ Bots /\ <<m.chat, u>> \in d.active /\ u # m.from
     /\ \/ word \intersect ALL_TAG_ALIASES # {} /\ m.allowed /\ <<m.chat, u>> \notin d.muted
        \/ \E t \in TagsOf(d, m.chat), q \in word :
             <<t.name, q>> \in Contains /\ <<t.id, u>> \in d.tag_members
        \/ \E q \in word, l \in 1 .. 3 : <<q, worn[<<m.chat, u>>], l>> \in TitleLevel

\* However long sending takes, nobody is called who may not be by the database
\* as it is when that message goes out: nothing the group does in between (a
\* person leaves, mutes, is taken out of the tag) is committed before.
OnlyThoseMeant ==
  call.pc = "send" =>
    \A u \in call.texts[call.batch] :
      MayCall(Tracked(call.msg), TitlesTracked(call.msg), call.msg, u)

\* A call that gave no message up has reached all the people it is for, whatever
\* was retried on the way.
NobodyForgotten ==
  call.pc = "commit" /\ ~call.dropped /\ ~call.gone => call.reached = call.got.targets

\* Between two calls of a key that reached anybody there is a pause of COOLDOWN.
\* (bot/db/models.py:146 and docs/architecture.md:177 add: a restart does not
\* reset it.  With a crash in the behaviour this is refuted.)
PauseKept ==
  [][\A r \in Chats \X Keys :
       called[r] # Never /\ called'[r] # called[r] => called'[r] - called[r] >= COOLDOWN]_vars

\* Sending ends, and with it the hold on the write lock, however often Telegram
\* answers 429 and the network fails.
CallEnds == (call.pc # "idle") ~> (call.pc = "idle")

-----------------------------------------------------------------------------
(* What the documents say, and the code does not do.                       *)

\* docs/architecture.md:319-320: after 403 the chat is marked inactive and the
\* bot stops writing to it.  Refuted: nothing reads the mark, and the tracker
\* clears it at the next message.
SilentWhenInactive ==
  [][call.pc # "send" /\ call'.pc = "send" => call'.msg.chat \notin inactive]_vars
=============================================================================
