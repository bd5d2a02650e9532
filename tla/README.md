# A TLA+ verification of ua-sun-tg-bot

The bot calls people in Telegram groups by `@all`, by tags that the group makes
(`@devs`), and by the tags Telegram itself shows beside names. It is one asyncio process over
aiogram's long polling and one SQLite database. These modules model its state and its handlers, TLC
checks them on small instances, and TLAPS proves every safety invariant and action property that
a passing run checks (section 5 names the conditions), for every set of chats, people, tag names, updates and answers of Telegram and every choice
of limits and intervals, and that concurrent transactions amount to handling one update at a time.

Paths below are relative to the repository (`bot/...`); `PROJECT.json` maps every definition
to the lines it stands for.

## 1. Inventory

| Part | State it keeps | Operations | What makes it correct |
|---|---|---|---|
| Database schema and repositories: `bot/db/` | `chats`, `users`, `chat_members`, `tags`, `tag_members`, `mention_cooldowns` | the functions of `repo/chats.py`, `members.py`, `tags.py`, `cooldowns.py` | foreign keys and UNIQUE constraints survive every function; one chat's rows are its own; flags mean what was last said |
| Tag and membership commands, chat events, roll-call press: `bot/handlers/{tags,membership,chat_events,rollcall,settings}.py` | the database only | one handler per command, service message, `chat_member` event, reaction, press | whoever is in a tag is an active member; mute lasts; the tag limit; the right tag is meant |
| Tracker: `bot/middlewares/tracker.py` | the database; `data["db_chat"]` | before every group message: chat, user, membership | its failure does not break the handler |
| Update processing: `bot/middlewares/database.py`, `bot/db/session.py`, aiogram | one session (transaction) per update, SQLite's write lock, Telegram's queue and offset | fetch, track, read, write, commit, rollback, crash | each update is applied wholly or not at all, one after another; none blocks the queue |
| Mentions: `bot/handlers/mentions.py`, `repo/cooldowns.py`, `services/{tag_lookup,mention}.py` | `mention_cooldowns` | choose the people, check and take the pauses, cut into batches | only the people who are meant; the pause between calls is kept |
| Sender: `bot/services/sender.py` | one `asyncio.Lock` per chat | send batches, 429, 403, network errors, deleted reply | ends; skips nobody; repeats only what may be lost |
| Policy: `bot/services/policy.py` | `AdminCache` (5 minutes) | `is_admin`, `check_policy`, `is_quiet_now` | rights are not older than the TTL; quiet hours wrap around midnight |
| Replies: `bot/utils/replies.py` | none | `_deliver`: retries and a fallback | never raises, ends |
| Roll-call counter: `bot/handlers/rollcall.py` | `_message_state` | announce, press, refresh | the shown number is right in the end |
| Supervision: `bot/__main__.py`, `deploy/healthcheck.py` | backoff delay, heartbeat file | restart polling, beat, check | polling comes back; a dead loop is seen |
| Instance lock, log filter: `bot/utils/{singleton,log_filters}.py` | a lock file; counters of hidden records | acquire, release; filter | one bot per data directory; a lasting conflict is reported |
| Text: `bot/utils/{text,entities,time,api_extras}.py` | none | parse, normalise, match | pure functions |

How they interact: `start_polling` hands each update to a task of its own. The task goes through
`DatabaseMiddleware` (opens the session, commits or rolls back), for messages through
`MemberTrackerMiddleware` (the first write, hence the write lock), then through the
routers to one handler, which calls repositories, and replies or sends through Telegram *before* the
commit. Parts share state through the database only, except for the in-memory
caches (admins, roll-call messages, one lock per chat in the sender).

The hard behaviours:
- updates of one chat are handled concurrently, and overtake one another;
- a transaction lasts as long as its handler, the waiting for Telegram included, and holds the only
  write lock once it has written; the others time out after `busy_timeout` (5 s);
- a crash loses what is not committed, while messages sent cannot be taken back, and moves
  polling back to the last confirmed offset;
- a group becomes a supergroup under a new id while both ids may be in use;
- rowids of deleted tags are given out again;
- Telegram answers 429, 403, "reply not found", or not at all.

`PROJECT.json` lists the hazards with their lines; each names the properties that cover it
or says why none does yet.

## 2. Modules

```
Store --- Handlers --- Roster ------- RosterProofs     MCRoster
  |          |  |         ^                |
  |          |  +-- HandlersProofs --------+-- RollcallProofs, CallsProofs
  |          |            |
  |          +-- Sessions-+----------- SessionsProofs   MCSessions   (implements Roster)
  |          |
  |          +-- Rollcall ------------ RollcallProofs   MCRollcall   (EXTENDS Policy, Replies)
  |          |
  +-- Mentions -- Calls -------------- CallsProofs      MCCalls      (EXTENDS Handlers, Mentions)

ConflictFilter --- Process ----------- ProcessProofs    MCProcess
```

**Store**: the database as a record of sets of rows, and each repository function as
an operator from database to database. A row of `chat_members` is `<<chat, user>>`; the sets `active` and
`muted` are its flag columns. `migrate_chat_id` is the whole of that function: rows without a
counterpart are re-pointed, the rest goes by ON DELETE CASCADE. `NewTagId` is SQLite's choice
of a rowid (the largest in use plus one): `tags.id` was created without `AUTOINCREMENT`.

**Handlers**: what one update does, from the database at the start of its handler
to the one it leaves, with the tracker as an operator of its own. `Handle` is the router. `Raises` names the statements that
SQLite refuses. `Applied` is the whole transaction, committed or rolled back; `HandledAlone` is it with a tracker that
got its lock, for the models in which updates come one at a time. An update is a record of the fields handlers read; it says who and what is meant,
the text it is parsed from is abstracted.

**Roster**: the abstract specification: a committed database is the previous one with *one*
update applied. One action per handler. It leaves to the environment which updates come, in
what order, and (constant `TrackerMayFail`) whether the tracker gave up. Without the
tracker, a handler that declares `db_chat` cannot run, and a command may find that the tag id it
read earlier is now another's.

**Sessions**: how that comes about: tasks, the write lock, timeouts, commit, rollback,
crash and redelivery. A task is at `track`, `handle`, `lock`, `write`, `commit`
or `rollback`. `OneUpdateAtATime == R!Spec` says that Sessions implements Roster, with
`db` mapped to itself and `TrackerMayFail` to `LocksTimeOut`.

**Mentions**: whom one word of a message calls (`Candidate`) and when `handle_mentions` stops reading (`MoreToRead`):
`@all` and its aliases, tags (exact name, prefix, part of a name), Telegram tags, the limits on words
and matches, the pauses (`try_acquire` = `MustWait` and `Acquire`), the batches.

**Calls**: one such message from its transaction's beginning to the last batch: its words one by one (`ReadWord`, each
with the clock as it stands then), every
outcome of every `send_message`, the retries, the commit of the pauses at the end, the crash before it. `HandledAlone`
supplies the other updates of the group. `titles` is the column `telegram_tag`: whatever message carries the
field `sender_tag` sets or clears it (`Worn`), so the people a Telegram tag means change while a call is sent.

**Policy**: `AdminCache` as an entry that ages, `is_admin`, `check_policy`, `is_quiet_now`, and the columns of
`chats` they read with `/settings`, the command that writes them. **Replies**: `_deliver` as a step from one request's outcome to the next
request or the end.

**Rollcall**: one chat's commands that ask for an administrator, the roll-call message, its button and its
counter, await by await. A task is at `fetch` (getChatAdministrators; `Serve` is the moment at which Telegram
looks, `Arrive` the answer), `answer` (the press's answer), `count` (getChatMemberCount),
`deliver`, `commit` or `rollback`; ticks pass while it waits. The administrators change at any
time; `HandledAlone` supplies departures from the chat.

**ConflictFilter**: the log filter as a step of its counters. **Process**: `main()` and `_run_polling_forever`, with
the instance lock, the pauses between restarts, the heartbeat and its check, and the filter fed with what
getUpdates meets. A second copy in the same directory takes the lock and beats too.

**HandlersProofs**, **RosterProofs**, **SessionsProofs**, **RollcallProofs**, **CallsProofs**, **ProcessProofs**: section 5.

An operator whose comment begins with "Mutant:" is a deliberately wrong form of the definition below it,
named in `PROJECT.json` ("mutants"). No specification uses one.

Abstractions, stated once:
- In Roster and Sessions, refused commands and handlers that write nothing (`/help`, `/tags`, `/tag_info`, `/stats`, `/me`, `/rollcall`)
  are the kind `message`; the numbers of `/stats` are `StatsAreRight`, and what `/rollcall` does beside the database is Rollcall. Of these some declare `db_chat` too; without it they raise where the
  model lets them do nothing, and the database is the same.
- Columns no decision reads are left out. `is_active` of a chat and `mention_cooldowns` are in Calls, not in Store;
  Calls therefore excludes migrations, whose cascade would delete pauses. Settings are one bit (`custom`) there, a
  record in Policy and Rollcall; in Calls the pause's length and how well a tag matches a word (`TitleLevel`) are constants, and the policy's answer is
  part of the message (`allowed`).
- The tracker's three statements are one step: the first takes the write lock.
  A wait for a pooled connection and a wait for the lock are one timeout (`LocksTimeOut`).
- `cmd_tag_create`'s `IntegrityError` branch (`handlers/tags.py:166-170`) is left out: with the lock held since
  the tracker nobody creates the tag in between; `OneUpdateAtATime` shows that. A repeated untracked `/join` that breaks
  the primary key leaves the database as the model's "again" branch does.
- A migration is atomic also when its tracker failed. A stop with its cancelled tasks is a `Crash`.
- `build_mention_messages` cuts by number of people; the further cut of messages over 4096 characters is left out. Quiet hours only set `disable_notification`.
- Rollcall follows the newest roll-call message of its chat. The other messages of the chat differ from it by their ids only;
  `_message_state` is keyed by the id alone, so a message of another chat may write the entry (`SharedEntry`).
  Tasks that hold the write lock exclude one another, hence one `task`. `bot_removed` gets the lock when no task holds it
  (`RemovalDone`) or gives up after `busy_timeout` and drops nothing (`RemovalRefused`, possible at any moment: another chat's task may hold the
  lock); `outlived` records which of the two a list has lived through. Trackers that time out are left out (Sessions has them). `/settings` without arguments only formats.
- Time is in ticks, and passes only where the code awaits; ages stop at the largest value they are compared with. A request takes at most `MaxWait` ticks.
- `_swallow_next_sleep`, the texts of records and their number of hidden ones are left out: aiogram writes "Sleep for" right after
  the failure it belongs to. Levels above ERROR are left out. That a signal which comes while `_run_polling_forever` sleeps is lost is aiogram's
  doing: it has removed its handlers by then.
- Bot ids never enter `users`: `callback_query` senders are people (`Possible`), everything else skips bots in the code.

## 3. Runs

Bounds: `MaxTagId` (rowids), `MaxUpdates` and `MaxCrashes` (Sessions), `MaxTime` and `MaxCrashes`
(Calls), `MaxWait` (Rollcall). Roster needs none but `MaxTagId`: its state space is finite; and Process none
at all, as ages stop where comparisons stop telling them apart.

| Run | Instance | Shows |
|---|---|---|
| `roster` | 2 chats, 2 people and a bot, names `dev` inside `devs`, at most 2 tags per chat, 3 names; every command and event | `TaggedAreActive`, `TagLimit`, `MuteSticks`, `ReturnsWhenSeen`, `ExactNameWins`, `StatsAreRight`, and that leaving one chat leaves the other alone (`OtherChatsUntouched`) |
| `migration` | a group becomes a supergroup that may have rows, trackers may fail | `TypeOK`, `Integrity`, `MuteSticks` |
| `sessions` | 2 tasks, 3 updates of 6 kinds (one of which SQLite refuses), timeouts, 1 crash | `OneUpdateAtATime` (implements Roster), `AskedTag`, `EverythingHandled`, `TypeOK` |
| `calls` | 1 chat, 3 people and a bot, `@all` and Telegram tags that people gain and lose, one person per batch, 3 attempts, 1 crash | `OnlyThoseMeant`, `NobodyForgotten`, `CallEnds`, `TypeOK` |
| `tag_calls` | two tags, one found through a part of the other's name, while tags change; a clock, no crash (with one `PauseKept` is refuted: `restart_claim`) | `OnlyThoseMeant`, `PauseKept` |
| `rollcall` | 2 people, one of whom is promoted and dismissed, and the anonymous admin; 4 commands, one of whose arguments `int()` refuses; lists valid for 2 ticks, requests of up to 1, a counter refreshed once a tick, every answer of Telegram, removals of the bot that get the write lock or are refused it, crashes | `RightsAreRecent`, `DroppedWithTheBot`, `StateMatchesChat`, `PressShows`, `ToldIsRecorded`, `UpdateEnds`, `TypeOK` |
| `process` | two copies; pauses 1, 2, 4, 5; records every 2 ticks, escalated after 3; heartbeat good for 2 ticks; log levels on both sides of INFO | `OneInstance`, `LockOfTheLiving`, `BackoffGrows`, `HealthyHasPolled`, `BlamesOnlyLasting`, `LastingIsBlamed`, `NeverSilent`, `TypeOK` |

The five runs that end in a violation are in section 4. `OnlyPresentCalled` is checked there only: with updates
handled one after the other it follows from Roster, whose `ReturnsWhenSeen` is the exact statement.

Why these bounds are enough to be interesting: two people and two names give a tag found
by a part of its name beside the one named exactly; two chats give shared users, shared rowids and
a migration with rows on both sides; two tasks give every overlap of two transactions, and the third
update changes what one of them has read; a pause of two readings in a clock of three has
a call inside and at the end of it; one person per batch gives several batches
from three people. A list valid for two ticks and requests of one give an answer that is
half as old as the list may be, a promotion before, inside and after the request, and an expired
list that a refusal brings back; one roll-call message is sent anew at any time. The pauses reach
their maximum from a value that is not half of it, and an escalation of 3 with repeats of 2
makes the first record of a streak a warning and a later one an error.
Each property is also run against a mutated definition (PROJECT.json, "mutants")
that a plausible bug would produce, and is violated by it under the same bounds.

### Fairness

`Sessions!FairSpec`: weak fairness of each task's next step (the event loop runs what can run; every await ends,
HTTP requests by aiohttp's timeout and lock waits by the lock or by `busy_timeout`), of handing out the next
update and of confirming (`_run_polling_forever` restarts polling whatever it raised). Nothing is assumed about a
particular task getting the lock. `Calls!FairSpec`: weak fairness of the sender's next step, with no assumption about
which outcome Telegram gives. `Rollcall!FairSpec`: weak fairness of the update's next step, likewise; `Rollcall!UpdateEnds` is `[]<>(task = Idle)`, which says the same as `task # Idle ~> task = Idle` and is cheaper to check. `Process!FairSpec`: time passes, a
pause that is over ends, the start's requests succeed or fail, and closing ends; no signal, crash or
success of Telegram is assumed.

## 4. Where the documents and the code part

Each is a run that TLC ends with a violation; the trace is the shortest story.

| Run | The text | What the code does |
|---|---|---|
| `mute_claim` | `docs/usage.md:252` `/mute_me` is permanent | a migration drops the muted row of a person already seen in the supergroup (`repo/chats.py:122`) |
| `presence_claim` | `docs/usage.md:122`: those who left are not called | a message handled after its author's departure, from a concurrent task, makes the author active |
| `tracker_claim` | `tracker.py:65`: tracking must not break the handler | after a lock timeout `db_chat` is missing and the handler cannot be called |
| `restart_claim` | `models.py:146`, `docs/architecture.md:177`: a restart does not reset the pause | the pause is committed after the last batch; a stop before that forgets it |
| `inactive_claim` | `docs/architecture.md:319`: after 403 the bot stops writing to the chat | nothing reads `is_active` |

What else the model records of the code, and no run is spent on:
- `docs/usage.md:251` and `membership.py:106` say that your own message brings you back after `/forget_me`; so does anybody's
  `/tag_add` or `/tag_remove` that names you (`handlers/tags.py:62,75`). `ReturnsWhenSeen` is the exact statement.
- An anonymous admin writes as `GroupAnonymousBot`, whom the tracker skips and `handle_mentions` ignores: that admin's `/join` and
  `/mute_me` are refused by a foreign key (`Raises`), and that admin's `@all` calls nobody (`MoreToRead`).
- A `/join` whose tracker timed out reads its tag before it has the lock; the id may be another tag's when it writes
  (`TagChoice`; `AskedTag` is about tracked commands for this reason).
- "Replies never raise" (`docs/architecture.md`, "Відповіді бота ніколи не кидають винятків") holds for `TelegramAPIError`. An answer aiogram cannot decode raises
  something else (`utils/replies.py:56`), and the update is rolled back although its message may be in the chat (outcome `unreadable`). So
  "the registration has already happened" (`replies.py:130-133`) is true up to that rollback and up to a crash: `ToldIsRecorded` names both.
- `policy.py:39` calls the empty set the safe answer when Telegram fails, but an expired list is returned if there is one
  (`policy.py:40`), at any age: `RightsAreRecent` excludes `FetchFails`.
- `--5` and `²` pass the tests with `isdigit()` in `handlers/settings.py` and are refused by `int()`: a rollback and no reply (`Raised`).
- `_message_state` (`handlers/rollcall.py:32`) is keyed by the message id, which every chat counts anew: another chat's roll call may hold back one edit, or make one
  needless (`doubt`).
- `docs/architecture.md:340-341` says that the list of administrators is dropped when the bot is removed. The handler's `UPDATE` (`chat_events.py:64`) waits `busy_timeout` = 5 s
  (`db/session.py:40`) for the write lock, which another task may hold through a slow request or a long `@all`; then it raises, `invalidate` on the next line is never
  reached, nothing calls it later, and the old list stays. The run `rollcall` reaches such states (`cache.outlived = {"refused"}`); `DroppedWithTheBot` says that
  this is the only exception, and it would be refuted if `outlived` had to be empty.
- The health check sees that the event loop runs and polling was begun, not "that updates are handled" (`docs/architecture.md`, "Heartbeat і healthcheck"; `docs/deployment.md`, "Чи живий бот"): the
  heartbeat is a task of its own and goes on while polling fails or sleeps. `HealthyHasPolled` is what it does show; a second copy's heartbeat counts too.
- `log_filters.py:38-39`: the filter sees "Connection established" only at INFO, and aiogram writes it only after a failure of the same
  `start_polling`. Otherwise a streak outlives a success (`unseen`), and `BlamesOnlyLasting` excludes that case.
- `install_conflict_filter` (`__main__.py:87-88`) says that the process holds the lock when it gets there; not so when the
  file could not be opened (`singleton.py:38-40`, `"unopened"`).
- `docs/architecture.md` ("Склад ніде не зберігається") says that a Telegram tag's members are stored nowhere; they are `chat_members.telegram_tag`, written by the
  member's next message that carries the field. `member_tag` (`utils/api_extras.py:62`), through which `models.py:89-90` would learn it of others, is called by nothing.
- The pause of a call starts when it is attempted, also when nobody is found or reached (`_collect_all`, `CollectTags`).

## 5. Proofs

For all values of the constants that satisfy `StoreAssumption` and `RosterAssumption` (`SessionsAssumption` for Sessions, `PolicyAssumption` and
`RollcallAssumption` for Rollcall, `MentionsAssumption` and `CallsAssumption` for Calls, `FilterAssumption` and `ProcessAssumption` for Process).
What these ask for: finitely many people (at any moment; numbers of people are counted), updates that Telegram can send (`Possible`), a word that is
contained in itself and in what begins with it, requests shorter than an administrators' list is valid, and no migration in Rollcall and Calls.

| Theorem of `RosterProofs` | States | Under |
|---|---|---|
| `AlwaysSound` | `Spec => []Sound(db)` | |
| `TypeCorrect` | `Spec => []TypeOK` | |
| `IntegrityHolds` | `Spec => []Integrity` | |
| `MuteSticksHolds` | `Spec => MuteSticks` | |
| `ReturnsWhenSeenHolds` | `Spec => ReturnsWhenSeen` | |
| `StatsAreRightHolds` | `Spec => []StatsAreRight` | |
| `TaggedAreActiveHolds` | `Spec => []TaggedAreActive` | trackers do not fail, no migration |
| `TagLimitHolds` | `Spec => []TagLimit` | no migration |
| `OtherChatsUntouchedHolds` | `Spec => OtherChatsUntouched` | trackers do not fail |
| `ExactNameWinsHolds` | `Spec => ExactNameWins` | trackers do not fail |

| Theorem of `SessionsProofs` | States |
|---|---|
| `InFlight` | `Spec => []IInv`, the inductive invariant |
| `SessionsImplementRoster` | `Spec => OneUpdateAtATime`: Sessions implements Roster |
| `SessionsTyped` | `Spec => []TypeOK` |
| `TagIsTheOneAsked` | `Spec => []AskedTag` |

| Theorem of `RollcallProofs` | States |
|---|---|
| `RightsAreRecentHolds` | `Spec => RightsAreRecent`, for requests shorter than the list's time to live |
| `DroppedWithTheBotHolds` | `Spec => []DroppedWithTheBot`: a list lives through refused removals of the bot only |
| `TypeOKHolds` | `Spec => []TypeOK` |
| `StateMatchesChatHolds` | `Spec => []StateMatchesChat` |
| `PressShowsHolds` | `Spec => PressShows` |
| `ToldIsRecordedHolds` | `Spec => ToldIsRecorded` |
| `DeliveryEnds` | every request of `_deliver` leaves fewer to be made |
| `QuietHoursWrap` | `is_quiet_now` is the interval counted round the clock |
| `SettingsStayInRange` | `/settings` leaves every column in its range, whatever the words |

| Theorem of `CallsProofs` | States | Under |
|---|---|---|
| `TypeOKHolds` | `Spec => []TypeOK` | |
| `OnlyThoseMeantHolds` | `Spec => []OnlyThoseMeant` | |
| `NobodyForgottenHolds` | `Spec => []NobodyForgotten` | |
| `PauseKeptHolds` | `Spec => PauseKept` | no `Crash`: the process does not die, and no exception escapes the handler |

| Theorem of `ProcessProofs` | States |
|---|---|
| `TypeCorrect` | `Spec => []TypeOK` |
| `LockOfTheLivingHolds` | `Spec => []LockOfTheLiving` |
| `OneInstanceHolds` | `Spec => []OneInstance` |
| `HealthyHasPolledHolds` | `Spec => []HealthyHasPolled` |
| `BlamesOnlyLastingHolds` | `Spec => BlamesOnlyLasting` |
| `LastingIsBlamedHolds` | `Spec => LastingIsBlamed` |
| `BackoffGrowsHolds` | `Spec => []BackoffGrows` |

### The database

The inductive invariant is `Sound(d) == WellFormed(d) /\ ForeignKeys(d) /\ UniqueTags(d)`, of a database
and not of a state: handlers are compositions of repository functions, so each function gets a lemma
(`MigrateChat`, `CreateTag`, `AddTagMembers`, ...) that a sound database stays sound, and the handlers
follow by composition (`TrackerSound`, `HandleSound`). These lemmas are in `HandlersProofs`, for the proofs of four modules. `TypeOK` is not inductive alone: that a tag's chat exists is
needed for the migration's rows and that ids are unique for `DELETE ... CASCADE`. The step where the tracker matters
is `AppliedFrom`: the chat's row and the resolved tag exist when the handler runs, or its statement is one that `Raises`.

`MuteSticksHolds` goes through `MutedKept` (only three handlers write the flag) and `Unmuted`.
`TaggedAreActiveHolds` strengthens the invariant by `Tagged`: no bot is in `users`, since a bot named by
`/tag_add` would be put in a tag without a membership of its own kept active by the tracker.
Its two assumptions are needed: an untracked `/join` of a departed person, and a migration that drops an active row while its
tag moves, break it. `TagLimitHolds` uses `Limited`, which adds that each chat's set of tags is finite; the
new chat of a migration may end with the tags of both.

`StatsAreRight` compares two counts, one over rows of `chat_members` and one over people: they are equal because rows and people
are in bijection (`RowsOfPeople`) once no bot is in `users` (`NoBots`, an invariant of its own, since migrations and failed trackers keep it while they break
`Tagged`). `ReturnsWhenSeenHolds` asks of each handler and of the tracker whose flag they set (`BringsBack` lists exactly those). `OtherChatsUntouchedHolds` goes
through `Slice`: each repository function leaves the slices of other chats alone, which needs unique tag ids, since `tag_members` names a tag and not its
chat. It and `ExactNameWinsHolds` need the tracker: a tag id looked up without the lock may be another chat's tag by the time the handler writes (section 4).

### The transactions

`SessionsProofs!IInv` says of a task that it holds the lock if it has written (`Locked`), and of the holder
(`HolderOK`) that at `handle` and `write` its work is the tracker's over `db` (`Base`), that a tracked command's tag is
the one its look-up finds in that work, and that at `commit` the work is `db` or the whole update `Applied` to it. Since
only the holder's commit changes `db`, "over `db`" stays true while others run: `OneTask` is the lemma that a step of
one task leaves what is known of the others alone. `WriteApplies` has the two cases that are not plain: a handler whose tracker
timed out starts from `db` itself, and a `/leave` that means a tag gone by now changes nothing. The mapping is the
identity on `db`; `SameHelpers`, `SameHandle` and `SameApplied` say that the operators Roster's instance brings are the ones Sessions uses.
From the invariant, `StepSimulation` sends each commit to the Roster action of its update and every other step to a stutter.
Sessions inherits thereby what `RosterProofs` shows of every behaviour of Roster.

### Rights

A list is judged by at two moments only, `Command` (a list in memory) and `Arrive` (an answer). The
invariant of `RollcallProofs` relates a list to the truth through `since`: the list and the administrators agree on every
person except those whose rights changed within the list's age (`Agree`, `Sound`). A list in memory that is valid for `left` more ticks
is `TTL - left` old (`CacheOK`); the answer under way is at most as old as its request has waited (`TaskOK`), and `Fetched` dates an entry by the
moment before the request. Both ages are below `TTL`, hence the verdict is (`VerdictIsRecent`). `Tick` ages both sides
alike, `Promote` resets `since` of the one person about whom list and truth may then differ, and each other action
leaves the list alone (the lemmas `...Keeps`). `CacheOK` also carries `DroppedWithTheBot`, and `TaskSound` the same of the answer under way: a removal that
drops the list (`RemovalDone`) has waited for the task that would store an older one, since both write first, so no list has lived through one; what
a refused removal adds to `outlived` is `"refused"` only.

### The counter

`Good == IInv /\ Typed /\ Carried /\ Shows`. `StateMatchesChat` alone is not inductive: the entry of `_message_state` is written before the edit is sent, so during
an edit the entry is ahead of the chat by the task's text (`Shows`), and that text counts the task's own uncommitted work (`Placed`). An edit that
arrives makes chat and entry equal again, one that may not have arrived sets `doubt`. At the commit of a press past the throttle the chat shows the count of its work,
which is what the commit makes the database: `PressShows`. `ToldIsRecorded` rests on `Carries` (a press's work has its author active) and on `Placed`: a press
that was confirmed is rolled back only when an exception outside `TelegramAPIError` escaped.

### Calls

The invariant `IInv == Stored /\ Carried` is about three things. Nothing is committed while a call is in progress, so the database of the call's
beginning, with the tracker's work, is still the one at each of its messages; hence `Meant` (everybody collected so far may be called) need only be kept by one more word
(`WordMeant`, case by case what `@all`, a tag and a Telegram tag may add). `Split` says of the messages that their people are among the targets and between them all of the
targets; that cutting into slices does this for any number of people and any batch size is `MessagesSplit`, from `Quotient` (what `\div` bounds) and an enumeration of a finite
set. And while the call sends, the messages before the current one were delivered unless one was given up (`Sends`): a retry keeps the place, advancing adds one. `NobodyForgotten` is
the end of that count.

`PauseKeptHolds` adds `Remembered`: for each key, the table's reading is not before the last call that reached anybody, or the call in progress is that call and will commit
its reading. The clock runs while words are read and messages sent, and readings are taken word by word, so `Paused` relates what the call has written to the table as it was
(`Later`: a pause apart) and `Dated` says no reading is ahead of the clock. Without `MaxCrashes = 0` the theorem is false, which is what `restart_claim` shows.

### The process

`ProcessProofs` needs no more for the lock than `LockOfTheLiving` itself beside the types, and `OneInstance` follows: two copies that both
found the lock would both be its holder. `HealthyHasPolled` holds because no mark is younger than the last
copy in the loop (`Beats`). For the log, `Streaks` relates the filter's counters to the true history: the filter's streak is no older than the
conflicts unless a success went unseen (no false blame); it is no younger than they are, up to `escalate_after` (what lasts escalates);
and a record shown when the conflicts had lasted `escalate_after` already is one that blames a second copy.

`Series` says that after `n` failures the pause is `Capped(n)`, the least pause times `2 ^ n` or the ceiling, and that the capped count of failures loses nothing:
where it stops, the pause is at the ceiling (`n` failures give a pause of at least `n`). That `2 ^ (n + 1)` is `2 * 2 ^ n` (`PowerDoubles`) has no proof by induction over
`n` here, as the library's induction takes an operator; it comes from the number of subsets of a set of `n` and of `n + 1` elements.

### Only model-checked

The liveness of four runs: `EverythingHandled`, `CallEnds`, `UpdateEnds` and `NeverSilent`. They follow from weak fairness, and TLAPS 1.4 has no rule
for ENABLED. `DeliveryEnds`, that each request of a reply leaves fewer to be made, is the part of `UpdateEnds` that is proved. The five statements of section 4 are refuted by TLC, not proved.

## 6. Not modelled

- Text put together from characters: `phrase_match_level`, `read_optional_field`, the normalisation of names, `format_duration`, rendering of `/settings` without
  arguments, help texts. Names and how they match are given as relations.
- Validation of the environment (`config.py`), which runs once before anything else.
- Alembic's migrations, run one after another before the bot starts; Store is the schema they leave.
- `deploy/diagnose.py` and `deploy/backup.sh`: operator scripts that read and print, or copy the file with SQLite's own backup.
- The split of messages over 4096 characters, the silence of quiet hours in Calls, changes of the pause's length while a call is sent.

## 7. Plan

1. An abstract call (choose the people once, reach part of them, commit the pause or lose it) that Calls refines, with its proof.
2. What a migration may leave: no more tags than both chats had together, and the pauses its cascade deletes; then migrations in Calls.
3. `TextMatching`: the pure functions of `bot/utils` against reference definitions.
