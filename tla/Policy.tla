-------------------------------- MODULE Policy --------------------------------
(***************************************************************************)
(* Who may do what in a chat, and when the bot is quiet: bot/services/     *)
(* policy.py, and bot/handlers/settings.py, which changes what it reads.   *)
(*                                                                         *)
(* An entry of AdminCache is [left, ids]: how many ticks of the clock it   *)
(* is still valid for (cached[0] - now, not below 0) and the administrators*)
(* of getChatAdministrators; "outlived" says how the handlers of the bot's *)
(* removals from the chat ended since it was asked for (a history field).  *)
(***************************************************************************)
EXTENDS Integers, Sequences

CONSTANTS
  People,   \* who may write in the chat
  ANON,     \* GroupAnonymousBot, for whom sender_chat is the chat itself
  Zones,    \* names of time zones ZoneInfo knows
  TTL       \* AdminCache's ttl_seconds, in ticks

ASSUME PolicyAssumption ==
  /\ ANON \in People
  /\ TTL \in Nat \ {0}

-----------------------------------------------------------------------------
(* services/policy.py                                                      *)

\* "done": it dropped the list; "refused": its write to the database failed before.
RemovalEnds == {"done", "refused"}

NoEntry == [left |-> 0, ids |-> {}, outlived |-> {}]

Entry == [left : 0 .. TTL, ids : SUBSET People, outlived : SUBSET RemovalEnds]

\* cached is not None and cached[0] > now
Valid(cache) == cache.left > 0

\* The ends of removals that a list counts as outlived: an empty list, which lets
\* nobody in, outlives none.
Outlived(ids, ends) == IF ids = {} THEN {} ELSE ends

\* Mutant: the entry is dated when the answer has come.
Fetched_dated_late(ids, waited, outlived) ==
  [left |-> TTL, ids |-> ids, outlived |-> outlived]

\* The entry an answer makes: "now" was read before the request, which took
\* "waited" ticks.
Fetched(ids, waited, outlived) ==
  [left |-> IF waited < TTL THEN TTL - waited ELSE 0, ids |-> ids, outlived |-> outlived]

\* What the except branch returns: the old list, however old, or the empty set.
Fallback(cache) == cache.ids

invalidate(cache) == NoEntry

\* Mutant: an entry grows older than expired.
Aged_below(cache) == [cache EXCEPT !.left = @ - 1]

Aged(cache) == [cache EXCEPT !.left = IF @ > 0 THEN @ - 1 ELSE 0]

\* Does is_admin need the list of administrators to answer?
NeedsList(p) == p # ANON

is_admin(p, ids) == p = ANON \/ p \in ids

\* check_policy lets everybody in under any policy but "admins".
PolicyLetsAllIn(policy) == policy # "admins"

\* hour is the hour in the chat's time zone.
is_quiet_now(chat, hour) ==
  /\ chat.quiet_hours_enabled
  /\ chat.quiet_start # chat.quiet_end
  /\ IF chat.quiet_start < chat.quiet_end
     THEN chat.quiet_start <= hour /\ hour < chat.quiet_end
     ELSE hour >= chat.quiet_start \/ hour < chat.quiet_end

-----------------------------------------------------------------------------
(* handlers/settings.py                                                    *)

Policies == {"admins", "members"}

Hours == 0 .. 23

CooldownSeconds == {n \in Nat : n <= 86400}

\* The columns of chats that /settings writes.
ChatSettings ==
  [all_policy : Policies, tag_policy : Policies, cooldown_seconds : CooldownSeconds,
   timezone : Zones, quiet_hours_enabled : BOOLEAN, quiet_start : Hours, quiet_end : Hours]

\* An argument of the command: how it is written and, for numbers and zones, what
\* it is.  "digits" is 600; "minus" is -600; "dashes" is --600 and "superscript"
\* is a digit such as the square sign, which pass the tests with isdigit() and
\* which int() refuses with ValueError; "zone", "admins", "members" and "off" are
\* words; "other" is any other word.
Forms == {"digits", "minus", "dashes", "superscript", "zone", "admins", "members", "off", "other"}

Token == [form : Forms, value : Int, zone : Zones]

\* value.isdigit(), and value.lstrip("-").isdigit()
isdigit(v)        == v.form \in {"digits", "superscript"}
lstrip_isdigit(v) == v.form \in {"digits", "minus", "dashes", "superscript"}

\* int(value) does not raise.
Converts(v) == v.form \in {"digits", "minus"}

Saved(chat) == [how |-> "saved", chat |-> chat]
Told(chat)  == [how |-> "told", chat |-> chat]    \* only a reply
Raised(chat) == [how |-> "raised", chat |-> chat] \* an exception, so a rollback

set_policy(chat, key, vs) ==
  IF vs # <<>> /\ vs[1].form \in Policies
  THEN Saved(IF key = "all_policy" THEN [chat EXCEPT !.all_policy = vs[1].form]
                                   ELSE [chat EXCEPT !.tag_policy = vs[1].form])
  ELSE Told(chat)

set_cooldown(chat, vs) ==
  IF vs = <<>> THEN Told(chat)
  ELSE IF ~lstrip_isdigit(vs[1]) THEN Told(chat)
  ELSE IF ~Converts(vs[1]) THEN Raised(chat)
  ELSE IF vs[1].value \notin CooldownSeconds THEN Told(chat)
  ELSE Saved([chat EXCEPT !.cooldown_seconds = vs[1].value])

set_timezone(chat, vs) ==
  IF vs # <<>> /\ vs[1].form = "zone"
  THEN Saved([chat EXCEPT !.timezone = vs[1].zone]) ELSE Told(chat)

set_quiet(chat, vs) ==
  IF vs # <<>> /\ vs[1].form = "off" THEN Saved([chat EXCEPT !.quiet_hours_enabled = FALSE])
  ELSE IF Len(vs) # 2 \/ \E i \in DOMAIN vs : ~isdigit(vs[i]) THEN Told(chat)
  ELSE IF \E i \in DOMAIN vs : ~Converts(vs[i]) THEN Raised(chat)
  ELSE IF \E i \in DOMAIN vs : vs[i].value \notin Hours THEN Told(chat)
  ELSE Saved([chat EXCEPT !.quiet_hours_enabled = TRUE,
                          !.quiet_start = vs[1].value, !.quiet_end = vs[2].value])

\* /settings key values..., past the check that the author is an admin.
cmd_settings_values(chat, key, vs) ==
  CASE key \in {"all_policy", "tag_policy"} -> set_policy(chat, key, vs)
    [] key = "cooldown"                     -> set_cooldown(chat, vs)
    [] key = "timezone"                     -> set_timezone(chat, vs)
    [] key = "quiet"                        -> set_quiet(chat, vs)
    [] OTHER                                -> Told(chat)
=============================================================================
