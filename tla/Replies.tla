-------------------------------- MODULE Replies --------------------------------
(***************************************************************************)
(* Replies, posts and edits that must not fail: _deliver of                *)
(* bot/utils/replies.py, one request at a time.                            *)
(*                                                                         *)
(* A delivery is a record                                                  *)
(*   attempt   the pass of the loop, 1 or 2                                *)
(*   fallback  may it still give up the reply and post plainly?            *)
(*   result    "open" while requests are made, then "sent" (a message is   *)
(*             returned), "none" (None is returned) or "raised"            *)
(* Module Rollcall says which outcomes a request may have and what each    *)
(* leaves in the chat.                                                     *)
(***************************************************************************)
EXTENDS Naturals

Delivery ==
  [attempt : 1 .. 2, fallback : BOOLEAN, result : {"open", "sent", "none", "raised"}]

\* How one request ends.  "refused" is every answer of Telegram that is not worth
\* a second attempt: the permanent markers, other BadRequests, Forbidden, other
\* API errors.  "unreadable" is an exception outside TelegramAPIError: aiogram
\* could not decode what came back.
Outcomes ==
  {"ok", "retry_after", "network", "not_modified", "reply_gone", "refused", "unreadable"}

\* safe_reply has a fallback; safe_answer, safe_send and safe_edit have none.
safe_reply  == [attempt |-> 1, fallback |-> TRUE, result |-> "open"]
safe_answer == [attempt |-> 1, fallback |-> FALSE, result |-> "open"]
safe_edit   == [attempt |-> 1, fallback |-> FALSE, result |-> "open"]

\* A second attempt after 429 or a network failure.
Again(d) == IF d.attempt = 2 THEN [d EXCEPT !.result = "none"] ELSE [d EXCEPT !.attempt = 2]

\* Mutants: the fallback may fall back again; refusals of other kinds than
\* BadRequest escape.
_deliver_falls_back_again(d, o) ==
  CASE o = "ok"                                -> [d EXCEPT !.result = "sent"]
    [] o \in {"retry_after", "network"}        -> Again(d)
    [] o = "reply_gone" /\ d.fallback          -> [d EXCEPT !.attempt = 1]
    [] o = "unreadable"                        -> [d EXCEPT !.result = "raised"]
    [] OTHER                                   -> [d EXCEPT !.result = "none"]

_deliver_raises(d, o) ==
  CASE o = "ok"                                -> [d EXCEPT !.result = "sent"]
    [] o \in {"retry_after", "network"}        -> Again(d)
    [] o = "reply_gone" /\ d.fallback          -> [d EXCEPT !.fallback = FALSE, !.attempt = 1]
    [] o \in {"refused", "unreadable"}         -> [d EXCEPT !.result = "raised"]
    [] OTHER                                   -> [d EXCEPT !.result = "none"]

\* The delivery after a request that ended so.
_deliver(d, o) ==
  CASE o = "ok"                                -> [d EXCEPT !.result = "sent"]
    [] o \in {"retry_after", "network"}        -> Again(d)
    [] o = "reply_gone" /\ d.fallback          -> [d EXCEPT !.fallback = FALSE, !.attempt = 1]
    [] o = "unreadable"                        -> [d EXCEPT !.result = "raised"]
    [] OTHER                                   -> [d EXCEPT !.result = "none"]

\* Requests the delivery may still make.
RequestsLeft(d) ==
  IF d.result # "open" THEN 0 ELSE (3 - d.attempt) + (IF d.fallback THEN 2 ELSE 0)
=============================================================================
