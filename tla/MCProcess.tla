------------------------------- MODULE MCProcess -------------------------------
(* A small instance of Process for TLC: the intervals keep the order of the *)
(* code's, and a pause doubles twice before its ceiling.                   *)
EXTENDS Process
=============================================================================
