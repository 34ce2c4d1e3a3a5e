--------------------------- MODULE MCStompConnection ---------------------------
(***************************************************************************)
(* An instance of StompConnection for TLC: a session is busy one way or    *)
(* the other.                                                              *)
(***************************************************************************)
EXTENDS StompConnection

CONSTANT events

Session ==
  \/ Len(pushed) <= 3 /\ Len(frames) <= 1
  \/ Len(pushed) <= 2 /\ Len(frames) <= 2

MCNext == Next /\ Session'

MCSpec == Init /\ [][MCNext]_vars /\ Fairness
=============================================================================
