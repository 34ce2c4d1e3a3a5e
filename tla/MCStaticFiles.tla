---------------------------- MODULE MCStaticFiles ----------------------------
(***************************************************************************)
(* An instance of StaticFiles for TLC: two requests of any kinds, or three *)
(* to the handler of fu, so that one comes between the reads of two.       *)
(***************************************************************************)
EXTENDS StaticFiles

Session == Len(requests) <= 2 \/ \A i \in DOMAIN requests : requests[i].to = "fu"

MCNext == Next /\ Session'

MCSpec == Init /\ [][MCNext]_vars /\ Fairness
=============================================================================
