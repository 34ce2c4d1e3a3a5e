------------------------------ MODULE MCWebRelay ------------------------------
(* Instances of WebRelay for TLC. *)
EXTENDS WebRelay, TLC

CONSTANTS p1, p2

====
