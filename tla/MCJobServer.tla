----------------------------- MODULE MCJobServer -----------------------------
(* Instances of JobServer for TLC. *)
EXTENDS JobServer, TLC

CONSTANTS r1, r2, r3, i1, c1, c2

(* Two requests for one commit of an issue, and one for another commit. *)
MCIssueOf == r1 :> i1 @@ r2 :> i1 @@ r3 :> i1
MCRunOf == r1 :> c1 @@ r2 :> c1 @@ r3 :> c2
MCShapeOf == r1 :> "ok" @@ r2 :> "ok" @@ r3 :> "ok"
=============================================================================
