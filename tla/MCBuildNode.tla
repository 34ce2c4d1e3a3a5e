----------------------------- MODULE MCBuildNode -----------------------------
(***************************************************************************)
(* Instances of BuildNode for TLC.  Seven requests are declared and each   *)
(* day has two or three of them; the others were published before the      *)
(* server came up.  On a day for the builders, two requests for one commit *)
(* are followed to the end of their builders.  On the other days a builder *)
(* just ends, as JobServer has it, and the threads of the server meet: two *)
(* requests for one commit and one for another, or a good one, one with a  *)
(* bad svn_url and one of another malformed kind.                          *)
(***************************************************************************)
EXTENDS BuildNode, TLC

CONSTANTS r1, r2, r3, r4, r5, r6, r7, i1, c1, c2

MCIssueOf == r1 :> i1 @@ r2 :> i1 @@ r3 :> i1 @@ r4 :> i1
             @@ r5 :> i1 @@ r6 :> i1 @@ r7 :> i1
MCRunOf == r1 :> c1 @@ r2 :> c1 @@ r3 :> c2 @@ r4 :> c2
           @@ r5 :> c1 @@ r6 :> c1 @@ r7 :> c1
MCShapeOf == r1 :> "ok" @@ r2 :> "ok" @@ r3 :> "ok" @@ r4 :> "bad_svn_url"
             @@ r5 :> "not_json" @@ r6 :> "no_job_id" @@ r7 :> "bad_client_id"

VARIABLE day  \* the requests of the day

BuilderDay == {r1, r2}
ServerDays == {{r1, r2, r3}, {r1, r4, r5}, {r1, r4, r6}, {r1, r4, r7}}

MCInit ==
  /\ BInit
  /\ day \in {BuilderDay} \cup ServerDays
  /\ day = {r \in Requests : thread[r] = "unsent"}

(* A builder is a child that ends by itself. *)
ServerOnly ==
  /\ Next
  /\ UNCHANGED nodeVars
  /\ overlapped' = overlapped \cup {r \in Requests : Meets(r)'}

MCNext ==
  /\ IF day = BuilderDay THEN BNext ELSE ServerOnly
  /\ UNCHANGED day

MCSpec == MCInit /\ [][MCNext]_<<bvars, day>> /\ Fairness
=============================================================================
