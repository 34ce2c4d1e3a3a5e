------------------------------ MODULE MCJobTree ------------------------------
(***************************************************************************)
(* An instance of JobTree for TLC.  Issue 1 has two commits, both of which *)
(* are asked for again while the reaper is about; issue 2 is closed and    *)
(* has had a message with a bad svn_url, and so nothing but R-libs; issue  *)
(* 3 has no tree, and when it is closed it takes the place of issue 1 on   *)
(* the page of two issues.                                                 *)
(***************************************************************************)
EXTENDS JobTree, TLC

CONSTANTS r1, r2, c1, c2

MCIssueOf == r1 :> 1 @@ r2 :> 1
MCRunOf == r1 :> c1 @@ r2 :> c2
MCShapeOf == r1 :> "ok" @@ r2 :> "ok"

MCEarlier == {1 :> <<c1, c2, RLibs>> @@ 2 :> <<RLibs>> @@ 3 :> <<>>}

MCInit ==
  /\ TInit
  /\ \A r \in Requests : thread[r] = "unsent"
  /\ \E other \in {"open", "closed"} :
       issue = (1 :> "open" @@ 2 :> "closed" @@ 3 :> other)

(* A bound: the steps of a thread before it comes to the tree and after it   *)
(* has left it are taken at once.                                            *)
Hurries ==
  {r \in Requests : \/ thread[r] \in {"queued", "start", "parse", "reply"}
                    \/ thread[r] = "wait" /\ child[r] # "running"}

MCNext ==
  /\ TNext
  /\ \A i \in {2, 3} : issue'[i] = issue[i]
  /\ Hurries # {} => \E r \in Hurries : thread'[r] # thread[r]

MCSpec == MCInit /\ [][MCNext]_tvars /\ TFairness
=============================================================================
