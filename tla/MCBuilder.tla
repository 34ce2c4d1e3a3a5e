------------------------------ MODULE MCBuilder ------------------------------
(***************************************************************************)
(* Instances of Builder for TLC; the limits are in ticks.  The node this   *)
(* module EXTENDS is a Mac, with a timeout_limit above the ten minutes of  *)
(* the warning.  Its variables serve a Linux node too, where both are ten  *)
(* minutes (TEMPLATE.properties), and a Windows node, without signals.     *)
(***************************************************************************)
EXTENDS Builder

(* SIGILL, SIGABRT and SIGKILL; SIGABRT is treated like SIGILL by main. *)
AllSignals == {-4, -6, -9}
SomeSignals == {-4, -9}

Mac == Platform
Linux == INSTANCE Builder WITH
  Platform <- "Linux", TimeoutLimit <- WarnLimit, Signals <- AllSignals
Windows == INSTANCE Builder WITH
  Platform <- "Windows", Signals <- {}

VARIABLE node

MCInit == Init /\ node \in {Mac, "Linux", "Windows"}

MCNext ==
  /\ \/ node = Mac /\ Next
     \/ node = "Linux" /\ Linux!Next
     \/ node = "Windows" /\ Windows!Next
  /\ UNCHANGED node

MCClocked ==
  /\ \/ node = Mac /\ Clocked
     \/ node = "Linux" /\ Linux!Clocked
     \/ node = "Windows" /\ Windows!Clocked
  /\ UNCHANGED node

MCSpec == MCInit /\ [][MCNext]_<<vars, node>> /\ WF_vars(MCClocked)

(* The one node of the cfg's Platform. *)
OneNode == Init /\ node = Platform /\ [][Next /\ UNCHANGED node]_<<vars, node>>
=============================================================================
