----------------------------- MODULE BuildReport -----------------------------
(***************************************************************************)
(* What a consumer of the events topic may rely on about one build: the    *)
(* order of the milestones and the return codes they carry.  Builder is    *)
(* shown to implement it.  A build may end at any moment (the node can     *)
(* fail), but what was announced before stays true.                        *)
(***************************************************************************)
EXTENDS Integers

CONSTANTS Codes  \* return codes an event may carry

VARIABLES
  phase,  \* the last milestone announced
  code    \* the return code it carried, 0 when it carried none

report == <<phase, code>>

(* Return codes that still let the check go ahead. *)
Proceeds(rc) == rc \in {0, -4, -6}

Phases == {"silent", "started", "unsupported", "built", "checking", "checked",
           "packaging", "packaged", "processed", "finished", "over"}

ReportInit == phase = "silent" /\ code = 0

Announce(from, to, rc) ==
  /\ phase = from
  /\ phase' = to
  /\ code' = rc

Started == Announce("silent", "started", 0)
Unsupported == Announce("started", "unsupported", 0)
Built == \E rc \in Codes : Announce("started", "built", rc)
CheckStarted == Proceeds(code) /\ Announce("built", "checking", 0)
Checked == \E rc \in Codes : Announce("checking", "checked", rc)
BinaryStarted == Announce("checked", "packaging", 0)
BinarySkipped == Announce("checked", "packaged", 0)
BinaryBuilt == \E rc \in Codes : Announce("packaging", "packaged", rc)
Processed == Announce("packaged", "processed", 0)
Finished == Announce("processed", "finished", 0)
Over == phase # "over" /\ phase' = "over" /\ code' = 0

ReportNext ==
  \/ Started \/ Unsupported \/ Built \/ CheckStarted \/ Checked
  \/ BinaryStarted \/ BinarySkipped \/ BinaryBuilt \/ Processed \/ Finished
  \/ Over

ReportSpec == ReportInit /\ [][ReportNext]_report
=============================================================================
