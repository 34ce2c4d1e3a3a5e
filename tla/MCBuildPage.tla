----------------------------- MODULE MCBuildPage -----------------------------
(* Instances of BuildPage for TLC. *)
EXTENDS BuildPage, TLC

TwoCodes == {0, 1}
SomeCodes == {0, 1, -4}

(* What only builders of old times send. *)
OfOldTimes == {"svn_info", "build_not_required", "complete", "build_failed",
               "invalid_url", "clear_check_console"}

(* A bound: events are lost only where one node builds. *)
OtherIsHere == Contains(nodes, Other) \/ \E k \in DOMAIN wire : wire[k].node = Other

MCNext == Next /\ ~(lost /\ OtherIsHere)'

MCSpec == Init /\ [][MCNext]_vars /\ Fairness
=============================================================================
