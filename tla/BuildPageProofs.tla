--------------------------- MODULE BuildPageProofs ---------------------------
(***************************************************************************)
(* BuildPage for any codes, any other node and any bound on what is under  *)
(* way: the inductive invariant IInv. The events of the followed builder   *)
(* that change its row for good have ranks; they come in the order of      *)
(* their ranks, and Level is the last one sent. Whether a rank is under    *)
(* way, handled or lost then says what the row shows.                      *)
(***************************************************************************)
EXTENDS BuildPage, TLAPS

(* The verdicts of a stage. *)
Done == {"OK", "WARNINGS", "ERROR"}

(* The stages of the build; those that failed are some of them. *)
Verified == {"build", "check", "buildbin"}
FailedTyped == failed \subseteq Verified

(* The events of the followed builder that change its row for good come in   *)
(* one order: their ranks.  Either of two ends the binary's build.           *)
RankOf ==
  [node_info |-> 1, r_cmd |-> 2, building |-> 3, build_complete |-> 4, check_cmd |-> 5,
   check_complete |-> 6, checking |-> 7, starting_buildbin |-> 8, skip_buildbin |-> 9,
   buildbin_complete |-> 9, post_processing_complete |-> 10]

(* The rank of an event; those of the other node and those that change       *)
(* nothing for good have none.                                               *)
Rank(m) == IF m.node = Mine /\ m.status \in DOMAIN RankOf THEN RankOf[m.status] ELSE 0

(* The rank of the last such event that each milestone has sent.             *)
LevelOf ==
  [silent |-> 0, started |-> 1, unsupported |-> 1, built |-> 4, checking |-> 5, checked |-> 7,
   packaging |-> 8, packaged |-> 9, processed |-> 10, finished |-> 10]

(* The rank of the last event sent. *)
Level == LevelOf[reached]

(* What the followed builder sends. *)
Reports == DOMAIN RankOf \cup {"ignored", "post_processing", "dcf_info", "r_buildbin_cmd", "buildingbin"}

(* An event under way: the builder has come as far, its end reports no       *)
(* error, and a node that has a row does not ask for another.                *)
Sound(m) ==
  /\ m.node = Mine => m.status \in Reports
  /\ Rank(m) <= Level
  /\ Rank(m) = 10 => m.retcode = 0
  /\ m.status = "node_info" => ~HasRow(m.node)

(* An event under way and one that was sent later: the ranks grow, nothing   *)
(* that the page shows comes after the last of them, and the other node      *)
(* has one event under way.                                                  *)
Before(m, n) ==
  /\ Rank(m) > 0 /\ Rank(n) > 0 => Rank(m) < Rank(n)
  /\ Rank(m) = 10 /\ n.node = Mine => n.status = "ignored"
  /\ ~(m.node = Other /\ n.node = Other)

(* All that is under way. *)
WireInv ==
  /\ \A k \in DOMAIN wire : Sound(wire[k])
  /\ \A j, k \in DOMAIN wire : j < k => Before(wire[j], wire[k])

(* The report and what is remembered of it. *)
ReportInv ==
  /\ reached # "over" /\ phase \in {reached, "over"}
  /\ Level >= 5 => ran

(* Of the ranks up to r nothing is under way any more.                       *)
Beyond(r) == \A k \in DOMAIN wire : Rank(wire[k]) > 0 => Rank(wire[k]) > r

(* An event of rank r is under way. *)
Pending(r) == \E k \in DOMAIN wire : Rank(wire[k]) = r

(* What a row has for good, lost events or not. *)
Final(stage, r) == shown[Mine][stage] \in Done => r <= Level /\ Beyond(r)

(* A row comes with node_info, and its verdicts with their last events. *)
RowInv ==
  /\ HasRow(Mine) => 1 <= Level /\ Beyond(1)
  /\ Final("build", 4) /\ Final("check", 6) /\ Final("buildbin", 9)

(* The ranks that were sent on the way to where the report is. *)
SentRanks == {r \in 1..10 : r <= Level /\ (r \in {2, 3} => ran) /\ (r = 8 => Level = 8)}

(* As long as nothing is lost: what was sent is under way or handled, and    *)
(* what was handled has had its effect.                                      *)
NoneMissing == \A r \in SentRanks : Beyond(r) \/ Pending(r)

(* A rank that was sent and is not under way was handled, if it was not      *)
(* lost.                                                                     *)
Handled(r) == r \in SentRanks /\ Beyond(r)

(* What the row of the followed builder shows, by what was handled. *)
Effects ==
  LET row == shown[Mine] IN
  /\ Handled(1) => HasRow(Mine)
  /\ Handled(2) => "command" \in cells[Mine]
  /\ Handled(3) => "console" \in cells[Mine]
  /\ Handled(5) => "check_command" \in cells[Mine]
  /\ Handled(7) => "check_console" \in cells[Mine]
  /\ Level < 4 => row["build"] = "IN_PROGRESS" /\ row["check"] = "IN_PROGRESS"
  /\ Handled(4) => row["build"] \in Done
  /\ Handled(4) /\ Level = 4 => row["check"] = "skipped"
  /\ Handled(5) /\ Level = 5 => row["check"] = "IN_PROGRESS"
  /\ Handled(6) => row["check"] \in Done
  /\ Handled(4) /\ Level < 8 => row["buildbin"] # "IN_PROGRESS"
  /\ Handled(8) => row["buildbin"] = "IN_PROGRESS"
  /\ Handled(9) => row["buildbin"] # "IN_PROGRESS"
  /\ Level < 10 => row["postprocessing"] # "OK"
  /\ Handled(10) => /\ row["postprocessing"] = "OK"
                    /\ \A k \in DOMAIN wire : wire[k].node = Mine => wire[k].status = "ignored"

(* What may be under way. *)
Events == [status : Statuses, node : Nodes, retcode : Codes]

(* The inductive invariant. *)
IInv ==
  /\ TypeOK
  /\ ReportInv
  /\ WireInv
  /\ RowInv
  /\ ~lost => NoneMissing /\ Effects

-----------------------------------------------------------------------------
(* Ranks and levels are numbers up to ten. *)
LEMMA Ranks ==
  /\ DOMAIN RankOf = {"node_info", "r_cmd", "building", "build_complete", "check_cmd",
                      "check_complete", "checking", "starting_buildbin", "skip_buildbin",
                      "buildbin_complete", "post_processing_complete"}
  /\ RankOf["node_info"] = 1 /\ RankOf["r_cmd"] = 2 /\ RankOf["building"] = 3
  /\ RankOf["build_complete"] = 4 /\ RankOf["check_cmd"] = 5 /\ RankOf["check_complete"] = 6
  /\ RankOf["checking"] = 7 /\ RankOf["starting_buildbin"] = 8 /\ RankOf["skip_buildbin"] = 9
  /\ RankOf["buildbin_complete"] = 9 /\ RankOf["post_processing_complete"] = 10
BY DEF RankOf

(* A rank is a number up to ten. *)
LEMMA RankIsANumber == \A m : Rank(m) \in 0..10
<1> SUFFICES ASSUME NEW m PROVE Rank(m) \in 0..10
  OBVIOUS
<1>1. CASE m.node = Mine /\ m.status \in DOMAIN RankOf
  BY <1>1, Ranks DEF Rank
<1>2. CASE ~(m.node = Mine /\ m.status \in DOMAIN RankOf)
  BY <1>2 DEF Rank
<1> QED BY <1>1, <1>2

(* The levels of the milestones. *)
LEMMA Levels ==
  /\ LevelOf["silent"] = 0 /\ LevelOf["started"] = 1 /\ LevelOf["unsupported"] = 1
  /\ LevelOf["built"] = 4 /\ LevelOf["checking"] = 5 /\ LevelOf["checked"] = 7
  /\ LevelOf["packaging"] = 8 /\ LevelOf["packaged"] = 9 /\ LevelOf["processed"] = 10
  /\ LevelOf["finished"] = 10
BY DEF LevelOf

(* A level is a number up to ten. *)
LEMMA LevelIsANumber == ASSUME TypeOK, ReportInv PROVE Level \in 0..10
BY Levels DEF TypeOK, ReportInv, Level, Phases

(* The wire, when events are put on it. *)
LEMMA WireGrows ==
  ASSUME wire \in Seq(Events), NEW msgs \in Seq(Events), wire' = wire \o msgs
  PROVE  /\ wire' \in Seq(Events) /\ Len(wire') = Len(wire) + Len(msgs)
         /\ \A k \in DOMAIN wire : k \in DOMAIN wire' /\ wire'[k] = wire[k]
         /\ \A l \in DOMAIN msgs : Len(wire) + l \in DOMAIN wire' /\ wire'[Len(wire) + l] = msgs[l]
         /\ \A k \in DOMAIN wire' : k \in DOMAIN wire
              \/ \E l \in DOMAIN msgs : k = Len(wire) + l /\ wire'[k] = msgs[l]
<1>1. wire' \in Seq(Events) /\ Len(wire') = Len(wire) + Len(msgs)
  OBVIOUS
<1>2. \A k \in DOMAIN wire : k \in DOMAIN wire' /\ wire'[k] = wire[k]
  OBVIOUS
<1>3. \A l \in DOMAIN msgs : Len(wire) + l \in DOMAIN wire' /\ wire'[Len(wire) + l] = msgs[l]
  OBVIOUS
<1>4. ASSUME NEW k \in DOMAIN wire', k \notin DOMAIN wire
      PROVE  \E l \in DOMAIN msgs : k = Len(wire) + l /\ wire'[k] = msgs[l]
  <2>1. k - Len(wire) \in DOMAIN msgs /\ k = Len(wire) + (k - Len(wire))
    BY <1>1, <1>4
  <2>2. wire'[Len(wire) + (k - Len(wire))] = msgs[k - Len(wire)]
    BY <1>3, <2>1
  <2> QED BY <2>1, <2>2
<1> QED BY <1>1, <1>2, <1>3, <1>4

(* The wire, when the oldest event is taken off it. *)
LEMMA WireShrinks ==
  ASSUME wire \in Seq(Events), wire # <<>>, wire' = Tail(wire)
  PROVE  /\ wire' \in Seq(Events) /\ Len(wire') = Len(wire) - 1
         /\ Head(wire) = wire[1] /\ 1 \in DOMAIN wire
         /\ \A k \in DOMAIN wire' : k + 1 \in DOMAIN wire /\ wire'[k] = wire[k + 1]
         /\ \A k \in DOMAIN wire : k = 1 \/ (k - 1 \in DOMAIN wire' /\ wire'[k - 1] = wire[k])
<1>1. wire' \in Seq(Events) /\ Len(wire') = Len(wire) - 1 /\ Len(wire) >= 1
  OBVIOUS
<1>2. Head(wire) = wire[1] /\ 1 \in DOMAIN wire
  OBVIOUS
<1>3. \A k \in DOMAIN wire' : k + 1 \in DOMAIN wire /\ wire'[k] = wire[k + 1]
  OBVIOUS
<1>4. ASSUME NEW k \in DOMAIN wire, k # 1
      PROVE  k - 1 \in DOMAIN wire' /\ wire'[k - 1] = wire[k]
  BY <1>1, <1>3, <1>4
<1> QED BY <1>1, <1>2, <1>3, <1>4

-----------------------------------------------------------------------------
(* Events are sent: each is sound and in its place, and of a higher rank than *)
(* all that came before.                                                     *)
Follows(msgs, level) ==
  /\ \A l \in DOMAIN msgs :
       /\ msgs[l].node = Mine => msgs[l].status \in Reports
       /\ Rank(msgs[l]) > 0 => level < Rank(msgs[l])
       /\ Rank(msgs[l]) = 10 => msgs[l].retcode = 0
       /\ msgs[l].status = "node_info" => ~HasRow(msgs[l].node)
       /\ level = 10 /\ msgs[l].node = Mine => msgs[l].status = "ignored"
  /\ \A i, j \in DOMAIN msgs : i < j => Before(msgs[i], msgs[j])
  /\ (\E l \in DOMAIN msgs : msgs[l].node = Other) => \A k \in DOMAIN wire : wire[k].node = Mine

(* What was sent in its place is under way in its place. *)
LEMMA SendingKeepsTheWire ==
  ASSUME TypeOK, ReportInv, WireInv, NEW msgs \in Seq(Events), wire' = wire \o msgs,
         UNCHANGED nodes, Follows(msgs, Level),
         Level' \in 0..10, Level <= Level', \A l \in DOMAIN msgs : Rank(msgs[l]) <= Level'
  PROVE  WireInv'
<1>0. wire \in Seq(Events) /\ Level \in 0..10
  BY LevelIsANumber DEF TypeOK, Events
<1>1. /\ \A k \in DOMAIN wire : k \in DOMAIN wire' /\ wire'[k] = wire[k]
      /\ \A k \in DOMAIN wire' : k \in DOMAIN wire
           \/ \E l \in DOMAIN msgs : k = Len(wire) + l /\ wire'[k] = msgs[l]
  BY <1>0, WireGrows
<1>2. ASSUME NEW k \in DOMAIN wire' PROVE (Sound(wire[k]))'
  <2>1. CASE k \in DOMAIN wire
    <3>1. Sound(wire[k]) /\ wire'[k] = wire[k] /\ Rank(wire[k]) \in 0..10
      BY <1>1, <2>1, RankIsANumber DEF WireInv
    <3>2. Rank(wire'[k]) <= Level'
      BY <1>0, <3>1 DEF Sound
    <3> QED BY <3>1, <3>2 DEF Sound, HasRow
  <2>2. CASE \E l \in DOMAIN msgs : k = Len(wire) + l /\ wire'[k] = msgs[l]
    BY <2>2 DEF Follows, Sound, HasRow
  <2> QED BY <1>1, <2>1, <2>2
<1>3. ASSUME NEW j \in DOMAIN wire', NEW k \in DOMAIN wire', j < k
      PROVE  Before(wire'[j], wire'[k])
  <2>1. CASE j \in DOMAIN wire /\ k \in DOMAIN wire
    BY <1>1, <1>3, <2>1 DEF WireInv
  <2>2. CASE j \in DOMAIN wire /\ k \notin DOMAIN wire
    <3>1. PICK l \in DOMAIN msgs : wire'[k] = msgs[l]
      BY <1>1, <2>2
    <3>2. /\ Sound(wire[j]) /\ wire'[j] = wire[j] /\ wire[j] \in Events /\ msgs[l] \in Events
          /\ Rank(wire[j]) \in 0..10 /\ Rank(msgs[l]) \in 0..10
      BY <1>0, <1>1, <2>2, RankIsANumber DEF WireInv
    <3>3. Rank(wire[j]) > 0 /\ Rank(msgs[l]) > 0 => Rank(wire[j]) < Rank(msgs[l])
      <4>1. Rank(wire[j]) <= Level
        BY <3>2 DEF Sound
      <4>2. Rank(msgs[l]) > 0 => Level < Rank(msgs[l])
        BY DEF Follows
      <4>3. Rank(wire[j]) \in 0..10 /\ Rank(msgs[l]) \in 0..10 /\ Level \in 0..10
        BY <1>0, <3>2
      <4>4. \A a, b, c \in 0..10 : a <= b /\ b < c => a < c
        OBVIOUS
      <4> HIDE DEF Level
      <4> QED BY <4>1, <4>2, <4>3, <4>4
    <3>4. Rank(wire[j]) = 10 /\ msgs[l].node = Mine => msgs[l].status = "ignored"
      <4>1. Rank(wire[j]) <= Level
        BY <3>2 DEF Sound
      <4>2. Rank(wire[j]) = 10 => Level = 10
        BY <1>0, <4>1
      <4> QED BY <4>2 DEF Follows
    <3>5. ~(wire[j].node = Other /\ msgs[l].node = Other)
      BY <2>2 DEF Follows, Mine, Other
    <3> QED BY <3>1, <3>2, <3>3, <3>4, <3>5 DEF Before
  <2>3. CASE j \notin DOMAIN wire
    <3>1. PICK i \in DOMAIN msgs : j = Len(wire) + i /\ wire'[j] = msgs[i]
      BY <1>1, <2>3
    <3>2. k \notin DOMAIN wire
      BY <1>0, <1>3, <3>1
    <3>3. PICK l \in DOMAIN msgs : k = Len(wire) + l /\ wire'[k] = msgs[l]
      BY <1>1, <3>2
    <3>4. i < l
      BY <1>0, <1>3, <3>1, <3>3
    <3> QED BY <3>1, <3>3, <3>4 DEF Follows
  <2> QED BY <2>1, <2>2, <2>3
<1> QED BY <1>2, <1>3 DEF WireInv

(* A rank that nothing under way has stays so when higher ones are sent, and *)
(* one that something has, too.                                              *)
LEMMA SendingGoesBeyond ==
  ASSUME TypeOK, ReportInv, NEW msgs \in Seq(Events), wire' = wire \o msgs, Follows(msgs, Level),
         NEW r \in Nat
  PROVE  /\ r <= Level /\ Beyond(r) => Beyond(r)'
         /\ Beyond(r)' => Beyond(r) /\ \A l \in DOMAIN msgs : Rank(msgs[l]) > 0 => Rank(msgs[l]) > r
         /\ Pending(r) => Pending(r)'
         /\ (\E l \in DOMAIN msgs : Rank(msgs[l]) = r) => Pending(r)'
<1>0. wire \in Seq(Events) /\ Level \in 0..10
  BY LevelIsANumber DEF TypeOK, Events
<1>1. /\ \A k \in DOMAIN wire : k \in DOMAIN wire' /\ wire'[k] = wire[k]
      /\ \A l \in DOMAIN msgs : Len(wire) + l \in DOMAIN wire' /\ wire'[Len(wire) + l] = msgs[l]
      /\ \A k \in DOMAIN wire' : k \in DOMAIN wire
           \/ \E l \in DOMAIN msgs : k = Len(wire) + l /\ wire'[k] = msgs[l]
  BY <1>0, WireGrows
<1>2. ASSUME r <= Level, Beyond(r) PROVE Beyond(r)'
  <2>1. ASSUME NEW k \in DOMAIN wire', Rank(wire'[k]) > 0 PROVE Rank(wire'[k]) > r
    <3>1. CASE k \in DOMAIN wire
      BY <1>1, <1>2, <2>1, <3>1 DEF Beyond
    <3>2. CASE \E l \in DOMAIN msgs : k = Len(wire) + l /\ wire'[k] = msgs[l]
      <4>1. PICK l \in DOMAIN msgs : wire'[k] = msgs[l]
        BY <3>2
      <4>2. Level < Rank(msgs[l]) /\ Rank(msgs[l]) \in 0..10
        BY <2>1, <4>1, RankIsANumber DEF Follows
      <4> QED BY <1>0, <1>2, <4>1, <4>2
    <3> QED BY <1>1, <3>1, <3>2
  <2> QED BY <2>1 DEF Beyond
<1>3. ASSUME Beyond(r)'
      PROVE  Beyond(r) /\ \A l \in DOMAIN msgs : Rank(msgs[l]) > 0 => Rank(msgs[l]) > r
  <2>1. \A k \in DOMAIN wire' : Rank(wire'[k]) > 0 => Rank(wire'[k]) > r
    BY <1>3 DEF Beyond
  <2>2. Beyond(r)
    BY <1>1, <2>1 DEF Beyond
  <2>3. \A l \in DOMAIN msgs : Rank(msgs[l]) > 0 => Rank(msgs[l]) > r
    BY <1>1, <2>1
  <2> QED BY <2>2, <2>3
<1>4. Pending(r) => Pending(r)'
  BY <1>1 DEF Pending
<1>5. (\E l \in DOMAIN msgs : Rank(msgs[l]) = r) => Pending(r)'
  BY <1>1 DEF Pending
<1> QED BY <1>2, <1>3, <1>4, <1>5

(* What the rows have, and that nothing is missing, survives the sending. *)
LEMMA SendingKeepsTheRows ==
  ASSUME IInv, NEW msgs \in Seq(Events), wire' = wire \o msgs,
         UNCHANGED <<nodes, shown, cells, lost>>, Follows(msgs, Level), ReportInv',
         Level' \in 0..10, Level <= Level', \A l \in DOMAIN msgs : Rank(msgs[l]) <= Level',
         \A r \in SentRanks' : r \in SentRanks
                                 \/ (r > Level /\ \E l \in DOMAIN msgs : Rank(msgs[l]) = r)
  PROVE  /\ WireInv' /\ RowInv'
         /\ ~lost' => NoneMissing' /\ Effects'
<1>0. Level \in 0..10 /\ TypeOK /\ ReportInv /\ WireInv
  BY LevelIsANumber DEF IInv
<1>1. WireInv'
  BY <1>0, SendingKeepsTheWire
<1>2. \A r \in Nat : r <= Level /\ Beyond(r) => r <= Level' /\ Beyond(r)'
  BY <1>0, SendingGoesBeyond
<1>3. RowInv'
  BY <1>2 DEF IInv, RowInv, Final, HasRow
<1>4. NoneMissing => NoneMissing'
  <2> SUFFICES ASSUME NoneMissing, NEW r \in SentRanks' PROVE Beyond(r)' \/ Pending(r)'
    BY DEF NoneMissing
  <2>1. r \in Nat
    BY DEF SentRanks
  <2>2. CASE r \in SentRanks
    <3>1. r <= Level
      BY <2>2 DEF SentRanks
    <3> QED BY <1>0, <2>1, <2>2, <3>1, SendingGoesBeyond DEF NoneMissing
  <2>3. CASE \E l \in DOMAIN msgs : Rank(msgs[l]) = r
    BY <1>0, <2>1, <2>3, SendingGoesBeyond
  <2> QED BY <2>2, <2>3
<1>5. ASSUME NEW r \in 1..10, Handled(r)' PROVE Handled(r) /\ r <= Level
  <2>1. r \in SentRanks' /\ Beyond(r)'
    BY <1>5 DEF Handled
  <2>2. Beyond(r) /\ \A l \in DOMAIN msgs : Rank(msgs[l]) > 0 => Rank(msgs[l]) > r
    BY <1>0, <2>1, SendingGoesBeyond
  <2>3. r \in SentRanks
    BY <2>1, <2>2
  <2> QED BY <2>2, <2>3 DEF Handled, SentRanks
<1>6. ASSUME Effects PROVE Effects'
  <2>1. shown' = shown /\ cells' = cells /\ HasRow(Mine)' = HasRow(Mine)
    BY DEF HasRow
  <2>2. ASSUME Handled(10)'
        PROVE  (\A k \in DOMAIN wire : wire[k].node = Mine => wire[k].status = "ignored")'
    <3>1. Handled(10) /\ Level = 10
      BY <1>0, <1>5, <2>2
    <3>2. \A k \in DOMAIN wire : wire[k].node = Mine => wire[k].status = "ignored"
      BY <1>6, <3>1 DEF Effects
    <3>3. \A l \in DOMAIN msgs : msgs[l].node = Mine => msgs[l].status = "ignored"
      BY <3>1 DEF Follows
    <3>4. wire \in Seq(Events)
      BY <1>0 DEF TypeOK, Events
    <3> QED BY <3>2, <3>3, <3>4, WireGrows
  <2>3. /\ Level' < 4 => Level < 4
        /\ Level' < 8 => Level < 8
        /\ Level' < 10 => Level < 10
        /\ Handled(4)' /\ Level' = 4 => Level = 4
        /\ Handled(5)' /\ Level' = 5 => Level = 5
    <3>1. Handled(4)' => Level >= 4
      BY <1>5
    <3>2. Handled(5)' => Level >= 5
      BY <1>5
    <3> QED BY <1>0, <3>1, <3>2
  <2>4. \A r \in 1..10 : Handled(r)' => Handled(r)
    BY <1>5
  <2> QED BY <1>6, <2>1, <2>2, <2>3, <2>4 DEF Effects
<1> QED BY <1>1, <1>3, <1>4, <1>6 DEF IInv

-----------------------------------------------------------------------------
(* An event of the followed builder. *)
LEMMA OwnEvents ==
  ASSUME NEW status \in Statuses, NEW rc \in Codes
  PROVE  /\ Own(status, rc) \in Events
         /\ Own(status, rc).node = Mine /\ Own(status, rc).status = status
         /\ Own(status, rc).retcode = rc
         /\ Rank(Own(status, rc)) = IF status \in DOMAIN RankOf THEN RankOf[status] ELSE 0
<1>1. /\ Own(status, rc) \in Events /\ Own(status, rc).node = Mine
      /\ Own(status, rc).status = status /\ Own(status, rc).retcode = rc
  BY DEF Own, Message, Events, Nodes
<1> QED BY <1>1 DEF Rank

(* A milestone of the followed builder, with its events. *)
LEMMA MilestoneKeeps ==
  ASSUME IInv, NEW msgs \in Seq(Events), Sends(msgs), Follows(msgs, Level),
         phase' \in Phases, code' \in Codes, reached' \in Phases, ran' \in BOOLEAN, FailedTyped', ReportInv',
         Level <= Level', \A l \in DOMAIN msgs : Rank(msgs[l]) <= Level',
         \A r \in SentRanks' : r \in SentRanks
                                 \/ (r > Level /\ \E l \in DOMAIN msgs : Rank(msgs[l]) = r)
  PROVE  IInv'
<1>1. /\ wire' = wire \o msgs /\ Len(wire) + Len(msgs) <= MaxWire
      /\ UNCHANGED <<lost, clicked, visible, nodes, headers, shown, cells, retcell, package>>
  BY DEF Sends, page
<1>2. wire' \in Seq(Events) /\ Len(wire') = Len(wire) + Len(msgs)
  BY <1>1, WireGrows DEF IInv, TypeOK, Events
<1>3. TypeOK'
  BY <1>1, <1>2 DEF IInv, TypeOK, Events, FailedTyped, Verified
<1>4. Level' \in 0..10
  BY <1>3, Levels DEF TypeOK, ReportInv, Level, Phases
<1> QED BY <1>1, <1>3, <1>4, SendingKeepsTheRows DEF IInv

(* The builder starts: node_info is sent. *)
LEMMA StartedKeeps ==
  ASSUME IInv, Started, Sends(<<Own("ignored", 0), Own("node_info", 0)>>), ran' \in BOOLEAN,
         reached' = IF phase' = "over" THEN phase ELSE phase', FailedTyped'
  PROVE  IInv'
<1> DEFINE msgs == <<Own("ignored", 0), Own("node_info", 0)>>
<1>1. /\ phase = "silent" /\ phase' = "started" /\ reached' = "started" /\ code' = 0
      /\ reached = "silent" /\ Level = 0 /\ Level' = 1
  BY Levels DEF Started, Announce, IInv, ReportInv, Level
<1>2. /\ DOMAIN msgs = 1..2 /\ msgs \in Seq(Events)
      /\ \A l \in DOMAIN msgs : msgs[l].node = Mine /\ msgs[l].status \in Reports /\ msgs[l].retcode = 0
      /\ msgs[1].status = "ignored" /\ msgs[2].status = "node_info"
      /\ Rank(msgs[1]) = 0 /\ Rank(msgs[2]) = 1
  BY OwnEvents, Ranks, CodesAssumption DEF Statuses, Reports
<1> HIDE DEF msgs
<1>3. ~HasRow(Mine)
  BY <1>1 DEF IInv, RowInv
<1>4. Follows(msgs, Level)
  BY <1>1, <1>2, <1>3 DEF Follows, Before, Mine, Other
<1>5. ReportInv'
  BY <1>1 DEF ReportInv
<1>6. \A r \in SentRanks' : r \in SentRanks \/ (r > Level /\ \E l \in DOMAIN msgs : Rank(msgs[l]) = r)
  BY <1>1, <1>2 DEF SentRanks
<1>7. \A l \in DOMAIN msgs : Rank(msgs[l]) <= Level'
  BY <1>1, <1>2
<1>8. code' \in Codes /\ phase' \in Phases /\ reached' \in Phases
  BY <1>1, CodesAssumption DEF Phases
<1>9. Sends(msgs)
  BY DEF msgs
<1> QED BY <1>1, <1>2, <1>4, <1>5, <1>6, <1>7, <1>8, <1>9, MilestoneKeeps

(* The builder's platform does not suit the package. *)
LEMMA UnsupportedKeeps ==
  ASSUME IInv, Unsupported, Sends(<<Own("ignored", 0), Own("post_processing", 0)>>), ran' \in BOOLEAN,
         reached' = IF phase' = "over" THEN phase ELSE phase', FailedTyped'
  PROVE  IInv'
<1> DEFINE msgs == <<Own("ignored", 0), Own("post_processing", 0)>>
<1>1. /\ phase = "started" /\ phase' = "unsupported" /\ reached' = "unsupported" /\ code' = 0
      /\ reached = "started" /\ Level = 1 /\ Level' = 1
  BY Levels DEF Unsupported, Announce, IInv, ReportInv, Level
<1>2. /\ DOMAIN msgs = 1..2 /\ msgs \in Seq(Events)
      /\ \A l \in DOMAIN msgs : msgs[l].node = Mine /\ msgs[l].status \in Reports
      /\ msgs[1].status = "ignored" /\ msgs[2].status = "post_processing"
      /\ Rank(msgs[1]) = 0 /\ Rank(msgs[2]) = 0
  BY <1>1, OwnEvents, Ranks, CodesAssumption DEF Statuses, Reports
<1> HIDE DEF msgs
<1>3. Follows(msgs, Level)
  BY <1>1, <1>2 DEF Follows, Before, Mine, Other
<1>4. ReportInv' /\ Level <= Level' /\ \A l \in DOMAIN msgs : Rank(msgs[l]) <= Level'
  BY <1>1, <1>2 DEF ReportInv, IInv, TypeOK
<1>5. ASSUME NEW r \in SentRanks'
      PROVE  r \in SentRanks \/ (r > Level /\ \E l \in DOMAIN msgs : Rank(msgs[l]) = r)
  <2>1. r \in 1..10 /\ r <= 1 /\ (r \in {2, 3} => ran') /\ (r = 8 => 1 = 8)
    BY <1>1 DEF SentRanks
  <2>2. CASE r <= 1
    BY <1>1, <2>1, <2>2 DEF SentRanks
  <2> QED BY <2>1, <2>2
<1>6. code' \in Codes /\ phase' \in Phases /\ reached' \in Phases /\ ran' \in BOOLEAN
  BY <1>1, CodesAssumption DEF Phases, IInv, TypeOK
<1>7. Sends(msgs)
  BY DEF msgs
<1> QED BY <1>1, <1>2, <1>3, <1>4, <1>5, <1>6, <1>7, MilestoneKeeps

(* A build that was run: its command, its output, its verdict. *)
LEMMA BuiltRunKeeps ==
  ASSUME IInv, Built, Sends(<<Own("dcf_info", 0), Own("r_cmd", 0),
                             Own("building", 0), Own("build_complete", code')>>), ran' \in BOOLEAN, ran',
         reached' = IF phase' = "over" THEN phase ELSE phase', FailedTyped'
  PROVE  IInv'
<1> DEFINE msgs == <<Own("dcf_info", 0), Own("r_cmd", 0),
                     Own("building", 0), Own("build_complete", code')>>
<1>1. /\ phase = "started" /\ phase' = "built" /\ reached' = "built" /\ code' \in Codes
      /\ reached = "started" /\ Level = 1 /\ Level' = 4
  BY Levels DEF Built, Announce, IInv, ReportInv, Level
<1>2. /\ DOMAIN msgs = 1..4 /\ msgs \in Seq(Events)
      /\ \A l \in DOMAIN msgs : msgs[l].node = Mine /\ msgs[l].status \in Reports
      /\ msgs[1].status = "dcf_info" /\ msgs[2].status = "r_cmd"
      /\ msgs[3].status = "building" /\ msgs[4].status = "build_complete"
      /\ Rank(msgs[1]) = 0 /\ Rank(msgs[2]) = 2 /\ Rank(msgs[3]) = 3 /\ Rank(msgs[4]) = 4
  BY <1>1, OwnEvents, Ranks, CodesAssumption DEF Statuses, Reports
<1> HIDE DEF msgs
<1>3. Follows(msgs, Level)
  BY <1>1, <1>2 DEF Follows, Before, Mine, Other
<1>4. ReportInv' /\ Level <= Level' /\ \A l \in DOMAIN msgs : Rank(msgs[l]) <= Level'
  BY <1>1, <1>2 DEF ReportInv, IInv, TypeOK
<1>5. ASSUME NEW r \in SentRanks'
      PROVE  r \in SentRanks \/ (r > Level /\ \E l \in DOMAIN msgs : Rank(msgs[l]) = r)
  <2>1. r \in 1..10 /\ r <= 4 /\ (r \in {2, 3} => ran') /\ (r = 8 => 4 = 8)
    BY <1>1 DEF SentRanks
  <2>2. CASE r <= 1
    BY <1>1, <2>1, <2>2 DEF SentRanks
  <2>3. CASE r > 1
    <3>1. r = 2 \/ r = 3 \/ r = 4
      BY <2>1, <2>3
    <3> QED BY <1>1, <1>2, <2>3, <3>1
  <2> QED BY <2>1, <2>2, <2>3
<1>6. code' \in Codes /\ phase' \in Phases /\ reached' \in Phases /\ ran' \in BOOLEAN
  BY <1>1, CodesAssumption DEF Phases, IInv, TypeOK
<1>7. Sends(msgs)
  BY DEF msgs
<1> QED BY <1>1, <1>2, <1>3, <1>4, <1>5, <1>6, <1>7, MilestoneKeeps

(* A build that was given up before it ran: a verdict only. *)
LEMMA BuiltNotKeeps ==
  ASSUME IInv, Built, Sends(<<Own("build_complete", code'),
                             Own("post_processing", code')>>), ran' \in BOOLEAN, ~ran',
         reached' = IF phase' = "over" THEN phase ELSE phase', FailedTyped'
  PROVE  IInv'
<1> DEFINE msgs == <<Own("build_complete", code'),
                     Own("post_processing", code')>>
<1>1. /\ phase = "started" /\ phase' = "built" /\ reached' = "built" /\ code' \in Codes
      /\ reached = "started" /\ Level = 1 /\ Level' = 4
  BY Levels DEF Built, Announce, IInv, ReportInv, Level
<1>2. /\ DOMAIN msgs = 1..2 /\ msgs \in Seq(Events)
      /\ \A l \in DOMAIN msgs : msgs[l].node = Mine /\ msgs[l].status \in Reports
      /\ msgs[1].status = "build_complete" /\ msgs[2].status = "post_processing"
      /\ Rank(msgs[1]) = 4 /\ Rank(msgs[2]) = 0
  BY <1>1, OwnEvents, Ranks, CodesAssumption DEF Statuses, Reports
<1> HIDE DEF msgs
<1>3. Follows(msgs, Level)
  BY <1>1, <1>2 DEF Follows, Before, Mine, Other
<1>4. ReportInv' /\ Level <= Level' /\ \A l \in DOMAIN msgs : Rank(msgs[l]) <= Level'
  BY <1>1, <1>2 DEF ReportInv, IInv, TypeOK
<1>5. ASSUME NEW r \in SentRanks'
      PROVE  r \in SentRanks \/ (r > Level /\ \E l \in DOMAIN msgs : Rank(msgs[l]) = r)
  <2>1. r \in 1..10 /\ r <= 4 /\ (r \in {2, 3} => ran') /\ (r = 8 => 4 = 8)
    BY <1>1 DEF SentRanks
  <2>2. CASE r <= 1
    BY <1>1, <2>1, <2>2 DEF SentRanks
  <2>3. CASE r > 1
    <3>1. r = 4
      BY <2>1, <2>3
    <3> QED BY <1>1, <1>2, <2>3, <3>1
  <2> QED BY <2>1, <2>2, <2>3
<1>6. code' \in Codes /\ phase' \in Phases /\ reached' \in Phases /\ ran' \in BOOLEAN
  BY <1>1, CodesAssumption DEF Phases, IInv, TypeOK
<1>7. Sends(msgs)
  BY DEF msgs
<1> QED BY <1>1, <1>2, <1>3, <1>4, <1>5, <1>6, <1>7, MilestoneKeeps

(* The check begins with its command. *)
LEMMA CheckStartedKeeps ==
  ASSUME IInv, CheckStarted, Sends(<<Own("ignored", 0), Own("check_cmd", 0)>>), ran' = ran, ran,
         reached' = IF phase' = "over" THEN phase ELSE phase', FailedTyped'
  PROVE  IInv'
<1> DEFINE msgs == <<Own("ignored", 0), Own("check_cmd", 0)>>
<1>1. /\ phase = "built" /\ phase' = "checking" /\ reached' = "checking" /\ code' = 0
      /\ reached = "built" /\ Level = 4 /\ Level' = 5 /\ ran
  BY Levels DEF CheckStarted, Announce, IInv, ReportInv, Level
<1>2. /\ DOMAIN msgs = 1..2 /\ msgs \in Seq(Events)
      /\ \A l \in DOMAIN msgs : msgs[l].node = Mine /\ msgs[l].status \in Reports
      /\ msgs[1].status = "ignored" /\ msgs[2].status = "check_cmd"
      /\ Rank(msgs[1]) = 0 /\ Rank(msgs[2]) = 5
  BY <1>1, OwnEvents, Ranks, CodesAssumption DEF Statuses, Reports
<1> HIDE DEF msgs
<1>3. Follows(msgs, Level)
  BY <1>1, <1>2 DEF Follows, Before, Mine, Other
<1>4. ReportInv' /\ Level <= Level' /\ \A l \in DOMAIN msgs : Rank(msgs[l]) <= Level'
  BY <1>1, <1>2 DEF ReportInv, IInv, TypeOK
<1>5. ASSUME NEW r \in SentRanks'
      PROVE  r \in SentRanks \/ (r > Level /\ \E l \in DOMAIN msgs : Rank(msgs[l]) = r)
  <2>1. r \in 1..10 /\ r <= 5 /\ (r \in {2, 3} => ran') /\ (r = 8 => 5 = 8)
    BY <1>1 DEF SentRanks
  <2>2. CASE r <= 4
    BY <1>1, <2>1, <2>2 DEF SentRanks
  <2>3. CASE r > 4
    <3>1. r = 5
      BY <2>1, <2>3
    <3> QED BY <1>1, <1>2, <2>3, <3>1
  <2> QED BY <2>1, <2>2, <2>3
<1>6. code' \in Codes /\ phase' \in Phases /\ reached' \in Phases /\ ran' \in BOOLEAN
  BY <1>1, CodesAssumption DEF Phases, IInv, TypeOK
<1>7. Sends(msgs)
  BY DEF msgs
<1> QED BY <1>1, <1>2, <1>3, <1>4, <1>5, <1>6, <1>7, MilestoneKeeps

(* The check ends: its verdict, and then its output. *)
LEMMA CheckedKeeps ==
  ASSUME IInv, Checked, Sends(<<Own("check_complete", code'),
                               Own("checking", 0), Own("post_processing", code')>>), ran' = ran,
         reached' = IF phase' = "over" THEN phase ELSE phase', FailedTyped'
  PROVE  IInv'
<1> DEFINE msgs == <<Own("check_complete", code'),
                     Own("checking", 0), Own("post_processing", code')>>
<1>1. /\ phase = "checking" /\ phase' = "checked" /\ reached' = "checked" /\ code' \in Codes
      /\ reached = "checking" /\ Level = 5 /\ Level' = 7 /\ ran
  BY Levels DEF Checked, Announce, IInv, ReportInv, Level
<1>2. /\ DOMAIN msgs = 1..3 /\ msgs \in Seq(Events)
      /\ \A l \in DOMAIN msgs : msgs[l].node = Mine /\ msgs[l].status \in Reports
      /\ msgs[1].status = "check_complete" /\ msgs[2].status = "checking"
      /\ msgs[3].status = "post_processing"
      /\ Rank(msgs[1]) = 6 /\ Rank(msgs[2]) = 7 /\ Rank(msgs[3]) = 0
  BY <1>1, OwnEvents, Ranks, CodesAssumption DEF Statuses, Reports
<1> HIDE DEF msgs
<1>3. Follows(msgs, Level)
  BY <1>1, <1>2 DEF Follows, Before, Mine, Other
<1>4. ReportInv' /\ Level <= Level' /\ \A l \in DOMAIN msgs : Rank(msgs[l]) <= Level'
  BY <1>1, <1>2 DEF ReportInv, IInv, TypeOK
<1>5. ASSUME NEW r \in SentRanks'
      PROVE  r \in SentRanks \/ (r > Level /\ \E l \in DOMAIN msgs : Rank(msgs[l]) = r)
  <2>1. r \in 1..10 /\ r <= 7 /\ (r \in {2, 3} => ran') /\ (r = 8 => 7 = 8)
    BY <1>1 DEF SentRanks
  <2>2. CASE r <= 5
    BY <1>1, <2>1, <2>2 DEF SentRanks
  <2>3. CASE r > 5
    <3>1. r = 6 \/ r = 7
      BY <2>1, <2>3
    <3> QED BY <1>1, <1>2, <2>3, <3>1
  <2> QED BY <2>1, <2>2, <2>3
<1>6. code' \in Codes /\ phase' \in Phases /\ reached' \in Phases /\ ran' \in BOOLEAN
  BY <1>1, CodesAssumption DEF Phases, IInv, TypeOK
<1>7. Sends(msgs)
  BY DEF msgs
<1> QED BY <1>1, <1>2, <1>3, <1>4, <1>5, <1>6, <1>7, MilestoneKeeps

(* The build of the binary begins. *)
LEMMA BinaryStartedKeeps ==
  ASSUME IInv, BinaryStarted, Sends(<<Own("starting_buildbin", 0), Own("r_buildbin_cmd", 0)>>), ran' = ran,
         reached' = IF phase' = "over" THEN phase ELSE phase', FailedTyped'
  PROVE  IInv'
<1> DEFINE msgs == <<Own("starting_buildbin", 0), Own("r_buildbin_cmd", 0)>>
<1>1. /\ phase = "checked" /\ phase' = "packaging" /\ reached' = "packaging" /\ code' = 0
      /\ reached = "checked" /\ Level = 7 /\ Level' = 8 /\ ran
  BY Levels DEF BinaryStarted, Announce, IInv, ReportInv, Level
<1>2. /\ DOMAIN msgs = 1..2 /\ msgs \in Seq(Events)
      /\ \A l \in DOMAIN msgs : msgs[l].node = Mine /\ msgs[l].status \in Reports
      /\ msgs[1].status = "starting_buildbin" /\ msgs[2].status = "r_buildbin_cmd"
      /\ Rank(msgs[1]) = 8 /\ Rank(msgs[2]) = 0
  BY <1>1, OwnEvents, Ranks, CodesAssumption DEF Statuses, Reports
<1> HIDE DEF msgs
<1>3. Follows(msgs, Level)
  BY <1>1, <1>2 DEF Follows, Before, Mine, Other
<1>4. ReportInv' /\ Level <= Level' /\ \A l \in DOMAIN msgs : Rank(msgs[l]) <= Level'
  BY <1>1, <1>2 DEF ReportInv, IInv, TypeOK
<1>5. ASSUME NEW r \in SentRanks'
      PROVE  r \in SentRanks \/ (r > Level /\ \E l \in DOMAIN msgs : Rank(msgs[l]) = r)
  <2>1. r \in 1..10 /\ r <= 8 /\ (r \in {2, 3} => ran') /\ (r = 8 => 8 = 8)
    BY <1>1 DEF SentRanks
  <2>2. CASE r <= 7
    BY <1>1, <2>1, <2>2 DEF SentRanks
  <2>3. CASE r > 7
    <3>1. r = 8
      BY <2>1, <2>3
    <3> QED BY <1>1, <1>2, <2>3, <3>1
  <2> QED BY <2>1, <2>2, <2>3
<1>6. code' \in Codes /\ phase' \in Phases /\ reached' \in Phases /\ ran' \in BOOLEAN
  BY <1>1, CodesAssumption DEF Phases, IInv, TypeOK
<1>7. Sends(msgs)
  BY DEF msgs
<1> QED BY <1>1, <1>2, <1>3, <1>4, <1>5, <1>6, <1>7, MilestoneKeeps

(* The binary is not built. *)
LEMMA BinarySkippedKeeps ==
  ASSUME IInv, BinarySkipped, Sends(<<Own("skip_buildbin", 0)>>), ran' = ran,
         reached' = IF phase' = "over" THEN phase ELSE phase', FailedTyped'
  PROVE  IInv'
<1> DEFINE msgs == <<Own("skip_buildbin", 0)>>
<1>1. /\ phase = "checked" /\ phase' = "packaged" /\ reached' = "packaged" /\ code' = 0
      /\ reached = "checked" /\ Level = 7 /\ Level' = 9 /\ ran
  BY Levels DEF BinarySkipped, Announce, IInv, ReportInv, Level
<1>2. /\ DOMAIN msgs = 1..1 /\ msgs \in Seq(Events)
      /\ \A l \in DOMAIN msgs : msgs[l].node = Mine /\ msgs[l].status \in Reports
      /\ msgs[1].status = "skip_buildbin"
      /\ Rank(msgs[1]) = 9
  BY <1>1, OwnEvents, Ranks, CodesAssumption DEF Statuses, Reports
<1> HIDE DEF msgs
<1>3. Follows(msgs, Level)
  BY <1>1, <1>2 DEF Follows, Before, Mine, Other
<1>4. ReportInv' /\ Level <= Level' /\ \A l \in DOMAIN msgs : Rank(msgs[l]) <= Level'
  BY <1>1, <1>2 DEF ReportInv, IInv, TypeOK
<1>5. ASSUME NEW r \in SentRanks'
      PROVE  r \in SentRanks \/ (r > Level /\ \E l \in DOMAIN msgs : Rank(msgs[l]) = r)
  <2>1. r \in 1..10 /\ r <= 9 /\ (r \in {2, 3} => ran') /\ (r = 8 => 9 = 8)
    BY <1>1 DEF SentRanks
  <2>2. CASE r <= 7
    BY <1>1, <2>1, <2>2 DEF SentRanks
  <2>3. CASE r > 7
    <3>1. r = 9
      BY <2>1, <2>3
    <3> QED BY <1>1, <1>2, <2>3, <3>1
  <2> QED BY <2>1, <2>2, <2>3
<1>6. code' \in Codes /\ phase' \in Phases /\ reached' \in Phases /\ ran' \in BOOLEAN
  BY <1>1, CodesAssumption DEF Phases, IInv, TypeOK
<1>7. Sends(msgs)
  BY DEF msgs
<1> QED BY <1>1, <1>2, <1>3, <1>4, <1>5, <1>6, <1>7, MilestoneKeeps

(* The build of the binary ends with its verdict. *)
LEMMA BinaryBuiltKeeps ==
  ASSUME IInv, BinaryBuilt, Sends(<<Own("buildingbin", 0), Own("buildbin_complete", code')>>), ran' = ran,
         reached' = IF phase' = "over" THEN phase ELSE phase', FailedTyped'
  PROVE  IInv'
<1> DEFINE msgs == <<Own("buildingbin", 0), Own("buildbin_complete", code')>>
<1>1. /\ phase = "packaging" /\ phase' = "packaged" /\ reached' = "packaged" /\ code' \in Codes
      /\ reached = "packaging" /\ Level = 8 /\ Level' = 9 /\ ran
  BY Levels DEF BinaryBuilt, Announce, IInv, ReportInv, Level
<1>2. /\ DOMAIN msgs = 1..2 /\ msgs \in Seq(Events)
      /\ \A l \in DOMAIN msgs : msgs[l].node = Mine /\ msgs[l].status \in Reports
      /\ msgs[1].status = "buildingbin" /\ msgs[2].status = "buildbin_complete"
      /\ Rank(msgs[1]) = 0 /\ Rank(msgs[2]) = 9
  BY <1>1, OwnEvents, Ranks, CodesAssumption DEF Statuses, Reports
<1> HIDE DEF msgs
<1>3. Follows(msgs, Level)
  BY <1>1, <1>2 DEF Follows, Before, Mine, Other
<1>4. ReportInv' /\ Level <= Level' /\ \A l \in DOMAIN msgs : Rank(msgs[l]) <= Level'
  BY <1>1, <1>2 DEF ReportInv, IInv, TypeOK
<1>5. ASSUME NEW r \in SentRanks'
      PROVE  r \in SentRanks \/ (r > Level /\ \E l \in DOMAIN msgs : Rank(msgs[l]) = r)
  <2>1. r \in 1..10 /\ r <= 9 /\ (r \in {2, 3} => ran') /\ (r = 8 => 9 = 8)
    BY <1>1 DEF SentRanks
  <2>2. CASE r <= 8
    BY <1>1, <2>1, <2>2 DEF SentRanks
  <2>3. CASE r > 8
    <3>1. r = 9
      BY <2>1, <2>3
    <3> QED BY <1>1, <1>2, <2>3, <3>1
  <2> QED BY <2>1, <2>2, <2>3
<1>6. code' \in Codes /\ phase' \in Phases /\ reached' \in Phases /\ ran' \in BOOLEAN
  BY <1>1, CodesAssumption DEF Phases, IInv, TypeOK
<1>7. Sends(msgs)
  BY DEF msgs
<1> QED BY <1>1, <1>2, <1>3, <1>4, <1>5, <1>6, <1>7, MilestoneKeeps

(* The post-processing is complete. *)
LEMMA ProcessedKeeps ==
  ASSUME IInv, Processed, Sends(<<Own("post_processing_complete", 0)>>), ran' = ran,
         reached' = IF phase' = "over" THEN phase ELSE phase', FailedTyped'
  PROVE  IInv'
<1> DEFINE msgs == <<Own("post_processing_complete", 0)>>
<1>1. /\ phase = "packaged" /\ phase' = "processed" /\ reached' = "processed" /\ code' = 0
      /\ reached = "packaged" /\ Level = 9 /\ Level' = 10 /\ ran
  BY Levels DEF Processed, Announce, IInv, ReportInv, Level
<1>2. /\ DOMAIN msgs = 1..1 /\ msgs \in Seq(Events)
      /\ \A l \in DOMAIN msgs : msgs[l].node = Mine /\ msgs[l].status \in Reports
      /\ msgs[1].status = "post_processing_complete"
      /\ Rank(msgs[1]) = 10
      /\ msgs[1].retcode = 0
  BY <1>1, OwnEvents, Ranks, CodesAssumption DEF Statuses, Reports
<1> HIDE DEF msgs
<1>3. Follows(msgs, Level)
  BY <1>1, <1>2 DEF Follows, Before, Mine, Other
<1>4. ReportInv' /\ Level <= Level' /\ \A l \in DOMAIN msgs : Rank(msgs[l]) <= Level'
  BY <1>1, <1>2 DEF ReportInv, IInv, TypeOK
<1>5. ASSUME NEW r \in SentRanks'
      PROVE  r \in SentRanks \/ (r > Level /\ \E l \in DOMAIN msgs : Rank(msgs[l]) = r)
  <2>1. r \in 1..10 /\ r <= 10 /\ (r \in {2, 3} => ran') /\ (r = 8 => 10 = 8)
    BY <1>1 DEF SentRanks
  <2>2. CASE r <= 9
    BY <1>1, <2>1, <2>2 DEF SentRanks
  <2>3. CASE r > 9
    <3>1. r = 10
      BY <2>1, <2>3
    <3> QED BY <1>1, <1>2, <2>3, <3>1
  <2> QED BY <2>1, <2>2, <2>3
<1>6. code' \in Codes /\ phase' \in Phases /\ reached' \in Phases /\ ran' \in BOOLEAN
  BY <1>1, CodesAssumption DEF Phases, IInv, TypeOK
<1>7. Sends(msgs)
  BY DEF msgs
<1> QED BY <1>1, <1>2, <1>3, <1>4, <1>5, <1>6, <1>7, MilestoneKeeps

(* The builder says that it is done. *)
LEMMA FinishedKeeps ==
  ASSUME IInv, Finished, Sends(<<Own("ignored", 0)>>), ran' = ran,
         reached' = IF phase' = "over" THEN phase ELSE phase', FailedTyped'
  PROVE  IInv'
<1> DEFINE msgs == <<Own("ignored", 0)>>
<1>1. /\ phase = "processed" /\ phase' = "finished" /\ reached' = "finished" /\ code' = 0
      /\ reached = "processed" /\ Level = 10 /\ Level' = 10 /\ ran
  BY Levels DEF Finished, Announce, IInv, ReportInv, Level
<1>2. /\ DOMAIN msgs = 1..1 /\ msgs \in Seq(Events)
      /\ \A l \in DOMAIN msgs : msgs[l].node = Mine /\ msgs[l].status \in Reports
      /\ msgs[1].status = "ignored"
      /\ Rank(msgs[1]) = 0
  BY <1>1, OwnEvents, Ranks, CodesAssumption DEF Statuses, Reports
<1> HIDE DEF msgs
<1>3. Follows(msgs, Level)
  BY <1>1, <1>2 DEF Follows, Before, Mine, Other
<1>4. ReportInv' /\ Level <= Level' /\ \A l \in DOMAIN msgs : Rank(msgs[l]) <= Level'
  BY <1>1, <1>2 DEF ReportInv, IInv, TypeOK
<1>5. ASSUME NEW r \in SentRanks'
      PROVE  r \in SentRanks \/ (r > Level /\ \E l \in DOMAIN msgs : Rank(msgs[l]) = r)
  <2>1. r \in 1..10 /\ r <= 10 /\ (r \in {2, 3} => ran') /\ (r = 8 => 10 = 8)
    BY <1>1 DEF SentRanks
  <2>2. CASE r <= 10
    BY <1>1, <2>1, <2>2 DEF SentRanks
  <2> QED BY <2>1, <2>2
<1>6. code' \in Codes /\ phase' \in Phases /\ reached' \in Phases /\ ran' \in BOOLEAN
  BY <1>1, CodesAssumption DEF Phases, IInv, TypeOK
<1>7. Sends(msgs)
  BY DEF msgs
<1> QED BY <1>1, <1>2, <1>3, <1>4, <1>5, <1>6, <1>7, MilestoneKeeps

(* The builder is over, wherever it was. *)
LEMMA OverKeeps ==
  ASSUME IInv, Over, Sends(<<Own("ignored", 0)>>), ran' \in IF phase = "started" THEN BOOLEAN ELSE {ran},
         reached' = IF phase' = "over" THEN phase ELSE phase', FailedTyped'
  PROVE  IInv'
<1> DEFINE msgs == <<Own("ignored", 0)>>
<1>1. /\ phase # "over" /\ phase' = "over" /\ code' = 0 /\ reached = phase /\ reached' = reached
      /\ Level' = Level /\ Level \in 0..10 /\ (Level > 1 => ran' = ran) /\ ran' \in BOOLEAN
  <2>1. phase # "over" /\ phase' = "over" /\ code' = 0 /\ reached = phase /\ reached' = reached
    BY DEF Over, IInv, ReportInv
  <2>2. Level' = Level /\ Level \in 0..10 /\ (phase = "started" => Level = 1)
    BY <2>1, Levels, LevelIsANumber DEF IInv, Level
  <2> QED BY <2>1, <2>2 DEF IInv, TypeOK
<1>2. /\ DOMAIN msgs = 1..1 /\ msgs \in Seq(Events)
      /\ \A l \in DOMAIN msgs : msgs[l].node = Mine /\ msgs[l].status = "ignored"
      /\ \A l \in DOMAIN msgs : msgs[l].status \in Reports /\ Rank(msgs[l]) = 0
  BY OwnEvents, Ranks, CodesAssumption DEF Statuses, Reports
<1> HIDE DEF msgs
<1>3. Follows(msgs, Level)
  BY <1>1, <1>2 DEF Follows, Before, Mine, Other
<1>4. ReportInv' /\ Level <= Level' /\ \A l \in DOMAIN msgs : Rank(msgs[l]) <= Level'
  BY <1>1, <1>2 DEF ReportInv, IInv
<1>5. ASSUME NEW r \in SentRanks' PROVE r \in SentRanks
  <2>1. r \in 1..10 /\ r <= Level /\ (r \in {2, 3} => ran') /\ (r = 8 => Level = 8)
    BY <1>1 DEF SentRanks
  <2> QED BY <1>1, <2>1 DEF SentRanks
<1>6. code' \in Codes /\ phase' \in Phases /\ reached' \in Phases
  BY <1>1, CodesAssumption DEF Phases, IInv, TypeOK
<1>7. Sends(msgs)
  BY DEF msgs
<1> QED BY <1>1, <1>2, <1>3, <1>4, <1>5, <1>6, <1>7, MilestoneKeeps

(* The other steps of the followed builder. *)
LEMMA PostProcessesKeeps == ASSUME IInv, PostProcesses PROVE IInv'
<1>1. PICK rc \in Codes : Sends(<<Own("post_processing", rc)>>)
  BY DEF PostProcesses
<1> DEFINE msgs == <<Own("post_processing", rc)>>
<1>2. /\ UNCHANGED <<phase, code, reached, ran, failed>> /\ Level' = Level /\ Level \in {1, 8}
  BY Levels DEF PostProcesses, report, IInv, ReportInv, Level
<1>3. /\ DOMAIN msgs = 1..1 /\ msgs \in Seq(Events)
      /\ \A l \in DOMAIN msgs : msgs[l].node = Mine /\ msgs[l].status = "post_processing"
      /\ \A l \in DOMAIN msgs : msgs[l].status \in Reports /\ Rank(msgs[l]) = 0
  BY OwnEvents, Ranks DEF Statuses, Reports
<1>4. Sends(msgs)
  BY <1>1
<1> HIDE DEF msgs
<1>5. Follows(msgs, Level)
  BY <1>2, <1>3 DEF Follows, Before, Mine, Other
<1>6. ReportInv' /\ Level <= Level' /\ \A l \in DOMAIN msgs : Rank(msgs[l]) <= Level'
  BY <1>2, <1>3 DEF ReportInv, IInv
<1>7. SentRanks' = SentRanks
  BY <1>2 DEF SentRanks
<1>8. /\ code' \in Codes /\ phase' \in Phases /\ reached' \in Phases /\ ran' \in BOOLEAN
      /\ FailedTyped'
  BY <1>2 DEF IInv, TypeOK, FailedTyped, Verified
<1> QED BY <1>3, <1>4, <1>5, <1>6, <1>7, <1>8, MilestoneKeeps

(* The other node's builder. *)
LEMMA OtherSendsKeeps == ASSUME IInv, OtherSends PROVE IInv'
<1>1. PICK status \in Statuses, rc \in Codes :
        /\ Sends(<<Message(status, Other, rc)>>)
        /\ status = "node_info" => ~HasRow(Other)
  <2>1. CASE \E status \in OtherStatuses, rc \in {0, 1} : Sends(<<Message(status, Other, rc)>>)
    BY <2>1, CodesAssumption, OtherAssumption
  <2>2. CASE ~Contains(nodes, Other) /\ Sends(<<Message("node_info", Other, 0)>>)
    <3>1. "node_info" \in Statuses /\ 0 \in Codes
      BY CodesAssumption DEF Statuses
    <3> QED BY <2>2, <3>1 DEF HasRow
  <2> QED BY <2>1, <2>2 DEF OtherSends
<1> DEFINE msgs == <<Message(status, Other, rc)>>
<1>2. /\ UNCHANGED <<phase, code, reached, ran, failed>> /\ Level' = Level /\ Level \in 0..10
      /\ \A k \in DOMAIN wire : wire[k].node = Mine
  BY LevelIsANumber DEF OtherSends, report, Level, IInv
<1>3. /\ DOMAIN msgs = 1..1 /\ msgs \in Seq(Events)
      /\ \A l \in DOMAIN msgs : msgs[l].node = Other /\ msgs[l].status = status /\ Rank(msgs[l]) = 0
  BY DEF Message, Events, Nodes, Rank, Mine, Other
<1>4. Sends(msgs)
  BY <1>1
<1> HIDE DEF msgs
<1>5. Follows(msgs, Level)
  BY <1>1, <1>2, <1>3 DEF Follows, Before, Mine, Other
<1>6. ReportInv' /\ Level <= Level' /\ \A l \in DOMAIN msgs : Rank(msgs[l]) <= Level'
  BY <1>2, <1>3 DEF ReportInv, IInv
<1>7. SentRanks' = SentRanks
  BY <1>2 DEF SentRanks
<1>8. /\ code' \in Codes /\ phase' \in Phases /\ reached' \in Phases /\ ran' \in BOOLEAN
      /\ FailedTyped'
  BY <1>2 DEF IInv, TypeOK, FailedTyped, Verified
<1> QED BY <1>3, <1>4, <1>5, <1>6, <1>7, <1>8, MilestoneKeeps

(* The button. *)
LEMMA StartBuildKeeps == ASSUME IInv, StartBuild PROVE IInv'
<1>1. /\ clicked' = TRUE /\ visible' = TRUE
      /\ UNCHANGED <<phase, code, reached, ran, failed, wire, lost, nodes, headers, shown, cells, retcell, package>>
  BY DEF StartBuild, report
<1>2. TypeOK'
  BY <1>1 DEF IInv, TypeOK
<1>3. ReportInv' /\ WireInv' /\ RowInv'
  BY <1>1 DEF IInv, ReportInv, WireInv, RowInv, Level, Sound, HasRow, Final, Beyond
<1>4. NoneMissing' = NoneMissing /\ Effects' = Effects
  BY <1>1 DEF NoneMissing, Effects, Level, SentRanks, Beyond, Pending, Handled, HasRow
<1> QED BY <1>1, <1>2, <1>3, <1>4 DEF IInv

-----------------------------------------------------------------------------
(* The oldest event goes. *)
LEMMA TakingKeepsTheWire ==
  ASSUME IInv, wire # <<>>, wire' = Tail(wire), reached' = reached,
         nodes' = nodes \/ (wire[1].status = "node_info" /\ nodes' = Append(nodes, wire[1].node))
  PROVE  /\ wire' \in Seq(Events) /\ Len(wire') <= MaxWire /\ WireInv'
         /\ \A k \in DOMAIN wire' : Before(wire[1], wire'[k])
         /\ \A r \in Nat : Beyond(r) => Beyond(r)'
         /\ \A r \in 1..10 : Rank(wire[1]) = r => r <= Level /\ Beyond(r)'
         /\ Sound(wire[1]) /\ wire[1] \in Events
<1>0. wire \in Seq(Events) /\ Len(wire) <= MaxWire /\ Level' = Level
  BY DEF IInv, TypeOK, Events, Level
<1>1. /\ wire' \in Seq(Events) /\ Len(wire') = Len(wire) - 1 /\ 1 \in DOMAIN wire
      /\ \A k \in DOMAIN wire' : k + 1 \in DOMAIN wire /\ wire'[k] = wire[k + 1]
  BY <1>0, WireShrinks
<1>2. ASSUME NEW k \in DOMAIN wire' PROVE (Sound(wire[k]))'
  <2>1. /\ wire'[k] = wire[k + 1] /\ k + 1 \in DOMAIN wire /\ Sound(wire[k + 1])
        /\ Before(wire[1], wire[k + 1]) /\ wire[1] \in Events /\ wire[k + 1] \in Events
    <3>1. 1 < k + 1
      BY <1>1
    <3> QED BY <1>0, <1>1, <3>1 DEF IInv, WireInv
  <2>2. CASE nodes' = nodes
    BY <1>0, <2>1, <2>2 DEF Sound, HasRow
  <2>3. CASE wire[1].status = "node_info" /\ nodes' = Append(nodes, wire[1].node)
    <3>1. wire[k + 1].status = "node_info" => wire[k + 1].node # wire[1].node
      <4>1. CASE wire[1].node = Mine
        <5>1. Rank(wire[1]) = 1
          BY <2>3, <4>1, Ranks DEF Rank
        <5>2. wire[k + 1].node = Mine /\ wire[k + 1].status = "node_info" => Rank(wire[k + 1]) = 1
          BY Ranks DEF Rank
        <5> QED BY <2>1, <4>1, <5>1, <5>2 DEF Before
      <4>2. CASE wire[1].node = Other
        BY <2>1, <4>2 DEF Before
      <4> QED BY <2>1, <4>1, <4>2 DEF Events, Nodes
    <3>2. ASSUME NEW n \in Nodes, n # wire[1].node, HasRow(n)' PROVE HasRow(n)
      BY <2>3, <3>2 DEF HasRow, Contains, IInv, TypeOK
    <3>3. wire[k + 1].node \in Nodes
      BY <2>1 DEF Events
    <3> QED BY <1>0, <2>1, <3>1, <3>2, <3>3 DEF Sound
  <2> QED BY <2>2, <2>3
<1>3. ASSUME NEW j \in DOMAIN wire', NEW k \in DOMAIN wire', j < k PROVE Before(wire'[j], wire'[k])
  <2>1. j + 1 < k + 1
    BY <1>1, <1>3
  <2> QED BY <1>1, <2>1 DEF IInv, WireInv
<1>4. \A k \in DOMAIN wire' : Before(wire[1], wire'[k])
  <2> SUFFICES ASSUME NEW k \in DOMAIN wire' PROVE Before(wire[1], wire[k + 1])
    BY <1>1
  <2>1. 1 < k + 1 /\ k + 1 \in DOMAIN wire
    BY <1>1
  <2> QED BY <1>1, <2>1 DEF IInv, WireInv
<1>5. WireInv'
  BY <1>2, <1>3 DEF WireInv
<1>6. \A r \in Nat : Beyond(r) => Beyond(r)'
  BY <1>1 DEF Beyond
<1>7. Sound(wire[1]) /\ wire[1] \in Events
  BY <1>0, <1>1 DEF IInv, WireInv
<1>8. ASSUME NEW r \in 1..10, Rank(wire[1]) = r PROVE r <= Level /\ Beyond(r)'
  <2>1. \A k \in DOMAIN wire' : Rank(wire'[k]) > 0 => Rank(wire'[k]) > r
    BY <1>4, <1>8 DEF Before
  <2> QED BY <1>7, <1>8, <2>1 DEF Beyond, Sound
<1>9. Len(wire') <= MaxWire
  BY <1>0, <1>1, PageAssumption
<1> QED BY <1>1, <1>4, <1>5, <1>6, <1>7, <1>8, <1>9

(* An event is lost. *)
LEMMA LoseKeeps == ASSUME IInv, Lose PROVE IInv'
<1>1. /\ wire # <<>> /\ wire' = Tail(wire) /\ lost' = TRUE
      /\ UNCHANGED <<phase, code, reached, ran, failed, clicked, visible, nodes, headers, shown, cells,
                     retcell, package>>
  BY DEF Lose, report, page
<1>2. /\ wire' \in Seq(Events) /\ Len(wire') <= MaxWire /\ WireInv'
      /\ \A r \in Nat : Beyond(r) => Beyond(r)'
  BY <1>1, TakingKeepsTheWire DEF HasRow
<1>3. TypeOK'
  BY <1>1, <1>2 DEF IInv, TypeOK, Events
<1>4. ReportInv' /\ RowInv'
  BY <1>1, <1>2 DEF IInv, ReportInv, RowInv, Level, HasRow, Final
<1> QED BY <1>1, <1>2, <1>3, <1>4 DEF IInv

-----------------------------------------------------------------------------
(* What an event says. *)
LEMMA Verdicts ==
  ASSUME NEW m \in Events
  PROVE  /\ Verdict(m) = "ERROR" /\ Result(m, "result") = "ERROR"
         /\ Result(m, "retcode") = IF m.retcode = 0 THEN "OK" ELSE "ERROR"
         /\ Field(m, "result_code") = Undefined
<1>1. DOMAIN m = {"status", "node", "retcode"}
  BY DEF Events
<1>2. Field(m, "result_code") = Undefined /\ Field(m, "result") = Undefined
  BY <1>1 DEF Field
<1>3. Field(m, "retcode") = m.retcode
  BY <1>1 DEF Field, Events
<1>4. Undefined # 0
  BY DEF Undefined
<1> QED BY <1>2, <1>3, <1>4 DEF Verdict, Result

(* The texts of a row. *)
LEMMA Texts ==
  /\ DOMAIN TextOf = {"building", "checking", "buildingbin", "r_cmd", "r_buildbin_cmd"}
  /\ TextOf["building"] = "console" /\ TextOf["checking"] = "check_console"
  /\ TextOf["buildingbin"] = "buildbin_console" /\ TextOf["r_cmd"] = "command"
  /\ TextOf["r_buildbin_cmd"] = "buildbin_command"
BY DEF TextOf

(* handleEvent and the rows. *)
LEMMA HandleEventIs ==
  ASSUME NEW class \in Classes, NEW stage \in Stages, NEW row \in [Stages -> Classes]
  PROVE  /\ HandleEvent(class, stage, row) \in [Stages -> Classes]
         /\ HandleEvent(class, stage, row)[stage] = class
         /\ class # "ERROR" => \A s \in Stages \ {stage} : HandleEvent(class, stage, row)[s] = row[s]
         /\ class = "ERROR" /\ stage = "build"
              => \A s \in Stages \ {"build"} : HandleEvent(class, stage, row)[s] = "skipped"
         /\ class = "ERROR" /\ stage # "build"
              => \A s \in Stages \ {stage, "postprocessing"} : HandleEvent(class, stage, row)[s] = row[s]
         /\ class = "ERROR" /\ stage # "postprocessing"
              => HandleEvent(class, stage, row)["postprocessing"] = "skipped"
<1> DEFINE after == CASE class = "ERROR" /\ stage = "build" -> Stages \ {"build"}
                      [] class = "ERROR" /\ stage \in {"check", "buildbin"} -> {"postprocessing"}
                      [] OTHER -> {}
<1>1. HandleEvent(class, stage, row)
        = [s \in Stages |-> IF s = stage THEN class ELSE IF s \in after THEN "skipped" ELSE row[s]]
  BY DEF HandleEvent
<1>2. /\ class = "ERROR" /\ stage = "build" => after = Stages \ {"build"}
      /\ class = "ERROR" /\ stage \in {"check", "buildbin"} => after = {"postprocessing"}
      /\ class = "ERROR" /\ stage = "postprocessing" => after = {}
      /\ class # "ERROR" => after = {}
  OBVIOUS
<1>3. "skipped" \in Classes /\ Stages = {"build", "check", "buildbin", "postprocessing"}
  BY DEF Classes, Stages
<1> HIDE DEF after
<1>4. HandleEvent(class, stage, row) \in [Stages -> Classes]
  BY <1>1, <1>3
<1> QED BY <1>1, <1>2, <1>3, <1>4

(* A class for a stage goes into the row of the node and into no other. *)
LEMMA ShowIs ==
  ASSUME TypeOK, NEW n \in Nodes, NEW class \in Classes, NEW stage \in Stages, Show(n, class, stage)
  PROVE  /\ shown' \in [Nodes -> [Stages -> Classes]]
         /\ \A o \in Nodes : o # n \/ ~HasRow(n) => shown'[o] = shown[o]
         /\ HasRow(n) => shown'[n] = HandleEvent(class, stage, shown[n])
<1>1. shown \in [Nodes -> [Stages -> Classes]]
  BY DEF TypeOK
<1>2. HandleEvent(class, stage, shown[n]) \in [Stages -> Classes]
  BY <1>1, HandleEventIs
<1> QED BY <1>1, <1>2 DEF Show

(* A text goes into the row of the node; none is taken out. *)
LEMMA FillIs ==
  ASSUME TypeOK, NEW n \in Nodes, NEW text \in TextCells, Fill(n, text)
  PROVE  /\ cells' \in [Nodes -> SUBSET TextCells]
         /\ \A o \in Nodes : cells[o] \subseteq cells'[o]
         /\ HasRow(n) => text \in cells'[n]
<1>1. cells \in [Nodes -> SUBSET TextCells]
  BY DEF TypeOK
<1> QED BY <1>1 DEF Fill

(* The events that change a stage. *)
LEMMA StageEventIs ==
  ASSUME TypeOK, NEW m \in Events, StageEvent(m)
  PROVE  /\ m.status \in {"build_complete", "buildbin_complete", "check_complete", "check_cmd",
                          "starting_buildbin", "skip_buildbin", "complete",
                          "post_processing_complete", "build_failed", "build_not_required"}
         /\ \E class \in Classes, stage \in Stages :
              /\ Show(m.node, class, stage)
              /\ m.status = "build_complete" => stage = "build" /\ class = "ERROR"
              /\ m.status = "check_cmd" => stage = "check" /\ class = "IN_PROGRESS"
              /\ m.status = "check_complete" => stage = "check" /\ class = "ERROR"
              /\ m.status = "starting_buildbin" => stage = "buildbin" /\ class = "IN_PROGRESS"
              /\ m.status = "skip_buildbin" => stage = "buildbin" /\ class = "skipped"
              /\ m.status = "buildbin_complete" => stage = "buildbin" /\ class = "ERROR"
              /\ m.status = "post_processing_complete"
                   => stage = "postprocessing" /\ class = IF m.retcode = 0 THEN "OK" ELSE "ERROR"
         /\ cells' \in [Nodes -> SUBSET TextCells] /\ \A o \in Nodes : cells[o] \subseteq cells'[o]
         /\ m.status = "check_cmd" /\ HasRow(m.node) => "check_command" \in cells'[m.node]
         /\ retcell' \in [Nodes -> Codes \cup {Undefined}]
         /\ UNCHANGED <<visible, nodes, headers, package>>
<1>0. /\ cells \in [Nodes -> SUBSET TextCells] /\ retcell \in [Nodes -> Codes \cup {Undefined}]
      /\ m.node \in Nodes
  BY DEF TypeOK, Events
<1>1. /\ {"IN_PROGRESS", "OK", "ERROR", "skipped"} \subseteq Classes
      /\ Stages = {"build", "check", "buildbin", "postprocessing"}
      /\ {"check_command", "console", "install_command"} \subseteq TextCells
  BY DEF Classes, Stages, TextCells
<1>2. RetCode(m) => retcell' \in [Nodes -> Codes \cup {Undefined}]
  BY <1>0, Verdicts DEF RetCode
<1>3. NoCode => retcell' \in [Nodes -> Codes \cup {Undefined}]
  BY <1>0 DEF NoCode
<1>4. NoText => cells' \in [Nodes -> SUBSET TextCells] /\ \A o \in Nodes : cells[o] \subseteq cells'[o]
  BY <1>0 DEF NoText
<1>5. UNCHANGED <<visible, nodes, headers, package>>
  BY DEF StageEvent
<1>6. CASE m.status = "build_complete" /\ BuildComplete(m)
  <2>1. Show(m.node, "ERROR", "build") /\ RetCode(m) /\ NoText
    BY <1>6, Verdicts DEF BuildComplete
  <2> QED BY <1>1, <1>2, <1>4, <1>5, <1>6, <2>1
<1>7. CASE m.status = "buildbin_complete" /\ BuildBinComplete(m)
  <2>1. Show(m.node, "ERROR", "buildbin") /\ RetCode(m) /\ NoText
    BY <1>7, Verdicts DEF BuildBinComplete
  <2> QED BY <1>1, <1>2, <1>4, <1>5, <1>7, <2>1
<1>8. CASE m.status = "check_complete" /\ CheckComplete(m)
  <2>1. Show(m.node, "ERROR", "check") /\ NoCode /\ NoText
    BY <1>8, Verdicts DEF CheckComplete
  <2> QED BY <1>1, <1>3, <1>4, <1>5, <1>8, <2>1
<1>9. CASE m.status = "check_cmd" /\ CheckCmd(m)
  <2>1. Show(m.node, "IN_PROGRESS", "check") /\ NoCode /\ Fill(m.node, "check_command")
    BY <1>9 DEF CheckCmd
  <2>2. /\ cells' \in [Nodes -> SUBSET TextCells] /\ \A o \in Nodes : cells[o] \subseteq cells'[o]
        /\ HasRow(m.node) => "check_command" \in cells'[m.node]
    BY <1>0, <1>1, <2>1, FillIs
  <2> QED BY <1>1, <1>3, <1>5, <1>9, <2>1, <2>2
<1>10. CASE m.status = "starting_buildbin" /\ StartingBuildBin(m)
  <2>1. Show(m.node, "IN_PROGRESS", "buildbin") /\ NoCode /\ NoText
    BY <1>10 DEF StartingBuildBin
  <2> QED BY <1>1, <1>3, <1>4, <1>5, <1>10, <2>1
<1>11. CASE m.status = "skip_buildbin" /\ SkipBuildBin(m)
  <2>1. Show(m.node, "skipped", "buildbin") /\ NoCode /\ NoText
    BY <1>11 DEF SkipBuildBin
  <2> QED BY <1>1, <1>3, <1>4, <1>5, <1>11, <2>1
<1>12. CASE m.status = "complete" /\ Complete(m)
  <2>1. Show(m.node, "ERROR", "postprocessing") /\ NoCode /\ NoText
    BY <1>12, Verdicts DEF Complete
  <2> QED BY <1>1, <1>3, <1>4, <1>5, <1>12, <2>1
<1>13. CASE m.status = "post_processing_complete" /\ PostProcessingComplete(m)
  <2>1. /\ Show(m.node, IF m.retcode = 0 THEN "OK" ELSE "ERROR", "postprocessing")
        /\ NoCode /\ NoText
    BY <1>13, Verdicts DEF PostProcessingComplete
  <2> QED BY <1>1, <1>3, <1>4, <1>5, <1>13, <2>1
<1>14. CASE m.status = "build_failed" /\ BuildFailed(m)
  <2>1. Show(m.node, "ERROR", "build") /\ NoCode /\ NoText
    BY <1>14 DEF BuildFailed
  <2> QED BY <1>1, <1>3, <1>4, <1>5, <1>14, <2>1
<1>15. CASE m.status = "build_not_required" /\ BuildNotRequired(m)
  <2>1. Show(m.node, "skipped", "build") /\ NoCode
    BY <1>15 DEF BuildNotRequired
  <2>2. cells' \in [Nodes -> SUBSET TextCells] /\ \A o \in Nodes : cells[o] \subseteq cells'[o]
    BY <1>0, <1>1, <1>15 DEF BuildNotRequired
  <2> QED BY <1>1, <1>3, <1>5, <1>15, <2>1, <2>2
<1> QED BY <1>6, <1>7, <1>8, <1>9, <1>10, <1>11, <1>12, <1>13, <1>14, <1>15 DEF StageEvent

(* What the followed builder's own events do to its row. *)
OwnEffect(m) ==
  LET row == shown[Mine] IN
  /\ cells[Mine] \subseteq cells'[Mine]
  /\ HasRow(Mine)' <=> HasRow(Mine) \/ Rank(m) = 1
  /\ Rank(m) # 4 => shown'[Mine]["build"] = row["build"]
  /\ Rank(m) \notin {4, 5, 6} => shown'[Mine]["check"] = row["check"]
  /\ Rank(m) \notin {4, 8, 9} => shown'[Mine]["buildbin"] = row["buildbin"]
  /\ Rank(m) # 10 => shown'[Mine]["postprocessing"] \in {row["postprocessing"], "skipped", "ERROR"}
  /\ m.status = "ignored" \/ ~HasRow(Mine) => shown'[Mine] = row
  /\ HasRow(Mine) =>
       /\ Rank(m) = 2 => "command" \in cells'[Mine]
       /\ Rank(m) = 3 => "console" \in cells'[Mine]
       /\ Rank(m) = 4 => /\ shown'[Mine]["build"] = "ERROR"
                         /\ shown'[Mine]["check"] = "skipped" /\ shown'[Mine]["buildbin"] = "skipped"
       /\ Rank(m) = 5 => shown'[Mine]["check"] = "IN_PROGRESS" /\ "check_command" \in cells'[Mine]
       /\ Rank(m) = 6 => shown'[Mine]["check"] = "ERROR"
       /\ Rank(m) = 7 => "check_console" \in cells'[Mine]
       /\ Rank(m) = 8 => shown'[Mine]["buildbin"] = "IN_PROGRESS"
       /\ Rank(m) = 9 => shown'[Mine]["buildbin"]
                           = IF m.status = "buildbin_complete" THEN "ERROR" ELSE "skipped"
       /\ Rank(m) = 10 => shown'[Mine]["postprocessing"] = "OK"

(* Each event of the followed builder has its effect: handler by handler. *)
LEMMA OwnEventsShow ==
  ASSUME TypeOK, NEW m \in Events, m.node = Mine, m.status \in Reports,
         Rank(m) = 10 => m.retcode = 0, Handle(m)
  PROVE  OwnEffect(m)
<1>0. /\ shown \in [Nodes -> [Stages -> Classes]] /\ cells \in [Nodes -> SUBSET TextCells]
      /\ Mine \in Nodes /\ nodes \in Seq(Nodes)
  BY DEF TypeOK, Nodes
<1>1. Rank(m) = IF m.status \in DOMAIN RankOf THEN RankOf[m.status] ELSE 0
  BY DEF Rank
<1>2. CASE m.status \in {"ignored", "dcf_info"}
  <2>1. UNCHANGED <<shown, cells, nodes>>
    BY <1>2, StageEventIs, Texts DEF Handle, DcfInfo, NothingOfANode, NoStage, NoText, TextEvent
  <2>2. Rank(m) = 0
    BY <1>1, <1>2, Ranks
  <2> QED BY <2>1, <2>2 DEF OwnEffect, HasRow
<1>3. CASE m.status = "node_info"
  <2>1. UNCHANGED <<shown, cells>> /\ nodes' = Append(nodes, Mine)
    BY <1>3, StageEventIs, Texts DEF Handle, GotNewNode, NoStage, NoText, TextEvent
  <2>2. Rank(m) = 1
    BY <1>1, <1>3, Ranks
  <2>3. HasRow(Mine)'
    BY <1>0, <2>1 DEF HasRow, Contains
  <2> QED BY <2>1, <2>2, <2>3 DEF OwnEffect
<1>4. CASE m.status \in DOMAIN TextOf
  <2>1. UNCHANGED <<shown, nodes>> /\ Fill(Mine, TextOf[m.status])
    BY <1>4, StageEventIs, Texts DEF Handle, NoStage, TextEvent
  <2>2. TextOf[m.status] \in TextCells
    BY <1>4, Texts DEF TextCells
  <2>3. cells[Mine] \subseteq cells'[Mine] /\ (HasRow(Mine) => TextOf[m.status] \in cells'[Mine])
    BY <1>0, <2>1, <2>2, FillIs
  <2>4. /\ Rank(m) \in {0, 2, 3, 7}
        /\ Rank(m) = 2 => TextOf[m.status] = "command"
        /\ Rank(m) = 3 => TextOf[m.status] = "console"
        /\ Rank(m) = 7 => TextOf[m.status] = "check_console"
    BY <1>1, <1>4, Texts, Ranks
  <2>5. m.status # "ignored"
    BY <1>4, Texts
  <2> QED BY <2>1, <2>3, <2>4, <2>5 DEF OwnEffect, HasRow
<1>5. CASE m.status = "post_processing"
  <2>1. PostProcessing(m) /\ Rank(m) = 0
    BY <1>1, <1>5, StageEventIs, Texts, Ranks DEF Handle, TextEvent
  <2>2. cells[Mine] \subseteq cells'[Mine] /\ UNCHANGED nodes
    <3>1. "post_processing" \in TextCells
      BY DEF TextCells
    <3> QED BY <1>0, <2>1, <3>1, FillIs DEF PostProcessing
  <2>3. CASE m.retcode = 0
    BY <1>5, <2>1, <2>2, <2>3 DEF PostProcessing, NoStage, OwnEffect, HasRow
  <2>4. CASE m.retcode # 0
    <3>1. Show(Mine, "ERROR", "postprocessing")
      BY <2>1, <2>4 DEF PostProcessing
    <3>2. "ERROR" \in Classes /\ {"build", "check", "buildbin", "postprocessing"} = Stages
      BY DEF Classes, Stages
    <3>3. /\ ~HasRow(Mine) => shown'[Mine] = shown[Mine]
          /\ HasRow(Mine) => shown'[Mine] = HandleEvent("ERROR", "postprocessing", shown[Mine])
      BY <1>0, <3>1, <3>2, ShowIs
    <3>4. /\ shown'[Mine]["build"] = shown[Mine]["build"]
          /\ shown'[Mine]["check"] = shown[Mine]["check"]
          /\ shown'[Mine]["buildbin"] = shown[Mine]["buildbin"]
          /\ shown'[Mine]["postprocessing"] \in {shown[Mine]["postprocessing"], "ERROR"}
      <4> DEFINE new == HandleEvent("ERROR", "postprocessing", shown[Mine])
      <4>1. /\ new["postprocessing"] = "ERROR"
            /\ \A s \in Stages \ {"postprocessing"} : new[s] = shown[Mine][s]
        <5>1. shown[Mine] \in [Stages -> Classes] /\ "postprocessing" \in Stages /\ "ERROR" \in Classes
          BY <1>0, <3>2
        <5>2. /\ new["postprocessing"] = "ERROR"
              /\ \A s \in Stages \ {"postprocessing", "postprocessing"} : new[s] = shown[Mine][s]
          BY <5>1, HandleEventIs
        <5> QED BY <5>2
      <4> HIDE DEF new
      <4>2. shown'[Mine] = shown[Mine] \/ shown'[Mine] = new
        BY <3>3 DEF new
      <4> QED BY <3>2, <4>1, <4>2
    <3> QED BY <1>5, <2>1, <2>2, <3>3, <3>4 DEF OwnEffect, HasRow
  <2> QED BY <2>3, <2>4
<1>6. CASE m.status \in {"build_complete", "buildbin_complete", "check_complete", "check_cmd",
                         "starting_buildbin", "skip_buildbin", "post_processing_complete"}
  <2>1. StageEvent(m)
    BY <1>6, Texts DEF Handle, TextEvent
  <2>2. PICK class \in Classes, stage \in Stages :
          /\ Show(Mine, class, stage)
          /\ m.status = "build_complete" => stage = "build" /\ class = "ERROR"
          /\ m.status = "check_cmd" => stage = "check" /\ class = "IN_PROGRESS"
          /\ m.status = "check_complete" => stage = "check" /\ class = "ERROR"
          /\ m.status = "starting_buildbin" => stage = "buildbin" /\ class = "IN_PROGRESS"
          /\ m.status = "skip_buildbin" => stage = "buildbin" /\ class = "skipped"
          /\ m.status = "buildbin_complete" => stage = "buildbin" /\ class = "ERROR"
          /\ m.status = "post_processing_complete"
               => stage = "postprocessing" /\ class = IF m.retcode = 0 THEN "OK" ELSE "ERROR"
    BY <2>1, StageEventIs
  <2>3. /\ cells[Mine] \subseteq cells'[Mine] /\ UNCHANGED nodes
        /\ m.status = "check_cmd" /\ HasRow(Mine) => "check_command" \in cells'[Mine]
    BY <1>0, <2>1, StageEventIs
  <2>4. /\ ~HasRow(Mine) => shown'[Mine] = shown[Mine]
        /\ HasRow(Mine) => shown'[Mine] = HandleEvent(class, stage, shown[Mine])
    BY <1>0, <2>2, ShowIs
  <2>5. /\ m.status = "build_complete" => Rank(m) = 4
        /\ m.status = "check_cmd" => Rank(m) = 5
        /\ m.status = "check_complete" => Rank(m) = 6
        /\ m.status = "starting_buildbin" => Rank(m) = 8
        /\ m.status \in {"skip_buildbin", "buildbin_complete"} => Rank(m) = 9
        /\ m.status = "post_processing_complete" => Rank(m) = 10
    BY <1>1, Ranks
  <2>6. Stages = {"build", "check", "buildbin", "postprocessing"}
    BY DEF Stages
  <2>7. CASE ~HasRow(Mine)
    BY <1>6, <2>3, <2>4, <2>5, <2>7 DEF OwnEffect, HasRow
  <2>8. CASE HasRow(Mine)
    <3> DEFINE new == shown'[Mine]
    <3>1. /\ new[stage] = class
          /\ class # "ERROR" => \A s \in Stages \ {stage} : new[s] = shown[Mine][s]
          /\ class = "ERROR" /\ stage = "build" => \A s \in Stages \ {"build"} : new[s] = "skipped"
          /\ class = "ERROR" /\ stage # "build"
               => \A s \in Stages \ {stage, "postprocessing"} : new[s] = shown[Mine][s]
          /\ class = "ERROR" /\ stage # "postprocessing" => new["postprocessing"] = "skipped"
      BY <1>0, <2>4, <2>8, HandleEventIs
    <3> HIDE DEF new
    <3>2. CASE m.status = "build_complete"
      BY <2>2, <2>3, <2>5, <2>6, <2>8, <3>1, <3>2 DEF OwnEffect, HasRow, new
    <3>3. CASE m.status = "check_cmd"
      BY <2>2, <2>3, <2>5, <2>6, <2>8, <3>1, <3>3 DEF OwnEffect, HasRow, new
    <3>4. CASE m.status = "check_complete"
      BY <2>2, <2>3, <2>5, <2>6, <2>8, <3>1, <3>4 DEF OwnEffect, HasRow, new
    <3>5. CASE m.status = "starting_buildbin"
      BY <2>2, <2>3, <2>5, <2>6, <2>8, <3>1, <3>5 DEF OwnEffect, HasRow, new
    <3>6. CASE m.status = "skip_buildbin"
      BY <2>2, <2>3, <2>5, <2>6, <2>8, <3>1, <3>6 DEF OwnEffect, HasRow, new
    <3>7. CASE m.status = "buildbin_complete"
      BY <2>2, <2>3, <2>5, <2>6, <2>8, <3>1, <3>7 DEF OwnEffect, HasRow, new
    <3>8. CASE m.status = "post_processing_complete"
      BY <2>2, <2>3, <2>5, <2>6, <2>8, <3>1, <3>8 DEF OwnEffect, HasRow, new
    <3> QED BY <1>6, <3>2, <3>3, <3>4, <3>5, <3>6, <3>7, <3>8
  <2> QED BY <2>7, <2>8
<1>7. m.status \in {"ignored", "dcf_info", "node_info", "post_processing"} \cup DOMAIN TextOf
        \cup {"build_complete", "buildbin_complete", "check_complete", "check_cmd",
              "starting_buildbin", "skip_buildbin", "post_processing_complete"}
  BY Texts, Ranks DEF Reports
<1> QED BY <1>2, <1>3, <1>4, <1>5, <1>6, <1>7

(* Whatever an event is, the page stays well formed. *)
LEMMA HandlingIsTyped ==
  ASSUME TypeOK, NEW m \in Events, m.status = "node_info" => ~HasRow(m.node), Handle(m)
  PROVE  /\ headers' = IF nodes' = <<>> THEN 0 ELSE 1
         /\ \A j, k \in DOMAIN nodes' : nodes'[j] = nodes'[k] => j = k
         /\ visible' \in BOOLEAN /\ nodes' \in Seq(Nodes)
         /\ shown' \in [Nodes -> [Stages -> Classes]] /\ cells' \in [Nodes -> SUBSET TextCells]
         /\ retcell' \in [Nodes -> Codes \cup {Undefined}] /\ package' \in {NoNode} \cup Nodes
         /\ nodes' = nodes \/ (m.status = "node_info" /\ nodes' = Append(nodes, m.node))
         /\ m.node = Other => /\ shown'[Mine] = shown[Mine] /\ cells[Mine] \subseteq cells'[Mine]
                              /\ HasRow(Mine)' <=> HasRow(Mine)
<1>0. /\ shown \in [Nodes -> [Stages -> Classes]] /\ cells \in [Nodes -> SUBSET TextCells]
      /\ nodes \in Seq(Nodes) /\ retcell \in [Nodes -> Codes \cup {Undefined}]
      /\ package \in {NoNode} \cup Nodes /\ visible \in BOOLEAN
      /\ headers = IF nodes = <<>> THEN 0 ELSE 1
      /\ \A j, k \in DOMAIN nodes : nodes[j] = nodes[k] => j = k
      /\ m.node \in Nodes /\ Mine \in Nodes /\ m.retcode \in Codes
  BY DEF TypeOK, Events, Nodes
<1>1. Mine # Other
  BY DEF Mine, Other
<1>2. CASE m.status = "dcf_info" /\ DcfInfo(m.node)
  BY <1>0, <1>2 DEF DcfInfo, NoStage, NoText, HasRow
<1>3. CASE m.status = "node_info" /\ GotNewNode(m.node)
  <2>1. /\ nodes' = Append(nodes, m.node) /\ UNCHANGED <<shown, cells, retcell, visible, package>>
        /\ headers' = IF nodes = <<>> THEN 1 ELSE headers
    BY <1>3 DEF GotNewNode, NoStage, NoText
  <2>2. nodes' \in Seq(Nodes) /\ nodes' # <<>> /\ headers' = 1
    BY <1>0, <2>1
  <2>3. \A k \in DOMAIN nodes : nodes[k] # m.node
    BY <1>0, <1>3 DEF HasRow, Contains
  <2>4. ASSUME NEW j \in DOMAIN nodes', NEW k \in DOMAIN nodes', nodes'[j] = nodes'[k] PROVE j = k
    <3>1. /\ DOMAIN nodes' = DOMAIN nodes \cup {Len(nodes) + 1}
          /\ \A i \in DOMAIN nodes : nodes'[i] = nodes[i]
          /\ nodes'[Len(nodes) + 1] = m.node
      BY <1>0, <2>1
    <3> QED BY <1>0, <2>3, <2>4, <3>1
  <2>5. m.node = Other => (HasRow(Mine)' <=> HasRow(Mine))
    BY <1>0, <1>1, <2>1 DEF HasRow, Contains
  <2> QED BY <1>0, <1>3, <2>1, <2>2, <2>4, <2>5
<1>4. CASE m.status = "invalid_url" /\ InvalidUrl
  BY <1>0, <1>4 DEF InvalidUrl, NoStage, NoText, HasRow
<1>5. CASE m.status = "post_processing" /\ PostProcessing(m)
  <2>1. UNCHANGED <<visible, nodes, headers, package>> /\ Fill(m.node, "post_processing")
    BY <1>5 DEF PostProcessing
  <2>2. /\ cells' \in [Nodes -> SUBSET TextCells] /\ \A o \in Nodes : cells[o] \subseteq cells'[o]
    <3>1. "post_processing" \in TextCells
      BY DEF TextCells
    <3> QED BY <1>0, <2>1, <3>1, FillIs
  <2>3. retcell' = retcell
    BY <1>5 DEF PostProcessing, NoStage, NoCode
  <2>4. /\ shown' \in [Nodes -> [Stages -> Classes]]
        /\ m.node = Other => shown'[Mine] = shown[Mine]
    <3>1. CASE m.retcode = 0
      BY <1>0, <1>5, <3>1 DEF PostProcessing, NoStage
    <3>2. CASE m.retcode # 0
      <4>1. Show(m.node, "ERROR", "postprocessing")
        BY <1>5, <3>2 DEF PostProcessing
      <4>2. "ERROR" \in Classes /\ "postprocessing" \in Stages
        BY DEF Classes, Stages
      <4> QED BY <1>0, <1>1, <4>1, <4>2, ShowIs
    <3> QED BY <3>1, <3>2
  <2> QED BY <1>0, <2>1, <2>2, <2>3, <2>4 DEF HasRow
<1>6. CASE m.status = "clear_check_console" /\ ClearCheckConsole(m.node)
  BY <1>0, <1>1, <1>6 DEF ClearCheckConsole, NoStage, HasRow
<1>7. CASE StageEvent(m)
  <2>1. /\ UNCHANGED <<visible, nodes, headers, package>>
        /\ cells' \in [Nodes -> SUBSET TextCells] /\ \A o \in Nodes : cells[o] \subseteq cells'[o]
        /\ retcell' \in [Nodes -> Codes \cup {Undefined}]
    BY <1>7, StageEventIs
  <2>2. \E class \in Classes, stage \in Stages : Show(m.node, class, stage)
    BY <1>7, StageEventIs
  <2>3. /\ shown' \in [Nodes -> [Stages -> Classes]]
        /\ m.node = Other => shown'[Mine] = shown[Mine]
    BY <1>0, <1>1, <2>2, ShowIs
  <2> QED BY <1>0, <2>1, <2>3 DEF HasRow
<1>8. CASE TextEvent(m)
  <2>1. UNCHANGED <<visible, nodes, headers, package, shown, retcell>> /\ Fill(m.node, TextOf[m.status])
    BY <1>8 DEF TextEvent, NoStage
  <2>2. TextOf[m.status] \in TextCells
    BY <1>8, Texts DEF TextEvent, TextCells
  <2>3. cells' \in [Nodes -> SUBSET TextCells] /\ \A o \in Nodes : cells[o] \subseteq cells'[o]
    BY <1>0, <2>1, <2>2, FillIs
  <2> QED BY <1>0, <2>1, <2>3 DEF HasRow
<1>9. CASE m.status \in {"svn_info", "ignored"} /\ NothingOfANode
  BY <1>0, <1>9 DEF NothingOfANode, HasRow
<1> QED BY <1>2, <1>3, <1>4, <1>5, <1>6, <1>7, <1>8, <1>9 DEF Handle

(* The page handles the oldest event.  What it has handled before stays      *)
(* handled, and of the rank it takes now nothing else is under way.          *)
LEMMA TakingHandles ==
  ASSUME IInv, wire # <<>>, wire' = Tail(wire), UNCHANGED <<reached, ran>>, NoneMissing,
         nodes' = nodes \/ (wire[1].status = "node_info" /\ nodes' = Append(nodes, wire[1].node))
  PROVE  /\ NoneMissing'
         /\ \A r \in 1..10 : Handled(r)' => Handled(r) \/ (Rank(wire[1]) = r /\ r \in SentRanks)
<1>0. wire \in Seq(Events)
  BY DEF IInv, TypeOK, Events
<1>1. /\ \A k \in DOMAIN wire : k = 1 \/ (k - 1 \in DOMAIN wire' /\ wire'[k - 1] = wire[k])
      /\ \A k \in DOMAIN wire' : k + 1 \in DOMAIN wire /\ wire'[k] = wire[k + 1]
  BY <1>0, WireShrinks
<1>2. SentRanks' = SentRanks
  BY DEF SentRanks, Level
<1>3. \A r \in 1..10 : (Rank(wire[1]) = r => Beyond(r)') /\ (Beyond(r) => Beyond(r)')
  BY TakingKeepsTheWire
<1>4. ASSUME NEW r \in SentRanks PROVE Beyond(r)' \/ Pending(r)'
  <2>1. CASE Beyond(r)
    BY <1>3, <2>1 DEF SentRanks
  <2>2. CASE Pending(r)
    <3>1. PICK k \in DOMAIN wire : Rank(wire[k]) = r
      BY <2>2 DEF Pending
    <3>2. CASE k = 1
      BY <1>3, <3>1, <3>2 DEF SentRanks
    <3>3. CASE k # 1
      BY <1>1, <3>1, <3>3 DEF Pending
    <3> QED BY <3>2, <3>3
  <2> QED BY <2>1, <2>2 DEF NoneMissing
<1>5. ASSUME NEW r \in 1..10, Handled(r)'
      PROVE  Handled(r) \/ (Rank(wire[1]) = r /\ r \in SentRanks)
  <2>1. r \in SentRanks /\ Beyond(r)'
    BY <1>2, <1>5 DEF Handled
  <2>2. CASE Beyond(r)
    BY <2>1, <2>2 DEF Handled
  <2>3. CASE Pending(r)
    <3>1. PICK k \in DOMAIN wire : Rank(wire[k]) = r
      BY <2>3 DEF Pending
    <3>2. k = 1
      <4>1. \A j \in DOMAIN wire' : Rank(wire'[j]) = r => r > r
        BY <2>1 DEF Beyond
      <4>2. ~(r > r)
        OBVIOUS
      <4> QED BY <1>1, <3>1, <4>1, <4>2
    <3> QED BY <2>1, <3>1, <3>2
  <2> QED BY <2>1, <2>2, <2>3 DEF NoneMissing
<1> QED BY <1>2, <1>4, <1>5 DEF NoneMissing

(* Receive: the row of the followed builder, and the rows of all. *)
LEMMA ReceiveKeeps == ASSUME IInv, Receive PROVE IInv'
<1> DEFINE m == wire[1]
<1>1. /\ wire # <<>> /\ wire' = Tail(wire) /\ Handle(m)
      /\ UNCHANGED <<phase, code, reached, ran, failed, lost, clicked>>
      /\ Level' = Level /\ SentRanks' = SentRanks
  <2>1. wire # <<>> /\ wire' = Tail(wire) /\ UNCHANGED <<phase, code, reached, ran, failed, lost, clicked>>
    BY DEF Receive, report
  <2>2. Head(wire) = wire[1]
    BY <2>1, WireShrinks DEF IInv, TypeOK, Events
  <2> QED BY <2>1, <2>2 DEF Receive, Level, SentRanks
<1>2. /\ m \in Events /\ Sound(m)
  <2>1. wire \in Seq(Events) /\ 1 \in DOMAIN wire
    BY <1>1, WireShrinks DEF IInv, TypeOK, Events
  <2> QED BY <2>1 DEF IInv, WireInv
<1>3. /\ headers' = IF nodes' = <<>> THEN 0 ELSE 1
      /\ \A j, k \in DOMAIN nodes' : nodes'[j] = nodes'[k] => j = k
      /\ visible' \in BOOLEAN /\ nodes' \in Seq(Nodes)
      /\ shown' \in [Nodes -> [Stages -> Classes]] /\ cells' \in [Nodes -> SUBSET TextCells]
      /\ retcell' \in [Nodes -> Codes \cup {Undefined}] /\ package' \in {NoNode} \cup Nodes
      /\ nodes' = nodes \/ (m.status = "node_info" /\ nodes' = Append(nodes, m.node))
      /\ m.node = Other => /\ shown'[Mine] = shown[Mine] /\ cells[Mine] \subseteq cells'[Mine]
                           /\ HasRow(Mine)' <=> HasRow(Mine)
  BY <1>1, <1>2, HandlingIsTyped DEF IInv, Sound
<1>4. /\ wire' \in Seq(Events) /\ Len(wire') <= MaxWire /\ WireInv'
      /\ \A k \in DOMAIN wire' : Before(m, wire'[k])
      /\ \A r \in Nat : Beyond(r) => Beyond(r)'
      /\ \A r \in 1..10 : Rank(m) = r => r <= Level /\ Beyond(r)'
  BY <1>1, <1>3, TakingKeepsTheWire
<1>5. TypeOK'
  BY <1>1, <1>3, <1>4 DEF IInv, TypeOK, Events
<1>6. ReportInv'
  BY <1>1 DEF IInv, ReportInv
<1>7. CASE m.node = Other
  <2>1. /\ shown'[Mine] = shown[Mine] /\ cells[Mine] \subseteq cells'[Mine]
        /\ HasRow(Mine)' <=> HasRow(Mine)
    BY <1>3, <1>7
  <2>2. Rank(m) = 0
    BY <1>7 DEF Rank, Mine, Other
  <2>3. RowInv'
    BY <1>1, <1>4, <2>1 DEF IInv, RowInv, Final
  <2>4. ASSUME NoneMissing, Effects PROVE NoneMissing' /\ Effects'
    <3>1. NoneMissing' /\ \A r \in 1..10 : Handled(r)' => Handled(r)
      BY <1>1, <1>3, <2>2, <2>4, TakingHandles
    <3>2. ASSUME Handled(10)'
          PROVE  (\A k \in DOMAIN wire : wire[k].node = Mine => wire[k].status = "ignored")'
      <4>1. \A k \in DOMAIN wire : wire[k].node = Mine => wire[k].status = "ignored"
        BY <2>4, <3>1, <3>2 DEF Effects
      <4>2. wire \in Seq(Events)
        BY DEF IInv, TypeOK, Events
      <4> QED BY <1>1, <4>1, <4>2, WireShrinks
    <3> QED BY <1>1, <2>1, <2>4, <3>1, <3>2 DEF Effects
  <2> QED BY <1>1, <1>4, <1>5, <1>6, <2>3, <2>4 DEF IInv
<1>8. CASE m.node = Mine
  <2>1. OwnEffect(m)
    BY <1>1, <1>2, <1>8, OwnEventsShow DEF IInv, Sound
  <2>2. RowInv'
    <3>1. HasRow(Mine)' => 1 <= Level' /\ Beyond(1)'
      <4>1. HasRow(Mine)' => HasRow(Mine) \/ Rank(m) = 1
        BY <2>1 DEF OwnEffect
      <4>2. HasRow(Mine) => 1 <= Level /\ Beyond(1)'
        BY <1>4 DEF IInv, RowInv
      <4>3. Rank(m) = 1 => 1 <= Level /\ Beyond(1)'
        BY <1>4
      <4> QED BY <1>1, <4>1, <4>2, <4>3
    <3>2. Final("build", 4)'
      BY <1>1, <1>4, <2>1 DEF OwnEffect, IInv, RowInv, Final
    <3>3. Final("check", 6)'
      <4>1. Rank(m) = 4 \/ Rank(m) = 5 => shown'[Mine]["check"] \notin Done \/ shown'[Mine] = shown[Mine]
        BY <2>1 DEF OwnEffect, Done
      <4> QED BY <1>1, <1>4, <2>1, <4>1 DEF OwnEffect, IInv, RowInv, Final
    <3>4. Final("buildbin", 9)'
      <4>1. Rank(m) = 4 \/ Rank(m) = 8 => shown'[Mine]["buildbin"] \notin Done \/ shown'[Mine] = shown[Mine]
        BY <2>1 DEF OwnEffect, Done
      <4> QED BY <1>1, <1>4, <2>1, <4>1 DEF OwnEffect, IInv, RowInv, Final
    <3> QED BY <3>1, <3>2, <3>3, <3>4 DEF RowInv
  <2>3. ASSUME NoneMissing, Effects PROVE NoneMissing' /\ Effects'
    <3> DEFINE h == Rank(m)
               row == shown[Mine]
               new == shown'[Mine]
    <3>1. /\ NoneMissing'
          /\ \A r \in 1..10 : Handled(r)' => Handled(r) \/ (h = r /\ r \in SentRanks)
      BY <1>1, <1>3, <2>3, TakingHandles
    <3>2. /\ h \in 0..10 /\ h <= Level /\ Level \in 0..10
          /\ \A r \in 1..10 : Handled(r) => r <= Level /\ (h = 0 \/ h > r)
      <4>1. 1 \in DOMAIN wire
        BY <1>1, WireShrinks DEF IInv, TypeOK, Events
      <4>2. h \in 0..10 /\ h <= Level /\ Level \in 0..10
        BY <1>2, RankIsANumber, LevelIsANumber DEF IInv, Sound
      <4>3. \A r \in 1..10 : Handled(r) => r <= Level
        BY DEF Handled, SentRanks
      <4>4. \A r \in 1..10 : Handled(r) /\ h > 0 => h > r
        BY <4>1 DEF Handled, Beyond
      <4> QED BY <4>2, <4>3, <4>4
    <3>3. h > 1 => HasRow(Mine)
      <4> SUFFICES ASSUME h > 1 PROVE HasRow(Mine)
        OBVIOUS
      <4>1. wire \in Seq(Events)
        BY DEF IInv, TypeOK, Events
      <4>2. ASSUME NEW k \in DOMAIN wire, Rank(wire[k]) > 0 PROVE Rank(wire[k]) > 1
        <5>1. CASE k = 1
          BY <5>1
        <5>2. CASE k # 1
          <6>1. k - 1 \in DOMAIN wire' /\ wire'[k - 1] = wire[k]
            BY <1>1, <4>1, <5>2, WireShrinks
          <6>2. Before(m, wire[k])
            BY <1>4, <6>1
          <6>3. Rank(m) < Rank(wire[k])
            <7>1. Rank(m) > 0
              BY <3>2
            <7> QED BY <4>2, <6>2, <7>1 DEF Before
          <6> QED BY <6>3, RankIsANumber
        <5> QED BY <5>1, <5>2
      <4>3. 1 \in SentRanks
        BY <3>2 DEF SentRanks
      <4>4. Handled(1)
        BY <4>2, <4>3 DEF Handled, Beyond
      <4> QED BY <2>3, <4>4 DEF Effects
    <3>4. /\ cells[Mine] \subseteq cells'[Mine]
          /\ HasRow(Mine)' <=> HasRow(Mine) \/ h = 1
          /\ h # 4 => new["build"] = row["build"]
          /\ h \notin {4, 5, 6} => new["check"] = row["check"]
          /\ h \notin {4, 8, 9} => new["buildbin"] = row["buildbin"]
          /\ h # 10 => new["postprocessing"] \in {row["postprocessing"], "skipped", "ERROR"}
          /\ m.status = "ignored" => new = row
      BY <2>1 DEF OwnEffect
    <3>5. /\ h = 2 => "command" \in cells'[Mine]
          /\ h = 3 => "console" \in cells'[Mine]
          /\ h = 4 => new["build"] = "ERROR" /\ new["check"] = "skipped" /\ new["buildbin"] = "skipped"
          /\ h = 5 => new["check"] = "IN_PROGRESS" /\ "check_command" \in cells'[Mine]
          /\ h = 6 => new["check"] = "ERROR"
          /\ h = 7 => "check_console" \in cells'[Mine]
          /\ h = 8 => new["buildbin"] = "IN_PROGRESS"
          /\ h = 9 => new["buildbin"] \in {"skipped", "ERROR"}
          /\ h = 10 => new["postprocessing"] = "OK"
      BY <2>1, <3>3 DEF OwnEffect
    <3>6. Handled(10)' => \A k \in DOMAIN wire' : wire'[k].node = Mine => wire'[k].status = "ignored"
      <4>1. CASE h = 10
        BY <1>4, <4>1 DEF Before
      <4>2. CASE Handled(10)
        <5>1. \A k \in DOMAIN wire : wire[k].node = Mine => wire[k].status = "ignored"
          BY <2>3, <4>2 DEF Effects
        <5>2. wire \in Seq(Events)
          BY DEF IInv, TypeOK, Events
        <5> QED BY <1>1, <5>1, <5>2, WireShrinks
      <4> QED BY <3>1, <4>1, <4>2
    <3>7. Handled(10) => m.status = "ignored"
      <4>1. 1 \in DOMAIN wire
        BY <1>1, WireShrinks DEF IInv, TypeOK, Events
      <4> QED BY <1>8, <2>3, <4>1 DEF Effects
    <3>8. /\ Handled(1)' => Handled(1) \/ h = 1
          /\ Handled(2)' => Handled(2) \/ h = 2
          /\ Handled(3)' => Handled(3) \/ h = 3
          /\ Handled(4)' => (Handled(4) /\ (h = 0 \/ h > 4)) \/ h = 4
          /\ Handled(5)' => (Handled(5) /\ (h = 0 \/ h > 5)) \/ h = 5
          /\ Handled(6)' => (Handled(6) /\ (h = 0 \/ h > 6)) \/ h = 6
          /\ Handled(7)' => Handled(7) \/ h = 7
          /\ Handled(8)' => (Handled(8) /\ Level = 8 /\ h = 0) \/ h = 8
          /\ Handled(9)' => (Handled(9) /\ (h = 0 \/ h > 9)) \/ h = 9
          /\ Handled(10)' => Handled(10) \/ h = 10
      <4>1. Handled(8) => Level = 8
        BY DEF Handled, SentRanks
      <4> HIDE DEF h
      <4> QED BY <3>1, <3>2, <4>1
    <3> HIDE DEF h, row, new
    <3>9. Effects'
      <4>1. /\ Handled(1)' => HasRow(Mine)'
            /\ Handled(2)' => "command" \in cells'[Mine]
            /\ Handled(3)' => "console" \in cells'[Mine]
            /\ Handled(5)' => "check_command" \in cells'[Mine]
            /\ Handled(7)' => "check_console" \in cells'[Mine]
        BY <2>3, <3>4, <3>5, <3>8 DEF Effects
      <4>2. Level < 4 => new["build"] = "IN_PROGRESS" /\ new["check"] = "IN_PROGRESS"
        BY <2>3, <3>2, <3>4 DEF Effects, row
      <4>3. Handled(4)' => new["build"] \in Done
        BY <2>3, <3>4, <3>5, <3>8 DEF Effects, row, Done
      <4>4. Handled(4)' /\ Level = 4 => new["check"] = "skipped"
        BY <2>3, <3>2, <3>4, <3>5, <3>8 DEF Effects, row
      <4>5. Handled(5)' /\ Level = 5 => new["check"] = "IN_PROGRESS"
        BY <2>3, <3>2, <3>4, <3>5, <3>8 DEF Effects, row
      <4>6. Handled(6)' => new["check"] \in Done
        BY <2>3, <3>2, <3>4, <3>5, <3>8 DEF Effects, row, Done
      <4>7. Handled(4)' /\ Level < 8 => new["buildbin"] # "IN_PROGRESS"
        BY <2>3, <3>2, <3>4, <3>5, <3>8 DEF Effects, row
      <4>8. Handled(8)' => new["buildbin"] = "IN_PROGRESS"
        BY <2>3, <3>2, <3>4, <3>5, <3>8 DEF Effects, row
      <4>9. Handled(9)' => new["buildbin"] # "IN_PROGRESS"
        BY <2>3, <3>2, <3>4, <3>5, <3>8 DEF Effects, row
      <4>10. Level < 10 => new["postprocessing"] # "OK"
        BY <2>3, <3>2, <3>4 DEF Effects, row
      <4>11. Handled(10)' => new["postprocessing"] = "OK"
        BY <2>3, <3>4, <3>5, <3>7, <3>8 DEF Effects, row
      <4> QED BY <1>1, <3>6, <4>1, <4>2, <4>3, <4>4, <4>5, <4>6, <4>7, <4>8, <4>9, <4>10, <4>11
            DEF Effects, new
    <3> QED BY <3>1, <3>9
  <2> QED BY <1>1, <1>4, <1>5, <1>6, <2>2, <2>3 DEF IInv
<1> QED BY <1>2, <1>7, <1>8 DEF Events, Nodes

-----------------------------------------------------------------------------
(* There is no row at the start, and nothing is under way. *)
LEMMA InitIInv == Init => IInv
<1> SUFFICES ASSUME Init PROVE IInv
  OBVIOUS
<1>1. /\ phase = "silent" /\ code = 0 /\ reached = "silent" /\ ran = FALSE /\ failed = {} /\ wire = <<>>
      /\ lost = FALSE /\ clicked = FALSE /\ visible = FALSE /\ nodes = <<>> /\ headers = 0
      /\ shown = [n \in Nodes |-> [s \in Stages |-> "IN_PROGRESS"]]
      /\ cells = [n \in Nodes |-> {}] /\ retcell = [n \in Nodes |-> Undefined] /\ package = NoNode
  BY DEF Init, ReportInit
<1>2. TypeOK
  <2>1. wire \in Seq([status : Statuses, node : Nodes, retcode : Codes]) /\ Len(wire) <= MaxWire
    BY <1>1, PageAssumption
  <2>2. shown \in [Nodes -> [Stages -> Classes]] /\ cells \in [Nodes -> SUBSET TextCells]
    BY <1>1 DEF Classes
  <2>3. retcell \in [Nodes -> Codes \cup {Undefined}] /\ code \in Codes
    BY <1>1, CodesAssumption
  <2>4. phase \in Phases /\ reached \in Phases /\ nodes \in Seq(Nodes) /\ DOMAIN nodes = {}
    BY <1>1 DEF Phases
  <2> QED BY <1>1, <2>1, <2>2, <2>3, <2>4 DEF TypeOK
<1>3. Level = 0 /\ ~HasRow(Mine) /\ DOMAIN wire = {} /\ SentRanks = {}
  BY <1>1, Levels DEF Level, HasRow, Contains, SentRanks
<1>4. \A s \in Stages : shown[Mine][s] = "IN_PROGRESS"
  BY <1>1 DEF Nodes
<1>5. Stages = {"build", "check", "buildbin", "postprocessing"}
  BY DEF Stages
<1>6. ReportInv /\ WireInv /\ RowInv
  BY <1>1, <1>3, <1>4, <1>5 DEF ReportInv, WireInv, RowInv, Final, Done
<1>7. NoneMissing /\ Effects
  BY <1>3, <1>4, <1>5 DEF NoneMissing, Effects, Handled
<1> QED BY <1>2, <1>6, <1>7 DEF IInv

(* What fails is the stage that a verdict was for. *)
LEMMA FailuresAreVerdicts ==
  ASSUME IInv, Milestone
  PROVE  /\ FailedTyped'
         /\ failed \subseteq failed'
         /\ "build" \in failed' => "build" \in failed \/ phase' = "built"
         /\ "check" \in failed' => "check" \in failed \/ phase' = "checked"
         /\ "buildbin" \in failed' => "buildbin" \in failed \/ (phase' = "packaged" /\ code' # 0)
<1>1. /\ DOMAIN VerdictOf = {"built", "checked", "packaged"}
      /\ VerdictOf["built"] = "build" /\ VerdictOf["checked"] = "check"
      /\ VerdictOf["packaged"] = "buildbin"
  BY DEF VerdictOf
<1> DEFINE new == {VerdictOf[p] : p \in {p \in DOMAIN VerdictOf : p = phase' /\ code' # 0}}
<1>2. failed' = failed \cup new
  BY DEF Milestone
<1>3. \A s \in new : \/ s = "build" /\ phase' = "built"
                     \/ s = "check" /\ phase' = "checked"
                     \/ s = "buildbin" /\ phase' = "packaged" /\ code' # 0
  <2> SUFFICES ASSUME NEW p \in DOMAIN VerdictOf, p = phase', code' # 0
               PROVE  \/ VerdictOf[p] = "build" /\ phase' = "built"
                      \/ VerdictOf[p] = "check" /\ phase' = "checked"
                      \/ VerdictOf[p] = "buildbin" /\ phase' = "packaged" /\ code' # 0
    OBVIOUS
  <2> HIDE DEF new
  <2>1. p = "built" \/ p = "checked" \/ p = "packaged"
    BY <1>1
  <2> QED BY <1>1, <2>1
<1> HIDE DEF new
<1>4. failed \subseteq Verified
  BY DEF IInv, TypeOK, Verified
<1>5. failed' \subseteq Verified
  BY <1>2, <1>3, <1>4 DEF Verified
<1>6. /\ "build" \in failed' => "build" \in failed \/ phase' = "built"
      /\ "check" \in failed' => "check" \in failed \/ phase' = "checked"
      /\ "buildbin" \in failed' => "buildbin" \in failed \/ (phase' = "packaged" /\ code' # 0)
  <2>1. "build" \in new => phase' = "built"
    BY <1>3
  <2>2. "check" \in new => phase' = "checked"
    BY <1>3
  <2>3. "buildbin" \in new => phase' = "packaged" /\ code' # 0
    BY <1>3
  <2> QED BY <1>2, <2>1, <2>2, <2>3
<1> QED BY <1>2, <1>5, <1>6 DEF FailedTyped

(* One of the milestones is reached. *)
LEMMA MilestonesKeep == ASSUME IInv, Milestone PROVE IInv'
<1>1. /\ ran' \in IF phase = "started" THEN BOOLEAN ELSE {ran}
      /\ reached' = IF phase' = "over" THEN phase ELSE phase'
  BY DEF Milestone
<1>2. /\ phase = "started" => ran' \in BOOLEAN
      /\ phase # "started" => ran' = ran
      /\ ran \in BOOLEAN /\ ran' \in BOOLEAN
  BY <1>1 DEF IInv, TypeOK
<1> FailedTyped'
  BY FailuresAreVerdicts
<1>3. CASE Started /\ Sends(<<Own("ignored", 0), Own("node_info", 0)>>)
  BY <1>1, <1>2, <1>3, StartedKeeps
<1>4. CASE Unsupported /\ Sends(<<Own("ignored", 0), Own("post_processing", 0)>>)
  BY <1>1, <1>2, <1>4, UnsupportedKeeps
<1>5. CASE Built /\ ran' /\ Sends(<<Own("dcf_info", 0), Own("r_cmd", 0), Own("building", 0),
                                    Own("build_complete", code')>>)
  BY <1>1, <1>2, <1>5, BuiltRunKeeps
<1>6. CASE Built /\ code' # 0 /\ ~ran'
             /\ Sends(<<Own("build_complete", code'), Own("post_processing", code')>>)
  BY <1>1, <1>2, <1>6, BuiltNotKeeps
<1>7. CASE CheckStarted /\ ran /\ Sends(<<Own("ignored", 0), Own("check_cmd", 0)>>)
  BY <1>1, <1>2, <1>7, CheckStartedKeeps DEF CheckStarted, Announce
<1>8. CASE Checked /\ Sends(<<Own("check_complete", code'), Own("checking", 0),
                              Own("post_processing", code')>>)
  BY <1>1, <1>2, <1>8, CheckedKeeps DEF Checked, Announce
<1>9. CASE BinaryStarted /\ Sends(<<Own("starting_buildbin", 0), Own("r_buildbin_cmd", 0)>>)
  BY <1>1, <1>2, <1>9, BinaryStartedKeeps DEF BinaryStarted, Announce
<1>10. CASE BinarySkipped /\ Sends(<<Own("skip_buildbin", 0)>>)
  BY <1>1, <1>2, <1>10, BinarySkippedKeeps DEF BinarySkipped, Announce
<1>11. CASE BinaryBuilt /\ Sends(<<Own("buildingbin", 0), Own("buildbin_complete", code')>>)
  BY <1>1, <1>2, <1>11, BinaryBuiltKeeps DEF BinaryBuilt, Announce
<1>12. CASE Processed /\ Sends(<<Own("post_processing_complete", 0)>>)
  BY <1>1, <1>2, <1>12, ProcessedKeeps DEF Processed, Announce
<1>13. CASE Finished /\ Sends(<<Own("ignored", 0)>>)
  BY <1>1, <1>2, <1>13, FinishedKeeps DEF Finished, Announce
<1>14. CASE Over /\ Sends(<<Own("ignored", 0)>>)
  BY <1>1, <1>14, OverKeeps
<1> QED BY <1>3, <1>4, <1>5, <1>6, <1>7, <1>8, <1>9, <1>10, <1>11, <1>12, <1>13, <1>14 DEF Milestone

(* One of the actions is taken. *)
LEMMA NextIInv == ASSUME IInv, [Next]_vars PROVE IInv'
<1>1. CASE UNCHANGED vars
  <2>1. UNCHANGED <<phase, code, reached, ran, failed, wire, lost, clicked, visible, nodes, headers, shown,
                    cells, retcell, package>>
    BY <1>1 DEF vars, report, page
  <2>2. TypeOK' /\ ReportInv' /\ WireInv' /\ RowInv'
    BY <2>1 DEF IInv, TypeOK, ReportInv, WireInv, RowInv, Level, Sound, HasRow, Final, Beyond
  <2>3. NoneMissing' = NoneMissing /\ Effects' = Effects
    BY <2>1 DEF NoneMissing, Effects, Level, SentRanks, Beyond, Pending, Handled, HasRow
  <2> QED BY <2>1, <2>2, <2>3 DEF IInv
<1> QED BY <1>1, StartBuildKeeps, MilestonesKeep, PostProcessesKeeps, OtherSendsKeeps, LoseKeeps,
        ReceiveKeeps DEF Next

(* IInv holds in every state of the page and its builders. *)
LEMMA Invariant == Spec => []IInv
<1>1. Init => IInv
  BY InitIInv
<1>2. IInv /\ [Next]_vars => IInv'
  BY NextIInv
<1> QED BY <1>1, <1>2, PTL DEF Spec

(* packagebuilder.js:214-257: one header over the table, and one row for     *)
(* each node, however the events of two builders are mixed.                  *)
THEOREM TypeCorrect == Spec => []TypeOK
<1>1. IInv => TypeOK
  BY DEF IInv
<1> QED BY <1>1, Invariant, PTL

-----------------------------------------------------------------------------
(* What the row may show of the verdicts: a stage of the build that the row  *)
(* has a verdict for is an ERROR, and one that failed was sent as such; the  *)
(* binary is told apart from the one that is skipped by its event.           *)
FailInv ==
  /\ \A s \in Verified : shown[Mine][s] \notin {"OK", "WARNINGS"}
  /\ "build" \in failed => Level >= 4
  /\ "check" \in failed => Level >= 7
  /\ "buildbin" \in failed =>
       /\ Level >= 9
       /\ \A k \in DOMAIN wire : Rank(wire[k]) = 9 => wire[k].status = "buildbin_complete"
       /\ ~lost /\ Beyond(9) => shown[Mine]["buildbin"] = "ERROR"

(* The milestones that come after the binary send nothing about it.          *)
LEMMA LaterMilestones ==
  ASSUME IInv, Milestone, Level >= 9
  PROVE  \E msgs \in Seq(Events) : wire' = wire \o msgs /\ \A l \in DOMAIN msgs : Rank(msgs[l]) # 9
<1>1. phase \in {"packaged", "processed", "finished", "over"}
  BY Levels DEF IInv, TypeOK, ReportInv, Level, Phases
<1>2. \/ wire' = wire \o <<Own("post_processing_complete", 0)>>
      \/ wire' = wire \o <<Own("ignored", 0)>>
  BY <1>1 DEF Milestone, Sends, Started, Unsupported, Built, CheckStarted, Checked,
              BinaryStarted, BinarySkipped, BinaryBuilt, Processed, Finished, Over, Announce
<1>3. PICK m \in Events : wire' = wire \o <<m>> /\ Rank(m) # 9
  <2>1. /\ Own("post_processing_complete", 0) \in Events /\ Own("ignored", 0) \in Events
        /\ Rank(Own("post_processing_complete", 0)) # 9 /\ Rank(Own("ignored", 0)) # 9
    BY OwnEvents, Ranks, CodesAssumption DEF Statuses
  <2> QED BY <1>2, <2>1
<1>4. <<m>> \in Seq(Events) /\ \A l \in DOMAIN <<m>> : Rank(<<m>>[l]) # 9
  BY <1>3
<1> QED BY <1>3, <1>4

(* What is remembered of the failures is what the milestones sent.           *)
LEMMA MilestonesFail == ASSUME IInv, IInv', FailInv, Milestone PROVE FailInv'
<1>1. /\ UNCHANGED <<lost, shown>> /\ reached' = IF phase' = "over" THEN phase ELSE phase'
  BY DEF Milestone, Sends, page
<1>2. Level \in 0..10 /\ Level' \in 0..10
  <2>1. Level \in 0..10
    BY LevelIsANumber DEF IInv
  <2>2. reached' \in Phases /\ reached' # "over"
    BY DEF IInv, TypeOK, ReportInv
  <2> QED BY <2>1, <2>2, Levels DEF Level, Phases
<1>3. Level <= Level'
  <2>1. reached = phase
    BY DEF IInv, ReportInv, Milestone, Started, Unsupported, Built, CheckStarted, Checked,
           BinaryStarted, BinarySkipped, BinaryBuilt, Processed, Finished, Over, Announce
  <2>2. \/ phase = "silent" /\ phase' = "started"
        \/ phase = "started" /\ phase' \in {"unsupported", "built"}
        \/ phase = "built" /\ phase' = "checking"
        \/ phase = "checking" /\ phase' = "checked"
        \/ phase = "checked" /\ phase' \in {"packaging", "packaged"}
        \/ phase = "packaging" /\ phase' = "packaged"
        \/ phase = "packaged" /\ phase' = "processed"
        \/ phase = "processed" /\ phase' = "finished"
        \/ phase' = "over"
    BY DEF Milestone, Started, Unsupported, Built, CheckStarted, Checked,
           BinaryStarted, BinarySkipped, BinaryBuilt, Processed, Finished, Over, Announce
  <2> QED BY <1>1, <1>2, <2>1, <2>2, Levels DEF Level
<1>4. /\ "build" \in failed' => "build" \in failed \/ phase' = "built"
      /\ "check" \in failed' => "check" \in failed \/ phase' = "checked"
      /\ "buildbin" \in failed' => "buildbin" \in failed \/ (phase' = "packaged" /\ code' # 0)
  BY FailuresAreVerdicts
<1>5. /\ phase' = "built" => Level' = 4
      /\ phase' = "checked" => Level' = 7
      /\ phase' = "packaged" => Level' = 9
  BY <1>1, Levels DEF Level
<1>6. ASSUME "buildbin" \in failed', "buildbin" \notin failed
      PROVE  /\ \A k \in DOMAIN wire' : Rank(wire'[k]) = 9 => wire'[k].status = "buildbin_complete"
             /\ ~Beyond(9)'
  <2> DEFINE msgs == <<Own("buildingbin", 0), Own("buildbin_complete", code')>>
  <2>1. phase' = "packaged" /\ code' # 0
    BY <1>4, <1>6
  <2>2. BinaryBuilt /\ wire' = wire \o msgs
    BY <2>1 DEF Milestone, Sends, Started, Unsupported, Built, CheckStarted, Checked,
                BinaryStarted, BinarySkipped, BinaryBuilt, Processed, Finished, Over, Announce
  <2>3. Level = 8 /\ code' \in Codes
    BY <2>2, Levels DEF BinaryBuilt, Announce, IInv, ReportInv, Level
  <2>4. /\ msgs \in Seq(Events) /\ DOMAIN msgs = 1..2 /\ msgs[1] = Own("buildingbin", 0)
        /\ msgs[2] = Own("buildbin_complete", code') /\ Rank(msgs[1]) = 0 /\ Rank(msgs[2]) = 9
        /\ msgs[2].status = "buildbin_complete"
    BY <2>3, OwnEvents, Ranks, CodesAssumption DEF Statuses
  <2> HIDE DEF msgs
  <2>5. wire \in Seq(Events)
    BY DEF IInv, TypeOK, Events
  <2>6. \A k \in DOMAIN wire : Rank(wire[k]) # 9
    BY <2>3 DEF IInv, WireInv, Sound
  <2>7. ASSUME NEW k \in DOMAIN wire', Rank(wire'[k]) = 9 PROVE wire'[k].status = "buildbin_complete"
    <3>1. k \notin DOMAIN wire
      BY <2>2, <2>5, <2>4, <2>6, <2>7, WireGrows
    <3>2. PICK l \in DOMAIN msgs : wire'[k] = msgs[l]
      BY <2>2, <2>4, <2>5, <3>1, WireGrows
    <3> QED BY <2>4, <2>7, <3>2
  <2>8. ~Beyond(9)'
    <3>1. Len(wire) + 2 \in DOMAIN wire' /\ wire'[Len(wire) + 2] = msgs[2]
      <4>1. 2 \in DOMAIN msgs /\ msgs \in Seq(Events)
        BY <2>4
      <4>2. \A l \in DOMAIN msgs : Len(wire) + l \in DOMAIN wire' /\ wire'[Len(wire) + l] = msgs[l]
        BY <2>2, <2>5, <4>1, WireGrows
      <4> QED BY <4>1, <4>2
    <3>2. Rank(wire'[Len(wire) + 2]) > 0 /\ ~(Rank(wire'[Len(wire) + 2]) > 9)
      BY <2>4, <3>1
    <3> QED BY <3>1, <3>2 DEF Beyond
  <2> QED BY <2>7, <2>8
<1>7. ASSUME "buildbin" \in failed
      PROVE  /\ \A k \in DOMAIN wire' : Rank(wire'[k]) = 9 => wire'[k].status = "buildbin_complete"
             /\ Beyond(9)' => Beyond(9)
  <2>1. PICK msgs \in Seq(Events) : wire' = wire \o msgs /\ \A l \in DOMAIN msgs : Rank(msgs[l]) # 9
    BY <1>7, LaterMilestones DEF FailInv
  <2>2. wire \in Seq(Events)
    BY DEF IInv, TypeOK, Events
  <2>3. \A k \in DOMAIN wire' : Rank(wire'[k]) = 9 => wire'[k].status = "buildbin_complete"
    BY <1>7, <2>1, <2>2, WireGrows DEF FailInv
  <2>4. Beyond(9)' => Beyond(9)
    BY <2>1, <2>2, WireGrows DEF Beyond
  <2> QED BY <2>3, <2>4
<1>8. ASSUME "buildbin" \in failed'
      PROVE  /\ Level' >= 9
             /\ \A k \in DOMAIN wire' : Rank(wire'[k]) = 9 => wire'[k].status = "buildbin_complete"
             /\ ~lost' /\ Beyond(9)' => shown'[Mine]["buildbin"] = "ERROR"
  <2>1. CASE "buildbin" \in failed
    <3>1. Level >= 9 /\ (~lost /\ Beyond(9) => shown[Mine]["buildbin"] = "ERROR")
      BY <2>1 DEF FailInv
    <3> HIDE DEF Level
    <3> QED BY <1>1, <1>2, <1>3, <1>7, <2>1, <3>1
  <2>2. CASE "buildbin" \notin failed
    BY <1>4, <1>5, <1>6, <1>8, <2>2
  <2> QED BY <2>1, <2>2
<1>9. ("build" \in failed' => Level' >= 4) /\ ("check" \in failed' => Level' >= 7)
  <2>1. ("build" \in failed => Level >= 4) /\ ("check" \in failed => Level >= 7)
    BY DEF FailInv
  <2> HIDE DEF Level
  <2> QED BY <1>2, <1>3, <1>4, <1>5, <2>1
<1> QED BY <1>1, <1>8, <1>9 DEF FailInv

(* As long as nothing is lost, the row is there before its other events.      *)
LEMMA RowsComeFirst ==
  ASSUME IInv, wire # <<>>, ~lost, Rank(wire[1]) > 1
  PROVE  HasRow(Mine)
<1>1. wire \in Seq(Events) /\ 1 \in DOMAIN wire /\ NoneMissing /\ Effects
  BY WireShrinks DEF IInv, TypeOK, Events
<1>2. ASSUME NEW k \in DOMAIN wire, Rank(wire[k]) > 0 PROVE Rank(wire[k]) > 1
  <2>1. CASE k = 1
    BY <2>1
  <2>2. CASE k # 1
    <3>1. 1 < k
      BY <1>1, <2>2
    <3>2. Before(wire[1], wire[k])
      BY <1>1, <3>1 DEF IInv, WireInv
    <3>3. Rank(wire[1]) \in 0..10 /\ Rank(wire[k]) \in 0..10
      BY RankIsANumber
    <3> QED BY <1>2, <3>2, <3>3 DEF Before
  <2> QED BY <2>1, <2>2
<1>3. 1 \in SentRanks
  <2>1. Rank(wire[1]) <= Level /\ Rank(wire[1]) \in 0..10 /\ Level \in 0..10
    BY <1>1, RankIsANumber, LevelIsANumber DEF IInv, WireInv, Sound
  <2> HIDE DEF Level
  <2> QED BY <2>1 DEF SentRanks
<1> QED BY <1>1, <1>2, <1>3 DEF Handled, Beyond, Effects

(* The page handles an event, or it is lost.                                 *)
LEMMA TakingFails ==
  ASSUME IInv, IInv', FailInv, Receive \/ Lose
  PROVE  FailInv'
<1> DEFINE m == wire[1]
<1>1. wire # <<>> /\ wire' = Tail(wire) /\ UNCHANGED <<reached, ran, failed>> /\ Level' = Level
  BY DEF Receive, Lose, Level
<1>2. /\ wire \in Seq(Events) /\ 1 \in DOMAIN wire /\ Head(wire) = m
      /\ \A k \in DOMAIN wire' : k + 1 \in DOMAIN wire /\ wire'[k] = wire[k + 1]
  BY <1>1, WireShrinks DEF IInv, TypeOK, Events
<1>3. m \in Events /\ Sound(m)
  BY <1>2 DEF IInv, WireInv
<1>4. CASE Lose
  BY <1>1, <1>2, <1>4 DEF FailInv, Lose, page
<1>5. CASE Receive
  <2>1. /\ Handle(m) /\ lost' = lost
        /\ nodes' = nodes \/ (m.status = "node_info" /\ nodes' = Append(nodes, m.node))
    BY <1>2, <1>3, <1>5, HandlingIsTyped DEF Receive, IInv, Sound
  <2>2. /\ m.node = Other => shown'[Mine] = shown[Mine] /\ Rank(m) = 0
        /\ m.node = Mine => OwnEffect(m)
    BY <1>3, <2>1, HandlingIsTyped, OwnEventsShow DEF IInv, Sound, Rank, Mine, Other
  <2>3. m.node \in {Mine, Other}
    BY <1>3 DEF Events, Nodes
  <2>4. ASSUME NEW s \in Verified PROVE shown'[Mine][s] \notin {"OK", "WARNINGS"}
    <3>1. \A t \in Verified : shown[Mine][t] \notin {"OK", "WARNINGS"}
      BY DEF FailInv
    <3>2. m.node = Mine => shown'[Mine][s] \in {shown[Mine][s], "ERROR", "skipped", "IN_PROGRESS"}
      BY <2>2, RankIsANumber DEF OwnEffect, Verified
    <3> QED BY <2>2, <2>3, <3>1, <3>2
  <2>5. ASSUME "buildbin" \in failed, ~lost, Beyond(9)' PROVE shown'[Mine]["buildbin"] = "ERROR"
    <3>1. NoneMissing /\ Level >= 9 /\ Rank(m) \in 0..10
      BY <2>5, RankIsANumber DEF IInv, FailInv
    <3>2. Handled(9)'
      <4>1. Level \in 0..10
        BY LevelIsANumber DEF IInv
      <4> HIDE DEF Level
      <4> QED BY <1>1, <2>5, <3>1, <4>1 DEF Handled, SentRanks
    <3>3. Handled(9) \/ Rank(m) = 9
      BY <1>1, <2>1, <3>1, <3>2, TakingHandles
    <3>4. CASE Handled(9)
      <4>1. shown[Mine]["buildbin"] = "ERROR"
        BY <2>5, <3>4 DEF FailInv, Handled
      <4>2. Rank(m) \notin {4, 8, 9}
        BY <1>2, <3>4 DEF Handled, Beyond
      <4> QED BY <2>2, <2>3, <4>1, <4>2 DEF OwnEffect
    <3>5. CASE Rank(m) = 9
      <4>1. m.node = Mine /\ m.status = "buildbin_complete"
        BY <1>2, <2>2, <2>3, <2>5, <3>5 DEF FailInv
      <4>2. HasRow(Mine)
        BY <1>1, <2>5, <3>5, RowsComeFirst
      <4> QED BY <2>2, <3>5, <4>1, <4>2 DEF OwnEffect
    <3> QED BY <3>3, <3>4, <3>5
  <2> QED BY <1>1, <1>2, <2>1, <2>4, <2>5 DEF FailInv
<1> QED BY <1>4, <1>5

(* The other steps of the builders send one event that is no milestone. *)
LEMMA OneMore ==
  ASSUME IInv, PostProcesses \/ OtherSends
  PROVE  \E m \in Events : wire' = wire \o <<m>> /\ Rank(m) = 0
<1>1. CASE PostProcesses
  <2>1. PICK rc \in Codes : wire' = wire \o <<Own("post_processing", rc)>>
    BY <1>1 DEF PostProcesses, Sends
  <2>2. Own("post_processing", rc) \in Events /\ Rank(Own("post_processing", rc)) = 0
    BY OwnEvents, Ranks DEF Statuses
  <2> QED BY <2>1, <2>2
<1>2. CASE OtherSends
  <2>1. PICK status \in Statuses, rc \in Codes : wire' = wire \o <<Message(status, Other, rc)>>
    BY <1>2, CodesAssumption, OtherAssumption DEF OtherSends, Sends, Statuses
  <2>2. Message(status, Other, rc) \in Events /\ Rank(Message(status, Other, rc)) = 0
    BY DEF Message, Events, Nodes, Rank, Mine, Other
  <2> QED BY <2>1, <2>2
<1> QED BY <1>1, <1>2

(* FailInv holds in every state. *)
LEMMA FailuresAreShown == Spec => []FailInv
<1>1. Init => FailInv
  <2> SUFFICES ASSUME Init PROVE FailInv
    OBVIOUS
  <2>1. failed = {} /\ \A s \in Verified : shown[Mine][s] = "IN_PROGRESS"
    BY DEF Init, Nodes, Stages, Verified
  <2> QED BY <2>1 DEF FailInv
<1>2. ASSUME IInv, IInv', FailInv, [Next]_vars PROVE FailInv'
  <2>1. CASE Milestone
    BY <1>2, <2>1, MilestonesFail
  <2>2. CASE Receive \/ Lose
    BY <1>2, <2>2, TakingFails
  <2>3. CASE PostProcesses \/ OtherSends
    <3>1. PICK m \in Events : wire' = wire \o <<m>> /\ Rank(m) = 0
      BY <1>2, <2>3, OneMore
    <3>2. UNCHANGED <<reached, failed, lost, shown>> /\ wire \in Seq(Events)
      BY <1>2, <2>3 DEF PostProcesses, OtherSends, Sends, page, IInv, TypeOK, Events
    <3> DEFINE msgs == <<m>>
    <3>3. msgs \in Seq(Events) /\ DOMAIN msgs = 1..1 /\ msgs[1] = m /\ wire' = wire \o msgs
      BY <3>1
    <3> HIDE DEF msgs
    <3>4. /\ \A k \in DOMAIN wire : k \in DOMAIN wire' /\ wire'[k] = wire[k]
          /\ \A k \in DOMAIN wire' : k \in DOMAIN wire \/ wire'[k] = m
      <4>1. /\ \A k \in DOMAIN wire : k \in DOMAIN wire' /\ wire'[k] = wire[k]
            /\ \A k \in DOMAIN wire' : k \in DOMAIN wire
                 \/ \E l \in DOMAIN msgs : k = Len(wire) + l /\ wire'[k] = msgs[l]
        BY <3>2, <3>3, WireGrows
      <4>2. \A l \in DOMAIN msgs : msgs[l] = m
        BY <3>3
      <4> QED BY <4>1, <4>2
    <3>5. Beyond(9)' => Beyond(9)
      BY <3>4 DEF Beyond
    <3>6. (\A k \in DOMAIN wire : Rank(wire[k]) = 9 => wire[k].status = "buildbin_complete")
            => (\A k \in DOMAIN wire' : Rank(wire'[k]) = 9 => wire'[k].status = "buildbin_complete")
      BY <3>1, <3>4
    <3> QED BY <1>2, <3>2, <3>5, <3>6 DEF FailInv, Level
  <2>4. CASE StartBuild \/ UNCHANGED vars
    BY <1>2, <2>4 DEF StartBuild, vars, page, FailInv, Level, Beyond
  <2> QED BY <1>2, <2>1, <2>2, <2>3, <2>4 DEF Next
<1> QED BY <1>1, <1>2, Invariant, PTL DEF Spec

(* packagebuilder.js:108-177, 260-308, 332-348, 399-460: once all events are  *)
(* handled and none was lost, a stage of the row has a verdict if and only   *)
(* if the builder has given one, is in progress while the builder is at it   *)
(* and not after, and a stage that failed is an ERROR, whatever the other    *)
(* node's builder sent meanwhile.                                            *)
THEOREM RowsMatchReports == Spec => []SettledMatchesReport
<1>1. ASSUME IInv, FailInv PROVE SettledMatchesReport
  <2> SUFFICES ASSUME ~lost, wire = <<>>, HasRow(Mine) PROVE SettledMatchesReport
    BY DEF SettledMatchesReport
  <2> DEFINE row == shown[Mine]
  <2> USE <1>1
  <2>1. /\ Past("built") <=> Level >= 4
        /\ Past("checked") <=> Level >= 7
        /\ Past("packaged") <=> Level >= 9
        /\ Past("processed") <=> Level >= 10
        /\ reached = "built" <=> Level = 4
        /\ reached = "checking" <=> Level = 5
        /\ reached = "packaging" <=> Level = 8
        /\ Level \in {0, 1, 4, 5, 7, 8, 9, 10}
    <3>1. reached \in Phases \ {"over"}
      BY DEF IInv, TypeOK, ReportInv
    <3>2. CASE reached \in {"silent", "started", "unsupported"}
      BY <3>2, Levels DEF Past, Level, Phases
    <3>3. CASE reached \in {"built", "checking"}
      BY <3>3, Levels DEF Past, Level, Phases
    <3>4. CASE reached \in {"checked", "packaging", "packaged"}
      BY <3>4, Levels DEF Past, Level, Phases
    <3>5. CASE reached \in {"processed", "finished"}
      BY <3>5, Levels DEF Past, Level, Phases
    <3> QED BY <3>1, <3>2, <3>3, <3>4, <3>5 DEF Phases
  <2>2. Beyond(9) /\ \A r \in SentRanks : Handled(r)
    BY DEF Handled, Beyond
  <2>3. /\ Level >= 4 => Handled(4)
        /\ Level >= 5 => Handled(5)
        /\ Level >= 7 => Handled(6) /\ Handled(2) /\ Handled(3) /\ Handled(7)
        /\ Level = 8 => Handled(8)
        /\ Level >= 9 => Handled(9)
        /\ Level >= 10 => Handled(10)
    <3>1. Level >= 5 => ran
      BY DEF IInv, ReportInv
    <3> HIDE DEF Level
    <3> QED BY <2>1, <2>2, <3>1 DEF SentRanks
  <2>4. Effects /\ Final("build", 4) /\ Final("check", 6) /\ Final("buildbin", 9)
    BY DEF IInv, RowInv
  <2>5. row["build"] \in Done <=> Past("built")
    BY <2>1, <2>3, <2>4 DEF Effects, Final
  <2>6. row["check"] \in Done <=> Past("checked")
    BY <2>1, <2>3, <2>4 DEF Effects, Final
  <2>7. row["buildbin"] \in Done => Past("packaged")
    BY <2>1, <2>4 DEF Final
  <2>8. reached = "checking" => row["check"] = "IN_PROGRESS"
    BY <2>1, <2>3, <2>4 DEF Effects
  <2>9. reached = "packaging" => row["buildbin"] = "IN_PROGRESS"
    BY <2>1, <2>3, <2>4 DEF Effects
  <2>10. Past("packaged") => row["buildbin"] # "IN_PROGRESS"
    BY <2>1, <2>3, <2>4 DEF Effects
  <2>11. \A stage \in failed : row[stage] = "ERROR"
    <3>1. \A stage \in failed : stage \in {"build", "check", "buildbin"}
      BY DEF IInv, TypeOK
    <3>2. "build" \in failed => row["build"] \in Done
      BY <2>1, <2>5 DEF FailInv
    <3>3. "check" \in failed => row["check"] \in Done
      BY <2>1, <2>6 DEF FailInv
    <3>4. "buildbin" \in failed => row["buildbin"] = "ERROR"
      BY <2>2 DEF FailInv
    <3> QED BY <3>1, <3>2, <3>3, <3>4 DEF FailInv, Done, Verified
  <2>12. reached = "built" => row["check"] = "skipped" /\ row["build"] = "ERROR"
    <3>1. reached = "built" => row["check"] = "skipped" /\ row["build"] \in Done
      BY <2>1, <2>3, <2>4 DEF Effects
    <3> QED BY <3>1 DEF FailInv, Done, Verified
  <2>13. row["postprocessing"] = "OK" <=> Past("processed")
    BY <2>1, <2>3, <2>4 DEF Effects
  <2>14. Past("checked") => {"command", "console", "check_command", "check_console"} \subseteq cells[Mine]
    BY <2>1, <2>3, <2>4 DEF Effects
  <2> HIDE <1>1
  <2> QED BY <2>5, <2>6, <2>7, <2>8, <2>9, <2>10, <2>11, <2>12, <2>13, <2>14
          DEF SettledMatchesReport, Done
<1> QED BY <1>1, Invariant, FailuresAreShown, PTL

(* packagebuilder.js:260-285: events lost or not, a verdict that the row     *)
(* shows for one of the stages of the build is never overwritten.            *)
THEOREM VerdictsAreFinal == Spec => VerdictsStand
<1> DEFINE Stays == \A s \in {"build", "check", "buildbin"} :
                      shown[Mine][s] \in {"OK", "WARNINGS", "ERROR"} => shown'[Mine][s] = shown[Mine][s]
<1>1. ASSUME IInv, Receive PROVE Stays
  <2> DEFINE m == wire[1]
  <2>1. wire # <<>> /\ Handle(m) /\ m \in Events /\ Sound(m) /\ 1 \in DOMAIN wire
    <3>1. wire # <<>> /\ wire' = Tail(wire) /\ Handle(Head(wire)) /\ wire \in Seq(Events)
      BY <1>1 DEF Receive, IInv, TypeOK, Events
    <3>2. Head(wire) = wire[1] /\ 1 \in DOMAIN wire
      BY <3>1, WireShrinks
    <3> QED BY <1>1, <3>1, <3>2 DEF IInv, WireInv
  <2>2. CASE m.node = Other
    BY <1>1, <2>1, <2>2, HandlingIsTyped DEF IInv, Sound
  <2>3. CASE m.node = Mine
    <3>1. OwnEffect(m)
      BY <1>1, <2>1, <2>3, OwnEventsShow DEF IInv, Sound
    <3>2. /\ shown[Mine]["build"] \in Done => Rank(m) # 4
          /\ shown[Mine]["check"] \in Done => Rank(m) \notin {4, 5, 6}
          /\ shown[Mine]["buildbin"] \in Done => Rank(m) \notin {4, 8, 9}
      BY <1>1, <2>1 DEF IInv, RowInv, Final, Beyond
    <3> QED BY <3>1, <3>2 DEF OwnEffect, Done
  <2> QED BY <2>1, <2>2, <2>3 DEF Events, Nodes
<1>2. ASSUME Next, ~Receive PROVE Stays
  <2>1. shown' = shown
    BY <1>2 DEF Next, StartBuild, Milestone, PostProcesses, OtherSends, Lose, Sends, page
  <2> QED BY <2>1
<1>3. IInv /\ [Next]_vars => [Stays]_vars
  BY <1>1, <1>2
<1> QED BY <1>3, Invariant, PTL DEF VerdictsStand, Spec
=============================================================================
