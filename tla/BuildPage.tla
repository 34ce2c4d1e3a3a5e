------------------------------ MODULE BuildPage ------------------------------
(***************************************************************************)
(* The page of a build: node/public/javascripts/packagebuilder.js, with    *)
(* the rows of node/public/index.html.                                     *)
(*                                                                         *)
(* The page follows a builder that reports as BuildReport says, which      *)
(* Builder is shown to implement, and a second one on another node, of     *)
(* whatever version, that may send any status the page knows.  Events      *)
(* arrive in the order they were sent (WebRelay, StompConnection); some    *)
(* may be lost on the way.                                                 *)
(*                                                                         *)
(* An event has the fields that builder.py gives it, and a field that is   *)
(* not there reads as undefined: result_code is one of those.              *)
(***************************************************************************)
EXTENDS BuildReport, Sequences, SequencesExt

CONSTANTS
  MaxWire,  \* bound: events under way
  OtherStatuses  \* bound: what the other node's builder may send

Mine == "mine"     \* the node of the builder that is followed
Other == "other"   \* the other node
Nodes == {Mine, Other}
NoNode == "none"

VARIABLES
  reached,   \* history: the last milestone before the builder was over
  ran,       \* the build was run, not given up before
  failed,    \* history: the stages whose verdict was sent with a code but 0
  wire,      \* events on their way to the page, oldest first
  lost,      \* history: an event was lost between the builder and the page
  clicked,   \* start_build_button was clicked and is gone
  visible,   \* #initially_hidden is shown
  nodes,     \* nodes: one per row appended
  headers,   \* how often the header row was appended to #status_header
  shown,     \* per node and stage: the class of its SPANs
  cells,     \* per node: the texts of the row that have been filled
  retcell,   \* per node: what its RetCode cell has
  package    \* the node whose dcf_info set packageName

page == <<clicked, visible, nodes, headers, shown, cells, retcell, package>>
vars == <<report, reached, ran, failed, wire, lost, page>>

Stages == {"build", "check", "buildbin", "postprocessing"}
Classes == {"IN_PROGRESS", "OK", "WARNINGS", "ERROR", "skipped"}
TextCells == {"command", "console", "check_command", "check_console",
              "buildbin_command", "buildbin_console", "post_processing",
              "install_command"}

(* What the page's switch tells apart; "ignored" is its default. *)
Statuses ==
  {"svn_info", "dcf_info", "node_info", "build_not_required", "building", "checking",
   "clear_check_console", "buildingbin", "complete", "post_processing",
   "post_processing_complete", "build_failed", "r_cmd", "r_buildbin_cmd",
   "build_complete", "buildbin_complete", "invalid_url", "check_cmd",
   "check_complete", "starting_buildbin", "skip_buildbin", "ignored"}

(* An event may say that all went well, or that something failed; what the   *)
(* other node sends beside its node_info is something the page knows.        *)
ASSUME PageAssumption == MaxWire \in Nat
ASSUME CodesAssumption == {0, 1} \subseteq Codes
ASSUME OtherAssumption == OtherStatuses \subseteq Statuses \ {"node_info"}

Message(status, node, rc) == [status |-> status, node |-> node, retcode |-> rc]

(* A field of a message; undefined is equal to no number. *)
Undefined == -99
Field(m, name) == IF name \in DOMAIN m THEN m[name] ELSE Undefined

Init ==
  /\ ReportInit /\ reached = "silent" /\ ran = FALSE /\ failed = {}
  /\ wire = <<>> /\ lost = FALSE
  /\ clicked = FALSE /\ visible = FALSE
  /\ nodes = <<>> /\ headers = 0
  /\ shown = [n \in Nodes |-> [s \in Stages |-> "IN_PROGRESS"]]
  /\ cells = [n \in Nodes |-> {}] /\ retcell = [n \in Nodes |-> Undefined]
  /\ package = NoNode

-----------------------------------------------------------------------------
(* The builders. *)
Sends(messages) ==
  /\ Len(wire) + Len(messages) <= MaxWire
  /\ wire' = wire \o messages
  /\ UNCHANGED <<lost, page>>

Own(status, rc) == Message(status, Mine, rc)

(* The milestones that are the verdict of a stage. *)
VerdictOf == [built |-> "build", checked |-> "check", packaged |-> "buildbin"]

(* A milestone with the events around it.  A build that was run has its      *)
(* command and its output before its verdict; one given up before has not.   *)
Milestone ==
  /\ clicked
  /\ ran' \in IF phase = "started" THEN BOOLEAN ELSE {ran}
  /\ \/ Started /\ Sends(<<Own("ignored", 0), Own("node_info", 0)>>)
     \/ Unsupported /\ Sends(<<Own("ignored", 0), Own("post_processing", 0)>>)
     \/ Built /\ ran'
              /\ Sends(<<Own("dcf_info", 0), Own("r_cmd", 0), Own("building", 0),
                         Own("build_complete", code')>>)
     \/ Built /\ code' # 0 /\ ~ran'
              /\ Sends(<<Own("build_complete", code'), Own("post_processing", code')>>)
     \/ CheckStarted /\ ran /\ Sends(<<Own("ignored", 0), Own("check_cmd", 0)>>)
     \/ Checked /\ Sends(<<Own("check_complete", code'), Own("checking", 0),
                           Own("post_processing", code')>>)
     \/ BinaryStarted /\ Sends(<<Own("starting_buildbin", 0), Own("r_buildbin_cmd", 0)>>)
     \/ BinarySkipped /\ Sends(<<Own("skip_buildbin", 0)>>)
     \/ BinaryBuilt /\ Sends(<<Own("buildingbin", 0), Own("buildbin_complete", code')>>)
     \/ Processed /\ Sends(<<Own("post_processing_complete", 0)>>)
     \/ Finished /\ Sends(<<Own("ignored", 0)>>)
     \/ Over /\ Sends(<<Own("ignored", 0)>>)
  /\ reached' = IF phase' = "over" THEN phase ELSE phase'
  /\ failed' = failed \cup {VerdictOf[p] : p \in {p \in DOMAIN VerdictOf : p = phase' /\ code' # 0}}

(* The other steps tell how they ended: the clone, the installations, the    *)
(* builds, the copy of the tarball.                                          *)
PostProcesses ==
  /\ phase \in {"started", "packaging"}
  /\ \E rc \in Codes : Sends(<<Own("post_processing", rc)>>)
  /\ UNCHANGED <<report, reached, ran, failed>>

(* The other node's builder, with one event under way at a time (a bound). *)
OtherSends ==
  /\ clicked /\ \A k \in DOMAIN wire : wire[k].node = Mine
  /\ \/ \E status \in OtherStatuses, rc \in {0, 1} : Sends(<<Message(status, Other, rc)>>)
     \/ ~Contains(nodes, Other) /\ Sends(<<Message("node_info", Other, 0)>>)
  /\ UNCHANGED <<report, reached, ran, failed>>

(* An event that is lost may as well be lost where it would be handled. *)
Lose ==
  /\ wire # <<>>
  /\ wire' = Tail(wire) /\ lost' = TRUE
  /\ UNCHANGED <<report, reached, ran, failed, page>>

-----------------------------------------------------------------------------
(* jQuery changes what is there: a node without a row has no elements. *)
HasRow(n) == Contains(nodes, n)

(* handleEvent: a class for a stage, and "skipped" for those after an ERROR. *)
HandleEvent(class, stage, row) ==
  LET after == CASE class = "ERROR" /\ stage = "build" -> Stages \ {"build"}
                 [] class = "ERROR" /\ stage \in {"check", "buildbin"} -> {"postprocessing"}
                 [] OTHER -> {}
  IN [s \in Stages |-> IF s = stage THEN class ELSE IF s \in after THEN "skipped" ELSE row[s]]

(* Mutant of Verdict: the handlers ask for an error where they ask for a 0,   *)
(* and take a code that is not there for a good one.                         *)
VerdictOfErrors(m) ==
  IF Field(m, "result_code") \notin {0, Undefined} THEN "ERROR"
  ELSE IF "warnings" \in DOMAIN m /\ m.warnings THEN "WARNINGS" ELSE "OK"

(* The verdict of the handlers of the _complete events.  The warnings of an  *)
(* event are only looked at when its result_code is 0.                       *)
Verdict(m) ==
  IF Field(m, "result_code") # 0 THEN "ERROR"
  ELSE IF "warnings" \in DOMAIN m /\ m.warnings THEN "WARNINGS" ELSE "OK"

(* handleComplete reads result, handlePostProcessingComplete retcode. *)
Result(m, field) == IF Field(m, field) = 0 THEN "OK" ELSE "ERROR"

Show(n, class, stage) ==
  shown' = IF HasRow(n) THEN [shown EXCEPT ![n] = HandleEvent(class, stage, @)] ELSE shown

Fill(n, text) ==
  cells' = IF HasRow(n) THEN [cells EXCEPT ![n] = @ \cup {text}] ELSE cells
RetCode(m) ==
  retcell' = IF HasRow(m.node) THEN [retcell EXCEPT ![m.node] = Field(m, "result_code")]
             ELSE retcell
NoStage == UNCHANGED <<shown, retcell>>
NoText == UNCHANGED cells
NoCode == UNCHANGED retcell

(* handleDcfInfo: the first one names the package; every one fills its row.  *)
DcfInfo(n) ==
  /\ package' = IF package = NoNode THEN n ELSE package
  /\ NoStage /\ NoText
  /\ UNCHANGED <<visible, nodes, headers>>

(* Mutant of GotNewNode: the header comes with each row. *)
GotNewNodeAgain(n) ==
  /\ nodes' = Append(nodes, n)
  /\ headers' = headers + 1
  /\ NoStage /\ NoText
  /\ UNCHANGED <<visible, package>>

(* gotNewNode: a row from the template, the header with the first one. *)
GotNewNode(n) ==
  /\ nodes' = Append(nodes, n)
  /\ headers' = IF nodes = <<>> THEN 1 ELSE headers
  /\ NoStage /\ NoText
  /\ UNCHANGED <<visible, package>>

(* handleInvalidUrl: the message in place of all the rest. *)
InvalidUrl ==
  /\ visible' = FALSE
  /\ NoStage /\ NoText
  /\ UNCHANGED <<nodes, headers, package>>

(* The handlers that change a stage. *)
BuildComplete(m) == Show(m.node, Verdict(m), "build") /\ RetCode(m) /\ NoText
BuildBinComplete(m) == Show(m.node, Verdict(m), "buildbin") /\ RetCode(m) /\ NoText
CheckComplete(m) == Show(m.node, Verdict(m), "check") /\ NoCode /\ NoText
CheckCmd(m) == Show(m.node, "IN_PROGRESS", "check") /\ NoCode /\ Fill(m.node, "check_command")
StartingBuildBin(m) == Show(m.node, "IN_PROGRESS", "buildbin") /\ NoCode /\ NoText
(* Mutant of SkipBuildBin: the stage is shown as begun. *)
SkipBuildBinBegins(m) ==
  Show(m.node, "IN_PROGRESS", "buildbin") /\ NoCode /\ NoText

SkipBuildBin(m) == Show(m.node, "skipped", "buildbin") /\ NoCode /\ NoText
Complete(m) == Show(m.node, Result(m, "result"), "postprocessing") /\ NoCode /\ NoText
PostProcessingComplete(m) ==
  Show(m.node, Result(m, "retcode"), "postprocessing") /\ NoCode /\ NoText
BuildFailed(m) == Show(m.node, "ERROR", "build") /\ NoCode /\ NoText
BuildNotRequired(m) ==
  /\ Show(m.node, "skipped", "build") /\ NoCode
  /\ cells' = IF HasRow(m.node) THEN [cells EXCEPT ![m.node] = @ \cup {"console", "install_command"}]
              ELSE cells

StageEvent(m) ==
  /\ \/ m.status = "build_complete" /\ BuildComplete(m)
     \/ m.status = "buildbin_complete" /\ BuildBinComplete(m)
     \/ m.status = "check_complete" /\ CheckComplete(m)
     \/ m.status = "check_cmd" /\ CheckCmd(m)
     \/ m.status = "starting_buildbin" /\ StartingBuildBin(m)
     \/ m.status = "skip_buildbin" /\ SkipBuildBin(m)
     \/ m.status = "complete" /\ Complete(m)
     \/ m.status = "post_processing_complete" /\ PostProcessingComplete(m)
     \/ m.status = "build_failed" /\ BuildFailed(m)
     \/ m.status = "build_not_required" /\ BuildNotRequired(m)
  /\ UNCHANGED <<visible, nodes, headers, package>>

(* handlePostProcessing: an error is shown, the success of a step is not. *)
PostProcessing(m) ==
  /\ IF m.retcode = 0 THEN NoStage ELSE Show(m.node, "ERROR", "postprocessing") /\ NoCode
  /\ Fill(m.node, "post_processing")
  /\ UNCHANGED <<visible, nodes, headers, package>>

(* The handlers that put a text in place, and what they fill. *)
TextOf == [building |-> "console", checking |-> "check_console",
           buildingbin |-> "buildbin_console", r_cmd |-> "command",
           r_buildbin_cmd |-> "buildbin_command"]
TextEvent(m) ==
  /\ m.status \in DOMAIN TextOf
  /\ NoStage /\ Fill(m.node, TextOf[m.status])
  /\ UNCHANGED <<visible, nodes, headers, package>>

(* handleClearCheckConsole. *)
ClearCheckConsole(n) ==
  /\ cells' = [cells EXCEPT ![n] = @ \ {"check_console"}]
  /\ NoStage
  /\ UNCHANGED <<visible, nodes, headers, package>>

(* The rest, svn_info included, shows nothing of a node. *)
NothingOfANode == UNCHANGED <<visible, nodes, headers, shown, cells, retcell, package>>

(* socket.on('message'): the switch over the status. *)
Handle(m) ==
  \/ m.status = "dcf_info" /\ DcfInfo(m.node)
  \/ m.status = "node_info" /\ GotNewNode(m.node)
  \/ m.status = "invalid_url" /\ InvalidUrl
  \/ m.status = "post_processing" /\ PostProcessing(m)
  \/ m.status = "clear_check_console" /\ ClearCheckConsole(m.node)
  \/ StageEvent(m)
  \/ TextEvent(m)
  \/ m.status \in {"svn_info", "ignored"} /\ NothingOfANode

(* Mutant of Receive: the page takes the newest event first. *)
ReceiveNewest ==
  /\ wire # <<>>
  /\ Handle(Last(wire))
  /\ wire' = Front(wire)
  /\ UNCHANGED <<report, reached, ran, failed, lost, clicked>>

Receive ==
  /\ wire # <<>>
  /\ Handle(Head(wire))
  /\ wire' = Tail(wire)
  /\ UNCHANGED <<report, reached, ran, failed, lost, clicked>>

(* The button: the job message is sent and the form replaced, so that a page *)
(* asks for one build.                                                       *)
StartBuild ==
  /\ ~clicked
  /\ clicked' = TRUE /\ visible' = TRUE
  /\ UNCHANGED <<report, reached, ran, failed, wire, lost, nodes, headers, shown, cells, retcell,
                 package>>

Next == \/ StartBuild \/ Milestone \/ PostProcesses \/ OtherSends
        \/ Lose \/ Receive

Spec == Init /\ [][Next]_vars

(* What is under way arrives. *)
Fairness == WF_vars(Receive)

-----------------------------------------------------------------------------
(* The state is well formed: one header over the table and one row for each  *)
(* node, however the events of two builders are mixed.                       *)
(* (packagebuilder.js:214-257.)                                              *)
TypeOK ==
  /\ headers = IF nodes = <<>> THEN 0 ELSE 1
  /\ \A j, k \in DOMAIN nodes : nodes[j] = nodes[k] => j = k
  /\ phase \in Phases /\ code \in Codes /\ reached \in Phases /\ ran \in BOOLEAN
  /\ failed \subseteq {"build", "check", "buildbin"}
  /\ wire \in Seq([status : Statuses, node : Nodes, retcode : Codes]) /\ Len(wire) <= MaxWire
  /\ lost \in BOOLEAN /\ clicked \in BOOLEAN /\ visible \in BOOLEAN
  /\ nodes \in Seq(Nodes)
  /\ shown \in [Nodes -> [Stages -> Classes]]
  /\ cells \in [Nodes -> SUBSET TextCells]
  /\ retcell \in [Nodes -> Codes \cup {Undefined}]
  /\ package \in {NoNode} \cup Nodes

(* The report has come as far as p, which may have been a while ago. *)
Past(p) == reached \in
  CASE p = "built" -> {"built"} \cup (Phases \ {"silent", "started", "unsupported"})
    [] p = "checking" -> {"checking", "checked", "packaging", "packaged", "processed", "finished"}
    [] p = "checked" -> {"checked", "packaging", "packaged", "processed", "finished"}
    [] p = "packaged" -> {"packaged", "processed", "finished"}
    [] p = "processed" -> {"processed", "finished"}

(* With no event lost or under way, a stage of the row has a verdict if and  *)
(* only if the builder has given one, a stage that the builder is at is in   *)
(* progress and one that it is done with is not, and a stage whose verdict   *)
(* came with a code but 0 is an ERROR: no failure is shown as a success,     *)
(* whatever the other node's builder sent.  A build that is an ERROR, and no *)
(* other, takes the check for skipped until the check begins; the post-      *)
(* processing is OK at the end and only then; and the commands and outputs   *)
(* of a build that was checked are there.  That a good verdict is shown as   *)
(* one is not said: it is not (see Verdict).                                 *)
(* (packagebuilder.js:108-177, 260-308, 332-348, 399-460.)                   *)
SettledMatchesReport ==
  LET row == shown[Mine]
      Done == {"OK", "WARNINGS", "ERROR"}
  IN
  (~lost /\ wire = <<>> /\ HasRow(Mine)) =>
    /\ row["build"] \in Done <=> Past("built")
    /\ row["check"] \in Done <=> Past("checked")
    /\ row["buildbin"] \in Done => Past("packaged")
    /\ reached = "checking" => row["check"] = "IN_PROGRESS"
    /\ reached = "packaging" => row["buildbin"] = "IN_PROGRESS"
    /\ Past("packaged") => row["buildbin"] # "IN_PROGRESS"
    /\ \A stage \in failed : row[stage] = "ERROR"
    /\ reached = "built" => (row["check"] = "skipped" <=> row["build"] = "ERROR")
    /\ row["postprocessing"] = "OK" <=> Past("processed")
    /\ Past("checked") =>
         {"command", "console", "check_command", "check_console"} \subseteq cells[Mine]

(* Lost events or not, a verdict that a row shows for one of the stages of   *)
(* the build is the last word about it.  (packagebuilder.js:260-285.)        *)
VerdictsStand ==
  [][\A s \in {"build", "check", "buildbin"} :
       shown[Mine][s] \in {"OK", "WARNINGS", "ERROR"} => shown'[Mine][s] = shown[Mine][s]]_vars

(* Once the builder is done with the post-processing, the row shows nothing  *)
(* in progress in the end, unless an event was lost.                         *)
(* (packagebuilder.js:399-407.)                                              *)
NothingStaysInProgress ==
  (phase = "processed")
    ~> (lost \/ \A s \in Stages : shown[Mine][s] # "IN_PROGRESS")

(* public/index.html:102 labels a cell "RetCode": once the verdict of the     *)
(* build has come, the cell has the code it came with.                        *)
RetCodeIsShown ==
  (~lost /\ wire = <<>> /\ HasRow(Mine) /\ reached = "built" /\ phase = "built")
    => retcell[Mine] = code
=============================================================================
