---------------------------- MODULE BuilderProofs ----------------------------
(***************************************************************************)
(* Builder for any platform, limits and signals: the inductive invariant    *)
(* IInv, what it says about verdicts, and the refinement of BuildReport.    *)
(***************************************************************************)
EXTENDS Builder, TLAPS

Early == {"setup", "connect", "version", "hello"}
Preparing == Early \cup {"clone", "dcf", "platform", "pkgtype", "deps", "gitcheck", "install", "build"}
BeforeBuilt == Preparing \cup {"building"}
BeforeChecked == BeforeBuilt \cup {"check", "rcheck", "bioccheck"}
BeforePackaged == BeforeChecked \cup {"bin", "binbuild"}
AfterBuilt == {"check", "rcheck", "bioccheck", "bin", "binbuild", "post", "normal_end"}

(* What the history says about a stage that is running or over. *)
Trouble == timedOut \cup failed

HistoryInv ==
  /\ running => pc \in Timed
  /\ pc \in Preparing => "building" \notin Trouble
  /\ pc \in BeforeBuilt \cup {"check"} => "rcheck" \notin Trouble
  /\ pc \in BeforeBuilt \cup {"check", "rcheck"} => "bioccheck" \notin Trouble
  /\ pc \in BeforeChecked \cup {"bin"} => "binbuild" \notin Trouble
  /\ running => pc \notin Trouble
  /\ pc \in Timed /\ pc \in timedOut => elapsed >= Limit
  /\ pc \in Timed /\ pc \in failed => exitcode # 0
  /\ pc = "bioccheck" /\ "rcheck" \in timedOut => rc1 = -9
  /\ pc = "bioccheck" /\ "rcheck" \in failed => rc1 # 0

(* Which events were sent by when, and that their codes are right. *)
EventOK(e) ==
  /\ pc \in BeforeBuilt => e.status # "build_complete"
  /\ pc \in BeforeChecked => e.status # "check_complete"
  /\ pc \in BeforePackaged => e.status # "buildbin_complete"
  /\ e.status = "build_complete" /\ "building" \in timedOut => e.retcode = -9
  /\ e.status = "check_complete" /\ timedOut \cap {"rcheck", "bioccheck"} # {} => e.retcode = -9
  /\ e.status = "buildbin_complete" /\ "binbuild" \in timedOut => e.retcode = -9
  /\ e.status = "check_complete" /\ e.retcode = 0
       => gitrc = 0 /\ {"rcheck", "bioccheck"} \cap Trouble = {}

EventsInv == \A i \in DOMAIN events : EventOK(events[i])

(* Who ends has spoken. *)
SpeakInv ==
  /\ pc \notin {"onexit", "over", "killed"} => cause = "none"
  /\ pc \in AfterBuilt => Sent("build_complete")
  /\ NoSilentEnd

(* The phase announced is the one main is in. *)
Phase == IF events = <<>> THEN "silent" ELSE PhaseOf(LastEvent.status)

PhaseInv ==
  /\ pc \in Early => events = <<>>
  /\ pc \in (Preparing \ Early) \cup {"building"} => Phase = "started"
  /\ pc = "check" => Phase = "built" /\ LastEvent.retcode \in {0, -4, -6}
  /\ pc \in {"rcheck", "bioccheck"} => Phase = "checking"
  /\ pc = "bin" => Phase = "checked"
  /\ pc = "binbuild" => Phase = "packaging"
  /\ pc = "post" => Phase = "packaged"
  /\ pc = "normal_end" => Phase = "processed"
  /\ pc = "onexit" => Phase # "over"

IInv == TypeOK /\ HistoryInv /\ EventsInv /\ SpeakInv /\ PhaseInv

-----------------------------------------------------------------------------
(* Limits and return codes are in range. *)
LEMMA Ranges ==
  /\ ExitCodes \subseteq Codes /\ KillCode \in Codes
  /\ TypeOK => Limit \in Nat /\ Limit <= LongLimit
BY SignalsAssumption, LimitsAssumption DEF ExitCodes, KillCode, Codes, Limit, TypeOK

(* What appending an event does to the events. *)
LEMMA AppendFacts ==
  ASSUME events \in Seq(Events), NEW e \in Events, events' = Append(events, e)
  PROVE  /\ events' \in Seq(Events)
         /\ Len(events') = Len(events) + 1 /\ Len(events) \in Nat
         /\ events'[Len(events')] = e
         /\ \A i \in DOMAIN events : i \in DOMAIN events' /\ events'[i] = events[i]
         /\ \A i \in DOMAIN events' : i \in DOMAIN events \/ events'[i] = e
         /\ Len(events') \in DOMAIN events'
OBVIOUS

(* The events sent are known by the last one and those before. *)
LEMMA SentFacts ==
  ASSUME events \in Seq(Events), NEW e \in Events, events' = Append(events, e),
         NEW status
  PROVE  Sent(status)' <=> Sent(status) \/ e.status = status
BY AppendFacts DEF Sent

(* Every event main sends is one of Events. *)
LEMMA EventTyped ==
  ASSUME NEW status \in Statuses, NEW rc \in Codes \cup {-1}, NEW warn \in BOOLEAN
  PROVE  /\ Event(status, rc, warn) \in Events
         /\ Event(status, rc, warn).status = status
         /\ Event(status, rc, warn).retcode = rc
         /\ Event(status, rc, warn).warnings = warn
BY DEF Event, Events

(* The verdicts are return codes. *)
LEMMA VerdictsTyped ==
  ASSUME TypeOK
  PROVE  /\ \A errors \in BOOLEAN : BuildCode(exitcode, errors, elapsed) \in Codes
         /\ RCheckCode \in Codes /\ BiocCheckCode \in Codes
         /\ CheckCode(rc1, BiocCheckCode, gitrc) \in Codes
BY DEF TypeOK, BuildCode, RCheckCode, BiocCheckCode, CheckCode, Codes

(* What stays as it is. *)
SameProc == running' = running /\ elapsed' = elapsed /\ exitcode' = exitcode
SameLocals ==
  long' = long /\ views' = views /\ gitrc' = gitrc /\ rc1' = rc1 /\ warnings' = warnings
SameHistory == cause' = cause /\ timedOut' = timedOut /\ failed' = failed

(* From the tuples of the actions to the variables. *)
LEMMA SameFacts ==
  /\ UNCHANGED proc => SameProc
  /\ UNCHANGED locals => SameLocals
  /\ UNCHANGED history => SameHistory
  /\ Stay => SameProc /\ SameLocals /\ SameHistory
  /\ UNCHANGED vars
       => pc' = pc /\ events' = events /\ SameProc /\ SameLocals /\ SameHistory
<1>1. UNCHANGED proc => SameProc
  BY DEF SameProc, proc
<1>2. UNCHANGED locals => SameLocals
  BY DEF SameLocals, locals
<1>3. UNCHANGED history => SameHistory
  BY DEF SameHistory, history
<1>4. Stay => UNCHANGED proc /\ UNCHANGED locals /\ UNCHANGED history
  BY DEF Stay
<1>5. UNCHANGED vars => /\ pc' = pc /\ events' = events
                        /\ UNCHANGED proc /\ UNCHANGED locals /\ UNCHANGED history
  BY DEF vars
<1> QED BY <1>1, <1>2, <1>3, <1>4, <1>5

(* An exception or a sys.exit changes the stage and its cause. *)
LEMMA LeaveFacts ==
  ASSUME NEW why, Leave(why)
  PROVE  /\ pc' = "onexit" /\ cause' = why /\ events' = events /\ SameProc /\ SameLocals
         /\ timedOut' = timedOut /\ failed' = failed
BY SameFacts DEF Leave

-----------------------------------------------------------------------------
(* The invariant holds at the start. *)
LEMMA InitIInv == Init => IInv
<1> SUFFICES ASSUME Init PROVE IInv
  OBVIOUS
<1> USE DEF Init
<1>1. TypeOK
  <2>1. events \in Seq(Events) /\ pc \in Stages
    BY DEF Stages
  <2>2. running \in BOOLEAN /\ long \in BOOLEAN /\ warnings \in BOOLEAN
    OBVIOUS
  <2>3. elapsed \in 0..LongLimit /\ exitcode \in Codes /\ gitrc \in Codes /\ rc1 \in Codes
    BY LimitsAssumption DEF Codes
  <2>4. /\ views \in {"Software", "other"}
        /\ cause \in {"none", "manifest", "connect", "version", "exception"}
        /\ timedOut \subseteq Timed /\ failed \subseteq Timed
    OBVIOUS
  <2> QED BY <2>1, <2>2, <2>3, <2>4 DEF TypeOK
<1>2. HistoryInv
  BY DEF HistoryInv, Trouble, Timed
<1>3. EventsInv
  BY DEF EventsInv
<1>4. SpeakInv
  BY DEF SpeakInv, NoSilentEnd, AfterBuilt
<1>5. PhaseInv
  BY DEF PhaseInv, Early, Preparing
<1> QED BY <1>1, <1>2, <1>3, <1>4, <1>5 DEF IInv

(* The history stays right whatever main does. *)
LEMMA HistoryStep == IInv /\ [Next]_vars => HistoryInv'
<1> SUFFICES ASSUME TypeOK, HistoryInv, SpeakInv, [Next]_vars PROVE HistoryInv'
  BY DEF IInv
<1> USE DEF HistoryInv, Trouble, Preparing, Early, BeforeBuilt, BeforeChecked, Timed,
            SameProc, SameLocals, SameHistory
<1> USE SameFacts, LeaveFacts
<1>1. CASE Prepare
  <2>1. pc \in Preparing /\ pc' \in Preparing \cup {"onexit", "over"}
    BY <1>1 DEF Prepare, Setup, SetupStomp, Version, Hello, GitClone, GetDcfInfo, CheckPlatform,
       GetPackageType, InstallPkgDeps, CheckGitClone, InstallPkg, Send
  <2>2. running' = running /\ timedOut' = timedOut /\ failed' = failed
    BY <1>1 DEF Prepare, Setup, SetupStomp, Version, Hello, GitClone, GetDcfInfo, CheckPlatform,
       GetPackageType, InstallPkgDeps, CheckGitClone, InstallPkg
  <2> QED BY <2>1, <2>2
<1>2. CASE BuildSource \/ ReportBuild
  BY <1>2 DEF BuildSource, ReportBuild, Spawn, Send, Waited, Forget, AfterBuild
<1>3. CASE Tick \/ TimerKills \/ SubprocessExits
  <2>1. CASE Tick
    BY <2>1, LimitsAssumption DEF Tick, TypeOK, Limit
  <2>2. CASE TimerKills
    BY <2>2 DEF TimerKills, Limit, KillCode
  <2>3. CASE SubprocessExits
    BY <2>3, LimitsAssumption DEF SubprocessExits, TypeOK, Limit
  <2> QED BY <1>3, <2>1, <2>2, <2>3
<1>4. CASE CheckPackage \/ ReportCheck \/ SkipBinary \/ BuildBinary \/ ReportBinary
  <2>1. CASE CheckPackage
    BY <2>1 DEF CheckPackage, Spawn
  <2>2. CASE BuildBinary
    BY <2>2 DEF BuildBinary, Spawn
  <2>3. CASE ReportCheck \/ ReportBinary
    <3>1. pc' \in {"bin", "post"}
      BY <2>3 DEF ReportCheck, ReportBinary, Send
    <3>4. ~running'
      BY <2>3 DEF ReportCheck, ReportBinary, Waited, Forget
    <3>2. pc' = "bin" => pc = "bioccheck"
      BY <2>3 DEF ReportCheck, ReportBinary, Send, Waited
    <3>3. timedOut' = timedOut /\ failed' = failed
      BY <2>3 DEF ReportCheck, ReportBinary
    <3> QED BY <3>1, <3>2, <3>3, <3>4
  <2>4. CASE SkipBinary
    BY <2>4 DEF SkipBinary, Send
  <2> QED BY <1>4, <2>1, <2>2, <2>3, <2>4
<1>5. CASE RCheckDone
  BY <1>5, LimitsAssumption DEF RCheckDone, Spawn, Waited, RCheckCode, TypeOK, Limit, Overdue
<1>6. CASE PostProcessing \/ NormalEnd \/ OnExit \/ Raise \/ Kill
  <2>1. pc' \in {"normal_end", "onexit", "over", "killed"}
    BY <1>6 DEF PostProcessing, NormalEnd, OnExit, Raise, Kill, Send
  <2>2. ~running'
    BY <1>6 DEF PostProcessing, NormalEnd, OnExit, Raise, Kill
  <2> QED BY <2>1, <2>2
<1>7. CASE UNCHANGED vars
  BY <1>7 DEF vars, Limit
<1> QED BY <1>1, <1>2, <1>3, <1>4, <1>5, <1>6, <1>7 DEF Next, Clocked, Terminated

-----------------------------------------------------------------------------
(* Main only goes forward, and the past it is judged by stays what it is. *)
Forward ==
  /\ \A S \in {BeforeBuilt, BeforeChecked, BeforePackaged} : pc' \in S => pc \in S
  /\ "building" \in timedOut' => "building" \in timedOut \/ pc \in BeforeBuilt
  /\ pc \notin BeforeChecked =>
       /\ gitrc' = gitrc
       /\ \A stage \in {"rcheck", "bioccheck"} :
            /\ stage \in timedOut' => stage \in timedOut
            /\ stage \in failed' => stage \in failed
  /\ "binbuild" \in timedOut' => "binbuild" \in timedOut \/ pc \in BeforePackaged

(* Every step goes forward. *)
LEMMA StepForward == IInv /\ [Next]_vars => Forward
<1> SUFFICES ASSUME TypeOK, HistoryInv, [Next]_vars PROVE Forward
  BY DEF IInv
<1> USE DEF Forward, Preparing, Early, BeforeBuilt, BeforeChecked, BeforePackaged,
            SameProc, SameLocals, SameHistory
<1> USE SameFacts, LeaveFacts
<1>1. CASE Prepare
  BY <1>1 DEF Prepare, Setup, SetupStomp, Version, Hello, GitClone, GetDcfInfo, CheckPlatform,
     GetPackageType, InstallPkgDeps, CheckGitClone, InstallPkg, Send
<1>2. CASE BuildSource \/ ReportBuild
  BY <1>2 DEF BuildSource, ReportBuild, Spawn, Send, Waited, AfterBuild
<1>3. CASE Tick \/ TimerKills \/ SubprocessExits
  BY <1>3 DEF Tick, TimerKills, SubprocessExits, HistoryInv, Timed
<1>4. CASE CheckPackage \/ RCheckDone \/ ReportCheck \/ SkipBinary \/ BuildBinary \/ ReportBinary
  BY <1>4 DEF CheckPackage, RCheckDone, ReportCheck, SkipBinary, BuildBinary, ReportBinary,
     Spawn, Send, Waited
<1>5. CASE PostProcessing \/ NormalEnd \/ OnExit \/ Raise \/ Kill
  BY <1>5 DEF PostProcessing, NormalEnd, OnExit, Raise, Kill, Send
<1>6. CASE UNCHANGED vars
  BY <1>6 DEF vars
<1> QED BY <1>1, <1>2, <1>3, <1>4, <1>5, <1>6 DEF Next, Clocked, Terminated

(* So an event that was right stays right. *)
LEMMA OldEvents ==
  ASSUME IInv, [Next]_vars, NEW e, EventOK(e)
  PROVE  EventOK(e)'
<1>1. Forward
  BY StepForward
<1> QED BY <1>1 DEF Forward, EventOK, Trouble

(* A step that sends one event keeps the events right if that one is. *)
LEMMA NewEvent ==
  ASSUME IInv, [Next]_vars, NEW e \in Events, events' = Append(events, e), EventOK(e)'
  PROVE  events' \in Seq(Events) /\ EventsInv'
<1>1. events' \in Seq(Events)
      /\ \A i \in DOMAIN events' : (i \in DOMAIN events /\ events'[i] = events[i]) \/ events'[i] = e
  BY AppendFacts DEF IInv, TypeOK
<1>2. \A i \in DOMAIN events : EventOK(events[i])'
  BY OldEvents DEF IInv, EventsInv
<1> QED BY <1>1, <1>2 DEF EventsInv

(* And so does a step that sends none. *)
LEMMA NoEvent ==
  ASSUME IInv, [Next]_vars, events' = events
  PROVE  events' \in Seq(Events) /\ EventsInv'
BY OldEvents DEF IInv, TypeOK, EventsInv

-----------------------------------------------------------------------------
(* What an event sent leaves behind. *)
LEMMA SaysFacts ==
  ASSUME IInv, NEW status \in Statuses, NEW rc \in Codes \cup {-1}, NEW warn \in BOOLEAN,
         events' = Append(events, Event(status, rc, warn))
  PROVE  /\ events' # <<>> /\ LastEvent'.status = status /\ LastEvent'.retcode = rc
         /\ Phase' = PhaseOf(status)
         /\ \A s : Sent(s)' <=> Sent(s) \/ s = status
<1> DEFINE e == Event(status, rc, warn)
<1>1. e \in Events /\ e.status = status /\ e.retcode = rc
  BY EventTyped
<1>2. events \in Seq(Events)
  BY DEF IInv, TypeOK
<1>3. events' # <<>> /\ LastEvent' = e
  BY <1>1, <1>2, AppendFacts DEF LastEvent
<1>4. \A s : Sent(s)' <=> Sent(s) \/ e.status = s
  <2> HIDE DEF e
  <2>1. events' = Append(events, e)
    BY DEF e
  <2> QED BY <1>1, <1>2, <2>1, SentFacts
<1> QED BY <1>1, <1>3, <1>4 DEF Phase

(* The phase each status stands for. *)
LEMMA PhaseValues ==
  /\ PhaseOf("started") = "started" /\ PhaseOf("unsupported") = "unsupported"
  /\ PhaseOf("build_complete") = "built" /\ PhaseOf("starting_check") = "checking"
  /\ PhaseOf("check_complete") = "checked" /\ PhaseOf("starting_buildbin") = "packaging"
  /\ PhaseOf("skip_buildbin") = "packaged" /\ PhaseOf("buildbin_complete") = "packaged"
  /\ PhaseOf("post_processing_complete") = "processed" /\ PhaseOf("normal_end") = "finished"
  /\ PhaseOf("autoexit") = "over"
BY DEF PhaseOf

(* A milestone is no verdict: it cannot be wrong. *)
LEMMA MilestoneSent ==
  ASSUME IInv, [Next]_vars, NEW warn \in BOOLEAN, NEW rc \in Codes \cup {-1},
         NEW status \in Statuses \ {"build_complete", "check_complete", "buildbin_complete"},
         events' = Append(events, Event(status, rc, warn))
  PROVE  events' \in Seq(Events) /\ EventsInv'
<1> DEFINE e == Event(status, rc, warn)
<1>1. e \in Events /\ e.status = status
  BY EventTyped
<1>2. EventOK(e)'
  BY <1>1 DEF EventOK
<1> QED BY <1>1, <1>2, NewEvent

(* A verdict must be the right one, and come when its stage is over. *)
LEMMA VerdictSent ==
  ASSUME IInv, [Next]_vars, NEW warn \in BOOLEAN, NEW rc \in Codes, NEW status \in Statuses,
         events' = Append(events, Event(status, rc, warn)),
         status = "build_complete" => pc' \notin BeforeBuilt /\ ("building" \in timedOut' => rc = -9),
         status = "check_complete" =>
           /\ pc' \notin BeforeChecked
           /\ timedOut' \cap {"rcheck", "bioccheck"} # {} => rc = -9
           /\ rc = 0 => gitrc' = 0 /\ {"rcheck", "bioccheck"} \cap Trouble' = {},
         status = "buildbin_complete" =>
           pc' \notin BeforePackaged /\ ("binbuild" \in timedOut' => rc = -9)
  PROVE  events' \in Seq(Events) /\ EventsInv'
<1> DEFINE e == Event(status, rc, warn)
<1>1. e \in Events /\ e.status = status /\ e.retcode = rc
  BY EventTyped
<1>2. EventOK(e)'
  BY <1>1 DEF EventOK
<1> QED BY <1>1, <1>2, NewEvent

-----------------------------------------------------------------------------
(* The events stay well formed and right. *)
LEMMA EventsStep == IInv /\ [Next]_vars => events' \in Seq(Events) /\ EventsInv'
<1> SUFFICES ASSUME IInv, [Next]_vars PROVE events' \in Seq(Events) /\ EventsInv'
  OBVIOUS
<1> USE SameFacts, LeaveFacts DEF Send, SameProc, SameLocals, SameHistory, Statuses
<1>0. 0 \in Codes /\ 1 \in Codes /\ -1 \in Codes \cup {-1} /\ warnings \in BOOLEAN
  BY DEF Codes, IInv, TypeOK
<1>1. CASE Hello
  BY <1>1, <1>0, MilestoneSent DEF Hello
<1>2. CASE GitClone
  <2>1. CASE events' = events
    BY <2>1, NoEvent
  <2>2. CASE events' # events
    <3>1. PICK rc \in ExitCodes : Send("build_complete", rc, FALSE, "onexit")
      BY <1>2, <2>2 DEF GitClone
    <3>2. rc \in Codes /\ pc = "clone" /\ timedOut' = timedOut
      BY <1>2, Ranges DEF GitClone
    <3>3. pc' \notin BeforeBuilt /\ "building" \notin timedOut'
      BY <3>1, <3>2 DEF IInv, HistoryInv, Trouble, BeforeBuilt, Preparing, Early
    <3> QED BY <3>1, <3>2, <3>3, VerdictSent
  <2> QED BY <2>1, <2>2
<1>3. CASE GetDcfInfo
  <2>1. CASE events' = events
    BY <2>1, NoEvent
  <2>2. CASE Send("build_complete", 1, FALSE, "onexit")
    <3>1. pc = "dcf" /\ timedOut' = timedOut
      BY <1>3 DEF GetDcfInfo
    <3>2. pc' \notin BeforeBuilt /\ "building" \notin timedOut'
      BY <2>2, <3>1 DEF IInv, HistoryInv, Trouble, BeforeBuilt, Preparing, Early
    <3> QED BY <1>0, <2>2, <3>2, VerdictSent
  <2> QED BY <1>3, <2>1, <2>2 DEF GetDcfInfo
<1>4. CASE CheckPlatform \/ GetPackageType
  <2>1. CASE events' = events
    BY <2>1, NoEvent
  <2>2. CASE Send("unsupported", 0, FALSE, "onexit")
    BY <1>0, <2>2, MilestoneSent
  <2> QED BY <1>4, <2>1, <2>2 DEF CheckPlatform, GetPackageType
<1>5. CASE ReportBuild
  <2> DEFINE rc(errors) == BuildCode(exitcode, errors, elapsed)
  <2>1. PICK errors, warn \in BOOLEAN : Send("build_complete", rc(errors), warn, AfterBuild(rc(errors)))
    BY <1>5 DEF ReportBuild
  <2>2. rc(errors) \in Codes
    BY <2>1, VerdictsTyped DEF IInv
  <2>3. pc = "building" /\ timedOut' = timedOut
    BY <1>5 DEF ReportBuild, Waited
  <2>4. pc' \notin BeforeBuilt
    BY <2>1 DEF AfterBuild, BeforeBuilt, Preparing, Early
  <2>5. "building" \in timedOut' => rc(errors) = -9
    BY <2>3 DEF IInv, HistoryInv, BuildCode, Timed
  <2> HIDE DEF rc
  <2> QED BY <2>1, <2>2, <2>4, <2>5, VerdictSent
<1>6. CASE CheckPackage
  BY <1>0, <1>6, MilestoneSent DEF CheckPackage
<1>7. CASE ReportCheck
  <2> DEFINE rc == CheckCode(rc1, BiocCheckCode, gitrc)
  <2>1. PICK warn \in BOOLEAN : Send("check_complete", rc, warn, "bin")
    BY <1>7 DEF ReportCheck
  <2>2. rc \in Codes
    BY VerdictsTyped DEF IInv
  <2>3. /\ pc = "bioccheck" /\ pc' = "bin"
        /\ timedOut' = timedOut /\ failed' = failed /\ gitrc' = gitrc
    BY <1>7 DEF ReportCheck, Waited
  <2>4. pc' \notin BeforeChecked
    BY <2>3 DEF BeforeChecked, BeforeBuilt, Preparing, Early
  <2>5. /\ "rcheck" \in timedOut => rc1 = -9
        /\ "rcheck" \in failed => rc1 # 0
        /\ "bioccheck" \in timedOut => BiocCheckCode = -9
        /\ "bioccheck" \in failed => BiocCheckCode # 0
    BY <2>3 DEF IInv, HistoryInv, BiocCheckCode, Timed, Trouble
  <2>6. /\ rc1 = -9 \/ BiocCheckCode = -9 => rc = -9
        /\ rc = 0 => rc1 = 0 /\ BiocCheckCode = 0 /\ gitrc = 0
    BY DEF CheckCode
  <2>7. timedOut' \cap {"rcheck", "bioccheck"} # {} => rc = -9
    BY <2>3, <2>5, <2>6
  <2>8. rc = 0 => gitrc' = 0 /\ {"rcheck", "bioccheck"} \cap Trouble' = {}
    BY <2>3, <2>5, <2>6 DEF Trouble
  <2> HIDE DEF rc
  <2> QED BY <2>1, <2>2, <2>4, <2>7, <2>8, VerdictSent
<1>8. CASE SkipBinary \/ BuildBinary
  BY <1>0, <1>8, MilestoneSent DEF SkipBinary, BuildBinary
<1>9. CASE ReportBinary
  <2> DEFINE rc(errors) == BuildCode(exitcode, errors, elapsed)
  <2>1. PICK errors, warn \in BOOLEAN : Send("buildbin_complete", rc(errors), warn, "post")
    BY <1>9 DEF ReportBinary
  <2>2. rc(errors) \in Codes
    BY <2>1, VerdictsTyped DEF IInv
  <2>3. pc = "binbuild" /\ timedOut' = timedOut
    BY <1>9 DEF ReportBinary, Waited
  <2>4. pc' \notin BeforePackaged
    BY <2>1 DEF BeforePackaged, BeforeChecked, BeforeBuilt, Preparing, Early
  <2>5. "binbuild" \in timedOut' => rc(errors) = -9
    BY <2>3 DEF IInv, HistoryInv, BuildCode, Timed
  <2> HIDE DEF rc
  <2> QED BY <2>1, <2>2, <2>4, <2>5, VerdictSent
<1>10. CASE PostProcessing \/ NormalEnd
  BY <1>0, <1>10, MilestoneSent DEF PostProcessing, NormalEnd
<1>11. CASE OnExit
  BY <1>0, <1>11, MilestoneSent, NoEvent DEF OnExit
<1>12. CASE Setup \/ SetupStomp \/ Version \/ InstallPkgDeps \/ CheckGitClone \/ InstallPkg
            \/ BuildSource \/ Tick \/ SubprocessExits \/ TimerKills \/ RCheckDone \/ Raise \/ Kill
            \/ UNCHANGED vars
  <2>1. events' = events
    BY <1>12 DEF Setup, SetupStomp, Version, InstallPkgDeps, CheckGitClone, InstallPkg,
       BuildSource, Tick, SubprocessExits, TimerKills, RCheckDone, Raise, Kill
  <2> QED BY <2>1, NoEvent
<1> QED
  BY <1>1, <1>2, <1>3, <1>4, <1>5, <1>6, <1>7, <1>8, <1>9, <1>10, <1>11, <1>12
  DEF Next, Prepare, Clocked, Terminated

-----------------------------------------------------------------------------
(* The state stays well formed. *)
LEMMA TypedStep == IInv /\ [Next]_vars => TypeOK'
<1> SUFFICES ASSUME IInv, [Next]_vars PROVE TypeOK'
  OBVIOUS
<1> USE SameFacts, LeaveFacts DEF Send, SameProc, SameLocals, SameHistory
<1> DEFINE
     LocalsOK ==
       /\ pc \in Stages
       /\ running \in BOOLEAN /\ elapsed \in 0..LongLimit /\ exitcode \in Codes
       /\ long \in BOOLEAN /\ views \in {"Software", "other"}
       /\ gitrc \in Codes /\ rc1 \in Codes /\ warnings \in BOOLEAN
       /\ cause \in {"none", "manifest", "connect", "version", "exception"}
       /\ timedOut \subseteq Timed /\ failed \subseteq Timed
<1>0. LocalsOK /\ 0 \in 0..LongLimit /\ 0 \in Codes /\ ExitCodes \subseteq Codes /\ KillCode \in Codes
  BY LimitsAssumption, Ranges DEF IInv, TypeOK, Codes
<1>1. CASE Prepare
  <2>1. pc' \in Stages
    BY <1>1 DEF Prepare, Setup, SetupStomp, Version, Hello, GitClone, GetDcfInfo, CheckPlatform,
       GetPackageType, InstallPkgDeps, CheckGitClone, InstallPkg, Stages
  <2>2. SameProc /\ timedOut' = timedOut /\ failed' = failed /\ rc1' = rc1 /\ warnings' = warnings
    BY <1>1 DEF Prepare, Setup, SetupStomp, Version, Hello, GitClone, GetDcfInfo, CheckPlatform,
       GetPackageType, InstallPkgDeps, CheckGitClone, InstallPkg
  <2>3. long' \in BOOLEAN /\ views' \in {"Software", "other"}
    <3>1. CASE GetPackageType
      <4>1. CASE UNCHANGED <<long, views>>
        BY <1>0, <4>1
      <4>2. CASE \E lv \in {<<TRUE, "other">>, <<FALSE, "Software">>, <<FALSE, "other">>} :
                  long' = lv[1] /\ views' = lv[2]
        <5>1. PICK lv \in {<<TRUE, "other">>, <<FALSE, "Software">>, <<FALSE, "other">>} :
                long' = lv[1] /\ views' = lv[2]
          BY <4>2
        <5>2. CASE lv = <<TRUE, "other">>
          BY <5>1, <5>2
        <5>3. CASE lv = <<FALSE, "Software">>
          BY <5>1, <5>3
        <5>4. CASE lv = <<FALSE, "other">>
          BY <5>1, <5>4
        <5> QED BY <5>1, <5>2, <5>3, <5>4
      <4> QED BY <3>1, <4>1, <4>2 DEF GetPackageType
    <3>2. CASE ~GetPackageType
      BY <1>0, <1>1, <3>2 DEF Prepare, Setup, SetupStomp, Version, Hello, GitClone, GetDcfInfo,
         CheckPlatform, InstallPkgDeps, CheckGitClone, InstallPkg
    <3> QED BY <3>1, <3>2
  <2>4. gitrc' \in Codes /\ cause' \in {"none", "manifest", "connect", "version", "exception"}
    BY <1>0, <1>1 DEF Prepare, Setup, SetupStomp, Version, Hello, GitClone, GetDcfInfo,
       CheckPlatform, GetPackageType, InstallPkgDeps, CheckGitClone, InstallPkg
  <2> QED BY <1>0, <2>1, <2>2, <2>3, <2>4, EventsStep DEF TypeOK
<1>2. CASE BuildSource \/ ReportBuild \/ CheckPackage \/ ReportCheck \/ SkipBinary \/ BuildBinary
           \/ ReportBinary \/ PostProcessing \/ NormalEnd \/ OnExit
  <2>1. pc' \in Stages
    BY <1>2 DEF BuildSource, ReportBuild, CheckPackage, ReportCheck, SkipBinary, BuildBinary,
       ReportBinary, PostProcessing, NormalEnd, OnExit, Spawn, AfterBuild, Stages, Timed
  <2>2. running' \in BOOLEAN /\ warnings' \in BOOLEAN
    BY <1>0, <1>2 DEF BuildSource, ReportBuild, CheckPackage, ReportCheck, SkipBinary, BuildBinary,
       ReportBinary, PostProcessing, NormalEnd, OnExit, Spawn, Forget
  <2>3. elapsed' \in 0..LongLimit /\ exitcode' \in Codes /\ rc1' \in Codes
    BY <1>0, <1>2 DEF BuildSource, ReportBuild, CheckPackage, ReportCheck, SkipBinary, BuildBinary,
       ReportBinary, PostProcessing, NormalEnd, OnExit, Spawn, Forget
  <2>4. SameHistory /\ long' = long /\ views' = views /\ gitrc' = gitrc
    BY <1>2 DEF BuildSource, ReportBuild, CheckPackage, ReportCheck, SkipBinary, BuildBinary,
       ReportBinary, PostProcessing, NormalEnd, OnExit
  <2> QED BY <1>0, <2>1, <2>2, <2>3, <2>4, EventsStep DEF TypeOK
<1>3. CASE Tick \/ SubprocessExits \/ TimerKills
  <2>1. pc' = pc /\ SameLocals /\ cause' = cause
    BY <1>3 DEF Tick, SubprocessExits, TimerKills
  <2>2. timedOut' \subseteq Timed /\ failed' \subseteq Timed
    BY <1>0, <1>3 DEF Tick, SubprocessExits, TimerKills, IInv, HistoryInv
  <2>3. running' \in BOOLEAN
    BY <1>0, <1>3 DEF Tick, SubprocessExits, TimerKills
  <2>4. elapsed' \in 0..LongLimit
    BY <1>0, <1>3, LimitsAssumption DEF Tick, SubprocessExits, TimerKills, Limit
  <2>5. exitcode' \in Codes
    BY <1>0, <1>3 DEF Tick, SubprocessExits, TimerKills
  <2> QED BY <1>0, <2>1, <2>2, <2>3, <2>4, <2>5, EventsStep DEF TypeOK
<1>4. CASE RCheckDone
  <2>1. RCheckCode \in Codes
    BY VerdictsTyped DEF IInv
  <2>2. CASE Leave("exception")
    BY <1>0, <2>2, EventsStep DEF TypeOK, Stages
  <2>3. CASE rc1' = RCheckCode /\ Spawn("bioccheck") /\ UNCHANGED <<long, views, gitrc, warnings, history>>
    BY <1>0, <2>1, <2>3, EventsStep DEF TypeOK, Spawn, Stages, Timed
  <2> QED BY <1>4, <2>2, <2>3 DEF RCheckDone
<1>5. CASE Raise
  BY <1>0, <1>5, EventsStep DEF Raise, TypeOK, Stages
<1>6. CASE Kill
  BY <1>0, <1>6, EventsStep DEF Kill, TypeOK, Stages
<1>7. CASE UNCHANGED vars
  BY <1>0, <1>7, EventsStep DEF TypeOK
<1> QED BY <1>1, <1>2, <1>3, <1>4, <1>5, <1>6, <1>7 DEF Next, Clocked, Terminated

-----------------------------------------------------------------------------
(* The control flow of main, with what each move says: the rest of the      *)
(* proof is about these two relations and not about the actions.            *)
QuietMove ==
  \/ pc' = pc /\ cause' = cause
  \/ /\ <<pc, pc'>> \in
          {<<"setup", "connect">>, <<"connect", "version">>, <<"version", "hello">>,
           <<"clone", "dcf">>, <<"dcf", "platform">>, <<"platform", "pkgtype">>,
           <<"pkgtype", "deps">>, <<"deps", "gitcheck">>, <<"gitcheck", "install">>,
           <<"install", "build">>, <<"build", "building">>, <<"rcheck", "bioccheck">>,
           <<"onexit", "over">>}
     /\ cause' = cause
  \/ pc \notin {"onexit", "over", "killed"} /\ pc' \in {"onexit", "over"} /\ cause' # "none"
  \/ pc \notin {"over", "killed"} /\ pc' = "killed" /\ cause' = cause

Says(status, rc) ==
  \/ pc = "hello" /\ status = "started" /\ rc = 0 /\ pc' = "clone"
  \/ pc \in {"clone", "dcf"} /\ status = "build_complete" /\ rc \in Codes /\ pc' = "onexit"
  \/ pc \in {"platform", "pkgtype"} /\ status = "unsupported" /\ rc = 0 /\ pc' = "onexit"
  \/ pc = "building" /\ status = "build_complete" /\ rc \in Codes /\ pc' = AfterBuild(rc)
  \/ pc = "check" /\ status = "starting_check" /\ rc = 0 /\ pc' = "rcheck"
  \/ pc = "bioccheck" /\ status = "check_complete" /\ rc \in Codes /\ pc' = "bin"
  \/ pc = "bin" /\ status = "skip_buildbin" /\ rc = 0 /\ pc' = "post"
  \/ pc = "bin" /\ status = "starting_buildbin" /\ rc = 0 /\ pc' = "binbuild"
  \/ pc = "binbuild" /\ status = "buildbin_complete" /\ rc \in Codes /\ pc' = "post"
  \/ pc = "post" /\ status = "post_processing_complete" /\ rc = 0 /\ pc' = "normal_end"
  \/ pc = "normal_end" /\ status = "normal_end" /\ rc = 0 /\ pc' = "onexit"
  \/ pc = "onexit" /\ status = "autoexit" /\ rc = -1 /\ pc' = "over"

Speaks ==
  \E status \in Statuses, rc \in Codes \cup {-1}, warn \in BOOLEAN :
    /\ events' = Append(events, Event(status, rc, warn))
    /\ Says(status, rc)
    /\ cause' = cause

(* Every step is one of these moves. *)
LEMMA StepMoves == IInv /\ [Next]_vars => (events' = events /\ QuietMove) \/ Speaks
<1> SUFFICES ASSUME IInv, [Next]_vars PROVE (events' = events /\ QuietMove) \/ Speaks
  OBVIOUS
<1> USE SameFacts, LeaveFacts DEF Send, SameProc, SameLocals, SameHistory, QuietMove
<1>0. 0 \in Codes /\ 1 \in Codes /\ -1 \in Codes \cup {-1} /\ warnings \in BOOLEAN
  BY DEF Codes, IInv, TypeOK
<1>1. ASSUME NEW status \in Statuses, NEW rc \in Codes \cup {-1}, NEW warn \in BOOLEAN,
             events' = Append(events, Event(status, rc, warn)), Says(status, rc), cause' = cause
      PROVE  Speaks
  BY <1>1 DEF Speaks
<1>2. CASE Setup \/ SetupStomp \/ Version \/ InstallPkgDeps \/ CheckGitClone \/ InstallPkg
  BY <1>2 DEF Setup, SetupStomp, Version, InstallPkgDeps, CheckGitClone, InstallPkg
<1>3. CASE BuildSource \/ Tick \/ SubprocessExits \/ TimerKills \/ RCheckDone
  BY <1>3 DEF BuildSource, Tick, SubprocessExits, TimerKills, RCheckDone, Waited, Spawn
<1>4. CASE Raise \/ Kill \/ UNCHANGED vars
  BY <1>4 DEF Raise, Kill
<1>5. CASE Hello
  BY <1>0, <1>1, <1>5 DEF Hello, Says, Statuses
<1>6. CASE GitClone
  BY <1>0, <1>1, <1>6, Ranges DEF GitClone, Says, Statuses
<1>7. CASE GetDcfInfo
  BY <1>0, <1>1, <1>7 DEF GetDcfInfo, Says, Statuses
<1>8. CASE CheckPlatform \/ GetPackageType
  BY <1>0, <1>1, <1>8 DEF CheckPlatform, GetPackageType, Says, Statuses
<1>9. CASE ReportBuild
  <2>1. PICK errors, warn \in BOOLEAN :
          LET rc == BuildCode(exitcode, errors, elapsed) IN
            Send("build_complete", rc, warn, AfterBuild(rc))
    BY <1>9 DEF ReportBuild
  <2>2. BuildCode(exitcode, errors, elapsed) \in Codes
    BY VerdictsTyped DEF IInv
  <2>3. pc = "building" /\ cause' = cause
    BY <1>9 DEF ReportBuild, Waited
  <2> QED BY <1>1, <2>1, <2>2, <2>3 DEF Says, Statuses
<1>10. CASE CheckPackage
  BY <1>0, <1>1, <1>10 DEF CheckPackage, Spawn, Says, Statuses
<1>11. CASE ReportCheck
  <2>1. CheckCode(rc1, BiocCheckCode, gitrc) \in Codes
    BY VerdictsTyped DEF IInv
  <2> QED BY <1>1, <1>11, <2>1 DEF ReportCheck, Waited, Says, Statuses
<1>12. CASE SkipBinary \/ BuildBinary
  BY <1>0, <1>1, <1>12 DEF SkipBinary, BuildBinary, Spawn, Says, Statuses
<1>13. CASE ReportBinary
  <2>1. \A errors \in BOOLEAN : BuildCode(exitcode, errors, elapsed) \in Codes
    BY VerdictsTyped DEF IInv
  <2> QED BY <1>1, <1>13, <2>1 DEF ReportBinary, Waited, Says, Statuses
<1>14. CASE PostProcessing \/ NormalEnd
  BY <1>0, <1>1, <1>14 DEF PostProcessing, NormalEnd, Says, Statuses
<1>15. CASE OnExit
  BY <1>0, <1>1, <1>15 DEF OnExit, Says, Statuses
<1> QED
  BY <1>2, <1>3, <1>4, <1>5, <1>6, <1>7, <1>8, <1>9, <1>10, <1>11, <1>12, <1>13, <1>14, <1>15
  DEF Next, Prepare, Clocked, Terminated

(* Who ends has spoken, in every step. *)
LEMMA SpeakStep == IInv /\ [Next]_vars => SpeakInv'
<1> SUFFICES ASSUME IInv, [Next]_vars PROVE SpeakInv'
  OBVIOUS
<1> USE DEF SpeakInv, NoSilentEnd, AfterBuilt
<1>1. CASE events' = events /\ QuietMove
  <2>1. \A status : Sent(status)' <=> Sent(status)
    BY <1>1 DEF Sent
  <2> QED BY <1>1, <2>1 DEF QuietMove, IInv
<1>2. CASE Speaks
  <2>1. PICK status \in Statuses, rc \in Codes \cup {-1}, warn \in BOOLEAN :
          /\ events' = Append(events, Event(status, rc, warn))
          /\ Says(status, rc)
          /\ cause' = cause
    BY <1>2 DEF Speaks
  <2>2. \A s : Sent(s)' <=> Sent(s) \/ s = status
    BY <2>1, SaysFacts
  <2> QED BY <2>1, <2>2 DEF Says, AfterBuild, IInv
<1> QED BY <1>1, <1>2, StepMoves

(* The phase announced stays the one main is in. *)
LEMMA PhaseStep == IInv /\ [Next]_vars => PhaseInv'
<1> SUFFICES ASSUME IInv, [Next]_vars PROVE PhaseInv'
  OBVIOUS
<1> USE DEF PhaseInv, Early, Preparing
<1>1. CASE events' = events /\ QuietMove
  <2>1. Phase' = Phase /\ LastEvent' = LastEvent
    BY <1>1 DEF Phase, LastEvent
  <2>2. (events = <<>> => Phase = "silent") /\ PhaseInv /\ pc \in Stages
    BY DEF Phase, IInv, TypeOK
  <2>3. CASE pc' \in {"onexit", "over"}
    BY <1>1, <2>1, <2>2, <2>3 DEF QuietMove, Stages, Timed
  <2>4. CASE pc' \notin {"onexit", "over"}
    BY <1>1, <2>1, <2>2, <2>4 DEF QuietMove
  <2> QED BY <2>3, <2>4
<1>2. CASE Speaks
  <2>1. PICK status \in Statuses, rc \in Codes \cup {-1}, warn \in BOOLEAN :
          /\ events' = Append(events, Event(status, rc, warn))
          /\ Says(status, rc)
          /\ cause' = cause
    BY <1>2 DEF Speaks
  <2>2. Phase' = PhaseOf(status) /\ LastEvent'.retcode = rc
    BY <2>1, SaysFacts
  <2> QED BY <2>1, <2>2, PhaseValues DEF Says, AfterBuild
<1> QED BY <1>1, <1>2, StepMoves

-----------------------------------------------------------------------------
(* IInv is an invariant of the builder. *)
LEMMA NextIInv == IInv /\ [Next]_vars => IInv'
BY TypedStep, HistoryStep, EventsStep, SpeakStep, PhaseStep DEF IInv

(* IInv holds in every state the builder can reach. *)
THEOREM Invariance == Spec => []IInv
BY InitIInv, NextIInv, PTL DEF Spec

(* The state of the builder is well formed. *)
THEOREM TypeCorrect == Spec => []TypeOK
<1>1. IInv => TypeOK
  BY DEF IInv
<1> QED BY <1>1, Invariance, PTL

(* A stage that ran into its limit is reported as -9 (builder.py's Timer    *)
(* and the clock that backs it up), whatever the limits and the platform.   *)
THEOREM TimeoutsAreReported == Spec => []TimeoutReported
<1>1. IInv => TimeoutReported
  BY DEF IInv, EventsInv, EventOK, TimeoutReported
<1> QED BY <1>1, Invariance, PTL

(* A check that is reported as passed passed (do_check's verdict). *)
THEOREM PassedIsPassed == Spec => []PassedMeansPassed
<1>1. IInv => PassedMeansPassed
  BY DEF IInv, EventsInv, EventOK, PassedMeansPassed, Trouble
<1> QED BY <1>1, Invariance, PTL

(* No way out of main but an exception or the version test is silent. *)
THEOREM EndsAreAnnounced == Spec => []NoSilentEnd
<1>1. IInv => NoSilentEnd
  BY DEF IInv, SpeakInv
<1> QED BY <1>1, Invariance, PTL

-----------------------------------------------------------------------------
(* The builder implements BuildReport: what it says, in the order it says   *)
(* it, is what a consumer of the topic may expect (builder.py:1078-1170).   *)
THEOREM Implements == Spec => ReportsInOrder
<1> DEFINE code == IF events = <<>> \/ PhaseOf(LastEvent.status) = "over"
                     THEN 0 ELSE LastEvent.retcode
<1>1. Init => Report!ReportInit
  BY DEF Init, Report!ReportInit
<1>2. IInv /\ [Next]_vars => [Report!ReportNext]_(Report!report)
  <2> SUFFICES ASSUME IInv, [Next]_vars PROVE [Report!ReportNext]_(Report!report)
    OBVIOUS
  <2>1. CASE events' = events
    BY <2>1 DEF Report!report, LastEvent
  <2>2. CASE Speaks
    <3>1. PICK status \in Statuses, rc \in Codes \cup {-1}, warn \in BOOLEAN :
            events' = Append(events, Event(status, rc, warn)) /\ Says(status, rc)
      BY <2>2 DEF Speaks
    <3>2. /\ events' # <<>> /\ LastEvent'.status = status /\ LastEvent'.retcode = rc
      BY <3>1, SaysFacts
    <3>3. Phase' = PhaseOf(status) /\ code' = IF PhaseOf(status) = "over" THEN 0 ELSE rc
      BY <3>2, <3>1, SaysFacts
    <3>4. PhaseInv
      BY DEF IInv
    <3>5. ASSUME NEW from, NEW to, NEW c, Phase = from, Phase' = to, code' = c
          PROVE  Report!Announce(from, to, c)
      BY <3>5 DEF Report!Announce, Phase
    <3>6. code = IF events = <<>> \/ Phase = "over" THEN 0 ELSE LastEvent.retcode
      BY DEF Phase
    <3>7. pc = "check" => code \in {0, -4, -6}
      BY <3>4, <3>6 DEF PhaseInv, Phase
    <3> HIDE DEF code
    <3>8. CASE pc = "hello" \/ pc \in {"clone", "dcf"} \/ pc \in {"platform", "pkgtype"}
               \/ pc = "building"
      <4>1. Phase = IF pc = "hello" THEN "silent" ELSE "started"
        BY <3>4, <3>8 DEF PhaseInv, Phase, Early, Preparing
      <4>2. \/ Report!Announce("silent", "started", 0)
            \/ Report!Announce("started", "unsupported", 0)
            \/ rc \in Codes /\ Report!Announce("started", "built", rc)
        BY <3>1, <3>3, <3>5, <3>8, <4>1, PhaseValues DEF Says
      <4> QED BY <4>2 DEF Report!ReportNext, Report!Started, Report!Unsupported, Report!Built
    <3>9. CASE pc = "check"
      <4>1. Report!Announce("built", "checking", 0)
        BY <3>1, <3>3, <3>4, <3>5, <3>9, PhaseValues DEF Says, PhaseInv
      <4>2. Report!Proceeds(code)
        BY <3>7, <3>9 DEF Report!Proceeds
      <4> QED BY <4>1, <4>2 DEF Report!ReportNext, Report!CheckStarted, code
    <3>10. CASE pc \in {"bioccheck", "bin", "binbuild"}
      <4>1. \/ rc \in Codes /\ Report!Announce("checking", "checked", rc)
            \/ Report!Announce("checked", "packaged", 0)
            \/ Report!Announce("checked", "packaging", 0)
            \/ rc \in Codes /\ Report!Announce("packaging", "packaged", rc)
        BY <3>1, <3>3, <3>4, <3>5, <3>10, PhaseValues DEF Says, PhaseInv
      <4> QED BY <4>1 DEF Report!ReportNext, Report!Checked, Report!BinarySkipped,
                 Report!BinaryStarted, Report!BinaryBuilt
    <3>11. CASE pc \in {"post", "normal_end"}
      <4>1. \/ Report!Announce("packaged", "processed", 0)
            \/ Report!Announce("processed", "finished", 0)
        BY <3>1, <3>3, <3>4, <3>5, <3>11, PhaseValues DEF Says, PhaseInv
      <4> QED BY <4>1 DEF Report!ReportNext, Report!Processed, Report!Finished
    <3>12. CASE pc = "onexit"
      <4>1. Phase # "over" /\ Phase' = "over" /\ code' = 0
        BY <3>1, <3>3, <3>4, <3>12, PhaseValues DEF Says, PhaseInv
      <4> QED BY <4>1 DEF Report!ReportNext, Report!Over, Phase, code
    <3> QED BY <3>1, <3>8, <3>9, <3>10, <3>11, <3>12 DEF Says
  <2> QED BY <2>1, <2>2, StepMoves
<1> QED BY <1>1, <1>2, Invariance, PTL DEF Spec, ReportsInOrder, Report!ReportSpec
=============================================================================
