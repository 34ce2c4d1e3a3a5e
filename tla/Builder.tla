------------------------------- MODULE Builder -------------------------------
(***************************************************************************)
(* workers/builder.py: one process per request.  It reads the manifest,    *)
(* clones the package, installs, builds, checks and packages it, and sends *)
(* an event to the events topic at each milestone.  The build and check    *)
(* subprocesses run against a Timer that kills them; main ends early by    *)
(* sys.exit or by an exception anywhere, and onexit runs either way.       *)
(*                                                                         *)
(* Only the milestone events are kept; the narrative ones (preprocessing,  *)
(* post_processing, the command lines, the outputs) carry no verdict, and  *)
(* one that cannot be sent is an exception of its step like any other.     *)
(* Time is counted in ticks while a timed subprocess runs.                 *)
(***************************************************************************)
EXTENDS Integers, Sequences

CONSTANTS
  Platform,      \* "Linux", "Darwin" or "Windows"
  WarnLimit,     \* 600 seconds, in ticks: a Software check may take that long
  TimeoutLimit,  \* timeout_limit of the node's .properties file
  LongLimit,     \* 10800 seconds: workflows, books and experiment data
  Signals        \* the signals a subprocess may die of, as POSIX wait() codes

ASSUME PlatformAssumption == Platform \in {"Linux", "Darwin", "Windows"}
ASSUME LimitsAssumption ==
  /\ WarnLimit \in Nat \ {0} /\ TimeoutLimit \in Nat /\ LongLimit \in Nat
  /\ WarnLimit <= TimeoutLimit /\ TimeoutLimit <= LongLimit
ASSUME SignalsAssumption == Signals \subseteq {-4, -6, -9}

VARIABLES
  pc,        \* the function main is in
  events,    \* the milestone events sent
  running,   \* a timed subprocess is running
  elapsed,   \* for how long it has, or had when it ended
  exitcode,  \* what wait() returns for it
  long,      \* longBuild
  views,     \* pkg_type_views: "Software" or "other"
  gitrc,     \* gitclone_retcode
  rc1,       \* retcode1, of R CMD check
  warnings,  \* the global of that name
  cause,     \* history: why main was left before its end without a verdict
  timedOut,  \* history: the timed stages that reached their limit
  failed     \* history: the timed stages whose command failed by itself

proc == <<running, elapsed, exitcode>>
locals == <<long, views, gitrc, rc1, warnings>>
history == <<cause, timedOut, failed>>
vars == <<pc, events, proc, locals, history>>

Timed == {"building", "rcheck", "bioccheck", "binbuild"}
Stages ==
  {"setup", "connect", "version", "hello", "clone", "dcf", "platform",
   "pkgtype", "deps", "gitcheck", "install", "build", "check", "bin", "post",
   "normal_end", "onexit", "over", "killed"} \cup Timed

(* What wait() may return; there are no signals on Windows, a kill is a 1. *)
ExitCodes == {0, 1} \cup (IF Platform = "Windows" THEN {} ELSE Signals)
KillCode == IF Platform = "Windows" THEN 1 ELSE -9
Codes == {0, 1, -4, -6, -9}

Limit == IF long THEN LongLimit ELSE TimeoutLimit

Statuses ==
  {"started", "unsupported", "build_complete", "starting_check", "check_complete",
   "skip_buildbin", "starting_buildbin", "buildbin_complete",
   "post_processing_complete", "normal_end", "autoexit"}
Events == [status : Statuses, retcode : Codes \cup {-1}, warnings : BOOLEAN]
Event(status, rc, warn) == [status |-> status, retcode |-> rc, warnings |-> warn]
LastEvent == events[Len(events)]
Sent(status) == \E i \in DOMAIN events : events[i].status = status

Init ==
  /\ pc = "setup" /\ events = <<>>
  /\ running = FALSE /\ elapsed = 0 /\ exitcode = 0
  /\ long = FALSE /\ views = "other" /\ gitrc = 0 /\ rc1 = 0 /\ warnings = FALSE
  /\ cause = "none" /\ timedOut = {} /\ failed = {}

-----------------------------------------------------------------------------
(* send_message: sent and on with main, or the reconnect fails as well. *)
Send(status, rc, warn, next) ==
  /\ events' = Append(events, Event(status, rc, warn))
  /\ pc' = next

(* An exception, or sys.exit, with no verdict sent for it. *)
Leave(why) ==
  /\ pc' = "onexit"
  /\ cause' = why
  /\ UNCHANGED <<events, proc, locals, timedOut, failed>>

Stay == UNCHANGED <<proc, locals, history>>

(* The manifest is no JSON: onexit is not registered yet. *)
Setup ==
  /\ pc = "setup"
  /\ \/ pc' = "connect" /\ UNCHANGED cause
     \/ pc' = "over" /\ cause' = "manifest"
  /\ UNCHANGED <<events, proc, locals, timedOut, failed>>

SetupStomp ==
  /\ pc = "connect"
  /\ \/ pc' = "version" /\ UNCHANGED events /\ Stay
     \/ Leave("connect")

Version ==
  /\ pc = "version"
  /\ \/ pc' = "hello" /\ UNCHANGED events /\ Stay
     \/ Leave("version")

(* "Builder has been started", then node_info. *)
Hello ==
  /\ pc = "hello"
  /\ Send("started", 0, FALSE, "clone")
  /\ Stay

(* Mutant of GitClone: a failed clone ends the builder without a word. *)
GitCloneQuiet ==
  /\ pc = "clone"
  /\ \E rc \in ExitCodes : pc' = IF rc = 0 THEN "dcf" ELSE "onexit"
  /\ UNCHANGED events /\ Stay

GitClone ==
  /\ pc = "clone"
  /\ \E rc \in ExitCodes :
       IF rc = 0
       THEN pc' = "dcf" /\ UNCHANGED events
       ELSE Send("build_complete", rc, FALSE, "onexit")
  /\ Stay

(* The bare except reports any trouble with DESCRIPTION, a failed send of its *)
(* own included; a name that does not match is reported the same way.        *)
GetDcfInfo ==
  /\ pc = "dcf"
  /\ \/ pc' = "platform" /\ UNCHANGED events
     \/ Send("build_complete", 1, FALSE, "onexit")
  /\ Stay

CheckPlatform ==
  /\ pc = "platform"
  /\ \/ pc' = "pkgtype" /\ UNCHANGED events
     \/ Send("unsupported", 0, FALSE, "onexit")
  /\ Stay

(* Workflows and books, Docker containers, and the rest by their biocViews. *)
GetPackageType ==
  /\ pc = "pkgtype"
  /\ \/ Send("unsupported", 0, FALSE, "onexit") /\ UNCHANGED <<long, views>>
     \/ /\ \E lv \in {<<TRUE, "other">>, <<FALSE, "Software">>, <<FALSE, "other">>} :
             long' = lv[1] /\ views' = lv[2]
        /\ pc' = "deps" /\ UNCHANGED events
  /\ UNCHANGED <<proc, gitrc, rc1, warnings, history>>

(* A failed install is only logged. *)
InstallPkgDeps ==
  /\ pc = "deps" /\ pc' = "gitcheck"
  /\ UNCHANGED events /\ Stay

CheckGitClone ==
  /\ pc = "gitcheck" /\ pc' = "install"
  /\ gitrc' \in ExitCodes
  /\ UNCHANGED <<events, proc, long, views, rc1, warnings, history>>

InstallPkg ==
  /\ pc = "install" /\ pc' = "build"
  /\ UNCHANGED events /\ Stay

-----------------------------------------------------------------------------
(* Popen and Timer.start; the subprocess dies by itself or by the Timer. *)
Spawn(stage) ==
  /\ pc' = stage
  /\ running' = TRUE /\ elapsed' = 0 /\ UNCHANGED exitcode

Tick ==
  /\ running /\ elapsed < Limit
  /\ elapsed' = elapsed + 1
  /\ UNCHANGED <<pc, events, running, exitcode, locals, history>>

SubprocessExits ==
  /\ running
  /\ running' = FALSE
  /\ exitcode' \in ExitCodes
  /\ failed' = IF exitcode' = 0 THEN failed ELSE failed \cup {pc}
  /\ timedOut' = IF elapsed < Limit THEN timedOut ELSE timedOut \cup {pc}
  /\ UNCHANGED <<pc, events, elapsed, locals, cause>>

(* Mutant of TimerKills: long builds run without a Timer. *)
TimerKillsShort ==
  /\ running /\ elapsed >= Limit /\ ~long
  /\ running' = FALSE
  /\ exitcode' = KillCode
  /\ timedOut' = timedOut \cup {pc}
  /\ UNCHANGED <<pc, events, elapsed, locals, cause, failed>>

TimerKills ==
  /\ running /\ elapsed >= Limit
  /\ running' = FALSE
  /\ exitcode' = KillCode
  /\ timedOut' = timedOut \cup {pc}
  /\ UNCHANGED <<pc, events, elapsed, locals, cause, failed>>

(* wait() has returned in this stage; its result is local to the function. *)
Waited(stage) == pc = stage /\ ~running
Forget == elapsed' = 0 /\ exitcode' = 0 /\ UNCHANGED running

(* Mutant of BuildCode: the Timer's kill is trusted to give a -9. *)
BuildCodeNoClock(rc, errors, time) == IF errors /\ rc # -9 THEN 1 ELSE rc

(* build_package: an "ERROR:" line in the output makes it a 1, a duration at *)
(* the limit a -9 ("to catch windows timeout"), in this order.               *)
BuildCode(rc, errors, time) ==
  IF time >= Limit THEN -9 ELSE IF errors THEN 1 ELSE rc

(* build_package(True) up to the subprocess. *)
BuildSource ==
  /\ pc = "build"
  /\ Spawn("building")
  /\ UNCHANGED <<events, locals, history>>

(* Mutant of AfterBuild: main does not look at the result. *)
AfterBuildAlways(rc) == "check"

(* A -4 or -6 is reported, and then taken for a 0 by main. *)
AfterBuild(rc) == IF rc \in {0, -4, -6} THEN "check" ELSE "onexit"

ReportBuild ==
  /\ Waited("building")
  /\ \E errors, warn \in BOOLEAN :
       LET rc == BuildCode(exitcode, errors, elapsed) IN
         /\ Send("build_complete", rc, warn, AfterBuild(rc))
         /\ warnings' = warn
  /\ Forget
  /\ UNCHANGED <<long, views, gitrc, rc1, history>>

(* main forgets the warnings of the build before it checks. *)
CheckPackage ==
  /\ pc = "check"
  /\ events' = Append(events, Event("starting_check", 0, FALSE))
  /\ Spawn("rcheck")
  /\ warnings' = FALSE
  /\ UNCHANGED <<long, views, gitrc, rc1, history>>

Overdue == WarnLimit <= elapsed /\ views = "Software"

(* do_check: ten minutes of a Software package make it a -4 ... *)
RCheckCode == IF elapsed >= Limit THEN -9 ELSE IF Overdue THEN -4 ELSE exitcode

(* ... and a -4 that is a signal finds warntime unbound. *)
RCheckDone ==
  /\ Waited("rcheck")
  /\ IF RCheckCode = -4 /\ ~Overdue
     THEN Leave("exception")
     ELSE /\ rc1' = RCheckCode
          /\ Spawn("bioccheck")
          /\ UNCHANGED <<events, long, views, gitrc, warnings, history>>

BiocCheckCode == IF elapsed >= Limit THEN -9 ELSE exitcode

(* Mutant of CheckCode: BiocCheckGitClone is left out of the verdict. *)
CheckCodeNoGit(r1, r2, git) ==
  CASE r1 = 0 /\ r2 = 0 -> 0
    [] r1 = -4 /\ r2 = 0 -> -4
    [] r1 = -9 \/ r2 = -9 -> -9
    [] OTHER -> 1

CheckCode(r1, r2, git) ==
  CASE r1 = 0 /\ r2 = 0 /\ git = 0 -> 0
    [] r1 = -4 /\ r2 = 0 /\ git = 0 -> -4
    [] r1 = -9 \/ r2 = -9 -> -9
    [] OTHER -> 1

(* The overdue text written to the output is a "WARNING:" line itself.  The *)
(* warnings found here are a local variable of do_check.                    *)
ReportCheck ==
  /\ Waited("bioccheck")
  /\ \E warn \in IF rc1 = -4 THEN {TRUE} ELSE BOOLEAN :
       Send("check_complete", CheckCode(rc1, BiocCheckCode, gitrc), warn, "bin")
  /\ Forget /\ rc1' = 0
  /\ UNCHANGED <<long, views, gitrc, warnings, history>>

(* build_package(False): the Linux node's pkgType is "source". *)
SkipBinary ==
  /\ pc = "bin" /\ Platform = "Linux"
  /\ Send("skip_buildbin", 0, FALSE, "post")
  /\ Stay

BuildBinary ==
  /\ pc = "bin" /\ Platform # "Linux"
  /\ events' = Append(events, Event("starting_buildbin", 0, FALSE))
  /\ Spawn("binbuild")
  /\ UNCHANGED <<locals, history>>

(* main ignores the result. *)
ReportBinary ==
  /\ Waited("binbuild")
  /\ \E errors, warn \in BOOLEAN :
       /\ Send("buildbin_complete", BuildCode(exitcode, errors, elapsed), warn, "post")
       /\ warnings' = warn
  /\ Forget
  /\ UNCHANGED <<long, views, gitrc, rc1, history>>

PostProcessing ==
  /\ pc = "post"
  /\ Send("post_processing_complete", 0, FALSE, "normal_end")
  /\ Stay

(* The body says "Build completed with warnings." or "Build successful.". *)
NormalEnd ==
  /\ pc = "normal_end"
  /\ Send("normal_end", 0, warnings, "onexit")
  /\ Stay

-----------------------------------------------------------------------------
(* A send that fails twice, a file that is gone, a tarball that is None. *)
Raise ==
  /\ pc \in Stages \ {"setup", "connect", "version", "onexit", "over", "killed"}
  /\ ~running
  /\ Leave("exception")

(* onexit: the directory is cleaned, then autoexit is sent if it can be. *)
OnExit ==
  /\ pc = "onexit"
  /\ \/ cause # "connect" /\ Send("autoexit", -1, FALSE, "over")
     \/ pc' = "over" /\ UNCHANGED events
  /\ Stay

(* kill-spb.sh, or the node goes down; an orphaned R is not followed. *)
Kill ==
  /\ pc \notin {"over", "killed"}
  /\ pc' = "killed"
  /\ running' = FALSE /\ elapsed' = 0 /\ exitcode' = 0
  /\ UNCHANGED <<events, locals, history>>

Terminated == pc \in {"over", "killed"} /\ UNCHANGED vars

Prepare ==
  \/ Setup \/ SetupStomp \/ Version \/ Hello \/ GitClone \/ GetDcfInfo
  \/ CheckPlatform \/ GetPackageType \/ InstallPkgDeps \/ CheckGitClone
  \/ InstallPkg

(* The steps nothing outside can hold up: the Timer bounds the subprocesses. *)
Clocked ==
  \/ Tick \/ TimerKills
  \/ CheckPackage \/ RCheckDone \/ ReportCheck
  \/ SkipBinary \/ BuildBinary \/ ReportBinary
  \/ PostProcessing \/ NormalEnd \/ OnExit

Next ==
  \/ Prepare \/ BuildSource \/ ReportBuild
  \/ Clocked \/ SubprocessExits
  \/ Raise \/ Kill \/ Terminated

Spec == Init /\ [][Next]_vars

(* git, R and scp outside the timed stages may hang for ever. *)
FairSpec == Spec /\ WF_vars(Clocked)

-----------------------------------------------------------------------------
(* The state is well formed. *)
TypeOK ==
  /\ pc \in Stages
  /\ events \in Seq(Events)
  /\ running \in BOOLEAN /\ elapsed \in 0..LongLimit /\ exitcode \in Codes
  /\ long \in BOOLEAN /\ views \in {"Software", "other"}
  /\ gitrc \in Codes /\ rc1 \in Codes /\ warnings \in BOOLEAN
  /\ cause \in {"none", "manifest", "connect", "version", "exception"}
  /\ timedOut \subseteq Timed /\ failed \subseteq Timed

(* No silent end: a builder that ends without a verdict for its build was    *)
(* killed, or never got going, or was left by an exception or by the version *)
(* test; every other way out of main reports one first.                      *)
NoSilentEnd ==
  pc \in {"onexit", "over"} /\ cause = "none"
    => Sent("build_complete") \/ Sent("unsupported")

(* A stage that ran into its limit is reported as -9 and nothing else,       *)
(* whether the Timer killed it, it ended in the same moment, its output had  *)
(* an ERROR: line, or Windows gave the killed process a 1.                   *)
TimeoutReported ==
  \A i \in DOMAIN events :
    LET e == events[i] IN
      /\ e.status = "build_complete" /\ "building" \in timedOut => e.retcode = -9
      /\ e.status = "check_complete" /\ timedOut \cap {"rcheck", "bioccheck"} # {}
           => e.retcode = -9
      /\ e.status = "buildbin_complete" /\ "binbuild" \in timedOut => e.retcode = -9

(* A check that is reported as passed (0) passed: neither command failed,    *)
(* none timed out, and the clone was clean.                                  *)
PassedMeansPassed ==
  \A i \in DOMAIN events :
    events[i].status = "check_complete" /\ events[i].retcode = 0
      => /\ gitrc = 0
         /\ {"rcheck", "bioccheck"} \cap (failed \cup timedOut) = {}

(* The -4 of a long check is a warning (builder.py:800-801 "WARNING: check   *)
(* time exceeded 10 min. ", and 687 "gave specific retcode to trigger        *)
(* warning"): it stands for a check that succeeded, only late.               *)
LateMeansLate ==
  \A i \in DOMAIN events :
    events[i].status = "check_complete" /\ events[i].retcode = -4
      => "rcheck" \notin failed

(* builder.py:1160 says that the warnings of build, check and buildbin are   *)
(* not told apart in the last message, so it speaks of all of them: a build  *)
(* whose check had warnings does not end as "Build successful.".             *)
LastMessageTellsWarnings ==
  \A i, j \in DOMAIN events :
    events[i].status = "check_complete" /\ events[i].warnings
      /\ events[j].status = "normal_end"
      => events[j].warnings

(* Once the check has begun, the Timers see to it that the builder ends. *)
CheckEnds == (pc = "rcheck") ~> (pc \in {"over", "killed"})

(* What consumers see is a BuildReport: the last milestone and its code. *)
PhaseOf(status) ==
  CASE status = "started" -> "started"
    [] status = "unsupported" -> "unsupported"
    [] status = "build_complete" -> "built"
    [] status = "starting_check" -> "checking"
    [] status = "check_complete" -> "checked"
    [] status = "starting_buildbin" -> "packaging"
    [] status \in {"skip_buildbin", "buildbin_complete"} -> "packaged"
    [] status = "post_processing_complete" -> "processed"
    [] status = "normal_end" -> "finished"
    [] OTHER -> "over"

Report == INSTANCE BuildReport WITH
  phase <- IF events = <<>> THEN "silent" ELSE PhaseOf(LastEvent.status),
  code <- IF events = <<>> \/ PhaseOf(LastEvent.status) = "over"
            THEN 0 ELSE LastEvent.retcode

(* Milestones come in order, none twice, a check only after a build that     *)
(* proceeds, and nothing after autoexit.                                     *)
ReportsInOrder == Report!ReportSpec
=============================================================================
