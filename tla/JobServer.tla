------------------------------ MODULE JobServer ------------------------------
(***************************************************************************)
(* workers/server.py: the listener that runs on every build node.  Its     *)
(* STOMP connection calls on_message for each message on the jobs topic;   *)
(* on_message starts a thread (do_work) per message; the thread makes the  *)
(* run directory, saves the message as manifest.json, starts builder.py,   *)
(* replies "Got Build Request" and waits for the builder to exit.          *)
(*                                                                         *)
(* The threads share the file system of the node and nothing locks it: the *)
(* exists / mkdir pairs and the open / write / close of the manifest are   *)
(* separate steps here.  A request is one delivery of a job message; two   *)
(* deliveries may name the same issue and the same commit.                 *)
(***************************************************************************)
EXTENDS Integers, FiniteSets

CONSTANTS
  Requests,   \* deliveries on the jobs topic
  Issues,     \* issue numbers: the second field of client_id
  Runs,       \* run directory names: the commit_id, or the job_id without one
  IssueOf,    \* the issue a request names
  RunOf,      \* the run directory a request names
  ShapeOf,    \* how much of the message is well formed
  RLibs,      \* the directory name "R-libs"
  None,       \* no further path component
  NoFile, Empty, Garbled  \* contents of manifest.json that are not a request

Shapes == {"ok", "not_json", "no_job_id", "bad_client_id", "bad_svn_url"}

ASSUME RequestsAssumption ==
  /\ IssueOf \in [Requests -> Issues]
  /\ RunOf \in [Requests -> Runs]
  /\ ShapeOf \in [Requests -> Shapes]
ASSUME NamesAssumption ==
  /\ RLibs \notin Runs /\ None \notin Issues /\ None \notin Runs /\ None # RLibs
  /\ {NoFile, Empty, Garbled} \cap Requests = {}
  /\ NoFile # Empty /\ NoFile # Garbled /\ Empty # Garbled

VARIABLES
  up,        \* the server process is running
  conn,      \* its STOMP connection is alive; it is never reopened
  thread,    \* where each request is: in the broker, in a thread, or over
  level,     \* the directory the thread is at, 1..4; 5 when all four are there
  dirs,      \* the directories that exist
  manifest,  \* the contents of <run directory>/manifest.json
  child,     \* the builder.py process of each request
  replied    \* the requests for which "Got Build Request" was sent

vars == <<up, conn, thread, level, dirs, manifest, child, replied>>

Working == {"start", "parse", "exists", "mkdir", "open", "write", "launch", "reply", "wait"}
Settled == {"missed", "crashed", "ignored", "failed", "done", "gone"}
ThreadSteps == {"unsent", "queued"} \cup Working \cup Settled

-----------------------------------------------------------------------------
(* A directory is a pair <<issue, entry>>, None where the path is shorter. *)
RunDir(r) == <<IssueOf[r], RunOf[r]>>

PathAt(r, k) ==
  CASE k = 1 -> <<None, None>>          \* jobs
    [] k = 2 -> <<IssueOf[r], None>>    \* jobs/<issue>
    [] k = 3 -> <<IssueOf[r], RLibs>>   \* jobs/<issue>/R-libs
    [] OTHER -> RunDir(r)               \* jobs/<issue>/<run>

Parent(r, k) == CASE k = 1 -> {} [] k = 2 -> {PathAt(r, 1)} [] OTHER -> {PathAt(r, 2)}

Paths == (Issues \cup {None}) \X (Runs \cup {RLibs, None})
RunDirs == Issues \X Runs

Init ==
  /\ up = TRUE /\ conn = TRUE
  /\ thread \in [Requests -> {"unsent", "missed"}]  \* missed: before the server came up
  /\ level = [r \in Requests |-> 1]
  /\ dirs = {}
  /\ manifest = [d \in RunDirs |-> NoFile]
  /\ child = [r \in Requests |-> "none"]
  /\ replied = {}

Goto(r, step) == thread' = [thread EXCEPT ![r] = step]

-----------------------------------------------------------------------------
(* The issue manager publishes on a topic: no subscriber, no delivery. *)
Publish(r) ==
  /\ thread[r] = "unsent"
  /\ Goto(r, IF conn THEN "queued" ELSE "missed")
  /\ UNCHANGED <<up, conn, level, dirs, manifest, child, replied>>

(* on_message: the debug send raises on a dead connection, before the thread. *)
OnMessage(r) ==
  /\ thread[r] = "queued"
  /\ Goto(r, IF conn THEN "start" ELSE "missed")
  /\ UNCHANGED <<up, conn, level, dirs, manifest, child, replied>>

(* Mutant of Announce: waits for a connection that nobody reopens. *)
AnnounceBlocks(r) ==
  /\ thread[r] = "start" /\ conn
  /\ Goto(r, "parse")
  /\ UNCHANGED <<up, conn, level, dirs, manifest, child, replied>>

(* do_work's own debug send is outside the try block. *)
Announce(r) ==
  /\ thread[r] = "start"
  /\ Goto(r, IF conn THEN "parse" ELSE "crashed")
  /\ UNCHANGED <<up, conn, level, dirs, manifest, child, replied>>

Parse(r) ==
  /\ thread[r] = "parse"
  /\ Goto(r, CASE ShapeOf[r] \in {"not_json", "no_job_id"} -> "ignored"
               [] ShapeOf[r] = "bad_client_id" -> "failed"
               [] OTHER -> "exists")
  /\ UNCHANGED <<up, conn, level, dirs, manifest, child, replied>>

(* Mutant of NextLevel: the svn_url is split after the run directory is made. *)
NextLevelLateSplit(r) ==
  /\ level' = [level EXCEPT ![r] = level[r] + 1]
  /\ Goto(r, CASE level[r] = 4 /\ ShapeOf[r] = "bad_svn_url" -> "failed"
               [] level[r] = 4 -> "open"
               [] OTHER -> "exists")

(* The directory at this level is there: go on to the next.  The svn_url is *)
(* split after R-libs and before the run directory.                        *)
NextLevel(r) ==
  /\ level' = [level EXCEPT ![r] = level[r] + 1]
  /\ Goto(r, CASE level[r] = 3 /\ ShapeOf[r] = "bad_svn_url" -> "failed"
               [] level[r] = 4 -> "open"
               [] OTHER -> "exists")

(* Mutant of Exists: the issue directory is never made. *)
ExistsSkipsIssue(r) ==
  /\ thread[r] = "exists"
  /\ IF level[r] = 2 \/ PathAt(r, level[r]) \in dirs
     THEN NextLevel(r)
     ELSE Goto(r, "mkdir") /\ UNCHANGED level
  /\ UNCHANGED <<up, conn, dirs, manifest, child, replied>>

Exists(r) ==
  /\ thread[r] = "exists"
  /\ IF PathAt(r, level[r]) \in dirs
     THEN NextLevel(r)
     ELSE Goto(r, "mkdir") /\ UNCHANGED level
  /\ UNCHANGED <<up, conn, dirs, manifest, child, replied>>

CanMake(r) == PathAt(r, level[r]) \notin dirs /\ Parent(r, level[r]) \subseteq dirs

MkDir(r) ==
  /\ thread[r] = "mkdir"
  /\ CanMake(r)
  /\ dirs' = dirs \cup {PathAt(r, level[r])}
  /\ NextLevel(r)
  /\ UNCHANGED <<up, conn, manifest, child, replied>>

(* FileExistsError or FileNotFoundError: logged, and the thread returns. *)
MkDirFails(r) ==
  /\ thread[r] = "mkdir"
  /\ ~CanMake(r)
  /\ Goto(r, "failed")
  /\ UNCHANGED <<up, conn, level, dirs, manifest, child, replied>>

(* Mutant of OpenManifest: the builder is started before the text is flushed. *)
OpenManifestOnly(r) ==
  /\ thread[r] = "open"
  /\ manifest' = [manifest EXCEPT ![RunDir(r)] = Empty]
  /\ Goto(r, "launch")
  /\ UNCHANGED <<up, conn, level, dirs, child, replied>>

(* open(jobfilename, "w") truncates; the text reaches the file at close. *)
OpenManifest(r) ==
  /\ thread[r] = "open"
  /\ manifest' = [manifest EXCEPT ![RunDir(r)] = Empty]
  /\ Goto(r, "write")
  /\ UNCHANGED <<up, conn, level, dirs, child, replied>>

(* Written from offset 0 over what another thread may have written since    *)
(* this one truncated the file: a longer text leaves its tail behind.       *)
CloseManifest(r) ==
  /\ thread[r] = "write"
  /\ \E text \in {r} \cup (IF manifest[RunDir(r)] = Empty THEN {} ELSE {Garbled}) :
       manifest' = [manifest EXCEPT ![RunDir(r)] = text]
  /\ Goto(r, "launch")
  /\ UNCHANGED <<up, conn, level, dirs, child, replied>>

Launch(r) ==
  /\ thread[r] = "launch"
  /\ child' = [child EXCEPT ![r] = "running"]
  /\ Goto(r, "reply")
  /\ UNCHANGED <<up, conn, level, dirs, manifest, replied>>

(* The reply is inside the try block: its failure ends the thread, not the child. *)
Reply(r) ==
  /\ thread[r] = "reply"
  /\ IF conn
     THEN Goto(r, "wait") /\ replied' = replied \cup {r}
     ELSE Goto(r, "failed") /\ UNCHANGED replied
  /\ UNCHANGED <<up, conn, level, dirs, manifest, child>>

Wait(r) ==
  /\ thread[r] = "wait"
  /\ child[r] # "running"
  /\ Goto(r, "done")
  /\ UNCHANGED <<up, conn, level, dirs, manifest, child, replied>>

-----------------------------------------------------------------------------
(* The builder process ends by itself. *)
ChildExit(r) ==
  /\ child[r] = "running"
  /\ child' = [child EXCEPT ![r] = "exited"]
  /\ UNCHANGED <<up, conn, thread, level, dirs, manifest, replied>>

(* on_disconnected only logs. *)
LoseConnection ==
  /\ conn
  /\ conn' = FALSE
  /\ UNCHANGED <<up, thread, level, dirs, manifest, child, replied>>

StopServer ==
  /\ up
  /\ up' = FALSE /\ conn' = FALSE
  /\ thread' = [r \in Requests |->
                  CASE thread[r] = "queued" -> "missed"
                    [] thread[r] \in Working -> "gone"
                    [] OTHER -> thread[r]]
  /\ UNCHANGED <<level, dirs, manifest, replied>>

(* kill -9 of server.py alone: its builders go on. *)
KillServer == StopServer /\ UNCHANGED child

(* kill-spb.sh kills every python process of the node; so does a power cut. *)
KillAll ==
  /\ StopServer
  /\ child' = [r \in Requests |-> IF child[r] = "running" THEN "killed" ELSE child[r]]

(* run-build-server.sh *)
Restart ==
  /\ ~up
  /\ up' = TRUE /\ conn' = TRUE
  /\ UNCHANGED <<thread, level, dirs, manifest, child, replied>>

(* The main loop sleeps, with no request left to handle. *)
Idle ==
  /\ up /\ \A r \in Requests : thread[r] \in Settled
  /\ UNCHANGED vars

ThreadStep(r) ==
  \/ Announce(r) \/ Parse(r) \/ Exists(r) \/ MkDir(r) \/ MkDirFails(r)
  \/ OpenManifest(r) \/ CloseManifest(r) \/ Launch(r) \/ Reply(r) \/ Wait(r)

Failure == LoseConnection \/ KillServer \/ KillAll \/ Restart

Next ==
  \/ \E r \in Requests : Publish(r) \/ OnMessage(r) \/ ThreadStep(r) \/ ChildExit(r)
  \/ Failure \/ Idle

Spec == Init /\ [][Next]_vars

(* The operating system schedules every thread of the process. *)
Fairness == \A r \in Requests : WF_vars(OnMessage(r)) /\ WF_vars(ThreadStep(r))
FairSpec == Spec /\ Fairness

(* A day without failures, for the claims that are made of one. *)
CalmNext ==
  \/ \E r \in Requests : Publish(r) \/ OnMessage(r) \/ ThreadStep(r) \/ ChildExit(r)
  \/ Idle
CalmSpec == Init /\ [][CalmNext]_vars

-----------------------------------------------------------------------------
(* The state is well formed. *)
TypeOK ==
  /\ up \in BOOLEAN /\ conn \in BOOLEAN
  /\ thread \in [Requests -> ThreadSteps]
  /\ level \in [Requests -> 1..5]
  /\ dirs \subseteq Paths
  /\ manifest \in [RunDirs -> Requests \cup {NoFile, Empty, Garbled}]
  /\ child \in [Requests -> {"none", "running", "exited", "killed"}]
  /\ replied \subseteq Requests

Contends(s, r) == s # r /\ level[s] > level[r] /\ PathAt(s, level[r]) = PathAt(r, level[r])

(* A well-formed request whose thread gave up before starting a builder lost *)
(* a mkdir race: another request was past that very directory.  Nothing else *)
(* in do_work turns a well-formed request away.                              *)
DroppedOnlyByRace ==
  \A r \in Requests :
    (ShapeOf[r] = "ok" /\ thread[r] = "failed" /\ child[r] = "none")
      => \E s \in Requests : Contends(s, r)

(* The manifest a started builder finds is its own request, unless another  *)
(* request reached the same run directory.                                  *)
ManifestIsMine ==
  \A r \in Requests : child[r] # "none" =>
    \/ manifest[RunDir(r)] = r
    \/ \E s \in Requests \ {r} : level[s] = 5 /\ RunDir(s) = RunDir(r)

(* Messages that do_work cannot use leave no run directory behind: whatever *)
(* run directory exists was made for a well-formed request.                 *)
RunDirsAreWanted ==
  \A d \in dirs \cap RunDirs :
    \E r \in Requests : ShapeOf[r] = "ok" /\ RunDir(r) = d /\ level[r] = 5

(* Every message handed to a thread reaches its builder's wait or an end:   *)
(* no thread of do_work is stuck half way, whatever the other threads do.   *)
ThreadsGetThrough ==
  \A r \in Requests : (thread[r] = "start") ~> (thread[r] \in Settled \cup {"wait"})

(* README.md:99-103: "When an instruction is received to start a build, this *)
(* script starts a new process": a well-formed request is not turned away.   *)
InstructionStartsBuild ==
  \A r \in Requests :
    (ShapeOf[r] = "ok" /\ thread[r] = "failed") => child[r] # "none"
=============================================================================
