--------------------------- MODULE BuildNodeProofs ---------------------------
(***************************************************************************)
(* A node for any set of requests.  First its server: the inductive        *)
(* invariant IInv of JobServer and what follows from it.  Then the node    *)
(* with its builders, where IInv holds too; on that rest NodeInv and the   *)
(* isolation and the cleanliness of the run directories.                   *)
(***************************************************************************)
EXTENDS BuildNode, TLAPS

-----------------------------------------------------------------------------
(* The server: JobServer. *)
BeforeLaunch == {"unsent", "queued", "start", "parse", "exists", "mkdir", "open", "write", "launch"}

(* Where a thread is, and which messages get how far. *)
StepsInv ==
  \A r \in Requests :
    /\ thread[r] \in {"unsent", "queued", "start", "parse"} => level[r] = 1
    /\ thread[r] \in {"exists", "mkdir"} => level[r] \in 1..4 /\ ShapeOf[r] \in {"ok", "bad_svn_url"}
    /\ thread[r] \in {"exists", "mkdir"} /\ level[r] = 4 => ShapeOf[r] = "ok"
    /\ thread[r] \in {"open", "write", "launch", "reply", "wait", "done"} => level[r] = 5
    /\ level[r] = 5 => ShapeOf[r] = "ok"
    /\ thread[r] \in BeforeLaunch => child[r] = "none"
    /\ thread[r] \in {"reply", "wait", "done"} => child[r] # "none"
    /\ child[r] # "none" => level[r] = 5

(* A directory exists if and only if some request is past it. *)
DirsInv ==
  /\ \A r \in Requests : \A k \in 1..4 : k < level[r] => PathAt(r, k) \in dirs
  /\ \A d \in dirs : \E s \in Requests : \E k \in 1..4 : k < level[s] /\ d = PathAt(s, k)

(* Another request is past the run directory of r. *)
Shared(r) == \E s \in Requests \ {r} : level[s] = 5 /\ RunDir(s) = RunDir(r)

ManifestInv ==
  \A r \in Requests : ~Shared(r) =>
    /\ thread[r] = "write" => manifest[RunDir(r)] = Empty
    /\ thread[r] = "launch" => manifest[RunDir(r)] = r
    /\ child[r] # "none" => manifest[RunDir(r)] = r

IInv == TypeOK /\ StepsInv /\ DirsInv /\ DroppedOnlyByRace /\ ManifestInv
-----------------------------------------------------------------------------
(* The four directories of a request are different, and only the last one   *)
(* is a run directory (server.py:146-168).                                  *)
LEMMA PathFacts ==
  ASSUME NEW r \in Requests, NEW k \in 1..4
  PROVE  /\ PathAt(r, k) \in Paths
         /\ RunDir(r) \in RunDirs /\ RunDirs \subseteq Paths
         /\ k = 4 => PathAt(r, k) = RunDir(r)
         /\ PathAt(r, k) \in RunDirs => k = 4
BY RequestsAssumption, NamesAssumption DEF PathAt, RunDir, RunDirs, Paths

(* Two requests meet at a directory only at the same level. *)
LEMMA PathsDiffer ==
  ASSUME NEW r \in Requests, NEW s \in Requests, NEW j \in 1..4, NEW k \in 1..4,
         PathAt(r, j) = PathAt(s, k)
  PROVE  j = k
BY RequestsAssumption, NamesAssumption DEF PathAt, RunDir

(* The directory above is one of the directories before. *)
LEMMA ParentFacts ==
  ASSUME NEW r \in Requests, NEW k \in 1..4, NEW d \in Parent(r, k)
  PROVE  \E j \in 1..4 : j < k /\ d = PathAt(r, j)
BY DEF Parent

-----------------------------------------------------------------------------
(* Initially nothing is there. *)
LEMMA InitIInv == Init => IInv
BY RequestsAssumption, NamesAssumption
   DEF Init, IInv, TypeOK, StepsInv, DirsInv, DroppedOnlyByRace, ManifestInv,
       ThreadSteps, Working, Settled, BeforeLaunch, RunDirs

(* The steps that may move thread r on without touching anything else. *)
QuietSteps(r, step) ==
  \/ step \in {"missed", "crashed", "ignored", "gone"}
  \/ step \in {"queued", "start", "parse"} /\ child[r] = "none" /\ level[r] = 1
  \/ /\ step = "failed"
     /\ \/ child[r] # "none"
        \/ ShapeOf[r] # "ok"
        \/ \E s \in Requests : Contends(s, r)
  \/ /\ step = "exists" /\ child[r] = "none" /\ level[r] = 1
     /\ ShapeOf[r] \in {"ok", "bad_svn_url"}
  \/ step = "mkdir" /\ thread[r] = "exists"
  \/ step \in {"wait", "done"} /\ child[r] # "none"

(* Such a move keeps the invariant. *)
LEMMA QuietStep ==
  ASSUME IInv, NEW r \in Requests, NEW step \in ThreadSteps, Goto(r, step),
         UNCHANGED <<up, conn, level, dirs, manifest, child>>,
         replied' \subseteq Requests, QuietSteps(r, step)
  PROVE  IInv'
<1>1. TypeOK'
  BY DEF IInv, TypeOK, Goto
<1>2. StepsInv'
  BY DEF IInv, TypeOK, StepsInv, Goto, BeforeLaunch, QuietSteps
<1>3. DirsInv'
  BY DEF IInv, DirsInv
<1>4. DroppedOnlyByRace'
  BY DEF IInv, TypeOK, DroppedOnlyByRace, Goto, Contends, QuietSteps
<1>5. ManifestInv'
  BY DEF IInv, TypeOK, ManifestInv, Goto, Shared, QuietSteps
<1> QED BY <1>1, <1>2, <1>3, <1>4, <1>5 DEF IInv

-----------------------------------------------------------------------------
(* A thread goes on from a directory that is there: Exists, and MkDir once  *)
(* it has made it.                                                          *)
LEMMA NextLevelStep ==
  ASSUME IInv, NEW r \in Requests, thread[r] \in {"exists", "mkdir"}, NextLevel(r),
         dirs' = dirs \cup {PathAt(r, level[r])},
         UNCHANGED <<up, conn, manifest, child, replied>>
  PROVE  IInv'
<1>1. level[r] \in 1..4 /\ level' = [level EXCEPT ![r] = level[r] + 1]
  BY DEF IInv, StepsInv, NextLevel
<1>2. PathAt(r, level[r]) \in Paths
  BY <1>1, PathFacts
<1>3. thread' \in [Requests -> ThreadSteps] /\ level' \in [Requests -> 1..5]
  BY <1>1 DEF IInv, TypeOK, NextLevel, Goto, ThreadSteps, Working, Settled
<1>4. TypeOK'
  BY <1>2, <1>3 DEF IInv, TypeOK
<1>5. StepsInv'
  BY <1>1 DEF IInv, TypeOK, StepsInv, NextLevel, Goto, BeforeLaunch
<1>6. DirsInv'
  <2>1. ASSUME NEW q \in Requests, NEW k \in 1..4, k < level'[q]
        PROVE  PathAt(q, k) \in dirs'
    BY <1>1, <2>1 DEF IInv, TypeOK, DirsInv
  <2>2. ASSUME NEW d \in dirs'
        PROVE  \E s \in Requests : \E k \in 1..4 : k < level'[s] /\ d = PathAt(s, k)
    <3>1. CASE d \in dirs
      BY <3>1, <1>1 DEF IInv, TypeOK, DirsInv
    <3>2. CASE d = PathAt(r, level[r])
      BY <3>2, <1>1 DEF IInv, TypeOK
    <3> QED BY <2>2, <3>1, <3>2
  <2> QED BY <2>1, <2>2 DEF DirsInv
<1>7. DroppedOnlyByRace'
  BY <1>1 DEF IInv, TypeOK, StepsInv, DroppedOnlyByRace, NextLevel, Goto, Contends
<1>8. ManifestInv'
  BY <1>1 DEF IInv, TypeOK, StepsInv, ManifestInv, NextLevel, Goto, Shared, BeforeLaunch
<1> QED BY <1>4, <1>5, <1>6, <1>7, <1>8 DEF IInv

(* A mkdir fails only because another request is past that directory.       *)
LEMMA MkDirFailsStep ==
  ASSUME IInv, NEW r \in Requests, MkDirFails(r)
  PROVE  IInv'
<1>1. level[r] \in 1..4 /\ thread[r] = "mkdir"
  BY DEF IInv, StepsInv, MkDirFails
<1>2. Parent(r, level[r]) \subseteq dirs
  BY <1>1, ParentFacts DEF IInv, DirsInv
<1>3. PICK s \in Requests, k \in 1..4 : k < level[s] /\ PathAt(r, level[r]) = PathAt(s, k)
  BY <1>2 DEF IInv, DirsInv, MkDirFails, CanMake
<1>4. k = level[r]
  BY <1>1, <1>3, PathsDiffer
<1>5. Contends(s, r)
  BY <1>3, <1>4 DEF Contends
<1>6. QuietSteps(r, "failed") /\ "failed" \in ThreadSteps
  BY <1>5 DEF QuietSteps, ThreadSteps, Settled
<1> QED BY <1>6, QuietStep DEF MkDirFails, IInv, TypeOK

-----------------------------------------------------------------------------
(* The steps that change the manifest or a builder. *)
LEMMA ManifestSteps ==
  ASSUME IInv, NEW r \in Requests, OpenManifest(r) \/ CloseManifest(r) \/ Launch(r)
  PROVE  IInv'
<1>1. RunDir(r) \in RunDirs
  BY RequestsAssumption DEF RunDir, RunDirs
<1>2. TypeOK'
  BY <1>1 DEF IInv, TypeOK, OpenManifest, CloseManifest, Launch, Goto, ThreadSteps, Working
<1>3. StepsInv'
  BY DEF IInv, TypeOK, StepsInv, OpenManifest, CloseManifest, Launch, Goto, BeforeLaunch
<1>4. DirsInv'
  BY DEF IInv, DirsInv, OpenManifest, CloseManifest, Launch
<1>5. DroppedOnlyByRace'
  BY DEF IInv, TypeOK, DroppedOnlyByRace, Contends, OpenManifest, CloseManifest, Launch, Goto
<1>6. level[r] = 5 /\ child[r] = "none"
  BY DEF IInv, StepsInv, BeforeLaunch, OpenManifest, CloseManifest, Launch
<1>7. ASSUME NEW q \in Requests, ~Shared(q)'
      PROVE  /\ thread'[q] = "write" => manifest'[RunDir(q)] = Empty
             /\ thread'[q] = "launch" => manifest'[RunDir(q)] = q
             /\ child'[q] # "none" => manifest'[RunDir(q)] = q
  <2>1. ~Shared(q)
    BY <1>7 DEF Shared, OpenManifest, CloseManifest, Launch
  <2>2. CASE q = r
    BY <2>1, <2>2, <1>1, <1>6 DEF IInv, TypeOK, ManifestInv, OpenManifest, CloseManifest, Launch, Goto
  <2>3. CASE q # r
    <3>1. RunDir(q) # RunDir(r) /\ RunDir(q) \in RunDirs
      BY <2>1, <2>3, <1>6, RequestsAssumption DEF Shared, RunDir, RunDirs
    <3> QED
      BY <2>1, <2>3, <3>1 DEF IInv, TypeOK, ManifestInv, OpenManifest, CloseManifest, Launch, Goto
  <2> QED BY <2>2, <2>3
<1>8. ManifestInv'
  BY <1>7 DEF ManifestInv
<1> QED BY <1>2, <1>3, <1>4, <1>5, <1>8 DEF IInv

(* The steps of the surroundings: no directory, level or manifest changes,  *)
(* a thread can only be cut off, and a builder only end.                    *)
LEMMA OutsideSteps ==
  ASSUME IInv,
         (\E r \in Requests : ChildExit(r)) \/ Failure \/ Idle \/ UNCHANGED vars
  PROVE  IInv'
<1>1. /\ up' \in BOOLEAN /\ conn' \in BOOLEAN
      /\ UNCHANGED <<level, dirs, manifest>> /\ replied' \subseteq Requests
      /\ thread' \in [Requests -> ThreadSteps]
      /\ child' \in [Requests -> {"none", "running", "exited", "killed"}]
      /\ \A q \in Requests : thread'[q] = thread[q] \/ thread'[q] \in {"missed", "gone"}
      /\ \A q \in Requests : child'[q] = "none" <=> child[q] = "none"
  BY DEF IInv, TypeOK, ChildExit, Failure, LoseConnection, KillServer, KillAll, StopServer,
         Restart, Idle, vars, ThreadSteps, Settled
<1>2. TypeOK'
  BY <1>1 DEF IInv, TypeOK
<1>3. StepsInv'
  BY <1>1 DEF IInv, StepsInv, BeforeLaunch
<1>4. DirsInv'
  BY <1>1 DEF IInv, DirsInv
<1>5. DroppedOnlyByRace'
  BY <1>1 DEF IInv, DroppedOnlyByRace, Contends
<1>6. ManifestInv'
  BY <1>1 DEF IInv, ManifestInv, Shared
<1> QED BY <1>2, <1>3, <1>4, <1>5, <1>6 DEF IInv

-----------------------------------------------------------------------------
(* Every step keeps the invariant. *)
LEMMA NextIInv == IInv /\ [Next]_vars => IInv'
<1> SUFFICES ASSUME IInv, [Next]_vars PROVE IInv'
  OBVIOUS
<1>1. CASE UNCHANGED vars
  BY <1>1, OutsideSteps
<1>2. CASE Failure \/ Idle
  BY <1>2, OutsideSteps
<1>3. ASSUME NEW r \in Requests, Publish(r) \/ OnMessage(r) \/ Announce(r)
      PROVE  IInv'
  <2>1. child[r] = "none" /\ level[r] = 1
    BY <1>3 DEF IInv, StepsInv, BeforeLaunch, Publish, OnMessage, Announce
  <2>2. PICK step \in {"queued", "start", "parse", "missed", "crashed"} : Goto(r, step)
    BY <1>3 DEF Publish, OnMessage, Announce
  <2>3. QuietSteps(r, step) /\ step \in ThreadSteps
    BY <2>1, <2>2 DEF QuietSteps, ThreadSteps, Working, Settled
  <2>4. UNCHANGED <<up, conn, level, dirs, manifest, child, replied>>
    BY <1>3 DEF Publish, OnMessage, Announce
  <2> QED BY <2>2, <2>3, <2>4, QuietStep DEF IInv, TypeOK
<1>4. ASSUME NEW r \in Requests, Parse(r)
      PROVE  IInv'
  <2>1. child[r] = "none" /\ level[r] = 1
    BY <1>4 DEF IInv, StepsInv, BeforeLaunch, Parse
  <2>2. PICK step \in {"ignored", "failed", "exists"} :
               /\ Goto(r, step)
               /\ step = "failed" => ShapeOf[r] # "ok"
               /\ step = "exists" => ShapeOf[r] \in {"ok", "bad_svn_url"}
    <3>1. ShapeOf[r] \in Shapes
      BY RequestsAssumption
    <3>2. CASE ShapeOf[r] \in {"not_json", "no_job_id"}
      BY <1>4, <3>2 DEF Parse
    <3>3. CASE ShapeOf[r] = "bad_client_id"
      BY <1>4, <3>3 DEF Parse
    <3>4. CASE ShapeOf[r] \in {"ok", "bad_svn_url"}
      BY <1>4, <3>4 DEF Parse
    <3> QED BY <3>1, <3>2, <3>3, <3>4 DEF Shapes
  <2>3. QuietSteps(r, step) /\ step \in ThreadSteps
    BY <2>1, <2>2 DEF QuietSteps, ThreadSteps, Working, Settled
  <2> QED BY <1>4, <2>2, <2>3, QuietStep DEF Parse, IInv, TypeOK
<1>5. ASSUME NEW r \in Requests, Exists(r)
      PROVE  IInv'
  <2>1. CASE PathAt(r, level[r]) \in dirs
    <3>1. dirs' = dirs \cup {PathAt(r, level[r])}
      BY <1>5, <2>1 DEF Exists
    <3> QED BY <1>5, <2>1, <3>1, NextLevelStep DEF Exists
  <2>2. CASE PathAt(r, level[r]) \notin dirs
    BY <1>5, <2>2, QuietStep DEF Exists, IInv, TypeOK, QuietSteps, ThreadSteps, Working
  <2> QED BY <2>1, <2>2
<1>6. ASSUME NEW r \in Requests, MkDir(r)
      PROVE  IInv'
  BY <1>6, NextLevelStep DEF MkDir
<1>7. ASSUME NEW r \in Requests, MkDirFails(r)
      PROVE  IInv'
  BY <1>7, MkDirFailsStep
<1>8. ASSUME NEW r \in Requests, OpenManifest(r) \/ CloseManifest(r) \/ Launch(r)
      PROVE  IInv'
  BY <1>8, ManifestSteps
<1>9. ASSUME NEW r \in Requests, Reply(r) \/ Wait(r)
      PROVE  IInv'
  <2>1. child[r] # "none"
    BY <1>9 DEF IInv, StepsInv, Reply, Wait
  <2> QED BY <1>9, <2>1, QuietStep
          DEF IInv, TypeOK, Reply, Wait, QuietSteps, ThreadSteps, Working, Settled
<1>10. ASSUME NEW r \in Requests, ChildExit(r)
       PROVE  IInv'
  BY <1>10, OutsideSteps
<1> QED
  BY <1>1, <1>2, <1>3, <1>4, <1>5, <1>6, <1>7, <1>8, <1>9, <1>10 DEF Next, ThreadStep

(* IInv holds in every state the server can reach. *)
THEOREM Invariance == Spec => []IInv
BY InitIInv, NextIInv, PTL DEF Spec

(* The state stays well formed, whatever the requests. *)
THEOREM TypeCorrect == Spec => []TypeOK
BY Invariance, PTL DEF IInv

(* server.py:146-172: however many requests race, a well-formed one is only *)
(* turned away because another one is past the directory it wanted to make. *)
THEOREM DropsAreRaces == Spec => []DroppedOnlyByRace
BY Invariance, PTL DEF IInv

(* server.py:174-179: a started builder finds its own request in the        *)
(* manifest, unless another request reached its run directory.              *)
THEOREM OwnManifest == Spec => []ManifestIsMine
<1>1. IInv => ManifestIsMine
  BY DEF IInv, ManifestInv, ManifestIsMine, Shared
<1> QED BY <1>1, Invariance, PTL

(* server.py:159-172: every run directory was made for a well-formed request. *)
THEOREM WantedRunDirs == Spec => []RunDirsAreWanted
<1>1. ASSUME IInv, NEW d \in dirs \cap RunDirs
      PROVE  \E r \in Requests : ShapeOf[r] = "ok" /\ RunDir(r) = d /\ level[r] = 5
  <2>1. PICK s \in Requests, k \in 1..4 : k < level[s] /\ d = PathAt(s, k)
    BY <1>1 DEF IInv, DirsInv
  <2>2. k = 4 /\ d = RunDir(s)
    BY <2>1, PathFacts
  <2>3. level[s] = 5 /\ ShapeOf[s] = "ok"
    BY <1>1, <2>1, <2>2 DEF IInv, TypeOK, StepsInv
  <2> QED BY <2>2, <2>3
<1>2. IInv => RunDirsAreWanted
  BY <1>1 DEF RunDirsAreWanted
<1> QED BY <1>2, Invariance, PTL

-----------------------------------------------------------------------------
(* The server and the builders it has started: BuildNode. *)
NodeTypes ==
  /\ bstep \in [Requests -> BuilderSteps]
  /\ job \in [Requests -> Requests \cup {None}]
  /\ clone \in [RunDirs -> Requests \cup {None}]
  /\ tarball \in [RunDirs -> Requests \cup {None}]
  /\ overlapped \subseteq Requests

(* A builder starts at setup and is over when it exits. *)
ChildInv ==
  \A r \in Requests :
    /\ child[r] = "none" => bstep[r] = "setup"
    /\ bstep[r] = "over" => child[r] = "exited"

(* Who is still to remove the clone of a directory: not a builder whose     *)
(* os.remove of the tarball is bound to fail.                               *)
RemovesClone(s, d) ==
  /\ RunDir(s) = d
  /\ \/ child[s] = "killed"
     \/ /\ child[s] = "running" /\ bstep[s] \notin {"setup", "over"}
        /\ bstep[s] = "tar_remove" => tarball[d] # None

(* Who is still to remove the tarball: not one that found none. *)
RemovesTarball(s, d) ==
  /\ RunDir(s) = d
  /\ \/ child[s] = "killed"
     \/ child[s] = "running" /\ bstep[s] \notin {"setup", "clean_clone", "over"}

ResidueInv ==
  \A d \in RunDirs :
    /\ clone[d] # None => \E s \in Requests : RemovesClone(s, d)
    /\ tarball[d] # None => \E s \in Requests : RemovesTarball(s, d)

OverlapInv == \A r \in Requests : Meets(r) => r \in overlapped

(* Isolation, from the moment the manifest is opened. *)
IsolationInv ==
  \A r \in Requests : r \notin overlapped =>
    /\ thread[r] = "write" => manifest[RunDir(r)] = Empty
    /\ thread[r] = "launch" => manifest[RunDir(r)] = r
    /\ child[r] = "running" =>
         /\ bstep[r] = "setup" => manifest[RunDir(r)] = r
         /\ bstep[r] # "setup" => job[r] = r
         /\ bstep[r] \in {"connect", "clone"} => clone[RunDir(r)] = None
         /\ bstep[r] \in {"cloning", "sources", "check"} => clone[RunDir(r)] = r
         /\ bstep[r] = "check" => tarball[RunDir(r)] = r

NodeInv == NodeTypes /\ ChildInv /\ ResidueInv /\ OverlapInv /\ IsolationInv

-----------------------------------------------------------------------------
(* The steps of a builder are steps of the server's specification, or none. *)
LEMMA BuilderIsServerStep ==
  ASSUME NEW r \in Requests, BuilderStep(r)
  PROVE  UNCHANGED vars \/ ChildExit(r)
BY DEF BuilderStep, Setup, Connect, GiveUp, StartClone, CloneRefused, CloneSucceeds, CloneFails,
       Build, Check, TarExists, TarRemove, TarRemoveFails, CleanClone

(* What is proved of the server alone holds of the server in its node, where *)
(* server.py does not notice what the builders do to their files.            *)
LEMMA ServerOfTheNode == BSpec => Spec
<1>1. BInit => Init
  BY DEF BInit
<1>2. [BNext]_bvars => [Next]_vars
  <2>1. ServerStep => Next
    BY DEF ServerStep, Next
  <2>2. ASSUME NEW r \in Requests, BuilderStep(r) PROVE [Next]_vars
    BY <2>2, BuilderIsServerStep DEF Next
  <2>3. UNCHANGED bvars => UNCHANGED vars
    BY DEF bvars
  <2> QED BY <2>1, <2>2, <2>3 DEF BNext
<1> QED BY <1>1, <1>2, PTL DEF BSpec, Spec

(* So the server's inductive invariant holds on the node. *)
THEOREM ServerInvariance == BSpec => []IInv
BY ServerOfTheNode, Invariance

-----------------------------------------------------------------------------
(* The thread of q opens its manifest, or closes it.                        *)
Opens(q) ==
  \/ thread[q] = "open" /\ thread'[q] = "write"
  \/ thread[q] = "write" /\ thread'[q] = "launch"

(* What a step of the server or its surroundings does to a builder.         *)
LEMMA ServerEffects ==
  ASSUME IInv, ServerStep
  PROVE  /\ bstep' = bstep /\ job' = job /\ clone' = clone /\ tarball' = tarball
         /\ \A q \in Requests :
              \/ child'[q] = child[q]
              \/ /\ child[q] = "none" /\ child'[q] = "running"
                 /\ thread[q] = "launch" /\ manifest' = manifest
              \/ child[q] = "running" /\ child'[q] = "killed"
         /\ \A q \in Requests :
              /\ thread'[q] = "write" => thread[q] = "write" \/ manifest'[RunDir(q)] = Empty
              /\ thread'[q] = "launch" =>
                   \/ thread[q] = "launch"
                   \/ /\ thread[q] = "write"
                      /\ manifest[RunDir(q)] = Empty => manifest'[RunDir(q)] = q
         /\ \A d \in RunDirs : manifest'[d] # manifest[d] =>
              \E q \in Requests : RunDir(q) = d /\ Opens(q)
<1>1. bstep' = bstep /\ job' = job /\ clone' = clone /\ tarball' = tarball
  BY DEF ServerStep, nodeVars
<1>2. \A q \in Requests : RunDir(q) \in RunDirs
  BY RequestsAssumption DEF RunDir, RunDirs
<1> USE DEF IInv, TypeOK
<1>3. CASE Failure \/ Idle
  BY <1>1, <1>3 DEF Failure, LoseConnection, KillServer, KillAll, StopServer, Restart, Idle, vars
<1>4. ASSUME NEW r \in Requests,
             Publish(r) \/ OnMessage(r) \/ Announce(r) \/ Parse(r) \/ Exists(r) \/ MkDir(r)
               \/ MkDirFails(r) \/ Reply(r) \/ Wait(r)
      PROVE  /\ child' = child /\ manifest' = manifest
             /\ \A q \in Requests : thread'[q] = thread[q] \/ thread'[q] \notin {"write", "launch"}
  BY <1>4 DEF Publish, OnMessage, Announce, Parse, Exists, MkDir, MkDirFails, Reply, Wait,
     NextLevel, Goto
<1>5. ASSUME NEW r \in Requests, OpenManifest(r) \/ CloseManifest(r) \/ Launch(r)
      PROVE  /\ \A q \in Requests \ {r} : child'[q] = child[q] /\ thread'[q] = thread[q]
             /\ \A d \in RunDirs \ {RunDir(r)} : manifest'[d] = manifest[d]
             /\ OpenManifest(r) => /\ child'[r] = child[r]
                                   /\ thread[r] = "open" /\ thread'[r] = "write"
                                   /\ manifest'[RunDir(r)] = Empty
             /\ CloseManifest(r) => /\ child'[r] = child[r]
                                    /\ thread[r] = "write" /\ thread'[r] = "launch"
                                    /\ manifest[RunDir(r)] = Empty => manifest'[RunDir(r)] = r
             /\ Launch(r) => /\ child[r] = "none" /\ child'[r] = "running"
                             /\ thread[r] = "launch" /\ thread'[r] = "reply"
                             /\ manifest' = manifest
  BY <1>2, <1>5 DEF OpenManifest, CloseManifest, Launch, Goto, StepsInv, BeforeLaunch
<1> HIDE DEF IInv, TypeOK
<1>6. ASSUME NEW r \in Requests, OpenManifest(r) \/ CloseManifest(r) \/ Launch(r)
      PROVE  /\ \A q \in Requests :
                  \/ child'[q] = child[q]
                  \/ /\ child[q] = "none" /\ child'[q] = "running"
                     /\ thread[q] = "launch" /\ manifest' = manifest
                  \/ child[q] = "running" /\ child'[q] = "killed"
             /\ \A q \in Requests :
                  /\ thread'[q] = "write" => thread[q] = "write" \/ manifest'[RunDir(q)] = Empty
                  /\ thread'[q] = "launch" =>
                       \/ thread[q] = "launch"
                       \/ /\ thread[q] = "write"
                          /\ manifest[RunDir(q)] = Empty => manifest'[RunDir(q)] = q
             /\ \A d \in RunDirs : manifest'[d] # manifest[d] =>
                  \E q \in Requests : RunDir(q) = d /\ Opens(q)
  BY <1>5, <1>6 DEF Opens
<1> QED BY <1>1, <1>3, <1>4, <1>6 DEF ServerStep, ThreadStep

(* What a step of a builder leaves alone. *)
LEMMA BuilderEffects ==
  ASSUME IInv, NodeInv, NEW r \in Requests, BuilderStep(r)
  PROVE  /\ child[r] = "running" /\ thread' = thread /\ manifest' = manifest
         /\ child'[r] \in {"running", "exited"}
         /\ \A q \in Requests \ {r} :
              child'[q] = child[q] /\ bstep'[q] = bstep[q] /\ job'[q] = job[q]
         /\ \A d \in RunDirs \ {RunDir(r)} : clone'[d] = clone[d] /\ tarball'[d] = tarball[d]
<1> USE DEF IInv, TypeOK, NodeInv, NodeTypes
<1>1. child[r] = "running"
  BY DEF BuilderStep, Setup, Connect, GiveUp, StartClone, CloneRefused, CloneSucceeds, CloneFails,
     Build, Check, TarExists, TarRemove, TarRemoveFails, CleanClone, At
<1>2. /\ thread' = thread /\ manifest' = manifest
      /\ child'[r] \in {"running", "exited"} /\ \A q \in Requests \ {r} : child'[q] = child[q]
  BY <1>1, BuilderIsServerStep DEF vars, ChildExit
<1>3. \A q \in Requests \ {r} : bstep'[q] = bstep[q] /\ job'[q] = job[q]
  BY DEF BuilderStep, Setup, Connect, GiveUp, StartClone, CloneRefused, CloneSucceeds, CloneFails,
     Build, Check, TarExists, TarRemove, TarRemoveFails, CleanClone, BGoto
<1>4. \A d \in RunDirs \ {RunDir(r)} : clone'[d] = clone[d] /\ tarball'[d] = tarball[d]
  BY DEF BuilderStep, Setup, Connect, GiveUp, StartClone, CloneRefused, CloneSucceeds, CloneFails,
     Build, Check, TarExists, TarRemove, TarRemoveFails, CleanClone
<1> QED BY <1>1, <1>2, <1>3, <1>4

-----------------------------------------------------------------------------
(* Initially nobody is at work. *)
LEMMA InitNodeInv == BInit => NodeInv
<1> SUFFICES ASSUME BInit PROVE NodeInv
  OBVIOUS
<1> USE DEF BInit, Init
<1>1. NodeTypes /\ ChildInv
  BY DEF NodeTypes, ChildInv, BuilderSteps
<1>2. ResidueInv
  BY DEF ResidueInv
<1>3. OverlapInv /\ IsolationInv
  BY DEF OverlapInv, IsolationInv, Meets, Busy
<1> QED BY <1>1, <1>2, <1>3 DEF NodeInv

(* Who meets another now is among those who ever did. *)
LEMMA OverlapStep == BNext => OverlapInv'
BY DEF BNext, OverlapInv

-----------------------------------------------------------------------------
(* A step of the node keeps its state well formed. *)
LEMMA TypesStep == IInv /\ NodeInv /\ BNext => NodeTypes' /\ ChildInv'
<1> SUFFICES ASSUME IInv, NodeInv, BNext PROVE NodeTypes' /\ ChildInv'
  OBVIOUS
<1> USE DEF NodeInv, NodeTypes, ChildInv
<1>1. overlapped' \subseteq Requests
  BY DEF BNext
<1>2. CASE ServerStep
  BY <1>1, <1>2, ServerEffects
<1>3. ASSUME NEW r \in Requests, BuilderStep(r)
      PROVE  NodeTypes' /\ ChildInv'
  <2>1. RunDir(r) \in RunDirs
    BY RequestsAssumption DEF RunDir, RunDirs
  <2>2. child \in [Requests -> {"none", "running", "exited", "killed"}]
        /\ manifest \in [RunDirs -> Requests \cup {NoFile, Empty, Garbled}]
    BY DEF IInv, TypeOK
  <2>3. /\ bstep' \in [Requests -> BuilderSteps]
        /\ job' \in [Requests -> Requests \cup {None}]
    BY <1>3, <2>1, <2>2 DEF BuilderStep, Setup, Connect, GiveUp, StartClone, CloneRefused,
       CloneSucceeds, CloneFails, Build, Check, TarExists, TarRemove, TarRemoveFails, CleanClone,
       BGoto, BuilderSteps, Registered
  <2>4. /\ clone' \in [RunDirs -> Requests \cup {None}]
        /\ tarball' \in [RunDirs -> Requests \cup {None}]
    BY <1>3, <2>1 DEF BuilderStep, Setup, Connect, GiveUp, StartClone, CloneRefused,
       CloneSucceeds, CloneFails, Build, Check, TarExists, TarRemove, TarRemoveFails, CleanClone
  <2>5. bstep'[r] = "over" => child'[r] = "exited"
    BY <1>3, <2>2 DEF BuilderStep, Setup, Connect, GiveUp, StartClone, CloneRefused,
       CloneSucceeds, CloneFails, Build, Check, TarExists, TarRemove, TarRemoveFails, CleanClone,
       BGoto, ChildExit, At
  <2> QED BY <1>1, <1>3, <2>3, <2>4, <2>5, BuilderEffects
<1> QED BY <1>2, <1>3 DEF BNext

-----------------------------------------------------------------------------
(* Whatever is left in a run directory keeps somebody who is to remove it.  *)
LEMMA ResidueStep == IInv /\ NodeInv /\ BNext => ResidueInv'
<1> SUFFICES ASSUME IInv, NodeInv, BNext, NEW d \in RunDirs
             PROVE  /\ clone'[d] # None => \E s \in Requests : RemovesClone(s, d)'
                    /\ tarball'[d] # None => \E s \in Requests : RemovesTarball(s, d)'
  BY DEF ResidueInv
<1>0. /\ clone[d] # None => \E s \in Requests : RemovesClone(s, d)
      /\ tarball[d] # None => \E s \in Requests : RemovesTarball(s, d)
  BY DEF NodeInv, ResidueInv
<1> USE DEF RemovesClone, RemovesTarball
<1>1. CASE ServerStep
  BY <1>0, <1>1, ServerEffects
<1>2. ASSUME NEW r \in Requests, BuilderStep(r), d # RunDir(r)
      PROVE  /\ clone'[d] # None => \E s \in Requests : RemovesClone(s, d)'
             /\ tarball'[d] # None => \E s \in Requests : RemovesTarball(s, d)'
  BY <1>0, <1>2, BuilderEffects
<1>3. ASSUME NEW r \in Requests, BuilderStep(r), d = RunDir(r)
      PROVE  /\ clone'[d] # None => \E s \in Requests : RemovesClone(s, d)'
             /\ tarball'[d] # None => \E s \in Requests : RemovesTarball(s, d)'
  <2> USE DEF IInv, TypeOK, NodeInv, NodeTypes, At, BGoto
  <2>1. CASE Setup(r) \/ Connect(r) \/ GiveUp(r) \/ StartClone(r) \/ CloneRefused(r)
             \/ CloneSucceeds(r) \/ CloneFails(r) \/ Build(r) \/ Check(r)
    <3>1. CASE bstep'[r] = "over"
      BY <1>0, <1>3, <2>1, <3>1, BuilderEffects DEF Setup, ChildExit, BuilderSteps, vars,
         Connect, GiveUp, StartClone, CloneRefused, CloneSucceeds, CloneFails, Build, Check
    <3>2. CASE bstep'[r] # "over"
      <4>1. child'[r] = "running" /\ bstep'[r] \notin {"setup", "tar_remove", "clean_clone"}
        BY <1>3, <2>1, <3>2 DEF Setup, Connect, GiveUp, StartClone, CloneRefused, CloneSucceeds,
           CloneFails, Build, Check, Registered, vars
      <4> QED BY <1>3, <3>2, <4>1
    <3> QED BY <3>1, <3>2
  <2>2. CASE TarExists(r)
    BY <1>3, <2>2 DEF TarExists, vars
  <2>3. CASE TarRemove(r)
    BY <1>3, <2>3 DEF TarRemove, vars
  <2>4. CASE TarRemoveFails(r)
    BY <1>0, <1>3, <2>4, BuilderEffects DEF TarRemoveFails
  <2>5. CASE CleanClone(r)
    BY <1>0, <1>3, <2>5, BuilderEffects DEF CleanClone
  <2> QED BY <1>3, <2>1, <2>2, <2>3, <2>4, <2>5 DEF BuilderStep
<1> QED BY <1>1, <1>2, <1>3 DEF BNext

-----------------------------------------------------------------------------
(* Who never met another has no other at work in its run directory. *)
LEMMA Alone ==
  ASSUME NodeInv, NEW r \in Requests, r \notin overlapped, Busy(r),
         NEW s \in Requests \ {r}, RunDir(s) = RunDir(r)
  PROVE  ~Busy(s)
BY DEF NodeInv, OverlapInv, Meets

(* The guarantee of one request. *)
Isolated(r) ==
  /\ thread[r] = "write" => manifest[RunDir(r)] = Empty
  /\ thread[r] = "launch" => manifest[RunDir(r)] = r
  /\ child[r] = "running" =>
       /\ bstep[r] = "setup" => manifest[RunDir(r)] = r
       /\ bstep[r] # "setup" => job[r] = r
       /\ bstep[r] \in {"connect", "clone"} => clone[RunDir(r)] = None
       /\ bstep[r] \in {"cloning", "sources", "check"} => clone[RunDir(r)] = r
       /\ bstep[r] = "check" => tarball[RunDir(r)] = r

(* A step of the server touches only the manifest of a request it is busy   *)
(* with.                                                                    *)
LEMMA IsolationServer ==
  ASSUME IInv, NodeInv, OverlapInv', ServerStep, NEW r \in Requests,
         r \notin overlapped, r \notin overlapped', Isolated(r)
  PROVE  Isolated(r)'
<1> USE DEF Isolated
<1>0. RunDir(r) \in RunDirs
  BY RequestsAssumption DEF RunDir, RunDirs
<1>1. /\ bstep'[r] = bstep[r] /\ job'[r] = job[r] /\ clone' = clone /\ tarball' = tarball
  BY ServerEffects
<1>2. CASE manifest'[RunDir(r)] = manifest[RunDir(r)]
  BY <1>1, <1>2, ServerEffects DEF NodeInv, ChildInv
<1>3. CASE manifest'[RunDir(r)] # manifest[RunDir(r)]
  <2>1. PICK q \in Requests : RunDir(q) = RunDir(r) /\ Opens(q)
    BY <1>0, <1>3, ServerEffects
  <2>2. Busy(q)'
    BY <2>1 DEF Busy, Opens
  <2>3. CASE q = r
    <3>1. IInv'
      <4>1. [Next]_vars
        BY DEF ServerStep, Next
      <4> QED BY <4>1, NextIInv
    <3>2. child'[r] = "none"
      BY <2>1, <2>3, <3>1 DEF IInv, StepsInv, BeforeLaunch, Opens
    <3> QED BY <2>1, <2>3, <3>2, ServerEffects DEF Opens
  <2>4. CASE q # r
    <3>1. ~Busy(r)'
      BY <2>1, <2>2, <2>4 DEF OverlapInv, Meets
    <3> QED BY <3>1 DEF Busy
  <2> QED BY <2>3, <2>4
<1> QED BY <1>2, <1>3

(* A step of a builder changes the files of its own run directory, and      *)
(* those of a request only if it is that request's builder.                 *)
LEMMA IsolationBuilder ==
  ASSUME IInv, NodeInv, NEW q \in Requests, BuilderStep(q), NEW r \in Requests,
         r \notin overlapped, Isolated(r)
  PROVE  Isolated(r)'
<1>0. RunDir(r) \in RunDirs
  BY RequestsAssumption DEF RunDir, RunDirs
<1>1. CASE thread[r] \in {"write", "launch"}
  <2>1. child[r] = "none"
    BY <1>1 DEF IInv, StepsInv, BeforeLaunch
  <2>2. q # r /\ child'[r] = "none"
    BY <2>1, BuilderEffects
  <2> QED BY <2>2, BuilderEffects DEF Isolated
<1>2. CASE thread[r] \notin {"write", "launch"} /\ child[r] = "running" /\ q # r
  <2>1. RunDir(q) # RunDir(r)
    BY <1>2, Alone, BuilderEffects DEF Busy
  <2> QED BY <1>0, <1>2, <2>1, BuilderEffects DEF Isolated
<1>3. CASE thread[r] \notin {"write", "launch"} /\ child[r] # "running"
  <2>1. q # r
    BY <1>3, BuilderEffects
  <2> QED BY <1>3, <2>1, BuilderEffects DEF Isolated
<1>4. CASE thread[r] \notin {"write", "launch"} /\ child[r] = "running" /\ q = r
  <2> USE DEF IInv, TypeOK, NodeInv, NodeTypes, At, BGoto, Isolated
  <2>1. thread' = thread /\ manifest' = manifest
    BY BuilderEffects
  <2>2. CASE Setup(r)
    <3>1. CASE child'[r] = "running"
      <4>1. manifest[RunDir(r)] = r /\ job'[r] = r /\ bstep'[r] = "connect" /\ clone' = clone
        BY <1>4, <2>2, <3>1 DEF Setup, ChildExit
      <4>2. clone[RunDir(r)] = None
        <5>1. SUFFICES ASSUME clone[RunDir(r)] # None PROVE FALSE
          BY DEF Setup
        <5>2. PICK s \in Requests : RemovesClone(s, RunDir(r))
          BY <1>0, <5>1 DEF ResidueInv
        <5>3. s # r /\ Busy(s) /\ RunDir(s) = RunDir(r)
          BY <1>4, <2>2, <5>2 DEF RemovesClone, Busy, Setup
        <5>4. ~Busy(s)
          BY <1>4, <5>3, Alone DEF Busy
        <5> QED BY <5>3, <5>4
      <4> QED BY <1>4, <2>1, <4>1, <4>2
    <3>2. CASE child'[r] # "running"
      BY <1>4, <2>1, <3>2
    <3> QED BY <3>1, <3>2
  <2>3. CASE Connect(r) \/ GiveUp(r) \/ CloneRefused(r) \/ CloneSucceeds(r) \/ CloneFails(r)
             \/ Check(r) \/ TarExists(r) \/ TarRemove(r)
    <3>1. job' = job /\ bstep[r] # "setup" /\ bstep'[r] \notin {"setup", "connect", "cloning", "check"}
      BY <1>4, <2>3 DEF Connect, GiveUp, CloneRefused, CloneSucceeds, CloneFails, Check, TarExists,
         TarRemove, Registered
    <3>2. /\ bstep'[r] = "clone" => bstep[r] = "connect" /\ clone' = clone
          /\ bstep'[r] = "sources" => bstep[r] = "cloning" /\ clone' = clone
      BY <1>4, <2>3 DEF Connect, GiveUp, CloneRefused, CloneSucceeds, CloneFails, Check, TarExists,
         TarRemove
    <3> QED BY <1>4, <2>1, <3>1, <3>2
  <2>4. CASE StartClone(r)
    BY <1>0, <1>4, <2>1, <2>4 DEF StartClone
  <2>5. CASE Build(r)
    BY <1>0, <1>4, <2>1, <2>5 DEF Build
  <2>6. CASE TarRemoveFails(r) \/ CleanClone(r)
    BY <1>4, <2>1, <2>6 DEF TarRemoveFails, CleanClone, ChildExit
  <2> QED BY <1>4, <2>2, <2>3, <2>4, <2>5, <2>6 DEF BuilderStep
<1> QED BY <1>1, <1>2, <1>3, <1>4

(* Together: no step of the node disturbs a request that is alone. *)
LEMMA IsolationStep == IInv /\ NodeInv /\ BNext => IsolationInv'
<1> SUFFICES ASSUME IInv, NodeInv, BNext, NEW r \in Requests, r \notin overlapped'
             PROVE  Isolated(r)'
  BY DEF IsolationInv, Isolated
<1>1. r \notin overlapped
  BY DEF BNext
<1>2. Isolated(r)
  BY <1>1 DEF NodeInv, IsolationInv, Isolated
<1> QED BY <1>1, <1>2, IsolationServer, IsolationBuilder, OverlapStep DEF BNext

-----------------------------------------------------------------------------
(* NodeInv is an invariant, on top of the server's own. *)
LEMMA NextNodeInv == IInv /\ NodeInv /\ [BNext]_bvars => NodeInv'
<1> SUFFICES ASSUME IInv, NodeInv, [BNext]_bvars PROVE NodeInv'
  OBVIOUS
<1>1. CASE BNext
  BY <1>1, TypesStep, ResidueStep, OverlapStep, IsolationStep DEF NodeInv
<1>2. CASE UNCHANGED bvars
  BY <1>2 DEF bvars, vars, nodeVars, NodeInv, NodeTypes, ChildInv, ResidueInv, RemovesClone,
     RemovesTarball, OverlapInv, Meets, Busy, IsolationInv
<1> QED BY <1>1, <1>2

(* NodeInv holds in every state the node can reach. *)
THEOREM NodeInvariance == BSpec => []NodeInv
BY InitNodeInv, NextNodeInv, ServerInvariance, PTL DEF BSpec

(* The state of the node is well formed. *)
THEOREM NodeTypeCorrect == BSpec => []NodeTypeOK
<1>1. IInv /\ NodeInv => NodeTypeOK
  BY DEF IInv, NodeInv, NodeTypes, NodeTypeOK
<1> QED BY <1>1, ServerInvariance, NodeInvariance, PTL

(* builder.py:134-195, 322-352: a builder that never met another in         *)
(* its run directory works on its own request, sources and tarball, however *)
(* many requests there are and whatever used the directory before.          *)
THEOREM IsolatedBuilds == BSpec => []Isolation
<1>1. NodeInv => Isolation
  BY DEF NodeInv, IsolationInv, Isolation
<1> QED BY <1>1, NodeInvariance, PTL

(* builder.py:1002-1055: nothing is left in a run directory that no builder is *)
(* to remove, unless one was killed; a lost race for the tarball included.  *)
THEOREM NothingLeft == BSpec => []NoResidue
<1>1. NodeInv => NoResidue
  BY DEF NodeInv, ResidueInv, RemovesClone, RemovesTarball, NoResidue, MayClean
<1> QED BY <1>1, NodeInvariance, PTL
=============================================================================
