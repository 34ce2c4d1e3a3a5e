------------------------------ MODULE BuildNode ------------------------------
(***************************************************************************)
(* One build node: workers/server.py (JobServer) and the builder.py        *)
(* processes it starts, as far as they share files.  Two requests for one  *)
(* commit have one run directory, so their builders read one manifest,     *)
(* clone into one directory, and each removes the tarball and the clone    *)
(* when it exits, whoever made them.  What a builder reports and in which  *)
(* order is the subject of Builder.                                        *)
(***************************************************************************)
EXTENDS JobServer

VARIABLES
  bstep,      \* where the builder of each request is
  job,        \* the request whose manifest it read
  clone,      \* who made the git clone in each run directory
  tarball,    \* who made the source tarball in each run directory
  overlapped  \* history: requests that met another in their run directory

nodeVars == <<bstep, job, clone, tarball>>
bvars == <<vars, nodeVars, overlapped>>

ASSUME NoneIsNoRequest == None \notin Requests

Registered == {"connect", "clone", "cloning", "sources", "check"}
BuilderSteps ==
  {"setup"} \cup Registered \cup {"tar_exists", "tar_remove", "clean_clone", "over"}

BInit ==
  /\ Init
  /\ bstep = [r \in Requests |-> "setup"]
  /\ job = [r \in Requests |-> None]
  /\ clone = [d \in RunDirs |-> None]
  /\ tarball = [d \in RunDirs |-> None]
  /\ overlapped = {}

At(r, step) == child[r] = "running" /\ bstep[r] = step
BGoto(r, step) == bstep' = [bstep EXCEPT ![r] = step]

-----------------------------------------------------------------------------
(* setup(): up to ten seconds of patience with an empty file, then the JSON *)
(* is read; what is not JSON ends the process before onexit is registered.  *)
Setup(r) ==
  /\ At(r, "setup")
  /\ IF manifest[RunDir(r)] \in Requests
     THEN /\ job' = [job EXCEPT ![r] = manifest[RunDir(r)]]
          /\ BGoto(r, "connect")
          /\ UNCHANGED vars
     ELSE ChildExit(r) /\ BGoto(r, "over") /\ UNCHANGED job
  /\ UNCHANGED <<clone, tarball>>

(* setup_stomp() and the bioc_version test. *)
Connect(r) ==
  /\ At(r, "connect")
  /\ BGoto(r, "clone")
  /\ UNCHANGED <<vars, job, clone, tarball>>

(* Any sys.exit or uncaught exception after atexit.register(onexit): a send  *)
(* that fails twice, a platform that is not supported, a failed build.      *)
GiveUp(r) ==
  /\ child[r] = "running" /\ bstep[r] \in Registered
  /\ bstep[r] # "cloning"
  /\ BGoto(r, "tar_exists")
  /\ UNCHANGED <<vars, job, clone, tarball>>

(* git clone: refused when the directory is there. *)
StartClone(r) ==
  /\ At(r, "clone")
  /\ clone[RunDir(r)] = None
  /\ clone' = [clone EXCEPT ![RunDir(r)] = r]
  /\ BGoto(r, "cloning")
  /\ UNCHANGED <<vars, job, tarball>>

CloneRefused(r) ==
  /\ At(r, "clone")
  /\ clone[RunDir(r)] # None
  /\ BGoto(r, "tar_exists")
  /\ UNCHANGED <<vars, job, clone, tarball>>

(* It succeeds only if nobody removed the directory under it. *)
CloneSucceeds(r) ==
  /\ At(r, "cloning")
  /\ clone[RunDir(r)] = r
  /\ BGoto(r, "sources")
  /\ UNCHANGED <<vars, job, clone, tarball>>

(* git removes what it made of a clone that failed. *)
CloneFails(r) ==
  /\ At(r, "cloning")
  /\ clone' = [clone EXCEPT ![RunDir(r)] = IF @ = r THEN None ELSE @]
  /\ BGoto(r, "tar_exists")
  /\ UNCHANGED <<vars, job, tarball>>

(* get_dcf_info .. build_package(True): needs the clone, makes the tarball. *)
Build(r) ==
  /\ At(r, "sources")
  /\ clone[RunDir(r)] # None
  /\ tarball' = [tarball EXCEPT ![RunDir(r)] = r]
  /\ BGoto(r, "check")
  /\ UNCHANGED <<vars, job, clone>>

(* check_package and build_package(False), to the end of main. *)
Check(r) ==
  /\ At(r, "check")
  /\ tarball[RunDir(r)] # None
  /\ BGoto(r, "tar_exists")
  /\ UNCHANGED <<vars, job, clone, tarball>>

-----------------------------------------------------------------------------
(* Mutant of TarExists: no tarball, nothing to clean. *)
TarExistsOrDone(r) ==
  /\ At(r, "tar_exists")
  /\ IF tarball[RunDir(r)] = None
     THEN ChildExit(r) /\ BGoto(r, "over")
     ELSE UNCHANGED vars /\ BGoto(r, "tar_remove")
  /\ UNCHANGED <<job, clone, tarball>>

(* onexit: clean_up_dir asks whether the tarball is there ... *)
TarExists(r) ==
  /\ At(r, "tar_exists")
  /\ BGoto(r, IF tarball[RunDir(r)] = None THEN "clean_clone" ELSE "tar_remove")
  /\ UNCHANGED <<vars, job, clone, tarball>>

(* ... and removes it. *)
TarRemove(r) ==
  /\ At(r, "tar_remove")
  /\ tarball[RunDir(r)] # None
  /\ tarball' = [tarball EXCEPT ![RunDir(r)] = None]
  /\ BGoto(r, "clean_clone")
  /\ UNCHANGED <<vars, job, clone>>

(* Somebody else did: FileNotFoundError ends onexit, the clone stays. *)
TarRemoveFails(r) ==
  /\ At(r, "tar_remove")
  /\ tarball[RunDir(r)] = None
  /\ ChildExit(r)
  /\ BGoto(r, "over")
  /\ UNCHANGED <<job, clone, tarball>>

(* Mutant of CleanClone: the clone is kept. *)
KeepClone(r) ==
  /\ At(r, "clean_clone")
  /\ ChildExit(r)
  /\ BGoto(r, "over")
  /\ UNCHANGED <<job, clone, tarball>>

CleanClone(r) ==
  /\ At(r, "clean_clone")
  /\ clone' = [clone EXCEPT ![RunDir(r)] = None]
  /\ ChildExit(r)
  /\ BGoto(r, "over")
  /\ UNCHANGED <<job, tarball>>

BuilderStep(r) ==
  \/ Setup(r) \/ Connect(r) \/ GiveUp(r)
  \/ StartClone(r) \/ CloneRefused(r) \/ CloneSucceeds(r) \/ CloneFails(r)
  \/ Build(r) \/ Check(r)
  \/ TarExists(r) \/ TarRemove(r) \/ TarRemoveFails(r) \/ CleanClone(r)

ServerStep ==
  /\ \/ \E r \in Requests : Publish(r) \/ OnMessage(r) \/ ThreadStep(r)
     \/ Failure
     \/ Idle
  /\ UNCHANGED nodeVars

(* r has its hands on its run directory, or left it in an unknown state. *)
Busy(r) == thread[r] \in {"write", "launch"} \/ child[r] \in {"running", "killed"}

Meets(r) == Busy(r) /\ \E s \in Requests \ {r} : Busy(s) /\ RunDir(s) = RunDir(r)

BNext ==
  /\ ServerStep \/ \E r \in Requests : BuilderStep(r)
  /\ overlapped' = overlapped \cup {r \in Requests : Meets(r)'}

BSpec == BInit /\ [][BNext]_bvars

-----------------------------------------------------------------------------
(* The state is well formed. *)
NodeTypeOK ==
  /\ TypeOK
  /\ bstep \in [Requests -> BuilderSteps]
  /\ job \in [Requests -> Requests \cup {None}]
  /\ clone \in [RunDirs -> Requests \cup {None}]
  /\ tarball \in [RunDirs -> Requests \cup {None}]
  /\ overlapped \subseteq Requests

(* A builder that never met another in its run directory works on its own   *)
(* request alone, also when the directory was used before: it read its own  *)
(* manifest, finds no clone in the way, and what it builds and checks is    *)
(* what it fetched and built itself.                                        *)
Isolation ==
  \A r \in Requests :
    child[r] = "running" /\ r \notin overlapped =>
      /\ bstep[r] = "setup" => manifest[RunDir(r)] = r
      /\ bstep[r] # "setup" => job[r] = r
      /\ bstep[r] \in {"connect", "clone"} => clone[RunDir(r)] = None
      /\ bstep[r] \in {"cloning", "sources", "check"} => clone[RunDir(r)] = r
      /\ bstep[r] = "check" => tarball[RunDir(r)] = r

(* Sources and tarballs do not pile up: what is left in a run directory has *)
(* a builder that is still to clean it, or one that was killed.  The        *)
(* FileNotFoundError of a lost race in clean_up_dir does not break this.    *)
MayClean(s, d) ==
  /\ RunDir(s) = d
  /\ \/ child[s] = "running" /\ bstep[s] # "setup"
     \/ child[s] = "killed"

NoResidue ==
  \A d \in RunDirs :
    clone[d] # None \/ tarball[d] # None => \E s \in Requests : MayClean(s, d)
=============================================================================
