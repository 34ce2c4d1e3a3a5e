------------------------------- MODULE JobTree -------------------------------
(***************************************************************************)
(* The tree below jobs/ on a build node: server.py (JobServer) makes       *)
(* directories in it, builders work in them, and workers/cleanUpIssues.py, *)
(* run by cron once a day, removes them.  Nobody locks anything.           *)
(*                                                                         *)
(* The reaper fetches one page of closed issues from GitHub and goes by    *)
(* what it said, whatever happens to the issues meanwhile.  Of an issue    *)
(* closed for more than 30 days it removes the whole tree; of one closed   *)
(* later it keeps R-libs and the run directory that was changed last.      *)
(* An rm -rf lists a directory, empties what it has listed and then        *)
(* removes it, which fails when something new is there.                    *)
(*                                                                         *)
(* The server's own failures are left to JobServer.                        *)
(***************************************************************************)
EXTENDS JobServer, Sequences, SequencesExt

CONSTANTS
  PageSize,  \* per_page of the query
  Earlier    \* what earlier days have left: per issue its entries, oldest first

ASSUME IssuesAreNumbers == Issues \subseteq Nat
ASSUME PageAssumption == PageSize \in Nat
ASSUME EarlierAssumption ==
  \A left \in Earlier :
    /\ left \in [Issues -> Seq(Runs \cup {RLibs})]
    /\ \A i \in Issues : IsInjective(left[i])

VARIABLES
  issue,      \* on GitHub: open, closed lately, or closed more than 30 days ago
  most,       \* history: the furthest an issue has been
  changed,    \* per issue its entries, in the order of their mtimes
  linked,     \* requests whose open manifest is still a file of the tree
  rstep,      \* where the reaper is
  issueNums, closeNums,  \* what it fetched and has not handled yet
  target,     \* the issue it is at
  victims,    \* the entries that it is removing
  emptied,    \* those of them that it has emptied
  refilled,   \* those in which the server has put a file since
  robbed      \* history: requests in whose issue the reaper removed something

reaper == <<rstep, issueNums, closeNums, target, victims, emptied>>
tree == <<changed, linked, refilled, robbed>>
tvars == <<vars, issue, most, reaper, tree>>

Entries(i) == {d \in dirs : d[1] = i /\ d[2] # None}
Tree(i) == <<i, None>>

TInit ==
  /\ up = TRUE /\ conn = TRUE
  /\ thread \in [Requests -> {"unsent", "missed"}]
  /\ level = [r \in Requests |-> 1]
  /\ changed \in Earlier
  /\ dirs = {<<None, None>>}
            \cup UNION {{Tree(i)} \cup {<<i, e>> : e \in ToSet(changed[i])} :
                          i \in {j \in Issues : changed[j] # <<>>}}
  /\ manifest = [d \in RunDirs |-> IF d \in dirs THEN Garbled ELSE NoFile]
  /\ child = [r \in Requests |-> "none"]
  /\ replied = {}
  /\ issue \in [Issues -> {"open", "closed", "old"}] /\ most = issue
  /\ linked = {} /\ refilled = {} /\ robbed = {}
  /\ rstep = "idle" /\ issueNums = {} /\ closeNums = {}
  /\ target = None /\ victims = {} /\ emptied = {}

-----------------------------------------------------------------------------
(* A change in a directory makes it the last of its issue. *)
Touch(d) == changed' = [changed EXCEPT ![d[1]] = Append(RemoveFirst(@, d[2]), d[2])]

(* The server.  A directory that is made belongs to its parent's list.       *)
MakesDirectory(r) ==
  /\ MkDir(r)
  /\ IF level[r] <= 2 THEN UNCHANGED changed ELSE Touch(PathAt(r, level[r]))
  /\ UNCHANGED <<linked, refilled, robbed>>

Refills(d) == refilled' = refilled \cup ({d} \cap emptied)

(* Without the run directory open raises FileNotFoundError. *)
Fails(r) ==
  /\ Goto(r, "failed")
  /\ UNCHANGED <<up, conn, level, dirs, manifest, child, replied, tree>>

OpensManifest(r) ==
  \/ /\ RunDir(r) \in dirs /\ OpenManifest(r)
     /\ IF manifest[RunDir(r)] = NoFile THEN Touch(RunDir(r)) ELSE UNCHANGED changed
     /\ linked' = linked \cup {r} /\ Refills(RunDir(r))
     /\ UNCHANGED robbed
  \/ RunDir(r) \notin dirs /\ thread[r] = "open" /\ Fails(r)

(* A file that was removed meanwhile is written all the same. *)
ClosesManifest(r) ==
  /\ \/ r \in linked /\ CloseManifest(r)
     \/ /\ r \notin linked /\ thread[r] = "write"
        /\ Goto(r, "launch")
        /\ UNCHANGED <<up, conn, level, dirs, manifest, child, replied>>
  /\ UNCHANGED tree

(* builder.log is opened in the run directory before the builder starts. *)
Launches(r) ==
  \/ /\ RunDir(r) \in dirs /\ Launch(r)
     /\ changed' = changed \/ Touch(RunDir(r))
     /\ Refills(RunDir(r))
     /\ UNCHANGED <<linked, robbed>>
  \/ RunDir(r) \notin dirs /\ thread[r] = "launch" /\ Fails(r)

NodeStep ==
  /\ \E r \in Requests :
       \/ MakesDirectory(r) \/ OpensManifest(r) \/ ClosesManifest(r) \/ Launches(r)
       \/ /\ \/ Publish(r) \/ OnMessage(r) \/ Announce(r) \/ Parse(r) \/ Exists(r)
             \/ MkDirFails(r) \/ Reply(r) \/ Wait(r) \/ ChildExit(r)
          /\ UNCHANGED tree
  /\ UNCHANGED <<issue, most, reaper>>

(* A builder clones and builds in its run directory, and installs in R-libs. *)
BuilderWorks ==
  /\ \E r \in Requests :
       /\ child[r] = "running"
       /\ \E d \in {RunDir(r), <<IssueOf[r], RLibs>>} \cap dirs : Touch(d)
  /\ UNCHANGED <<vars, issue, most, reaper, linked, refilled, robbed>>

-----------------------------------------------------------------------------
(* GitHub, and time. *)
Becomes(i, state) ==
  /\ issue' = [issue EXCEPT ![i] = state]
  /\ most' = [most EXCEPT ![i] = IF @ = "old" \/ state = "open" THEN @ ELSE state]
  /\ UNCHANGED <<vars, reaper, tree>>

Close(i) == issue[i] = "open" /\ Becomes(i, "closed")
Age(i) == issue[i] = "closed" /\ Becomes(i, "old")
Reopen(i) == issue[i] # "open" /\ Becomes(i, "open")

(* The query's answer: the closed issues that were opened last. *)
Page ==
  {i \in Issues : /\ issue[i] # "open"
                  /\ Cardinality({j \in Issues : j > i /\ issue[j] # "open"}) < PageSize}

(* Mutant of Fetch: the query has lost its state=closed. *)
FetchAnyState ==
  /\ rstep = "idle"
  /\ issueNums' = {i \in Issues : issue[i] = "old"}
  /\ closeNums' = {i \in Issues : issue[i] # "old"}
  /\ rstep' = "old"
  /\ UNCHANGED <<vars, issue, most, target, victims, emptied, tree>>

Fetch ==
  /\ rstep = "idle"
  /\ issueNums' = {i \in Page : issue[i] = "old"}
  /\ closeNums' = {i \in Page : issue[i] = "closed"}
  /\ rstep' = "old"
  /\ UNCHANGED <<vars, issue, most, target, victims, emptied, tree>>

(* Mutant of OldIssues: the other list goes first, and may end the run. *)
OldIssuesLast ==
  /\ rstep = "old" /\ closeNums = {}
  /\ IF issueNums = {}
     THEN rstep' = "closed" /\ UNCHANGED <<issueNums, target, victims>>
     ELSE \E i \in issueNums :
            /\ issueNums' = issueNums \ {i}
            /\ IF Tree(i) \notin dirs THEN UNCHANGED <<rstep, target, victims>>
               ELSE rstep' = "rm_tree" /\ target' = i /\ victims' = Entries(i)
  /\ UNCHANGED <<vars, issue, most, closeNums, emptied, tree>>

(* The next of issueNums: rm -rf of its tree, if there is one. *)
OldIssues ==
  /\ rstep = "old"
  /\ IF issueNums = {}
     THEN rstep' = "closed" /\ UNCHANGED <<issueNums, target, victims>>
     ELSE \E i \in issueNums :
            /\ issueNums' = issueNums \ {i}
            /\ IF Tree(i) \notin dirs THEN UNCHANGED <<rstep, target, victims>>
               ELSE rstep' = "rm_tree" /\ target' = i /\ victims' = Entries(i)
  /\ UNCHANGED <<vars, issue, most, closeNums, emptied, tree>>

(* Mutant of SortedLs: the last one is taken before R-libs is left out. *)
SortedLsPopFirst(i) ==
  RemoveFirst(Front(changed[i]), RLibs) \o <<RLibs>>

(* sorted_ls, without R-libs. *)
SortedLs(i) == RemoveFirst(changed[i], RLibs)

(* The next of closeNums: all but the run directory that was changed last.   *)
(* pop of an empty list raises IndexError, which ends the run.               *)
ClosedIssues ==
  /\ rstep = "closed"
  /\ IF closeNums = {}
     THEN rstep' = "idle" /\ UNCHANGED <<closeNums, target, victims>>
     ELSE \E i \in closeNums :
            IF Tree(i) \notin dirs
            THEN closeNums' = closeNums \ {i} /\ UNCHANGED <<rstep, target, victims>>
            ELSE IF SortedLs(i) = <<>>
            THEN closeNums' = {} /\ rstep' = "idle" /\ UNCHANGED <<target, victims>>
            ELSE /\ closeNums' = closeNums \ {i} /\ rstep' = "rm_runs" /\ target' = i
                 /\ victims' = {<<i, e>> : e \in ToSet(Front(SortedLs(i)))}
  /\ UNCHANGED <<vars, issue, most, issueNums, emptied, tree>>

(* rm -rf of an entry: first what is in it, where that matters ... *)
EmptyOut(d) ==
  /\ d \in (victims \cap RunDirs) \ emptied
  /\ emptied' = emptied \cup {d}
  /\ manifest' = [manifest EXCEPT ![d] = NoFile]
  /\ linked' = {r \in linked : RunDir(r) # d}
  /\ UNCHANGED <<up, conn, thread, level, dirs, child, replied, issue, most, changed,
                 refilled, robbed,
                 rstep, issueNums, closeNums, target, victims>>

Used(d) ==
  \E r \in Requests : child[r] = "running" /\ d \in {RunDir(r), <<IssueOf[r], RLibs>>}

Robbed(i) == robbed \cup {r \in Requests : IssueOf[r] = i /\ thread[r] \in Working}

(* ... and then itself, unless the server or a builder put something there.  *)
RemoveEntry(d) ==
  /\ d \in victims /\ (d \in RunDirs => d \in emptied)
  /\ victims' = victims \ {d} /\ emptied' = emptied \ {d} /\ refilled' = refilled \ {d}
  /\ \/ /\ d \notin refilled
        /\ dirs' = dirs \ {d}
        /\ changed' = [changed EXCEPT ![d[1]] = RemoveFirst(@, d[2])]
        /\ robbed' = Robbed(d[1])
     \/ /\ Used(d) \/ d \in refilled
        /\ UNCHANGED <<dirs, changed, robbed>>
  /\ UNCHANGED <<up, conn, thread, level, manifest, child, replied, issue, most, linked,
                 rstep, issueNums, closeNums, target>>

(* The end of an rm -rf: of a tree, its top, when nothing is in it. *)
Removed ==
  /\ rstep \in {"rm_tree", "rm_runs"} /\ victims = {}
  /\ IF rstep = "rm_tree" /\ Entries(target) = {}
     THEN dirs' = dirs \ {Tree(target)} /\ robbed' = Robbed(target)
     ELSE UNCHANGED <<dirs, robbed>>
  /\ rstep' = IF rstep = "rm_tree" THEN "old" ELSE "closed"
  /\ target' = None
  /\ UNCHANGED <<up, conn, thread, level, manifest, child, replied, issue, most, linked, changed,
                 refilled, issueNums, closeNums, victims, emptied>>

Reap ==
  \/ Fetch \/ OldIssues \/ ClosedIssues \/ Removed
  \/ \E d \in victims : EmptyOut(d) \/ RemoveEntry(d)

-----------------------------------------------------------------------------
TNext ==
  \/ NodeStep \/ BuilderWorks \/ Reap
  \/ \E i \in Issues : Close(i) \/ Age(i) \/ Reopen(i)

(* cron runs the reaper, every day. *)
TFairness == WF_tvars(Reap)
TSpec == TInit /\ [][TNext]_tvars /\ TFairness

-----------------------------------------------------------------------------
(* However often the reaper has run, beside whatever servers and builders    *)
(* did: an issue that has had a run directory and was never closed for more  *)
(* than 30 days has one.  (cleanUpIssues.py:53-71.)                          *)
ARunIsKept ==
  \A r \in Requests :
    most[IssueOf[r]] # "old" /\ level[r] = 5 => Entries(IssueOf[r]) \cap RunDirs # {}

(* A well-formed request whose thread gave up before it had a builder lost a *)
(* mkdir race with another one, or the reaper took a directory of its issue  *)
(* away under it; and that happens only to issues that were closed once.     *)
(* (server.py:146-221, cleanUpIssues.py:30-71.)                              *)
DroppedForAReason ==
  \A r \in Requests :
    (ShapeOf[r] = "ok" /\ thread[r] = "failed" /\ child[r] = "none")
      => \/ \E s \in Requests : Contends(s, r)
         \/ r \in robbed /\ most[IssueOf[r]] # "open"

(* The tree of an issue closed more than 30 days ago goes, though another    *)
(* issue may end each run with an exception, as long as the issue is on the  *)
(* page and no builder is at work in it.  (cleanUpIssues.py:30-50.)          *)
OldTreesGo ==
  \A i \in Issues :
    (issue[i] = "old" /\ i \in Page)
      ~> \/ Tree(i) \notin dirs \/ issue[i] # "old" \/ i \notin Page
         \/ \E r \in Requests : IssueOf[r] = i /\ child[r] = "running"
=============================================================================
