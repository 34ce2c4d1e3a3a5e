---------------------------- MODULE JobTreeProofs ----------------------------
(***************************************************************************)
(* JobTree for any set of requests and issues: the inductive invariant     *)
(* TreeInv of the job tree under its two users, the server's threads,      *)
(* which make directories one level after another, and the reaper, which   *)
(* removes them with no lock. It adds to the invariant of the server what  *)
(* the reaper knows of GitHub and how far it is, and what a thread may     *)
(* count on having behind it.                                              *)
(***************************************************************************)
EXTENDS JobTree, BuildNodeProofs

(* What may be in the directory of an issue. *)
Names == Runs \cup {RLibs}

(* Types of what JobTree adds to the state of JobServer.                     *)
TreeTypes ==
  /\ issue \in [Issues -> {"open", "closed", "old"}]
  /\ most \in [Issues -> {"open", "closed", "old"}]
  /\ changed \in [Issues -> Seq(Names)]
  /\ linked \subseteq Requests /\ robbed \subseteq Requests
  /\ rstep \in {"idle", "old", "closed", "rm_tree", "rm_runs"}
  /\ issueNums \subseteq Issues /\ closeNums \subseteq Issues
  /\ target \in Issues \cup {None}

(* The types, those of the server and where its threads are included. *)
Typed == TypeOK /\ StepsInv /\ TreeTypes

(* changed lists the entries of an issue, each once.                         *)
Listed ==
  \A i \in Issues :
    /\ IsInjective(changed[i])
    /\ \A e \in Names : <<i, e>> \in dirs <=> e \in ToSet(changed[i])

(* The reaper removes something of its target.                               *)
Removing == rstep \in {"rm_tree", "rm_runs"}

(* What the reaper is at, it was once told by GitHub. *)
ReaperInv ==
  /\ \A i \in Issues : /\ issue[i] = "old" => most[i] = "old"
                       /\ issue[i] = "closed" => most[i] # "open"
  /\ \A i \in issueNums : most[i] = "old"
  /\ \A i \in closeNums : most[i] # "open"
  /\ Removing => target \in Issues /\ most[target] # "open"
  /\ rstep = "rm_tree" => most[target] = "old"
  /\ ~Removing => victims = {}
  /\ victims \subseteq Entries(target)

(* Of the run directories of an issue the reaper leaves one.                 *)
RunLeft ==
  \A i \in Issues :
    most[i] # "old" /\ Entries(i) \cap RunDirs # {} => (Entries(i) \cap RunDirs) \ victims # {}

(* A thread has behind it the directories it found or made, or was robbed.   *)
WayInv ==
  \A r \in Requests : \A k \in 1..4 :
    thread[r] \in Working /\ k < level[r] => PathAt(r, k) \in dirs \/ r \in robbed

(* A directory that os.mkdir finds there already was made by a request       *)
(* that contends for it.                                                     *)
MkdirInv ==
  \A r \in Requests :
    thread[r] = "mkdir" /\ PathAt(r, level[r]) \in dirs => \E s \in Requests : Contends(s, r)

(* Only under an issue that was closed once does the reaper take something   *)
(* away from a request.                                                      *)
RobbedInv == \A r \in robbed : most[IssueOf[r]] # "open"

(* The inductive invariant. *)
TreeInv ==
  /\ Typed /\ Listed /\ ReaperInv /\ RunLeft /\ ARunIsKept
  /\ WayInv /\ MkdirInv /\ RobbedInv /\ DroppedForAReason

-----------------------------------------------------------------------------
(* A sequence without the element at k.                                      *)
LEMMA RemoveAtFacts ==
  ASSUME NEW S, NEW s \in Seq(S), NEW k \in 1..Len(s)
  PROVE  /\ RemoveAt(s, k) \in Seq(S)
         /\ Len(RemoveAt(s, k)) = Len(s) - 1
         /\ \A j \in 1..(Len(s) - 1) : RemoveAt(s, k)[j] = s[IF j < k THEN j ELSE j + 1]
<1> DEFINE before == SubSeq(s, 1, k - 1)
           after == SubSeq(s, k + 1, Len(s))
<1>1. /\ Len(s) \in Nat
      /\ before \in Seq(S) /\ Len(before) = k - 1 /\ \A j \in 1..(k - 1) : before[j] = s[j]
      /\ after \in Seq(S) /\ Len(after) = Len(s) - k
      /\ \A j \in 1..(Len(s) - k) : after[j] = s[j + k]
  OBVIOUS
<1>2. RemoveAt(s, k) = before \o after
  BY DEF RemoveAt
<1> HIDE DEF before, after
<1>3. /\ before \o after \in Seq(S)
      /\ Len(before \o after) = (k - 1) + (Len(s) - k)
      /\ \A j \in 1..(k - 1) : (before \o after)[j] = s[j]
      /\ \A j \in 1..(Len(s) - k) : (before \o after)[(k - 1) + j] = s[j + k]
  <2>1. /\ before \o after \in Seq(S) /\ Len(before \o after) = Len(before) + Len(after)
        /\ \A j \in 1..Len(before) : (before \o after)[j] = before[j]
        /\ \A j \in 1..Len(after) : (before \o after)[Len(before) + j] = after[j]
    <3>1. before \in Seq(S) /\ after \in Seq(S)
      BY <1>1
    <3> QED BY <3>1
  <2> QED BY <1>1, <2>1
<1>4. ASSUME NEW j \in 1..(Len(s) - 1)
      PROVE  (before \o after)[j] = s[IF j < k THEN j ELSE j + 1]
  <2>1. CASE j < k
    BY <1>1, <1>3, <2>1
  <2>2. CASE j >= k
    <3>1. PICK i \in 1..(Len(s) - k) : j = (k - 1) + i
      <4>1. j - (k - 1) \in 1..(Len(s) - k) /\ j = (k - 1) + (j - (k - 1))
        BY <1>1, <2>2
      <4> QED BY <4>1
    <3>2. i + k = j + 1 /\ ~(j < k)
      BY <1>1, <2>2, <3>1
    <3> QED BY <1>3, <3>1, <3>2
  <2> QED BY <1>1, <2>1, <2>2
<1>5. (k - 1) + (Len(s) - k) = Len(s) - 1
  BY <1>1
<1> QED BY <1>2, <1>3, <1>4, <1>5

(* A sequence without e, where e was there once.                             *)
LEMMA RemoveFirstFacts ==
  ASSUME NEW S, NEW s \in Seq(S), IsInjective(s), NEW e
  PROVE  /\ RemoveFirst(s, e) \in Seq(S) /\ IsInjective(RemoveFirst(s, e))
         /\ ToSet(RemoveFirst(s, e)) = ToSet(s) \ {e}
<1>1. CASE e \notin ToSet(s)
  <2>1. RemoveFirst(s, e) = s
    BY <1>1 DEF RemoveFirst, ToSet
  <2> QED BY <1>1, <2>1
<1>2. CASE e \in ToSet(s)
  <2>1. PICK k \in 1..Len(s) : s[k] = e
    BY <1>2 DEF ToSet
  <2> DEFINE I == {i \in 1..Len(s) : s[i] = e}
  <2>2. I = {k} /\ k \in Int
    BY <2>1 DEF IsInjective
  <2>3. Min({k}) = k
    BY <2>2 DEF Min
  <2>4. SelectInSeq(s, LAMBDA v : v = e) = IF I # {} THEN Min(I) ELSE 0
    BY DEF SelectInSeq
  <2>5. SelectInSeq(s, LAMBDA v : v = e) = k
    BY <2>2, <2>3, <2>4
  <2> DEFINE t == RemoveAt(s, k)
  <2>6. RemoveFirst(s, e) = t
    BY <2>1, <2>5 DEF RemoveFirst
  <2>7. /\ t \in Seq(S) /\ Len(t) = Len(s) - 1
        /\ \A j \in 1..(Len(s) - 1) : t[j] = s[IF j < k THEN j ELSE j + 1]
    BY RemoveAtFacts
  <2> HIDE DEF t
  <2>8. DOMAIN t = 1..(Len(s) - 1) /\ DOMAIN s = 1..Len(s) /\ Len(s) \in Nat
    BY <2>7
  <2>9. IsInjective(t)
    <3> SUFFICES ASSUME NEW i \in DOMAIN t, NEW j \in DOMAIN t, t[i] = t[j] PROVE i = j
      BY DEF IsInjective
    <3> DEFINE at(x) == IF x < k THEN x ELSE x + 1
    <3>1. at(i) \in DOMAIN s /\ at(j) \in DOMAIN s /\ s[at(i)] = s[at(j)]
      BY <2>7, <2>8
    <3>2. at(i) = at(j)
      BY <3>1 DEF IsInjective
    <3> QED BY <2>8, <3>2
  <2>10. \A j \in DOMAIN t : t[j] \in ToSet(s) \ {e}
    <3> SUFFICES ASSUME NEW j \in DOMAIN t PROVE t[j] \in ToSet(s) \ {e}
      OBVIOUS
    <3> DEFINE x == IF j < k THEN j ELSE j + 1
    <3>1. x \in DOMAIN s /\ x # k /\ t[j] = s[x]
      BY <2>7, <2>8
    <3> QED BY <2>1, <2>8, <3>1 DEF ToSet, IsInjective
  <2>11. ASSUME NEW d \in ToSet(s), d # e
         PROVE  \E j \in DOMAIN t : t[j] = d
    <3>1. PICK i \in DOMAIN s : s[i] = d
      BY DEF ToSet
    <3> DEFINE j == IF i < k THEN i ELSE i - 1
    <3>2. i # k /\ j \in DOMAIN t /\ t[j] = s[i]
      BY <2>1, <2>7, <2>8, <2>11, <3>1
    <3> QED BY <3>1, <3>2
  <2>12. ToSet(t) = ToSet(s) \ {e}
    BY <2>10, <2>11 DEF ToSet
  <2> QED BY <2>6, <2>7, <2>9, <2>12
<1> QED BY <1>1, <1>2

(* An element joins the end.                                                 *)
LEMMA AppendNewFacts ==
  ASSUME NEW S, NEW s \in Seq(S), IsInjective(s), NEW e \in S, e \notin ToSet(s)
  PROVE  /\ Append(s, e) \in Seq(S) /\ IsInjective(Append(s, e))
         /\ ToSet(Append(s, e)) = ToSet(s) \cup {e}
<1>1. /\ Append(s, e) \in Seq(S) /\ DOMAIN Append(s, e) = DOMAIN s \cup {Len(s) + 1}
      /\ Append(s, e)[Len(s) + 1] = e
      /\ \A j \in DOMAIN s : Append(s, e)[j] = s[j]
  OBVIOUS
<1> DEFINE t == Append(s, e)
<1> HIDE DEF t
<1>2. IsInjective(t)
  BY <1>1 DEF IsInjective, ToSet, t
<1>3. ToSet(t) = ToSet(s) \cup {e}
  BY <1>1 DEF ToSet, t
<1> QED BY <1>1, <1>2, <1>3 DEF t

(* The front of a sequence, and its last element, share nothing.             *)
LEMMA FrontFacts ==
  ASSUME NEW S, NEW s \in Seq(S), IsInjective(s), s # <<>>
  PROVE  /\ Last(s) \in ToSet(s) /\ Last(s) \notin ToSet(Front(s))
         /\ ToSet(Front(s)) \subseteq ToSet(s)
<1>1. /\ Len(s) \in DOMAIN s /\ DOMAIN s = 1..Len(s) /\ Len(s) \in Nat
      /\ DOMAIN Front(s) = 1..(Len(s) - 1)
      /\ \A j \in 1..(Len(s) - 1) : Front(s)[j] = s[j]
  BY DEF Front
<1> QED BY <1>1 DEF Last, ToSet, IsInjective
-----------------------------------------------------------------------------
(* What a request names.                                                     *)
LEMMA RequestFacts ==
  ASSUME NEW r \in Requests
  PROVE  /\ IssueOf[r] \in Issues /\ RunOf[r] \in Runs /\ ShapeOf[r] \in Shapes
         /\ IssueOf[r] # None /\ RunOf[r] # None /\ RunOf[r] # RLibs /\ RLibs # None
BY RequestsAssumption, NamesAssumption

(* Initially what earlier days have left is there.                           *)
LEMMA InitTree == TInit => TreeInv
<1> SUFFICES ASSUME TInit PROVE TreeInv
  OBVIOUS
<1>1. /\ changed \in [Issues -> Seq(Names)]
      /\ \A i \in Issues : IsInjective(changed[i])
  BY EarlierAssumption DEF TInit, Names
<1>2. \A i \in Issues : ToSet(changed[i]) \subseteq Names
  BY <1>1 DEF ToSet
<1>3. \A i \in Issues, e \in Names : <<i, e>> \in dirs <=> e \in ToSet(changed[i])
  <2> SUFFICES ASSUME NEW i \in Issues, NEW e \in Names
               PROVE  <<i, e>> \in dirs <=> e \in ToSet(changed[i])
    OBVIOUS
  <2>1. i # None /\ e # None
    BY NamesAssumption DEF Names
  <2>2. ASSUME <<i, e>> \in dirs
        PROVE  e \in ToSet(changed[i])
    BY <2>1, <2>2 DEF TInit, Tree
  <2>3. ASSUME e \in ToSet(changed[i])
        PROVE  <<i, e>> \in dirs
    <3>1. changed[i] # <<>>
      BY <2>3 DEF ToSet
    <3> QED BY <2>3, <3>1 DEF TInit
  <2> QED BY <2>2, <2>3
<1>4. dirs \subseteq Paths
  BY <1>2 DEF TInit, Tree, Paths, Names
<1>5. TypeOK
  BY <1>4 DEF TInit, TypeOK, ThreadSteps, Settled, RunDirs
<1>6. StepsInv
  BY DEF TInit, StepsInv, BeforeLaunch
<1>7. TreeTypes
  BY <1>1 DEF TInit, TreeTypes
<1>8. ReaperInv /\ RunLeft
  BY DEF TInit, ReaperInv, RunLeft, Removing
<1>9. ARunIsKept /\ WayInv /\ MkdirInv /\ RobbedInv /\ DroppedForAReason
  BY DEF TInit, ARunIsKept, WayInv, MkdirInv, RobbedInv, DroppedForAReason
<1> QED BY <1>1, <1>3, <1>5, <1>6, <1>7, <1>8, <1>9 DEF TreeInv, Typed, Listed

-----------------------------------------------------------------------------
(* Listing. *)

(* An entry that is there, or is made, becomes the last of its issue.        *)
LEMMA TouchLists ==
  ASSUME Typed, Listed, NEW i \in Issues, NEW e \in Names, Touch(<<i, e>>),
         dirs' = dirs \cup {<<i, e>>}
  PROVE  Listed' /\ changed' \in [Issues -> Seq(Names)]
<1> DEFINE rest == RemoveFirst(changed[i], e)
<1>1. changed \in [Issues -> Seq(Names)] /\ IsInjective(changed[i])
  BY DEF Typed, TreeTypes, Listed
<1>2. changed' = [changed EXCEPT ![i] = Append(rest, e)]
  BY DEF Touch
<1>3. rest \in Seq(Names) /\ IsInjective(rest) /\ ToSet(rest) = ToSet(changed[i]) \ {e}
  BY <1>1, RemoveFirstFacts
<1> HIDE DEF rest
<1>4. /\ Append(rest, e) \in Seq(Names) /\ IsInjective(Append(rest, e))
      /\ ToSet(Append(rest, e)) = ToSet(rest) \cup {e}
  BY <1>3, AppendNewFacts
<1>5. changed' \in [Issues -> Seq(Names)]
  BY <1>1, <1>2, <1>4
<1>6. \A j \in Issues : changed'[j] = IF j = i THEN Append(rest, e) ELSE changed[j]
  BY <1>1, <1>2
<1>7. ASSUME NEW j \in Issues
      PROVE  /\ IsInjective(changed'[j])
             /\ \A f \in Names : <<j, f>> \in dirs' <=> f \in ToSet(changed'[j])
  <2>1. CASE j = i
    BY <1>3, <1>4, <1>6, <2>1 DEF Listed
  <2>2. CASE j # i
    BY <1>6, <2>2 DEF Listed
  <2> QED BY <2>1, <2>2
<1> QED BY <1>5, <1>7 DEF Listed

(* No entry comes or goes.                                                   *)
LEMMA StaysListed ==
  ASSUME Typed, Listed, UNCHANGED changed,
         \A i \in Issues, e \in Names : <<i, e>> \in dirs' <=> <<i, e>> \in dirs
  PROVE  Listed' /\ changed' \in [Issues -> Seq(Names)]
BY DEF Listed, Typed, TreeTypes

(* An entry goes.                                                            *)
LEMMA RemovalLists ==
  ASSUME Typed, Listed, NEW i \in Issues, NEW e \in Names, dirs' = dirs \ {<<i, e>>},
         changed' = [changed EXCEPT ![i] = RemoveFirst(@, e)]
  PROVE  Listed' /\ changed' \in [Issues -> Seq(Names)]
<1> DEFINE rest == RemoveFirst(changed[i], e)
<1>1. changed \in [Issues -> Seq(Names)] /\ IsInjective(changed[i])
  BY DEF Typed, TreeTypes, Listed
<1>2. changed' = [changed EXCEPT ![i] = rest]
  OBVIOUS
<1>3. rest \in Seq(Names) /\ IsInjective(rest) /\ ToSet(rest) = ToSet(changed[i]) \ {e}
  BY <1>1, RemoveFirstFacts
<1> HIDE DEF rest
<1>4. \A j \in Issues : changed'[j] = IF j = i THEN rest ELSE changed[j]
  BY <1>1, <1>2
<1>5. ASSUME NEW j \in Issues
      PROVE  /\ IsInjective(changed'[j])
             /\ \A f \in Names : <<j, f>> \in dirs' <=> f \in ToSet(changed'[j])
  <2>1. CASE j = i
    BY <1>3, <1>4, <2>1 DEF Listed
  <2>2. CASE j # i
    BY <1>4, <2>2 DEF Listed
  <2> QED BY <2>1, <2>2
<1> QED BY <1>1, <1>2, <1>3, <1>5 DEF Listed

-----------------------------------------------------------------------------
(* The server. *)

(* What a step of the thread of r, or of its builder, does to the rest.      *)
ThreadMoves(r) ==
  /\ UNCHANGED <<issue, most, reaper, robbed>>
  /\ \A q \in Requests \ {r} : /\ thread'[q] = thread[q] /\ level'[q] = level[q]
                             /\ child'[q] = child[q]
  /\ \/ level'[r] = level[r] /\ dirs' = dirs
     \/ /\ thread[r] \in {"exists", "mkdir"} /\ level[r] \in 1..4 /\ level'[r] = level[r] + 1
        /\ dirs' = dirs \cup {PathAt(r, level[r])}
  /\ thread'[r] \in Working => thread[r] \in Working \/ level'[r] = 1
  /\ thread'[r] = "mkdir" => level'[r] = level[r] /\ PathAt(r, level[r]) \notin dirs
  /\ thread'[r] = "failed" /\ child'[r] = "none" /\ ShapeOf[r] = "ok"
       => /\ level'[r] = level[r] /\ child[r] = "none"
          /\ \/ thread[r] = "failed" \/ r \in robbed
             \/ \E s \in Requests : Contends(s, r)

(* Such a step keeps what concerns the threads and the reaper.               *)
LEMMA ThreadMovesKeep ==
  ASSUME TreeInv, Typed', NEW r \in Requests, ThreadMoves(r)
  PROVE  /\ ReaperInv' /\ RunLeft' /\ ARunIsKept' /\ WayInv' /\ MkdirInv' /\ RobbedInv'
         /\ DroppedForAReason'
<1>1. /\ dirs \subseteq dirs'
      /\ UNCHANGED <<issue, most, rstep, issueNums, closeNums, target, victims, emptied, robbed>>
  BY DEF ThreadMoves, reaper
<1>2. /\ \A q \in Requests : level[q] \in 1..5 /\ level'[q] \in 1..5
      /\ \A q \in Requests : level[q] <= level'[q]
  BY DEF ThreadMoves, TreeInv, Typed, TypeOK
<1>3. ReaperInv'
  BY <1>1 DEF TreeInv, ReaperInv, Removing, Entries
<1>4. RunLeft'
  <2> SUFFICES ASSUME NEW i \in Issues, most[i] # "old",
                      NEW d \in Entries(i)' \cap RunDirs
               PROVE  (Entries(i)' \cap RunDirs) \ victims # {}
    BY <1>1 DEF RunLeft
  <2>1. CASE d \in dirs
    BY <1>1, <2>1 DEF TreeInv, RunLeft, Entries
  <2>2. CASE d \notin dirs
    BY <2>2 DEF TreeInv, ReaperInv, Entries
  <2> QED BY <2>1, <2>2
<1>5. ARunIsKept'
  <2> SUFFICES ASSUME NEW q \in Requests, most[IssueOf[q]] # "old", level'[q] = 5
               PROVE  Entries(IssueOf[q])' \cap RunDirs # {}
    BY <1>1 DEF ARunIsKept
  <2>1. CASE level[q] = 5
    BY <1>1, <2>1 DEF TreeInv, ARunIsKept, Entries
  <2>2. CASE level[q] # 5
    <3>1. q = r /\ level[r] = 4 /\ PathAt(r, 4) \in dirs'
      BY <1>2, <2>2 DEF ThreadMoves
    <3>2. PathAt(r, 4) = RunDir(r) /\ RunDir(r) \in RunDirs
      BY PathFacts
    <3> QED BY <3>1, <3>2, RequestFacts DEF Entries, RunDir
  <2> QED BY <2>1, <2>2
<1>6. \A q, s \in Requests : level'[q] = level[q] /\ Contends(s, q) => Contends(s, q)'
  BY <1>2 DEF Contends
<1>7. WayInv'
  <2> SUFFICES ASSUME NEW q \in Requests, NEW k \in 1..4, thread'[q] \in Working, k < level'[q]
               PROVE  PathAt(q, k) \in dirs' \/ q \in robbed
    BY <1>1 DEF WayInv
  <2>1. CASE q # r
    BY <1>1, <2>1 DEF ThreadMoves, TreeInv, WayInv
  <2>2. CASE q = r
    <3>1. thread[r] \in Working
      BY <2>2 DEF ThreadMoves
    <3>2. CASE k < level[r]
      BY <1>1, <2>2, <3>1, <3>2 DEF TreeInv, WayInv
    <3>3. CASE ~(k < level[r])
      <4>1. k = level[r] /\ PathAt(r, level[r]) \in dirs'
        BY <1>2, <2>2, <3>3 DEF ThreadMoves
      <4> QED BY <2>2, <4>1
    <3> QED BY <3>2, <3>3
  <2> QED BY <2>1, <2>2
<1>8. MkdirInv'
  <2> SUFFICES ASSUME NEW q \in Requests, thread'[q] = "mkdir", PathAt(q, level'[q]) \in dirs'
               PROVE  \E s \in Requests : Contends(s, q)'
    BY DEF MkdirInv
  <2>1. CASE q = r
    BY <2>1 DEF ThreadMoves
  <2>2. CASE q # r
    <3>1. thread[q] = "mkdir" /\ level'[q] = level[q]
      BY <2>2 DEF ThreadMoves
    <3>2. CASE PathAt(q, level[q]) \in dirs
      BY <1>6, <3>1, <3>2 DEF TreeInv, MkdirInv
    <3>3. CASE PathAt(q, level[q]) \notin dirs
      <4>1. level[r] \in 1..4 /\ level'[r] = level[r] + 1 /\ PathAt(q, level[q]) = PathAt(r, level[r])
        BY <3>1, <3>3 DEF ThreadMoves
      <4>2. level[q] \in 1..4
        BY <3>1 DEF TreeInv, Typed, StepsInv
      <4>3. level[q] = level[r]
        BY <4>1, <4>2, PathsDiffer
      <4>4. Contends(r, q)'
        BY <2>2, <3>1, <4>1, <4>2, <4>3 DEF Contends
      <4> QED BY <4>4
    <3> QED BY <3>2, <3>3
  <2> QED BY <2>1, <2>2
<1>9. RobbedInv'
  BY <1>1 DEF TreeInv, RobbedInv
<1>10. DroppedForAReason'
  <2> SUFFICES ASSUME NEW q \in Requests, ShapeOf[q] = "ok", thread'[q] = "failed",
                      child'[q] = "none"
               PROVE  \/ \E s \in Requests : Contends(s, q)'
                      \/ q \in robbed /\ most[IssueOf[q]] # "open"
    BY <1>1 DEF DroppedForAReason
  <2>1. level'[q] = level[q]
    BY DEF ThreadMoves
  <2>2. \/ thread[q] = "failed" /\ child[q] = "none"
        \/ q \in robbed \/ \E s \in Requests : Contends(s, q)
    BY DEF ThreadMoves
  <2>3. \/ \E s \in Requests : Contends(s, q)
        \/ q \in robbed /\ most[IssueOf[q]] # "open"
    BY <2>2 DEF TreeInv, DroppedForAReason, RobbedInv
  <2> QED BY <1>6, <2>1, <2>3
<1> QED BY <1>3, <1>4, <1>5, <1>7, <1>8, <1>9, <1>10

(* With types and listing such a step keeps the whole invariant.             *)
LEMMA ThreadMovesInv ==
  ASSUME TreeInv, Typed', Listed', NEW r \in Requests, ThreadMoves(r)
  PROVE  TreeInv'
BY ThreadMovesKeep DEF TreeInv

(* The steps of a thread that touch no directory: its own place changes, and *)
(* what it must have behind it to be there holds.                            *)
LEMMA PlaceTyped ==
  ASSUME Typed, NEW r \in Requests, NEW step \in ThreadSteps, Goto(r, step),
         UNCHANGED <<level, dirs, child>>, TreeTypes',
         up' \in BOOLEAN /\ conn' \in BOOLEAN /\ replied' \subseteq Requests,
         manifest' \in [RunDirs -> Requests \cup {NoFile, Empty, Garbled}],
         \/ step \in {"missed", "crashed", "ignored", "failed"}
         \/ step \in {"queued", "start", "parse"} /\ child[r] = "none" /\ level[r] = 1
         \/ /\ step = "exists" /\ child[r] = "none" /\ level[r] = 1
            /\ ShapeOf[r] \in {"ok", "bad_svn_url"}
         \/ step = "mkdir" /\ thread[r] = "exists"
         \/ step = "write" /\ thread[r] = "open"
         \/ step = "launch" /\ thread[r] = "write"
         \/ step \in {"wait", "done"} /\ child[r] # "none"
  PROVE  Typed'
<1>1. TypeOK'
  BY DEF Typed, TypeOK, Goto
<1>2. StepsInv'
  BY DEF Typed, TypeOK, StepsInv, Goto, BeforeLaunch
<1> QED BY <1>1, <1>2 DEF Typed

(* The types of the tree, where its own variables stay.                      *)
LEMMA TreeTypesStay ==
  ASSUME Typed, UNCHANGED <<issue, most, changed, linked, robbed, rstep, issueNums, closeNums,
                            target>>
  PROVE  TreeTypes'
BY DEF Typed, TreeTypes

(* An entry of an issue that nobody touches. *)
LEMMA NoEntryMoves ==
  ASSUME Typed, Listed, UNCHANGED <<changed, dirs>>
  PROVE  Listed'
BY StaysListed

(* From the broker into a thread, and up to the first directory.             *)
LEMMA StartSteps ==
  ASSUME TreeInv, NEW r \in Requests, Publish(r) \/ OnMessage(r) \/ Announce(r) \/ Parse(r),
         UNCHANGED <<tree, issue, most, reaper>>
  PROVE  TreeInv'
<1>1. child[r] = "none" /\ level[r] = 1 /\ thread[r] \in {"unsent", "queued", "start", "parse"}
  BY DEF TreeInv, Typed, StepsInv, BeforeLaunch, Publish, OnMessage, Announce, Parse
<1>2. PICK step \in {"queued", "start", "parse", "missed", "crashed", "ignored", "failed", "exists"} :
             /\ Goto(r, step)
             /\ step = "failed" => ShapeOf[r] # "ok"
             /\ step = "exists" => ShapeOf[r] \in {"ok", "bad_svn_url"}
             /\ step \in Working => thread[r] \in Working \/ level[r] = 1
  <2>1. ShapeOf[r] \in Shapes
    BY RequestFacts
  <2>2. CASE Parse(r)
    <3>1. CASE ShapeOf[r] \in {"not_json", "no_job_id"}
      BY <1>1, <2>2, <3>1 DEF Parse
    <3>2. CASE ShapeOf[r] = "bad_client_id"
      BY <1>1, <2>2, <3>2 DEF Parse
    <3>3. CASE ShapeOf[r] \in {"ok", "bad_svn_url"}
      BY <1>1, <2>2, <3>3 DEF Parse
    <3> QED BY <2>1, <3>1, <3>2, <3>3 DEF Shapes
  <2>3. CASE Publish(r) \/ OnMessage(r) \/ Announce(r)
    BY <1>1, <2>3 DEF Publish, OnMessage, Announce
  <2> QED BY <2>2, <2>3
<1>3. UNCHANGED <<up, conn, level, dirs, manifest, child, replied>>
  BY DEF Publish, OnMessage, Announce, Parse
<1>4. step \in ThreadSteps
  BY DEF ThreadSteps, Working, Settled
<1>5. Typed'
  BY <1>1, <1>2, <1>3, <1>4, PlaceTyped, TreeTypesStay DEF TreeInv, Typed, TypeOK, tree, reaper
<1>6. Listed'
  BY <1>3, NoEntryMoves DEF TreeInv, tree
<1>7. ThreadMoves(r)
  BY <1>1, <1>2, <1>3 DEF ThreadMoves, Goto, tree, TreeInv, Typed, TypeOK
<1> QED BY <1>5, <1>6, <1>7, ThreadMovesInv

(* The directory at the level of r is there, or r has just made it.          *)
LEMMA LevelTyped ==
  ASSUME Typed, NEW r \in Requests, thread[r] \in {"exists", "mkdir"}, NextLevel(r),
         dirs' = dirs \cup {PathAt(r, level[r])}, TreeTypes',
         UNCHANGED <<up, conn, manifest, child, replied>>
  PROVE  Typed'
<1>1. level[r] \in 1..4 /\ level' = [level EXCEPT ![r] = level[r] + 1]
  BY DEF Typed, StepsInv, NextLevel
<1>2. PathAt(r, level[r]) \in Paths
  BY <1>1, PathFacts
<1>3. thread' \in [Requests -> ThreadSteps] /\ level' \in [Requests -> 1..5]
  BY <1>1 DEF Typed, TypeOK, NextLevel, Goto, ThreadSteps, Working, Settled
<1>4. TypeOK'
  BY <1>2, <1>3 DEF Typed, TypeOK
<1>5. StepsInv'
  BY <1>1 DEF Typed, TypeOK, StepsInv, NextLevel, Goto, BeforeLaunch
<1> QED BY <1>4, <1>5 DEF Typed

(* A thread goes down one level. *)
LEMMA LevelMoves ==
  ASSUME TreeInv, NEW r \in Requests, thread[r] \in {"exists", "mkdir"}, NextLevel(r),
         dirs' = dirs \cup {PathAt(r, level[r])},
         UNCHANGED <<up, conn, manifest, child, replied, issue, most, reaper, robbed>>
  PROVE  ThreadMoves(r)
<1>1. level[r] \in 1..4 /\ level'[r] = level[r] + 1 /\ thread'[r] \in {"failed", "open", "exists"}
  BY DEF TreeInv, Typed, TypeOK, StepsInv, NextLevel, Goto
<1>2. \A q \in Requests \ {r} : thread'[q] = thread[q] /\ level'[q] = level[q]
  BY DEF TreeInv, Typed, TypeOK, NextLevel, Goto
<1>3. thread'[r] = "failed" => ShapeOf[r] # "ok"
  BY DEF TreeInv, Typed, TypeOK, StepsInv, NextLevel, Goto
<1> QED BY <1>1, <1>2, <1>3 DEF ThreadMoves, Working

(* Exists.                                                                   *)
LEMMA ExistsStep ==
  ASSUME TreeInv, NEW r \in Requests, Exists(r), UNCHANGED <<tree, issue, most, reaper>>
  PROVE  TreeInv'
<1>1. TreeTypes'
  BY TreeTypesStay DEF TreeInv, tree, reaper
<1>2. CASE PathAt(r, level[r]) \in dirs
  <2>1. thread[r] = "exists" /\ NextLevel(r) /\ dirs' = dirs \cup {PathAt(r, level[r])}
        /\ UNCHANGED <<up, conn, manifest, child, replied>>
    BY <1>2 DEF Exists
  <2>2. Typed' /\ ThreadMoves(r)
    BY <1>1, <2>1, LevelTyped, LevelMoves DEF TreeInv, tree
  <2>3. Listed'
    BY NoEntryMoves DEF TreeInv, tree, Exists
  <2> QED BY <2>2, <2>3, ThreadMovesInv
<1>3. CASE PathAt(r, level[r]) \notin dirs
  <2>1. thread[r] = "exists" /\ Goto(r, "mkdir")
        /\ UNCHANGED <<level, up, conn, dirs, manifest, child, replied>>
    BY <1>3 DEF Exists
  <2>2. Typed'
    BY <1>1, <2>1, PlaceTyped DEF TreeInv, Typed, TypeOK, ThreadSteps, Working
  <2>3. Listed'
    BY <2>1, NoEntryMoves DEF TreeInv, tree
  <2>4. ThreadMoves(r)
    BY <1>3, <2>1 DEF ThreadMoves, Goto, tree, Working, TreeInv, Typed, TypeOK
  <2> QED BY <2>2, <2>3, <2>4, ThreadMovesInv
<1> QED BY <1>2, <1>3

(* A mkdir that comes through.                                               *)
LEMMA MakesDirectoryStep ==
  ASSUME TreeInv, NEW r \in Requests, MakesDirectory(r), UNCHANGED <<issue, most, reaper>>
  PROVE  TreeInv'
<1>1. /\ thread[r] = "mkdir" /\ NextLevel(r) /\ dirs' = dirs \cup {PathAt(r, level[r])}
      /\ UNCHANGED <<up, conn, manifest, child, replied, linked, refilled, robbed>>
  BY DEF MakesDirectory, MkDir
<1>2. level[r] \in 1..4
  BY <1>1 DEF TreeInv, Typed, StepsInv
<1>3. Listed' /\ changed' \in [Issues -> Seq(Names)]
  <2>1. CASE level[r] <= 2
    <3>1. PathAt(r, level[r])[2] = None /\ None \notin Names
      BY <1>2, <2>1, NamesAssumption DEF PathAt, Names
    <3>2. \A i \in Issues, e \in Names : <<i, e>> \in dirs' <=> <<i, e>> \in dirs
      BY <1>1, <3>1
    <3>3. UNCHANGED changed
      BY <2>1 DEF MakesDirectory
    <3> QED BY <3>2, <3>3, StaysListed DEF TreeInv
  <2>2. CASE ~(level[r] <= 2)
    <3>1. PICK e \in Names : PathAt(r, level[r]) = <<IssueOf[r], e>>
      BY <1>2, <2>2, RequestFacts DEF PathAt, Names, RunDir
    <3>2. Touch(<<IssueOf[r], e>>)
      BY <2>2, <3>1 DEF MakesDirectory
    <3> QED BY <1>1, <3>1, <3>2, TouchLists, RequestFacts DEF TreeInv
  <2> QED BY <2>1, <2>2
<1>4. TreeTypes'
  BY <1>1, <1>3 DEF TreeInv, Typed, TreeTypes, reaper
<1>5. Typed' /\ ThreadMoves(r)
  BY <1>1, <1>4, LevelTyped, LevelMoves DEF TreeInv
<1> QED BY <1>3, <1>5, ThreadMovesInv

(* A mkdir fails as another request is past that directory, or as the reaper *)
(* has taken the one above it.                                               *)
LEMMA MkDirFailsInTree ==
  ASSUME TreeInv, NEW r \in Requests, MkDirFails(r), UNCHANGED <<tree, issue, most, reaper>>
  PROVE  TreeInv'
<1>1. /\ thread[r] = "mkdir" /\ Goto(r, "failed") /\ ~CanMake(r)
      /\ UNCHANGED <<up, conn, level, dirs, manifest, child, replied>>
  BY DEF MkDirFails
<1>2. level[r] \in 1..4 /\ child[r] = "none"
  BY <1>1 DEF TreeInv, Typed, StepsInv, BeforeLaunch
<1>3. r \in robbed \/ \E s \in Requests : Contends(s, r)
  <2>1. CASE PathAt(r, level[r]) \in dirs
    BY <1>1, <2>1 DEF TreeInv, MkdirInv
  <2>2. CASE ~(Parent(r, level[r]) \subseteq dirs)
    <3>1. PICK j \in 1..4 : j < level[r] /\ PathAt(r, j) \notin dirs
      BY <1>2, <2>2, ParentFacts
    <3>2. thread[r] \in Working
      BY <1>1 DEF Working
    <3> QED BY <3>1, <3>2 DEF TreeInv, WayInv
  <2> QED BY <1>1, <2>1, <2>2 DEF CanMake
<1>4. TreeTypes'
  BY TreeTypesStay DEF TreeInv, tree, reaper
<1>5. Typed'
  BY <1>1, <1>4, PlaceTyped DEF TreeInv, Typed, TypeOK, ThreadSteps, Settled
<1>6. Listed'
  BY <1>1, NoEntryMoves DEF TreeInv, tree
<1>7. ThreadMoves(r)
  BY <1>1, <1>2, <1>3 DEF ThreadMoves, Goto, tree, Working, TreeInv, Typed, TypeOK
<1> QED BY <1>5, <1>6, <1>7, ThreadMovesInv

(* A thread that finds its run directory gone was robbed of it.              *)
LEMMA FailsStep ==
  ASSUME TreeInv, NEW r \in Requests, thread[r] \in {"open", "launch"}, RunDir(r) \notin dirs,
         Fails(r), UNCHANGED <<issue, most, reaper>>
  PROVE  TreeInv'
<1>1. Goto(r, "failed") /\ UNCHANGED <<up, conn, level, dirs, manifest, child, replied, tree>>
  BY DEF Fails
<1>2. level[r] = 5 /\ child[r] = "none" /\ thread[r] \in Working
  BY DEF TreeInv, Typed, StepsInv, BeforeLaunch, Working
<1>3. r \in robbed
  BY <1>2, PathFacts DEF TreeInv, WayInv
<1>4. TreeTypes' /\ Listed'
  BY <1>1, TreeTypesStay, NoEntryMoves DEF TreeInv, tree, reaper
<1>5. Typed'
  BY <1>1, <1>4, PlaceTyped DEF TreeInv, Typed, TypeOK, ThreadSteps, Settled
<1>6. ThreadMoves(r)
  BY <1>1, <1>2, <1>3 DEF ThreadMoves, Goto, tree, Working, TreeInv, Typed, TypeOK
<1> QED BY <1>4, <1>5, <1>6, ThreadMovesInv

(* open, in a directory that is there or, robbed of it, in none.             *)
LEMMA OpensManifestStep ==
  ASSUME TreeInv, NEW r \in Requests, OpensManifest(r), UNCHANGED <<issue, most, reaper>>
  PROVE  TreeInv'
<1>1. thread[r] = "open" /\ level[r] = 5 /\ child[r] = "none"
  BY DEF TreeInv, Typed, StepsInv, BeforeLaunch, OpensManifest, OpenManifest
<1>2. CASE RunDir(r) \in dirs /\ OpenManifest(r)
  <2>1. Listed' /\ changed' \in [Issues -> Seq(Names)]
    <3>1. CASE UNCHANGED changed
      BY <1>2, <3>1, StaysListed DEF TreeInv, OpenManifest
    <3>2. CASE Touch(RunDir(r))
      <4>1. dirs' = dirs \cup {<<IssueOf[r], RunOf[r]>>} /\ RunOf[r] \in Names
        BY <1>2, RequestFacts DEF OpenManifest, RunDir, Names
      <4> QED BY <3>2, <4>1, TouchLists, RequestFacts DEF TreeInv, RunDir
    <3> QED BY <1>1, <1>2, <3>1, <3>2 DEF OpensManifest
  <2>2. TreeTypes'
    BY <1>2, <2>1 DEF TreeInv, Typed, TreeTypes, reaper, OpensManifest
  <2>3. Goto(r, "write") /\ UNCHANGED <<up, conn, level, dirs, child, replied>>
        /\ manifest' \in [RunDirs -> Requests \cup {NoFile, Empty, Garbled}]
    BY <1>2 DEF OpenManifest, TreeInv, Typed, TypeOK
  <2>4. Typed'
    BY <1>1, <2>2, <2>3, PlaceTyped DEF TreeInv, Typed, TypeOK, ThreadSteps, Working
  <2>5. ThreadMoves(r)
    BY <1>1, <1>2, <2>3 DEF ThreadMoves, Goto, Working, OpensManifest, TreeInv, Typed, TypeOK
  <2> QED BY <2>1, <2>4, <2>5, ThreadMovesInv
<1>3. CASE RunDir(r) \notin dirs /\ Fails(r)
  BY <1>1, <1>3, FailsStep
<1> QED BY <1>2, <1>3 DEF OpensManifest

(* close, of a file that is still there or not.                              *)
LEMMA ClosesManifestStep ==
  ASSUME TreeInv, NEW r \in Requests, ClosesManifest(r), UNCHANGED <<issue, most, reaper>>
  PROVE  TreeInv'
<1>1. /\ thread[r] = "write" /\ Goto(r, "launch")
      /\ UNCHANGED <<up, conn, level, dirs, child, replied, tree>>
  BY DEF ClosesManifest, CloseManifest
<1>2. manifest' \in [RunDirs -> Requests \cup {NoFile, Empty, Garbled}]
  BY DEF ClosesManifest, CloseManifest, TreeInv, Typed, TypeOK
<1>3. TreeTypes'
  BY <1>1, TreeTypesStay DEF TreeInv, tree, reaper
<1>4. Typed'
  BY <1>1, <1>2, <1>3, PlaceTyped DEF TreeInv, Typed, TypeOK, ThreadSteps, Working
<1>5. Listed'
  BY <1>1, NoEntryMoves DEF TreeInv, tree
<1>6. ThreadMoves(r)
  BY <1>1 DEF ThreadMoves, Goto, Working, tree, TreeInv, Typed, TypeOK
<1> QED BY <1>4, <1>5, <1>6, ThreadMovesInv

(* The start of the builder.                                                 *)
LEMMA LaunchesStep ==
  ASSUME TreeInv, NEW r \in Requests, Launches(r), UNCHANGED <<issue, most, reaper>>
  PROVE  TreeInv'
<1>1. thread[r] = "launch" /\ level[r] = 5 /\ child[r] = "none"
  BY DEF TreeInv, Typed, StepsInv, BeforeLaunch, Launches, Launch
<1>2. CASE RunDir(r) \in dirs /\ Launch(r)
  <2>1. Listed' /\ changed' \in [Issues -> Seq(Names)]
    <3>1. CASE UNCHANGED changed
      BY <1>2, <3>1, StaysListed DEF TreeInv, Launch
    <3>2. CASE Touch(RunDir(r))
      <4>1. dirs' = dirs \cup {<<IssueOf[r], RunOf[r]>>} /\ RunOf[r] \in Names
        BY <1>2, RequestFacts DEF Launch, RunDir, Names
      <4> QED BY <3>2, <4>1, TouchLists, RequestFacts DEF TreeInv, RunDir
    <3> QED BY <1>1, <1>2, <3>1, <3>2 DEF Launches
  <2>2. TreeTypes'
    BY <1>2, <2>1 DEF TreeInv, Typed, TreeTypes, reaper, Launches
  <2>3. TypeOK'
    BY <1>2 DEF TreeInv, Typed, TypeOK, Launch, Goto, ThreadSteps, Working
  <2>4. StepsInv'
    BY <1>1, <1>2 DEF TreeInv, Typed, TypeOK, StepsInv, Launch, Goto, BeforeLaunch
  <2>5. ThreadMoves(r)
    BY <1>1, <1>2 DEF ThreadMoves, Goto, Working, Launches, Launch, TreeInv, Typed, TypeOK
  <2> QED BY <2>1, <2>2, <2>3, <2>4, <2>5, ThreadMovesInv DEF Typed
<1>3. CASE RunDir(r) \notin dirs /\ Fails(r)
  BY <1>1, <1>3, FailsStep
<1> QED BY <1>2, <1>3 DEF Launches

(* The reply, the end of the wait, and the builder's.                        *)
LEMMA EndSteps ==
  ASSUME TreeInv, NEW r \in Requests, Reply(r) \/ Wait(r) \/ ChildExit(r),
         UNCHANGED <<tree, issue, most, reaper>>
  PROVE  TreeInv'
<1>1. TreeTypes' /\ Listed'
  BY TreeTypesStay, NoEntryMoves DEF TreeInv, tree, reaper, Reply, Wait, ChildExit
<1>2. child[r] # "none" /\ thread[r] # "mkdir"
  BY DEF TreeInv, Typed, StepsInv, BeforeLaunch, Reply, Wait, ChildExit
<1>3. CASE Reply(r) \/ Wait(r)
  <2>1. PICK step \in {"wait", "done", "failed"} : Goto(r, step)
    BY <1>3 DEF Reply, Wait
  <2>2. /\ UNCHANGED <<up, conn, level, dirs, manifest, child>> /\ replied' \subseteq Requests
        /\ thread[r] \in Working
    BY <1>3 DEF Reply, Wait, Working, TreeInv, Typed, TypeOK
  <2>3. Typed'
    BY <1>1, <1>2, <2>1, <2>2, PlaceTyped DEF TreeInv, Typed, TypeOK, ThreadSteps, Working, Settled
  <2>4. ThreadMoves(r)
    BY <1>2, <2>1, <2>2 DEF ThreadMoves, Goto, tree, TreeInv, Typed, TypeOK
  <2> QED BY <1>1, <2>3, <2>4, ThreadMovesInv
<1>4. CASE ChildExit(r)
  <2>1. TypeOK' /\ StepsInv'
    BY <1>4 DEF TreeInv, Typed, TypeOK, StepsInv, BeforeLaunch, ChildExit
  <2>2. ThreadMoves(r)
    BY <1>2, <1>4 DEF ThreadMoves, ChildExit, tree, TreeInv, Typed, TypeOK
  <2> QED BY <1>1, <2>1, <2>2, ThreadMovesInv DEF Typed
<1> QED BY <1>3, <1>4

(* A builder touches what is there.                                          *)
LEMMA BuilderWorksStep ==
  ASSUME TreeInv, BuilderWorks
  PROVE  TreeInv'
<1>1. PICK r \in Requests, e \in Runs \cup {RLibs} :
             <<IssueOf[r], e>> \in dirs /\ Touch(<<IssueOf[r], e>>)
  BY RequestFacts DEF BuilderWorks, RunDir
<1>2. UNCHANGED <<vars, issue, most, reaper, linked, refilled, robbed>>
  BY DEF BuilderWorks
<1>3. dirs' = dirs \cup {<<IssueOf[r], e>>} /\ e \in Names
  BY <1>1, <1>2, RequestFacts DEF vars, Names
<1>4. Listed' /\ changed' \in [Issues -> Seq(Names)]
  BY <1>1, <1>3, TouchLists, RequestFacts DEF TreeInv
<1>5. Typed'
  BY <1>2, <1>4 DEF TreeInv, Typed, TypeOK, StepsInv, TreeTypes, vars, reaper
<1>6. /\ ReaperInv' /\ RunLeft' /\ ARunIsKept' /\ WayInv' /\ MkdirInv' /\ RobbedInv'
      /\ DroppedForAReason'
  BY <1>2 DEF TreeInv, vars, reaper, ReaperInv, Removing, Entries, RunLeft, ARunIsKept, WayInv,
       MkdirInv, RobbedInv, DroppedForAReason, Contends
<1> QED BY <1>4, <1>5, <1>6 DEF TreeInv

-----------------------------------------------------------------------------
(* The reaper. *)

(* A step of the reaper moves no thread.  What it removes, it robs the       *)
(* threads of.                                                               *)
ReaperMoves ==
  /\ UNCHANGED <<up, conn, thread, level, child, replied, issue, most>>
  /\ dirs' \subseteq dirs /\ robbed \subseteq robbed'
  /\ \A d \in dirs \ dirs' : d \in victims \/ d[2] = None
  /\ \A r \in Requests : \A k \in 1..4 :
       thread[r] \in Working /\ k < level[r] /\ PathAt(r, k) \in dirs \ dirs' => r \in robbed'
  /\ \A r \in robbed' \ robbed : most[IssueOf[r]] # "open"

(* The steps of the reaper that remove nothing. *)
LEMMA ReaperMovesKeep ==
  ASSUME TreeInv, ReaperMoves, Listed', ReaperInv', RunLeft', TreeTypes',
         manifest' \in [RunDirs -> Requests \cup {NoFile, Empty, Garbled}]
  PROVE  TreeInv'
<1>1. /\ UNCHANGED <<up, conn, thread, level, child, replied, issue, most>>
      /\ dirs' \subseteq dirs /\ robbed \subseteq robbed'
  BY DEF ReaperMoves
<1>2. Typed'
  BY <1>1 DEF TreeInv, Typed, TypeOK, StepsInv, BeforeLaunch
<1>3. WayInv'
  BY <1>1 DEF TreeInv, WayInv, ReaperMoves
<1>4. MkdirInv'
  BY <1>1 DEF TreeInv, MkdirInv, Contends
<1>5. RobbedInv'
  BY <1>1 DEF TreeInv, RobbedInv, ReaperMoves
<1>6. DroppedForAReason'
  BY <1>1 DEF TreeInv, DroppedForAReason, Contends
<1>7. ASSUME NEW r \in Requests, most[IssueOf[r]] # "old", level[r] = 5
      PROVE  Entries(IssueOf[r])' \cap RunDirs # {}
  <2>1. Entries(IssueOf[r]) \cap RunDirs # {}
    BY <1>7 DEF TreeInv, ARunIsKept
  <2>2. \E d \in (Entries(IssueOf[r]) \cap RunDirs) \ victims : d \in dirs'
    BY <1>7, <2>1, RequestFacts DEF TreeInv, RunLeft, ReaperMoves, Entries
  <2> QED BY <2>2 DEF Entries
<1>8. ARunIsKept'
  BY <1>1, <1>7 DEF ARunIsKept
<1> QED BY <1>2, <1>3, <1>4, <1>5, <1>6, <1>8 DEF TreeInv

(* A path of a request, but for jobs itself, is below its issue.             *)
LEMMA PathsOfAnIssue ==
  ASSUME NEW r \in Requests, NEW k \in 1..4, PathAt(r, k)[1] \in Issues
  PROVE  IssueOf[r] = PathAt(r, k)[1]
BY NamesAssumption DEF PathAt, RunDir

(* Nothing is removed yet, or no more.                                       *)
LEMMA NothingRemoved ==
  ASSUME TreeInv, UNCHANGED <<vars, issue, most, tree>>, TreeTypes', ReaperInv', RunLeft'
  PROVE  TreeInv'
<1>1. ReaperMoves
  BY DEF ReaperMoves, vars, tree
<1>2. Listed' /\ manifest' \in [RunDirs -> Requests \cup {NoFile, Empty, Garbled}]
  BY NoEntryMoves DEF TreeInv, Typed, TypeOK, vars, tree
<1> QED BY <1>1, <1>2, ReaperMovesKeep

(* The query and its answer.                                                 *)
LEMMA FetchStep ==
  ASSUME TreeInv, Fetch
  PROVE  TreeInv'
<1>1. rstep = "idle" /\ rstep' = "old" /\ victims' = {} /\ UNCHANGED <<target, dirs, issue, most>>
  BY DEF Fetch, TreeInv, ReaperInv, Removing, vars
<1>2. TreeTypes'
  BY DEF TreeInv, Typed, TreeTypes, Fetch, Page, vars, tree
<1>3. ReaperInv'
  BY <1>1 DEF TreeInv, ReaperInv, Removing, Entries, Fetch, Page
<1>4. RunLeft'
  BY <1>1 DEF RunLeft, Entries
<1> QED BY <1>2, <1>3, <1>4, NothingRemoved DEF Fetch

(* The next of the issues closed for long: victims are all its entries.      *)
LEMMA OldIssuesStep ==
  ASSUME TreeInv, OldIssues
  PROVE  TreeInv'
<1>1. UNCHANGED <<vars, issue, most, closeNums, emptied, tree>> /\ rstep = "old" /\ victims = {}
  BY DEF OldIssues, TreeInv, ReaperInv, Removing
<1>2. CASE victims' = {} /\ rstep' \in {"old", "closed"} /\ target' = target /\ issueNums' \subseteq issueNums
  <2>1. TreeTypes'
    BY <1>1, <1>2 DEF TreeInv, Typed, TreeTypes, vars, tree
  <2>2. ReaperInv'
    BY <1>1, <1>2 DEF TreeInv, ReaperInv, Removing, Entries, vars
  <2>3. RunLeft'
    BY <1>1, <1>2 DEF RunLeft, Entries, vars
  <2> QED BY <1>1, <2>1, <2>2, <2>3, NothingRemoved
<1>3. ASSUME NEW i \in issueNums, issueNums' = issueNums \ {i}, rstep' = "rm_tree", target' = i,
             victims' = Entries(i)
      PROVE  TreeInv'
  <2>1. i \in Issues /\ most[i] = "old"
    BY DEF TreeInv, Typed, TreeTypes, ReaperInv
  <2>2. TreeTypes'
    BY <1>1, <1>3, <2>1 DEF TreeInv, Typed, TreeTypes, vars, tree
  <2>3. ReaperInv'
    BY <1>1, <1>3, <2>1 DEF TreeInv, ReaperInv, Removing, Entries, vars
  <2>4. RunLeft'
    BY <1>1, <1>3, <2>1 DEF RunLeft, Entries, vars
  <2> QED BY <1>1, <2>2, <2>3, <2>4, NothingRemoved
<1> QED BY <1>1, <1>2, <1>3 DEF OldIssues

(* The next of those closed lately: the run directory changed last is none   *)
(* of the victims.                                                           *)
LEMMA ClosedIssuesStep ==
  ASSUME TreeInv, ClosedIssues
  PROVE  TreeInv'
<1>1. UNCHANGED <<vars, issue, most, issueNums, emptied, tree>> /\ rstep = "closed" /\ victims = {}
  BY DEF ClosedIssues, TreeInv, ReaperInv, Removing
<1>2. CASE victims' = {} /\ rstep' \in {"idle", "closed"} /\ target' = target /\ closeNums' \subseteq closeNums
  <2>1. TreeTypes'
    BY <1>1, <1>2 DEF TreeInv, Typed, TreeTypes, vars, tree
  <2>2. ReaperInv'
    BY <1>1, <1>2 DEF TreeInv, ReaperInv, Removing, Entries, vars
  <2>3. RunLeft'
    BY <1>1, <1>2 DEF RunLeft, Entries, vars
  <2> QED BY <1>1, <2>1, <2>2, <2>3, NothingRemoved
<1>3. ASSUME NEW i \in closeNums, SortedLs(i) # <<>>, closeNums' = closeNums \ {i},
             rstep' = "rm_runs", target' = i,
             victims' = {<<i, e>> : e \in ToSet(Front(SortedLs(i)))}
      PROVE  TreeInv'
  <2>1. i \in Issues /\ most[i] # "open"
    BY DEF TreeInv, Typed, TreeTypes, ReaperInv
  <2>2. /\ changed[i] \in Seq(Names) /\ IsInjective(changed[i])
        /\ \A e \in Names : <<i, e>> \in dirs <=> e \in ToSet(changed[i])
    BY <2>1 DEF TreeInv, Typed, TreeTypes, Listed
  <2>3. /\ SortedLs(i) \in Seq(Names) /\ IsInjective(SortedLs(i))
        /\ ToSet(SortedLs(i)) = ToSet(changed[i]) \ {RLibs}
    BY <2>2, RemoveFirstFacts DEF SortedLs
  <2> DEFINE last == Last(SortedLs(i))
             front == ToSet(Front(SortedLs(i)))
  <2>4. last \in ToSet(SortedLs(i)) /\ last \notin front /\ front \subseteq ToSet(SortedLs(i))
    BY <1>3, <2>3, FrontFacts
  <2>5. ToSet(changed[i]) \subseteq Names /\ None \notin Names
    BY <2>2, NamesAssumption DEF ToSet, Names
  <2> HIDE DEF last, front
  <2>6. <<i, last>> \in Entries(i) \cap RunDirs
    BY <2>1, <2>2, <2>3, <2>4, <2>5 DEF Entries, RunDirs, Names
  <2>7. victims' = {<<i, e>> : e \in front}
    BY <1>3 DEF front
  <2>8. TreeTypes'
    BY <1>1, <1>3, <2>1 DEF TreeInv, Typed, TreeTypes, vars, tree
  <2>9. victims' \subseteq Entries(i)
    BY <2>1, <2>2, <2>3, <2>4, <2>5, <2>7 DEF Entries
  <2>10. ReaperInv'
    BY <1>1, <1>3, <2>1, <2>9 DEF TreeInv, ReaperInv, Removing, Entries, vars
  <2>11. <<i, last>> \notin victims'
    BY <2>4, <2>7
  <2>12. ASSUME NEW j \in Issues, j # i
         PROVE  Entries(j) \cap victims' = {}
    BY <2>7, <2>12 DEF Entries
  <2>13. RunLeft'
    BY <1>1, <2>6, <2>11, <2>12 DEF RunLeft, Entries, vars
  <2> QED BY <1>1, <2>8, <2>10, <2>13, NothingRemoved
<1> QED BY <1>1, <1>2, <1>3 DEF ClosedIssues

(* What is in an entry goes.                                                 *)
LEMMA EmptyOutStep ==
  ASSUME TreeInv, NEW d \in victims, EmptyOut(d)
  PROVE  TreeInv'
<1>1. /\ UNCHANGED <<up, conn, thread, level, dirs, child, replied, issue, most, changed, robbed,
                    rstep, issueNums, closeNums, target, victims>>
      /\ linked' \subseteq linked
  BY DEF EmptyOut
<1>2. manifest' \in [RunDirs -> Requests \cup {NoFile, Empty, Garbled}]
  BY DEF EmptyOut, TreeInv, Typed, TypeOK
<1>3. TreeTypes'
  BY <1>1 DEF TreeInv, Typed, TreeTypes
<1>4. Listed' /\ ReaperInv' /\ RunLeft'
  BY <1>1 DEF TreeInv, Listed, ReaperInv, Removing, RunLeft, Entries
<1>5. ReaperMoves
  BY <1>1 DEF ReaperMoves
<1> QED BY <1>2, <1>3, <1>4, <1>5, ReaperMovesKeep

(* An entry goes, and with it what those threads stood on; or it stays.      *)
LEMMA RemoveEntryStep ==
  ASSUME TreeInv, NEW d \in victims, RemoveEntry(d)
  PROVE  TreeInv'
<1>1. /\ UNCHANGED <<up, conn, thread, level, manifest, child, replied, issue, most, linked,
                    rstep, issueNums, closeNums, target>>
      /\ victims' = victims \ {d}
  BY DEF RemoveEntry
<1>2. /\ target \in Issues /\ most[target] # "open" /\ Removing
      /\ d \in dirs /\ d[1] = target /\ d[2] # None /\ d \in Paths
  BY DEF TreeInv, ReaperInv, Removing, Entries, Typed, TypeOK
<1>3. PICK e \in Names : d = <<target, e>>
  BY <1>2 DEF Paths, Names
<1>4. manifest' \in [RunDirs -> Requests \cup {NoFile, Empty, Garbled}]
  BY <1>1 DEF TreeInv, Typed, TypeOK
<1>5. RunLeft'
  <2>1. dirs' = dirs \/ dirs' = dirs \ {d}
    BY DEF RemoveEntry
  <2> QED BY <1>1, <2>1 DEF TreeInv, RunLeft, Entries
<1>6. ReaperInv'
  <2>1. dirs' = dirs \/ dirs' = dirs \ {d}
    BY DEF RemoveEntry
  <2> QED BY <1>1, <1>2, <2>1 DEF TreeInv, ReaperInv, Removing, Entries
<1>7. CASE UNCHANGED <<dirs, changed, robbed>>
  <2>1. TreeTypes' /\ Listed'
    BY <1>1, <1>7, NoEntryMoves DEF TreeInv, Typed, TreeTypes
  <2>2. ReaperMoves
    BY <1>1, <1>7 DEF ReaperMoves
  <2> QED BY <1>4, <1>5, <1>6, <2>1, <2>2, ReaperMovesKeep
<1>8. CASE /\ dirs' = dirs \ {d} /\ robbed' = Robbed(d[1])
           /\ changed' = [changed EXCEPT ![d[1]] = RemoveFirst(@, d[2])]
  <2>0. /\ d[1] = target /\ d[2] = e
        /\ dirs' = dirs \ {<<target, e>>}
        /\ changed' = [changed EXCEPT ![target] = RemoveFirst(@, e)]
    BY <1>3, <1>8
  <2>1. Listed' /\ changed' \in [Issues -> Seq(Names)]
    BY <1>2, <1>3, <2>0, RemovalLists DEF TreeInv
  <2>2. TreeTypes'
    BY <1>1, <1>8, <2>1 DEF TreeInv, Typed, TreeTypes, Robbed
  <2>3. ASSUME NEW r \in Requests, NEW k \in 1..4, thread[r] \in Working, PathAt(r, k) = d
        PROVE  r \in Robbed(target)
    BY <1>2, <2>3, PathsOfAnIssue DEF Robbed
  <2>4. ReaperMoves
    BY <1>1, <1>2, <1>8, <2>3 DEF ReaperMoves, Robbed
  <2> QED BY <1>4, <1>5, <1>6, <2>1, <2>2, <2>4, ReaperMovesKeep
<1> QED BY <1>7, <1>8 DEF RemoveEntry

(* The end of an rm -rf.                                                     *)
LEMMA RemovedStep ==
  ASSUME TreeInv, Removed
  PROVE  TreeInv'
<1>1. /\ UNCHANGED <<up, conn, thread, level, manifest, child, replied, issue, most, linked,
                    changed, issueNums, closeNums, victims>>
      /\ victims = {} /\ target' = None /\ rstep' \in {"old", "closed"} /\ Removing
  BY DEF Removed, Removing
<1>2. target \in Issues /\ most[target] # "open"
  BY <1>1 DEF TreeInv, ReaperInv
<1>3. \/ UNCHANGED <<dirs, robbed>>
      \/ dirs' = dirs \ {Tree(target)} /\ robbed' = Robbed(target)
  BY DEF Removed
<1>4. manifest' \in [RunDirs -> Requests \cup {NoFile, Empty, Garbled}]
  BY <1>1 DEF TreeInv, Typed, TypeOK
<1>5. TreeTypes'
  BY <1>1, <1>3 DEF TreeInv, Typed, TreeTypes, Robbed
<1>6. \A i \in Issues : Entries(i)' = Entries(i)
  BY <1>3 DEF Entries, Tree
<1>7. Listed'
  <2>1. None \notin Names
    BY NamesAssumption DEF Names
  <2>2. \A i \in Issues, e \in Names : <<i, e>> \in dirs' <=> <<i, e>> \in dirs
    BY <1>3, <2>1 DEF Tree
  <2> QED BY <1>1, <2>2, StaysListed DEF TreeInv
<1>8. ReaperInv'
  BY <1>1 DEF TreeInv, ReaperInv, Removing
<1>9. RunLeft'
  BY <1>1, <1>6 DEF TreeInv, RunLeft
<1>10. ASSUME NEW r \in Requests, NEW k \in 1..4, thread[r] \in Working, PathAt(r, k) = Tree(target)
       PROVE  r \in Robbed(target)
  BY <1>2, <1>10, PathsOfAnIssue DEF Robbed, Tree
<1>11. ReaperMoves
  BY <1>1, <1>2, <1>3, <1>10 DEF ReaperMoves, Robbed, Tree
<1> QED BY <1>4, <1>5, <1>7, <1>8, <1>9, <1>11, ReaperMovesKeep

(* GitHub and time: an issue never was less closed than before.              *)
LEMMA IssueStep ==
  ASSUME TreeInv, NEW n \in Issues, Close(n) \/ Age(n) \/ Reopen(n)
  PROVE  TreeInv'
<1>1. PICK state \in {"open", "closed", "old"} :
             /\ issue' = [issue EXCEPT ![n] = state]
             /\ most' = [most EXCEPT ![n] = IF @ = "old" \/ state = "open" THEN @ ELSE state]
  BY DEF Close, Age, Reopen, Becomes
<1>2. UNCHANGED <<vars, reaper, tree>>
  BY DEF Close, Age, Reopen, Becomes
<1>3. /\ issue \in [Issues -> {"open", "closed", "old"}]
      /\ most \in [Issues -> {"open", "closed", "old"}]
  BY DEF TreeInv, Typed, TreeTypes
<1>4. \A j \in Issues : /\ most[j] = "old" => most'[j] = "old"
                        /\ most[j] # "open" => most'[j] # "open"
                        /\ most'[j] # "old" => most[j] # "old"
  BY <1>1, <1>3
<1>5. /\ issue' \in [Issues -> {"open", "closed", "old"}]
      /\ most' \in [Issues -> {"open", "closed", "old"}]
  BY <1>1, <1>3
<1>6. Typed' /\ Listed'
  BY <1>2, <1>5 DEF TreeInv, Typed, TypeOK, StepsInv, TreeTypes, Listed, vars, reaper, tree
<1>7. ReaperInv'
  <2>1. /\ UNCHANGED <<rstep, issueNums, closeNums, target, victims, dirs>>
        /\ issueNums \subseteq Issues /\ closeNums \subseteq Issues
    BY <1>2 DEF TreeInv, Typed, TreeTypes, vars, reaper
  <2>2. /\ \A j \in issueNums' : most'[j] = "old"
        /\ \A j \in closeNums' : most'[j] # "open"
    BY <1>4, <2>1 DEF TreeInv, ReaperInv
  <2>3. /\ Removing' => target' \in Issues /\ most'[target'] # "open"
        /\ rstep' = "rm_tree" => most'[target'] = "old"
    BY <1>4, <2>1 DEF TreeInv, ReaperInv, Removing
  <2>4. /\ ~Removing' => victims' = {}
        /\ victims' \subseteq Entries(target)'
    BY <2>1 DEF TreeInv, ReaperInv, Removing, Entries
  <2>5. \A j \in Issues : /\ issue'[j] = "old" => most'[j] = "old"
                          /\ issue'[j] = "closed" => most'[j] # "open"
    BY <1>1, <1>3 DEF TreeInv, ReaperInv
  <2> QED BY <2>2, <2>3, <2>4, <2>5 DEF ReaperInv
<1>8. RunLeft' /\ ARunIsKept'
  BY <1>2, <1>4, RequestFacts DEF TreeInv, RunLeft, ARunIsKept, Entries, vars, reaper, tree
<1>9. WayInv' /\ MkdirInv'
  BY <1>2 DEF TreeInv, WayInv, MkdirInv, Contends, vars, tree
<1>10. RobbedInv' /\ DroppedForAReason'
  BY <1>2, <1>4, RequestFacts DEF TreeInv, Typed, TreeTypes, RobbedInv, DroppedForAReason, Contends,
     vars, tree
<1> QED BY <1>6, <1>7, <1>8, <1>9, <1>10 DEF TreeInv

-----------------------------------------------------------------------------
(* Every step keeps the invariant. *)
LEMMA NextTree == TreeInv /\ [TNext]_tvars => TreeInv'
<1> SUFFICES ASSUME TreeInv, [TNext]_tvars PROVE TreeInv'
  OBVIOUS
<1>1. CASE UNCHANGED tvars
  BY <1>1 DEF tvars, vars, reaper, tree, TreeInv, Typed, TypeOK, StepsInv, TreeTypes, Listed,
     ReaperInv, Removing, Entries, RunLeft, ARunIsKept, WayInv, MkdirInv, RobbedInv,
     DroppedForAReason, Contends
<1>2. CASE NodeStep
  BY <1>2, StartSteps, ExistsStep, MakesDirectoryStep, MkDirFailsInTree, OpensManifestStep,
     ClosesManifestStep, LaunchesStep, EndSteps DEF NodeStep
<1>3. CASE Reap
  BY <1>3, FetchStep, OldIssuesStep, ClosedIssuesStep, RemovedStep, EmptyOutStep, RemoveEntryStep
     DEF Reap
<1> QED BY <1>1, <1>2, <1>3, BuilderWorksStep, IssueStep DEF TNext

(* TreeInv holds in every state of the node and its reaper.                  *)
THEOREM TreeInvariance == TSpec => []TreeInv
BY InitTree, NextTree, PTL DEF TSpec

(* cleanUpIssues.py:53-71: an issue that has had a run directory and was     *)
(* never closed for more than 30 days has one, whatever the requests, the    *)
(* issues and the page are.                                                  *)
THEOREM RunsAreKept == TSpec => []ARunIsKept
BY TreeInvariance, PTL DEF TreeInv

(* server.py:146-221, cleanUpIssues.py:30-71: a well-formed request fails    *)
(* before it has a builder only in a race with another request, or because   *)
(* the reaper removed something under an issue that was closed once.         *)
THEOREM DropsHaveReasons == TSpec => []DroppedForAReason
BY TreeInvariance, PTL DEF TreeInv
=============================================================================
