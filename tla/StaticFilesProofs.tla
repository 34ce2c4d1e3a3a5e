-------------------------- MODULE StaticFilesProofs --------------------------
(***************************************************************************)
(* StaticFiles for any bounds: the inductive invariant IInv of the two     *)
(* file handlers, which says of each request how far it may be and what it *)
(* knows by then, and the three properties it carries.                     *)
(***************************************************************************)
EXTENDS StaticFiles, TLAPS

(* The requests that TypeOK speaks of. *)
Asked ==
  [to : {"app", "fu"}, method : {"GET", "HEAD", "POST"},
   at : {"asked", "looked", "file", "index", "ignored", "loading", "loaded",
         "failed", "answered"},
   found : BOOLEAN, data : {Undefined} \cup Files, code : {0, 200, 404, 500},
   type : ContentTypes, length : Nat, body : {Undefined} \cup Files, ends : 0..1,
   seen : SUBSET Trees]

(* A request on its way is not answered, knows its handler, and saw what     *)
(* was at the path.                                                          *)
Proper(r) ==
  /\ r.at # "answered" => r.ends = 0 /\ r.code = 0
  /\ r.at \in {"asked", "looked", "file", "index"} => r.to = "app"
  /\ r.at \in {"loading", "loaded", "failed", "ignored"} => r.to = "fu"
  /\ r.at = "ignored" => r.method = "POST"
  /\ r.to = "app" /\ r.at # "answered" => tree \in r.seen
  /\ r.found => \E t \in r.seen : t # Nothing
  /\ r.to = "fu" /\ r.code = 200 /\ r.method = "GET" => r.length = Length(r.body)

(* The inductive invariant. The body and its headers were set together, so   *)
(* that a later request finds a body described by itself.                    *)
IInv ==
  /\ TypeOK
  /\ body = headers
  /\ \A i \in DOMAIN requests : Proper(requests[i])
  /\ OnlyARemovalKills

-----------------------------------------------------------------------------
(* Files are positive numbers; the signs for no file and no directory are    *)
(* none of them.                                                             *)
LEMMA Numbers ==
  /\ Files \subseteq Nat \ {0} /\ Undefined \notin Files /\ Nothing \notin Files
  /\ \A f \in {Undefined} \cup Files : Length(f) \in Nat
  /\ Directory # Nothing /\ Bare # Nothing
<1>1. \A f \in Files : f \in Nat /\ f # 0
  BY BoundsAssumption DEF Files
<1> QED BY <1>1 DEF Undefined, Nothing, Length, Directory, Bare

(* extname and lookupExtension give a known type. *)
LEMMA ATypeIsFound == LookupExtension(Extension) \in ContentTypes
BY DEF LookupExtension, ContentTypes

(* A request with one field exchanged is still one. *)
LEMMA Exchanged ==
  ASSUME NEW q \in Asked
  PROVE  /\ \A at \in {"asked", "looked", "file", "index", "ignored", "loading", "loaded",
                       "failed", "answered"} : [q EXCEPT !.at = at] \in Asked
         /\ \A found \in BOOLEAN : [q EXCEPT !.found = found] \in Asked
         /\ \A data \in {Undefined} \cup Files : [q EXCEPT !.data = data] \in Asked
         /\ \A type \in ContentTypes : [q EXCEPT !.type = type] \in Asked
         /\ \A length \in Nat : [q EXCEPT !.length = length] \in Asked
         /\ \A contents \in {Undefined} \cup Files : [q EXCEPT !.body = contents] \in Asked
         /\ \A seen \in SUBSET Trees : [q EXCEPT !.seen = seen] \in Asked
<1>1. \A at \in {"asked", "looked", "file", "index", "ignored", "loading", "loaded",
                "failed", "answered"} : [q EXCEPT !.at = at] \in Asked
  BY DEF Asked
<1>2. \A found \in BOOLEAN : [q EXCEPT !.found = found] \in Asked
  BY DEF Asked
<1>3. \A data \in {Undefined} \cup Files : [q EXCEPT !.data = data] \in Asked
  BY DEF Asked
<1>4. \A type \in ContentTypes : [q EXCEPT !.type = type] \in Asked
  BY DEF Asked
<1>5. \A length \in Nat : [q EXCEPT !.length = length] \in Asked
  BY DEF Asked
<1>6. \A contents \in {Undefined} \cup Files : [q EXCEPT !.body = contents] \in Asked
  BY DEF Asked
<1>7. \A seen \in SUBSET Trees : [q EXCEPT !.seen = seen] \in Asked
  BY DEF Asked
<1> QED BY <1>1, <1>2, <1>3, <1>4, <1>5, <1>6, <1>7

(* The sequence of requests, when one is exchanged and when one is added.    *)
LEMMA OneChanges ==
  ASSUME TypeOK, NEW i \in DOMAIN requests, NEW r \in Asked,
         requests' = [requests EXCEPT ![i] = r]
  PROVE  /\ requests' \in Seq(Asked) /\ DOMAIN requests' = DOMAIN requests
         /\ \A j \in DOMAIN requests : requests'[j] = IF j = i THEN r ELSE requests[j]
<1>1. requests \in Seq(Asked)
  BY DEF TypeOK, Asked
<1> QED BY <1>1

(* The sequence of requests, when one is added. *)
LEMMA OneComes ==
  ASSUME TypeOK, NEW r \in Asked, requests' = Append(requests, r)
  PROVE  /\ requests' \in Seq(Asked) /\ DOMAIN requests' = DOMAIN requests \cup {Len(requests) + 1}
         /\ \A j \in DOMAIN requests : requests'[j] = requests[j]
         /\ requests'[Len(requests) + 1] = r
<1>1. requests \in Seq(Asked)
  BY DEF TypeOK, Asked
<1> QED BY <1>1

(* A request of the sequence is well formed. *)
LEMMA IsAsked ==
  ASSUME TypeOK, NEW i \in DOMAIN requests
  PROVE  requests[i] \in Asked
<1>1. requests \in Seq(Asked)
  BY DEF TypeOK, Asked
<1> QED BY <1>1

(* A step of one request, as long as the process lives. *)
LEMMA OneStep ==
  ASSUME IInv, NEW i \in DOMAIN requests, NEW r \in Asked, Proper(r), alive' = TRUE,
         body' \in {Undefined} \cup Files, headers' = body',
         requests' = [requests EXCEPT ![i] = r], UNCHANGED <<tree, changes>>
  PROVE  IInv'
<1>1. /\ requests' \in Seq(Asked) /\ DOMAIN requests' = DOMAIN requests
      /\ \A j \in DOMAIN requests : requests'[j] = IF j = i THEN r ELSE requests[j]
  BY OneChanges DEF IInv
<1>2. (\A j \in DOMAIN requests : Proper(requests[j]))'
  BY <1>1 DEF IInv, Proper
<1>3. TypeOK'
  BY <1>1 DEF IInv, TypeOK, Asked
<1> QED BY <1>2, <1>3 DEF IInv, OnlyARemovalKills

(* response.end, of a request on its way. *)
LEMMA Ends ==
  ASSUME NEW q \in Asked, q.ends = 0, NEW code \in {0, 200, 404, 500}
  PROVE  Ended(q, code) \in Asked
<1> DEFINE p1 == [q EXCEPT !.at = "answered"]
           p2 == [p1 EXCEPT !.code = code]
<1>1. p1 \in Asked
  BY Exchanged
<1>2. p2 \in Asked
  <2>1. ASSUME NEW p \in Asked PROVE [p EXCEPT !.code = code] \in Asked
    BY DEF Asked
  <2> QED BY <1>1, <2>1
<1>3. [p2 EXCEPT !.ends = 1] \in Asked
  <2>1. ASSUME NEW p \in Asked PROVE [p EXCEPT !.ends = 1] \in Asked
    BY DEF Asked
  <2> QED BY <1>2, <2>1
<1>4. Ended(q, code) = [p2 EXCEPT !.ends = 1]
  BY DEF Ended, Asked
<1> QED BY <1>3, <1>4

-----------------------------------------------------------------------------
(* app.js: the answer of the file system to path.exists. *)
LEMMA LookKeeps == ASSUME IInv, alive, NEW i \in DOMAIN requests, Look(i) PROVE IInv'
<1> DEFINE r == [requests[i] EXCEPT !.at = "looked", !.found = (tree # Nothing)]
<1>1. requests[i] \in Asked /\ Proper(requests[i])
  BY IsAsked DEF IInv
<1>2. r \in Asked
  <2> DEFINE p == [requests[i] EXCEPT !.at = "looked"]
  <2>1. p \in Asked
    BY <1>1, Exchanged
  <2> HIDE DEF p
  <2>2. [p EXCEPT !.found = (tree # Nothing)] \in Asked
    BY <2>1, Exchanged
  <2> QED BY <2>2 DEF p
<1>3. Proper(r)
  BY <1>1 DEF Proper, Asked, Look
<1>4. requests' = [requests EXCEPT ![i] = r]
  BY DEF Look
<1>5. body' \in {Undefined} \cup Files /\ headers' = body' /\ alive' = TRUE
  BY DEF Look, IInv, TypeOK
<1> HIDE DEF r
<1> QED BY <1>2, <1>3, <1>4, <1>5, OneStep DEF Look

(* app.js: the callback of path.exists. *)
LEMMA ExistsKeeps == ASSUME IInv, alive, NEW i \in DOMAIN requests, Exists(i) PROVE IInv'
<1>1. requests[i] \in Asked /\ Proper(requests[i])
  BY IsAsked DEF IInv
<1>2. body' \in {Undefined} \cup Files /\ headers' = body' /\ UNCHANGED <<tree, changes>>
  BY DEF Exists, IInv, TypeOK
<1>3. CASE ~requests[i].found
  <2> DEFINE r == Ended(requests[i], 404)
  <2>1. r \in Asked
    BY <1>1, Ends DEF Proper, Exists
  <2>2. Proper(r)
    BY <1>1 DEF Proper, Asked, Ended, Exists
  <2>3. requests' = [requests EXCEPT ![i] = r] /\ alive' = TRUE
    BY <1>3 DEF Exists, IInv, TypeOK
  <2> HIDE DEF r
  <2> QED BY <1>2, <2>1, <2>2, <2>3, OneStep
<1>4. CASE requests[i].found /\ tree = Nothing
  <2>1. alive' = FALSE /\ UNCHANGED <<requests, tree, changes, body, headers>>
    BY <1>4 DEF Exists
  <2>2. tree \in requests[i].seen /\ \E t \in requests[i].seen : t # Nothing
    BY <1>1, <1>4 DEF Proper, Exists
  <2>3. OnlyARemovalKills'
    BY <1>4, <2>1, <2>2 DEF OnlyARemovalKills
  <2>4. TypeOK'
    BY <2>1 DEF IInv, TypeOK
  <2>5. (\A j \in DOMAIN requests : Proper(requests[j]))'
    BY <2>1 DEF IInv, Proper
  <2> QED BY <2>1, <2>3, <2>4, <2>5 DEF IInv
<1>5. CASE requests[i].found /\ tree # Nothing
  <2> DEFINE r == [requests[i] EXCEPT !.at = IF tree \in Files THEN "file" ELSE "index"]
  <2>1. r \in Asked
    BY <1>1 DEF Asked
  <2>2. Proper(r)
    BY <1>1 DEF Proper, Asked, Exists
  <2>3. requests' = [requests EXCEPT ![i] = r] /\ alive' = TRUE
    BY <1>5 DEF Exists
  <2> HIDE DEF r
  <2> QED BY <1>2, <2>1, <2>2, <2>3, OneStep
<1> QED BY <1>3, <1>4, <1>5

(* app.js: readFile and its callback. *)
LEMMA ReadFileKeeps == ASSUME IInv, alive, NEW i \in DOMAIN requests, ReadFile(i) PROVE IInv'
<1> DEFINE r == Ended(requests[i], IF Readable(requests[i].at) THEN 200 ELSE 500)
<1>1. requests[i] \in Asked /\ Proper(requests[i])
  BY IsAsked DEF IInv
<1>2. r \in Asked
  BY <1>1, Ends DEF Proper, ReadFile
<1>3. Proper(r)
  BY <1>1 DEF Proper, Asked, Ended, ReadFile
<1>4. requests' = [requests EXCEPT ![i] = r] /\ alive' = TRUE
  BY DEF ReadFile
<1>5. body' \in {Undefined} \cup Files /\ headers' = body'
  BY DEF ReadFile, IInv, TypeOK
<1> HIDE DEF r
<1> QED BY <1>2, <1>3, <1>4, <1>5, OneStep DEF ReadFile

(* fu.js: readFile gets at the file. *)
LEMMA LoadKeeps == ASSUME IInv, alive, NEW i \in DOMAIN requests, Load(i) PROVE IInv'
<1> DEFINE r == [requests[i] EXCEPT !.at = "loaded",
                                    !.data = IF tree \in Files THEN tree ELSE Undefined]
<1>1. requests[i] \in Asked /\ Proper(requests[i])
  BY IsAsked DEF IInv
<1>2. r \in Asked
  <2> DEFINE p == [requests[i] EXCEPT !.at = "loaded"]
  <2>1. p \in Asked
    BY <1>1, Exchanged
  <2> HIDE DEF p
  <2>2. [p EXCEPT !.data = IF tree \in Files THEN tree ELSE Undefined] \in Asked
    BY <2>1, Exchanged
  <2> QED BY <2>2 DEF p
<1>3. Proper(r)
  BY <1>1 DEF Proper, Asked, Load
<1>4. requests' = [requests EXCEPT ![i] = r] /\ alive' = TRUE
  BY DEF Load
<1>5. body' \in {Undefined} \cup Files /\ headers' = body'
  BY DEF Load, IInv, TypeOK
<1> HIDE DEF r
<1> QED BY <1>2, <1>3, <1>4, <1>5, OneStep DEF Load

(* fu.js: an answer with contents that are described by themselves. *)
LEMMA Responded ==
  ASSUME NEW q \in Asked, q.to = "fu", q.ends = 0, NEW contents \in Files,
         q.found => \E t \in q.seen : t # Nothing
  PROVE  Respond(q, contents, contents) \in Asked /\ Proper(Respond(q, contents, contents))
<1> DEFINE r == Respond(q, contents, contents)
<1>1. /\ r.to = q.to /\ r.method = q.method /\ r.at = "answered" /\ r.found = q.found
      /\ r.data = Undefined /\ r.code = 200 /\ r.type = LookupExtension(Extension)
      /\ r.length = Length(contents)
      /\ r.body = IF q.method = "HEAD" THEN Undefined ELSE contents
      /\ r.ends = q.ends + 1 /\ r.seen = q.seen
  BY DEF Respond, Ended, Asked
<1>2. r \in Asked
  <2> DEFINE p1 == [Ended(q, 200) EXCEPT !.data = Undefined]
             p2 == [p1 EXCEPT !.type = LookupExtension(Extension)]
             p3 == [p2 EXCEPT !.length = Length(contents)]
             d == IF q.method = "HEAD" THEN Undefined ELSE contents
             p4 == [p3 EXCEPT !.body = d]
  <2>1. Ended(q, 200) \in Asked
    BY Ends
  <2>2. p1 \in Asked
    BY <2>1, Exchanged
  <2>3. p2 \in Asked
    <3> HIDE DEF p1
    <3> QED BY <2>2, ATypeIsFound, Exchanged
  <2>4. p3 \in Asked
    <3> HIDE DEF p2
    <3> QED BY <2>3, Numbers, Exchanged
  <2>5. p4 \in Asked
    <3>1. d \in {Undefined} \cup Files
      OBVIOUS
    <3> HIDE DEF p3, d
    <3> QED BY <2>4, <3>1, Exchanged
  <2> QED BY <2>5 DEF Respond
<1>3. Proper(r)
  BY <1>1 DEF Proper
<1> QED BY <1>2, <1>3

(* fu.js: the callback of readFile. *)
LEMMA FileReadKeeps == ASSUME IInv, alive, NEW i \in DOMAIN requests, FileRead(i) PROVE IInv'
<1>1. requests[i] \in Asked /\ Proper(requests[i])
  BY IsAsked DEF IInv
<1>2. CASE requests[i].data = Undefined
  <2> DEFINE r == [requests[i] EXCEPT !.at = "failed"]
  <2>1. r \in Asked
    BY <1>1 DEF Asked
  <2>2. Proper(r)
    BY <1>1 DEF Proper, Asked, FileRead
  <2>3. requests' = [requests EXCEPT ![i] = r] /\ alive' = TRUE
    BY <1>2 DEF FileRead
  <2>4. body' \in {Undefined} \cup Files /\ headers' = body'
    BY <1>2 DEF FileRead, IInv, TypeOK
  <2> HIDE DEF r
  <2> QED BY <2>1, <2>2, <2>3, <2>4, OneStep DEF FileRead
<1>3. CASE requests[i].data # Undefined
  <2> DEFINE contents == requests[i].data
             r == Respond(requests[i], contents, contents)
  <2>1. contents \in Files /\ requests[i].at = "loaded"
    BY <1>1, <1>3 DEF Asked, FileRead
  <2>2. r \in Asked /\ Proper(r)
    BY <1>1, <2>1, Responded DEF Proper
  <2>3. body' = contents /\ headers' = contents
    BY <1>3 DEF FileRead
  <2>4. requests' = [requests EXCEPT ![i] = r] /\ alive' = TRUE
    BY <1>3, <2>3 DEF FileRead
  <2> HIDE DEF r
  <2> QED BY <2>1, <2>2, <2>3, <2>4, OneStep DEF FileRead
<1> QED BY <1>2, <1>3

-----------------------------------------------------------------------------
(* A request comes and is a member of the sequence from then on. *)
LEMMA OneArrives ==
  ASSUME IInv, NEW r \in Asked, Proper(r), requests' = Append(requests, r),
         UNCHANGED <<tree, changes, alive, body, headers>>, alive
  PROVE  IInv'
<1>1. /\ requests' \in Seq(Asked) /\ DOMAIN requests' = DOMAIN requests \cup {Len(requests) + 1}
      /\ \A j \in DOMAIN requests : requests'[j] = requests[j]
      /\ requests'[Len(requests) + 1] = r
  BY OneComes DEF IInv
<1>2. (\A j \in DOMAIN requests : Proper(requests[j]))'
  BY <1>1 DEF IInv, Proper
<1>3. TypeOK'
  BY <1>1 DEF IInv, TypeOK, Asked
<1> QED BY <1>2, <1>3 DEF IInv, OnlyARemovalKills

(* A new request, to whomever. *)
LEMMA NewOnes ==
  ASSUME IInv, NEW to \in {"app", "fu"}, NEW method \in {"GET", "HEAD", "POST"}
  PROVE  /\ NewRequest(to, method) \in Asked
         /\ NewRequest(to, method).ends = 0 /\ NewRequest(to, method).code = 0
         /\ NewRequest(to, method).at = "asked"
         /\ NewRequest(to, method).found = FALSE
         /\ NewRequest(to, method).seen = {tree}
         /\ NewRequest(to, method).to = to /\ NewRequest(to, method).method = method
<1>1. tree \in Trees
  BY DEF IInv, TypeOK
<1>2. {tree} \in SUBSET Trees /\ "none" \in ContentTypes /\ 0 \in Nat /\ 0 \in 0..1
  BY <1>1 DEF ContentTypes
<1> QED BY <1>1, <1>2 DEF NewRequest, Asked

(* app.js: a request comes. *)
LEMMA RequestKeeps == ASSUME IInv, Request PROVE IInv'
<1> DEFINE r == NewRequest("app", "GET")
<1>1. r \in Asked /\ Proper(r)
  BY NewOnes DEF Proper
<1> HIDE DEF r
<1> QED BY <1>1, OneArrives DEF Request, r

(* fu.js: a request comes.  A registered one is answered at once when the    *)
(* file was read; one that no handler was registered for, always.            *)
LEMMA RequestFuKeeps ==
  ASSUME IInv, NEW method \in {"GET", "HEAD", "POST"}, NEW registered \in BOOLEAN,
         RequestFu(method, registered)
  PROVE  IInv'
<1> DEFINE q == NewRequest("fu", method)
           r == CASE method = "POST" -> [q EXCEPT !.at = "ignored"]
                  [] method # "POST" /\ ~registered -> NotFound(q)
                  [] method # "POST" /\ registered -> LoadResponseData(q)
<1>1. /\ q \in Asked /\ q.ends = 0 /\ q.code = 0 /\ q.at = "asked" /\ q.found = FALSE
      /\ q.to = "fu" /\ q.method = method
  BY NewOnes
<1>2. requests' = Append(requests, r) /\ UNCHANGED <<tree, changes, alive, body, headers>> /\ alive
  BY DEF RequestFu
<1> HIDE DEF q
<1>3. r \in Asked /\ Proper(r)
  <2>1. CASE method = "POST"
    <3> DEFINE p == [q EXCEPT !.at = "ignored"]
    <3>1. p \in Asked
      BY <1>1, Exchanged
    <3>2. Proper(p)
      BY <1>1, <2>1 DEF Proper, Asked
    <3> QED BY <2>1, <3>1, <3>2
  <2>2. CASE method # "POST" /\ ~registered
    <3> DEFINE p == Ended(q, 404)
    <3>1. p \in Asked
      BY <1>1, Ends
    <3>2. [p EXCEPT !.type = "text/plain"] \in Asked
      <4>1. "text/plain" \in ContentTypes
        BY DEF ContentTypes
      <4> HIDE DEF p
      <4> QED BY <3>1, <4>1, Exchanged
    <3>3. Proper([p EXCEPT !.type = "text/plain"])
      BY <1>1 DEF Proper, Ended, Asked
    <3> QED BY <2>2, <3>2, <3>3 DEF NotFound
  <2>3. CASE method # "POST" /\ registered /\ Loaded
    <3>1. body \in Files /\ headers = body
      BY <2>3 DEF Loaded, IInv, TypeOK
    <3>2. Respond(q, body, body) \in Asked /\ Proper(Respond(q, body, body))
      BY <1>1, <3>1, Responded
    <3> QED BY <2>3, <3>1, <3>2 DEF LoadResponseData
  <2>4. CASE method # "POST" /\ registered /\ ~Loaded
    <3> DEFINE p == [q EXCEPT !.at = "loading"]
    <3>1. p \in Asked
      BY <1>1, Exchanged
    <3>2. Proper(p)
      BY <1>1, <2>4 DEF Proper, Asked
    <3> QED BY <2>4, <3>1, <3>2 DEF LoadResponseData
  <2> QED BY <2>1, <2>2, <2>3, <2>4
<1> HIDE DEF r
<1> QED BY <1>2, <1>3, OneArrives

(* The tree changes under everybody. *)
LEMMA ChangeKeeps == ASSUME IInv, Change PROVE IInv'
<1>1. tree' \in Trees /\ changes' \in 0..MaxChanges
  BY BoundsAssumption DEF Change, IInv, TypeOK, Trees, Files
<1>2. UNCHANGED <<alive, body, headers>> /\ DOMAIN requests' = DOMAIN requests
  BY DEF Change
<1>3. ASSUME NEW i \in DOMAIN requests
      PROVE  /\ requests'[i] \in Asked /\ (Proper(requests[i]))'
             /\ requests'[i].found = requests[i].found
             /\ requests[i].seen \subseteq requests'[i].seen
  <2>1. requests[i] \in Asked /\ Proper(requests[i])
    BY IsAsked DEF IInv
  <2>2. CASE requests[i].to = "fu" \/ requests[i].at = "answered"
    <3>1. requests'[i] = requests[i]
      BY <2>2 DEF Change
    <3>2. (Proper(requests[i]))'
      BY <2>1, <2>2, <3>1 DEF Proper
    <3> QED BY <2>1, <3>1, <3>2
  <2>3. CASE ~(requests[i].to = "fu" \/ requests[i].at = "answered")
    <3> DEFINE p == [requests[i] EXCEPT !.seen = requests[i].seen \cup {tree'}]
    <3>1. requests'[i] = p
      BY <2>3 DEF Change
    <3>2. requests[i].seen \cup {tree'} \in SUBSET Trees
      BY <1>1, <2>1 DEF Asked
    <3>3. p \in Asked
      BY <2>1, <3>2, Exchanged
    <3>4. (Proper(requests[i]))'
      BY <2>1, <2>3, <3>1 DEF Proper, Asked
    <3>5. p.found = requests[i].found /\ requests[i].seen \subseteq p.seen
      BY <2>1 DEF Asked
    <3> QED BY <3>1, <3>3, <3>4, <3>5
  <2> QED BY <2>2, <2>3
<1>4. requests' \in Seq(Asked)
  <2>1. requests \in Seq(Asked)
    BY DEF IInv, TypeOK, Asked
  <2>2. requests' \in [1..Len(requests) -> Asked]
    BY <1>3, <2>1 DEF Change
  <2> QED BY <2>1, <2>2
<1>5. TypeOK'
  BY <1>1, <1>2, <1>4 DEF IInv, TypeOK, Asked
<1>6. (\A i \in DOMAIN requests : Proper(requests[i]))'
  BY <1>2, <1>3
<1>7. OnlyARemovalKills'
  <2>1. SUFFICES ASSUME ~alive
                 PROVE  \E i \in DOMAIN requests :
                          /\ requests'[i].found /\ Nothing \in requests'[i].seen
                          /\ requests'[i].seen # {Nothing}
    BY <1>2 DEF OnlyARemovalKills
  <2>2. PICK i \in DOMAIN requests :
          requests[i].found /\ Nothing \in requests[i].seen /\ requests[i].seen # {Nothing}
    BY <2>1 DEF IInv, OnlyARemovalKills
  <2> QED BY <1>3, <2>2
<1> QED BY <1>2, <1>5, <1>6, <1>7 DEF IInv

-----------------------------------------------------------------------------
(* There are no requests at the start, and nothing was read. *)
LEMMA InitIInv == Init => IInv
<1> SUFFICES ASSUME Init PROVE IInv
  OBVIOUS
<1>1. TypeOK
  BY BoundsAssumption DEF Init, TypeOK, Trees, Files
<1> QED BY <1>1 DEF Init, IInv, OnlyARemovalKills

(* One of the actions is taken. *)
LEMMA NextIInv == ASSUME IInv, [Next]_vars PROVE IInv'
<1>1. CASE Change
  BY <1>1, ChangeKeeps
<1>2. CASE Request
  BY <1>2, RequestKeeps
<1>3. ASSUME NEW method \in {"GET", "HEAD", "POST"}, RequestFu(method, TRUE) PROVE IInv'
  BY <1>3, RequestFuKeeps
<1>4. CASE RequestFu("GET", FALSE)
  BY <1>4, RequestFuKeeps
<1>5. ASSUME NEW i \in DOMAIN requests, Handle(i) PROVE IInv'
  BY <1>5, LookKeeps, ExistsKeeps, ReadFileKeeps, LoadKeeps, FileReadKeeps DEF Handle
<1>6. CASE UNCHANGED vars
  <2>1. UNCHANGED <<tree, changes, alive, body, headers, requests>>
    BY <1>6 DEF vars
  <2>2. TypeOK' /\ OnlyARemovalKills'
    BY <2>1 DEF IInv, TypeOK, OnlyARemovalKills
  <2>3. (\A i \in DOMAIN requests : Proper(requests[i]))'
    BY <2>1 DEF IInv, Proper
  <2> QED BY <2>1, <2>2, <2>3 DEF IInv
<1> QED BY <1>1, <1>2, <1>3, <1>4, <1>5, <1>6 DEF Next

(* IInv holds in every state of the web application. *)
LEMMA Invariant == Spec => []IInv
<1>1. Init => IInv
  BY InitIInv
<1>2. IInv /\ [Next]_vars => IInv'
  BY NextIInv
<1> QED BY <1>1, <1>2, PTL DEF Spec

(* app.js:29-57, fu.js:53-97: no request is answered twice, and each has a   *)
(* code and a type that the handlers know.                                   *)
THEOREM TypeCorrect == Spec => []TypeOK
<1>1. IInv => TypeOK
  BY DEF IInv
<1> QED BY <1>1, Invariant, PTL

(* fu.js:61-89: the Content-Length of an answer is the length of its body,   *)
(* also when the file changed between two requests.                          *)
THEOREM LengthsAgree == Spec => []LengthOfTheBody
<1>1. IInv => LengthOfTheBody
  BY DEF IInv, Proper, LengthOfTheBody
<1> QED BY <1>1, Invariant, PTL

(* app.js:30-42: the process only dies when what a request asked for was     *)
(* removed between path.exists and statSync.                                 *)
THEOREM RemovalKills == Spec => []OnlyARemovalKills
<1>1. IInv => OnlyARemovalKills
  BY DEF IInv
<1> QED BY <1>1, Invariant, PTL
=============================================================================
