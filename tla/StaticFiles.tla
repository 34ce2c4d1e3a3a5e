----------------------------- MODULE StaticFiles -----------------------------
(***************************************************************************)
(* How the web application serves a file: node/app.js with handler, and    *)
(* node/fu.js with the handler of a file that it keeps in memory.  Nobody  *)
(* locks the tree, which changes between the looks a handler takes at it.  *)
(*                                                                         *)
(* app.js asks whether the path exists, in a callback asks at once whether *)
(* it is a directory, and then reads the file.  statSync throws when       *)
(* nothing is there any more, nothing catches that in a callback of the    *)
(* event loop, and the process ends, the relay of WebRelay with it.        *)
(*                                                                         *)
(* fu.js keeps body and headers from the first read on; until then each    *)
(* request reads the file by itself, and these reads end in any order.     *)
(* app.js requires fu.js and registers no file with it: that part is the   *)
(* library as it stands.  DEBUG is false.                                  *)
(***************************************************************************)
EXTENDS Integers, Sequences, FiniteSets

CONSTANTS
  Extension,    \* of the path
  MaxChanges,   \* bound: changes of what is at the path
  MaxRequests   \* bound: requests

ASSUME PathAssumption == Extension \in STRING
ASSUME BoundsAssumption == MaxChanges \in Nat /\ MaxRequests \in Nat

VARIABLES
  tree,           \* what is at the path: a file is named by its contents
  changes,        \* how often that has changed
  alive,          \* the process runs
  body, headers,  \* of fu's static handler, by the contents they are of
  requests        \* the requests, in the order they came

vars == <<tree, changes, alive, body, headers, requests>>

(* A directory with or without an index.html that can be read. *)
Nothing == 0
Directory == -1
Bare == -2
Files == 1..(MaxChanges + 1)
Trees == {Nothing, Directory, Bare} \cup Files
Undefined == 0

(* A few of the types of the table: those of the files in public/. *)
Types ==
  [ext \in {".css", ".html", ".js", ".png", ".ico", ".txt"} |->
     CASE ext = ".css" -> "text/css" [] ext = ".html" -> "text/html"
       [] ext = ".js" -> "application/javascript" [] ext = ".png" -> "image/png"
       [] ext = ".ico" -> "image/vnd.microsoft.icon" [] ext = ".txt" -> "text/plain"]
LookupExtension(ext) ==
  IF ext \in DOMAIN Types THEN Types[ext] ELSE "application/octet-stream"

(* What a content type may be; "none" as long as nothing is answered. *)
ContentTypes ==
  {Types[ext] : ext \in DOMAIN Types} \cup {"application/octet-stream", "text/plain", "none"}

(* Contents of different lengths, so that a length tells whose it is. *)
Length(contents) == 10 * contents

Init ==
  /\ tree \in {Nothing, Directory, Bare, 1} /\ changes = 0 /\ alive = TRUE
  /\ body = Undefined /\ headers = Undefined
  /\ requests = <<>>

(* Whoever deploys the application writes the file anew or removes it. *)
Change ==
  /\ changes < MaxChanges /\ changes' = changes + 1
  /\ tree' \in ({Nothing, Directory, Bare} \ {tree}) \cup {changes' + 1}
  /\ requests' = [i \in DOMAIN requests |->
                    IF requests[i].to = "fu" \/ requests[i].at = "answered" THEN requests[i]
                    ELSE [requests[i] EXCEPT !.seen = @ \cup {tree'}]]
  /\ UNCHANGED <<alive, body, headers>>

-----------------------------------------------------------------------------
Loaded == body # Undefined /\ headers # Undefined

(* seen is history: what was at the path since the request came to app.js. *)
NewRequest(to, method) ==
  [to |-> to, method |-> method, at |-> "asked", found |-> FALSE, data |-> Undefined,
   code |-> 0, type |-> "none", length |-> 0, body |-> Undefined, ends |-> 0,
   seen |-> {tree}]

(* Mutant of Ended: the answer goes out and the request is not done. *)
EndedAgain(r, code) == [r EXCEPT !.code = code, !.ends = @ + 1]

(* response.end *)
Ended(r, code) == [r EXCEPT !.at = "answered", !.code = code, !.ends = @ + 1]

(* app.js, handler: path.exists is asked, whatever the method. *)
Request ==
  /\ alive /\ Len(requests) < MaxRequests
  /\ requests' = Append(requests, NewRequest("app", "GET"))
  /\ UNCHANGED <<tree, changes, alive, body, headers>>

(* The file system answers it. *)
Look(i) ==
  /\ requests[i].to = "app" /\ requests[i].at = "asked"
  /\ requests' = [requests EXCEPT ![i].at = "looked", ![i].found = (tree # Nothing)]
  /\ UNCHANGED <<tree, changes, alive, body, headers>>

(* Mutant of Exists: a path that is not there is looked at all the same. *)
ExistsUnasked(i) ==
  /\ requests[i].at = "looked"
  /\ IF tree = Nothing THEN alive' = FALSE /\ UNCHANGED requests
     ELSE /\ requests' = [requests EXCEPT ![i].at = IF tree \in Files THEN "file" ELSE "index"]
          /\ UNCHANGED alive
  /\ UNCHANGED <<tree, changes, body, headers>>

(* The callback of path.exists: 404, or statSync and readFile. *)
Exists(i) ==
  /\ requests[i].at = "looked"
  /\ \/ ~requests[i].found
        /\ requests' = [requests EXCEPT ![i] = Ended(@, 404)] /\ UNCHANGED alive
     \/ requests[i].found /\ tree = Nothing
        /\ alive' = FALSE /\ UNCHANGED requests
     \/ requests[i].found /\ tree # Nothing
        /\ requests' = [requests EXCEPT ![i].at = IF tree \in Files THEN "file" ELSE "index"]
        /\ UNCHANGED alive
  /\ UNCHANGED <<tree, changes, body, headers>>

(* What readFile finds under the name it was given. *)
Readable(name) == IF name = "file" THEN tree \in Files ELSE tree = Directory

(* readFile and its callback: 500 with the error, or the file. *)
ReadFile(i) ==
  /\ requests[i].at \in {"file", "index"}
  /\ requests' = [requests EXCEPT ![i] = Ended(@, IF Readable(@.at) THEN 200 ELSE 500)]
  /\ UNCHANGED <<tree, changes, alive, body, headers>>

-----------------------------------------------------------------------------
(* fu.js: res.writeHead and res.end; a HEAD gets the headers only. *)
Respond(r, contents, described) ==
  [Ended(r, 200) EXCEPT !.data = Undefined,
     !.type = LookupExtension(Extension), !.length = Length(described),
     !.body = IF r.method = "HEAD" THEN Undefined ELSE contents]

NotFound(r) == [Ended(r, 404) EXCEPT !.type = "text/plain"]

(* loadResponseData, up to readFile. *)
LoadResponseData(r) ==
  IF Loaded THEN Respond(r, body, headers) ELSE [r EXCEPT !.at = "loading"]

(* The listener of createServer: only GET and HEAD are looked at, and a path *)
(* that no handler was registered for goes to notFound.                      *)
RequestFu(method, registered) ==
  /\ alive /\ Len(requests) < MaxRequests
  /\ LET r == NewRequest("fu", method) IN
       requests' = Append(requests,
         CASE method = "POST" -> [r EXCEPT !.at = "ignored"]
           [] method # "POST" /\ ~registered -> NotFound(r)
           [] method # "POST" /\ registered -> LoadResponseData(r))
  /\ UNCHANGED <<tree, changes, alive, body, headers>>

(* readFile gets at the file. *)
Load(i) ==
  /\ requests[i].at = "loading"
  /\ requests' = [requests EXCEPT ![i].at = "loaded",
                    ![i].data = IF tree \in Files THEN tree ELSE Undefined]
  /\ UNCHANGED <<tree, changes, alive, body, headers>>

(* Mutant of FileRead: what was read is kept when nothing is there yet, but  *)
(* its headers always are.                                                   *)
FileReadMixed(i) ==
  /\ requests[i].at = "loaded"
  /\ \/ requests[i].data = Undefined
        /\ requests' = [requests EXCEPT ![i].at = "failed"] /\ UNCHANGED <<body, headers>>
     \/ requests[i].data # Undefined
        /\ body' = (IF body = Undefined THEN requests[i].data ELSE body)
        /\ headers' = requests[i].data
        /\ requests' = [requests EXCEPT ![i] = Respond(@, body', headers')]
  /\ UNCHANGED <<tree, changes, alive>>

(* Mutant of FileRead: a failed read is tried again, and again. *)
FileReadRetries(i) ==
  /\ requests[i].at = "loaded"
  /\ \/ requests[i].data = Undefined
        /\ requests' = [requests EXCEPT ![i].at = "loading"] /\ UNCHANGED <<body, headers>>
     \/ requests[i].data # Undefined
        /\ body' = requests[i].data /\ headers' = requests[i].data
        /\ requests' = [requests EXCEPT ![i] = Respond(@, body', headers')]
  /\ UNCHANGED <<tree, changes, alive>>

(* readFile's callback: an error is logged and that is all. *)
FileRead(i) ==
  /\ requests[i].at = "loaded"
  /\ \/ requests[i].data = Undefined
        /\ requests' = [requests EXCEPT ![i].at = "failed"] /\ UNCHANGED <<body, headers>>
     \/ requests[i].data # Undefined
        /\ body' = requests[i].data /\ headers' = requests[i].data
        /\ requests' = [requests EXCEPT ![i] = Respond(@, body', headers')]
  /\ UNCHANGED <<tree, changes, alive>>

-----------------------------------------------------------------------------
Handle(i) ==
  /\ alive
  /\ Look(i) \/ Exists(i) \/ ReadFile(i) \/ Load(i) \/ FileRead(i)

Next ==
  \/ Change
  \/ Request
  \/ \E method \in {"GET", "HEAD", "POST"} : RequestFu(method, TRUE)
  \/ RequestFu("GET", FALSE)
  \/ \E i \in DOMAIN requests : Handle(i)

Spec == Init /\ [][Next]_vars

(* node runs the callbacks of what it was asked for. *)
Fairness == \A i \in 1..MaxRequests : WF_vars(i \in DOMAIN requests /\ Handle(i))

-----------------------------------------------------------------------------
(* The state is well formed; a response is ended at most once. *)
TypeOK ==
  /\ tree \in Trees /\ changes \in 0..MaxChanges /\ alive \in BOOLEAN
  /\ body \in {Undefined} \cup Files /\ headers \in {Undefined} \cup Files
  /\ requests \in Seq(
       [to : {"app", "fu"}, method : {"GET", "HEAD", "POST"},
        at : {"asked", "looked", "file", "index", "ignored", "loading", "loaded",
              "failed", "answered"},
        found : BOOLEAN, data : {Undefined} \cup Files, code : {0, 200, 404, 500},
        type : ContentTypes, length : Nat, body : {Undefined} \cup Files, ends : 0..1,
        seen : SUBSET Trees])

(* Whatever reads end in whatever order, the length that a file of fu is     *)
(* answered with is that of the body it is answered with, and both are what  *)
(* the handler still keeps or has replaced as one.  (fu.js:61-89.)           *)
LengthOfTheBody ==
  /\ body = headers
  /\ \A i \in DOMAIN requests :
       requests[i].to = "fu" /\ requests[i].code = 200 /\ requests[i].method = "GET"
         => requests[i].length = Length(requests[i].body)

(* The process outlives every request for what is there and stays there, and *)
(* every request for what is not: it takes a file removed under a request    *)
(* that had found it to end the process.  (app.js:42.)                       *)
OnlyARemovalKills ==
  ~alive => \E i \in DOMAIN requests :
              requests[i].found /\ Nothing \in requests[i].seen /\ requests[i].seen # {Nothing}

(* Every request is answered in the end, unless the process has ended or, in *)
(* fu, the method is none of its own or the file could not be read.          *)
(* (app.js:29-57, fu.js:23-89.)                                              *)
AnsweredInTheEnd ==
  \A i \in 1..MaxRequests :
    (i \in DOMAIN requests)
      ~> (~alive \/ (i \in DOMAIN requests /\ requests[i].at \in {"answered", "ignored", "failed"}))
=============================================================================
