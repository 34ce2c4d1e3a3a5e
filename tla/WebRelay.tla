------------------------------- MODULE WebRelay -------------------------------
(***************************************************************************)
(* node/app.js: between the build pages and the two topics.                *)
(*                                                                         *)
(* A job message of a page is marked with the id of the page's socket and  *)
(* published; an event goes to the socket whose id it carries.  A page     *)
(* that connects again has another id (socket.io makes one for each        *)
(* handshake), and the server notices that a socket is gone some time      *)
(* after the page did.                                                     *)
(*                                                                         *)
(* The broker is as stomp.js presents it: publish queues the job, and the  *)
(* callback gets the events in order, some of them lost or cut.            *)
(***************************************************************************)
EXTENDS Integers, Sequences, FiniteSets, SequencesExt

CONSTANTS
  Pages,       \* browser pages
  ThisPage,    \* any one of them: the page that EventsInOrder is about
  Texts,       \* what a page may send: "object" or "other"
  MaxSockets,  \* bound: socket ids, and so connections
  MaxJobs,     \* bound: job messages
  MaxEvents    \* bound: events

ASSUME PageAssumption == ThisPage \in Pages
ASSUME TextsAssumption == Texts \subseteq {"object", "other"}
ASSUME BoundsAssumption == MaxSockets \in Nat /\ MaxJobs \in Nat /\ MaxEvents \in Nat

VARIABLES
  socket,    \* per page: the id it is connected with, 0 when it is not
  owner,     \* history: the page each id was given to
  clients,   \* io.sockets.clients(): ids, oldest first
  up, down,  \* per id: job messages and events under way
  asked,     \* history: the job messages handed to the socket
  jobs,      \* published on /topic/buildjobs
  events,    \* published on /topic/builderevents
  relayed,   \* how many of the events the callback has seen
  received   \* per page: what its message handler got

net == <<socket, owner, clients, up, down>>
vars == <<net, asked, jobs, events, relayed, received>>

Ids == 1..MaxSockets
None == 0

(* The client id of a foreign job, one that the issue manager published. *)
Foreign == -1

Init ==
  /\ socket = [p \in Pages |-> None] /\ owner = <<>> /\ clients = <<>>
  /\ up = [i \in Ids |-> <<>>] /\ down = [i \in Ids |-> <<>>]
  /\ asked = <<>> /\ jobs = <<>> /\ events = <<>> /\ relayed = 0
  /\ received = [p \in Pages |-> <<>>]

-----------------------------------------------------------------------------
(* The socket.io handshake, from either side. *)
Connect(p) ==
  /\ socket[p] = None /\ Len(owner) < MaxSockets
  /\ owner' = Append(owner, p)
  /\ socket' = [socket EXCEPT ![p] = Len(owner) + 1]
  /\ clients' = Append(clients, Len(owner) + 1)
  /\ UNCHANGED <<up, down, asked, jobs, events, relayed, received>>

(* The page is reloaded or loses its connection; what is under way is lost. *)
Drop(p) ==
  /\ socket[p] # None
  /\ up' = [up EXCEPT ![socket[p]] = <<>>] /\ down' = [down EXCEPT ![socket[p]] = <<>>]
  /\ socket' = [socket EXCEPT ![p] = None]
  /\ UNCHANGED <<owner, clients, asked, jobs, events, relayed, received>>

(* Mutant of NoticeDisconnect: the newest socket of the page is taken out. *)
NoticeDisconnectOfPage(i) ==
  /\ Contains(clients, i) /\ socket[owner[i]] # i
  /\ clients' = Remove(clients, socket[owner[i]])
  /\ UNCHANGED <<socket, owner, up, down, asked, jobs, events, relayed, received>>

(* "disconnect": the id leaves clients(), the handler only logs. *)
NoticeDisconnect(i) ==
  /\ socket[owner[i]] # i
  /\ \E k \in DOMAIN clients : clients[k] = i /\ clients' = RemoveAt(clients, k)
  /\ UNCHANGED <<socket, owner, up, down, asked, jobs, events, relayed, received>>

(* The page's socket.send; a job is named by its place in asked. *)
Ask(p, text) ==
  /\ socket[p] # None /\ Len(asked) < MaxJobs
  /\ asked' = Append(asked, [page |-> p, text |-> text])
  /\ up' = [up EXCEPT ![socket[p]] = Append(@, Len(asked) + 1)]
  /\ UNCHANGED <<socket, owner, clients, down, jobs, events, relayed, received>>

(* Mutant of ClientId: the id of the newest socket. *)
ClientIdShared(i, job) ==
  IF asked[job].text = "object" THEN Len(owner) ELSE None

(* client_id is set on an object; a text that is none is published as it is. *)
ClientId(i, job) == IF asked[job].text = "object" THEN i ELSE None

(* socket.on('message') *)
Message(i) ==
  /\ up[i] # <<>>
  /\ jobs' = Append(jobs, [job |-> Head(up[i]), client |-> ClientId(i, Head(up[i]))])
  /\ up' = [up EXCEPT ![i] = Tail(@)]
  /\ UNCHANGED <<socket, owner, clients, down, asked, events, relayed, received>>

(* A builder copies the client id of its job into each event; other builds   *)
(* use the topic as well.  An event may be no JSON, when its frame was cut.  *)
BuilderEvent ==
  /\ Len(events) < MaxEvents
  /\ \/ \E k \in DOMAIN jobs, json \in BOOLEAN :
          /\ jobs[k].client # None
          /\ events' = Append(events, [client |-> jobs[k].client, job |-> jobs[k].job,
                                       json |-> json])
     \/ events' = Append(events, [client |-> Foreign, job |-> 0, json |-> TRUE])
  /\ UNCHANGED <<net, asked, jobs, relayed, received>>

(* Mutant of Matches: the loop ends after the first socket. *)
MatchesFirst(e) == {k \in {1} \cap DOMAIN clients : clients[k] = e.client}

(* The positions in clients() whose id is that of the event. *)
Matches(e) == {k \in DOMAIN clients : clients[k] = e.client}

(* Mutant of BuilderEventArrives: an event is emitted again while nothing    *)
(* newer is there.                                                           *)
BuilderEventArrivesAgain ==
  /\ relayed < Len(events)
  /\ LET e == events[relayed + 1] IN
       IF e.json /\ Matches(e) # {}
       THEN down' = [down EXCEPT ![clients[Min(Matches(e))]] = Append(@, relayed + 1)]
       ELSE UNCHANGED down
  /\ relayed' \in {relayed, relayed + 1}
  /\ Len(down'[1]) <= MaxEvents
  /\ UNCHANGED <<socket, owner, clients, up, asked, jobs, events, received>>

(* The subscription's callback: emit to the first match, and break. *)
BuilderEventArrives ==
  /\ relayed < Len(events)
  /\ relayed' = relayed + 1
  /\ LET e == events[relayed + 1] IN
       IF e.json /\ Matches(e) # {}
       THEN down' = [down EXCEPT ![clients[Min(Matches(e))]] = Append(@, relayed + 1)]
       ELSE UNCHANGED down
  /\ UNCHANGED <<socket, owner, clients, up, asked, jobs, events, received>>

(* The page's message handler gets the next event of its socket. *)
Receive(p) ==
  /\ socket[p] # None /\ down[socket[p]] # <<>>
  /\ received' = [received EXCEPT ![p] = Append(@, Head(down[socket[p]]))]
  /\ down' = [down EXCEPT ![socket[p]] = Tail(@)]
  /\ UNCHANGED <<socket, owner, clients, up, asked, jobs, events, relayed>>

Browser ==
  \E p \in Pages : \/ Connect(p) \/ Drop(p) \/ Receive(p)
                   \/ \E text \in Texts : Ask(p, text)

Server ==
  \/ \E i \in DOMAIN owner : NoticeDisconnect(i) \/ Message(i)
  \/ BuilderEventArrives

Next == Browser \/ Server \/ BuilderEvent

Spec == Init /\ [][Next]_vars

(* The event loop runs, the socket delivers, a page tries to connect again. *)
FairSpec ==
  /\ Spec
  /\ WF_vars(BuilderEventArrives)
  /\ \A p \in Pages : WF_vars(Receive(p)) /\ WF_vars(Connect(p))
  /\ \A i \in Ids : WF_vars(Message(i))

-----------------------------------------------------------------------------
(* The state is well formed; every socket that a page is connected with is   *)
(* listed where the callback looks for it, and no id is listed twice.        *)
(* (app.js:106, io.sockets.clients().)                                       *)
TypeOK ==
  /\ \A p \in Pages : socket[p] # None => Contains(clients, socket[p])
  /\ \A j, k \in DOMAIN clients : clients[j] = clients[k] => j = k
  /\ owner \in Seq(Pages) /\ Len(owner) <= MaxSockets
  /\ socket \in [Pages -> {None} \cup DOMAIN owner]
  /\ clients \in Seq(DOMAIN owner)
  /\ up \in [Ids -> Seq(DOMAIN asked)] /\ down \in [Ids -> Seq(DOMAIN events)]
  /\ asked \in Seq([page : Pages, text : Texts])
  /\ jobs \in Seq([job : DOMAIN asked, client : {None} \cup DOMAIN owner])
  /\ events \in Seq([client : {Foreign} \cup DOMAIN owner,
                      job : {0} \cup DOMAIN asked, json : BOOLEAN])
  /\ relayed \in 0..Len(events)
  /\ received \in [Pages -> Seq(DOMAIN events)]

(* A page sees only events of builds it asked for itself, over whichever      *)
(* connection, however the sockets came and went meanwhile.                   *)
(* (app.js:68-81 and 97-115.)                                                 *)
OnlyItsOwn ==
  \A p \in Pages : \A k \in DOMAIN received[p] :
    LET e == events[received[p][k]] IN e.job # 0 /\ asked[e.job].page = p

(* An event reaches the page that asked, unless it is no JSON or the         *)
(* connection the page asked over has ended.                                 *)
EventsReachTheAsker ==
  \A k \in 1..MaxEvents : \A i \in Ids :
    (k \in DOMAIN events /\ events[k].client = i /\ events[k].json)
      ~> (i \in DOMAIN owner
            /\ (Contains(received[owner[i]], k) \/ socket[owner[i]] # i))

(* The last event page p has got. *)
Seen(p) == IF received[p] = <<>> THEN 0 ELSE Last(received[p])

(* What a page gets (any page, which ThisPage stands for) is an event channel:    *)
(* the published events in order, none twice, some left out, over all the     *)
(* connections the page has had.  (app.js:81-115.)                            *)
Channel == INSTANCE EventChannel WITH
  lossy <- TRUE,
  sent <- [k \in DOMAIN events |-> k],
  next <- Seen(ThisPage) + 1,
  got <- received[ThisPage]

EventsInOrder == Channel!ChannelSpec
=============================================================================
