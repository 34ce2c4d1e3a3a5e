---------------------------- MODULE WebRelayProofs ----------------------------
(***************************************************************************)
(* WebRelay for any set of pages and any bounds: the inductive invariant   *)
(* IInv, which says of whatever is under way whose it is (OwnInv) and in   *)
(* which order it goes (OrderInv), and what follows from it: a page sees   *)
(* only the events of its own builds, and it sees them in the order in     *)
(* which the builders sent them.                                           *)
(***************************************************************************)
EXTENDS WebRelay, TLAPS

(* A sequence over a set is one over any larger set. *)
LEMMA SeqGrows ==
  ASSUME NEW S, NEW T, S \subseteq T
  PROVE  Seq(S) \subseteq Seq(T)
OBVIOUS

(* A sequence without the element at k.                                      *)
LEMMA RemoveAtFacts ==
  ASSUME NEW S, NEW s \in Seq(S), NEW k \in 1..Len(s)
  PROVE  /\ RemoveAt(s, k) \in Seq(S)
         /\ Len(RemoveAt(s, k)) = Len(s) - 1
         /\ \A j \in 1..(Len(s) - 1) : RemoveAt(s, k)[j] = s[IF j < k THEN j ELSE j + 1]
<1> DEFINE before == SubSeq(s, 1, k - 1)
           after == SubSeq(s, k + 1, Len(s))
<1>1. /\ Len(s) \in Nat
      /\ before \in Seq(S) /\ Len(before) = k - 1 /\ \A j \in 1..(k - 1) : before[j] = s[j]
      /\ after \in Seq(S) /\ Len(after) = Len(s) - k
      /\ \A j \in 1..(Len(s) - k) : after[j] = s[j + k]
  OBVIOUS
<1>2. RemoveAt(s, k) = before \o after
  BY DEF RemoveAt
<1> HIDE DEF before, after
<1>3. /\ before \o after \in Seq(S)
      /\ Len(before \o after) = (k - 1) + (Len(s) - k)
      /\ \A j \in 1..(k - 1) : (before \o after)[j] = s[j]
      /\ \A j \in 1..(Len(s) - k) : (before \o after)[(k - 1) + j] = s[j + k]
  <2>1. /\ before \o after \in Seq(S) /\ Len(before \o after) = Len(before) + Len(after)
        /\ \A j \in 1..Len(before) : (before \o after)[j] = before[j]
        /\ \A j \in 1..Len(after) : (before \o after)[Len(before) + j] = after[j]
    <3>1. before \in Seq(S) /\ after \in Seq(S)
      BY <1>1
    <3> QED BY <3>1
  <2> QED BY <1>1, <2>1
<1>4. ASSUME NEW j \in 1..(Len(s) - 1)
      PROVE  (before \o after)[j] = s[IF j < k THEN j ELSE j + 1]
  <2>1. CASE j < k
    BY <1>1, <1>3, <2>1
  <2>2. CASE j >= k
    <3>1. PICK i \in 1..(Len(s) - k) : j = (k - 1) + i
      <4>1. j - (k - 1) \in 1..(Len(s) - k) /\ j = (k - 1) + (j - (k - 1))
        BY <1>1, <2>2
      <4> QED BY <4>1
    <3>2. i + k = j + 1 /\ ~(j < k)
      BY <1>1, <2>2, <3>1
    <3> QED BY <1>3, <3>1, <3>2
  <2> QED BY <1>1, <2>1, <2>2
<1>5. (k - 1) + (Len(s) - k) = Len(s) - 1
  BY <1>1
<1> QED BY <1>2, <1>3, <1>4, <1>5

(* A page is connected with an id that was given to it.                      *)
Connected == \A p \in Pages : socket[p] # None => owner[socket[p]] = p

(* The ids in use are the first ones.                                        *)
LEMMA IdsInUse ==
  ASSUME TypeOK
  PROVE  /\ DOMAIN owner = 1..Len(owner) /\ Len(owner) \in Nat
         /\ DOMAIN owner \subseteq Ids /\ None \notin DOMAIN owner
BY BoundsAssumption DEF TypeOK, Ids, None

(* The web application starts in a well-formed state. *)
LEMMA InitTyped == Init => TypeOK
BY BoundsAssumption DEF Init, TypeOK, None, Ids, Contains

(* Jobs and events are well formed whatever ids and questions come later.    *)
LEMMA RecordsStay ==
  ASSUME TypeOK, DOMAIN owner \subseteq DOMAIN owner', DOMAIN asked \subseteq DOMAIN asked',
         UNCHANGED <<jobs, events>>
  PROVE  /\ jobs' \in Seq([job : DOMAIN asked', client : {None} \cup DOMAIN owner'])
         /\ events' \in Seq([client : {Foreign} \cup DOMAIN owner',
                            job : {0} \cup DOMAIN asked', json : BOOLEAN])
<1>1. [job : DOMAIN asked, client : {None} \cup DOMAIN owner]
        \subseteq [job : DOMAIN asked', client : {None} \cup DOMAIN owner']
  OBVIOUS
<1>2. [client : {Foreign} \cup DOMAIN owner, job : {0} \cup DOMAIN asked, json : BOOLEAN]
        \subseteq [client : {Foreign} \cup DOMAIN owner', job : {0} \cup DOMAIN asked',
                   json : BOOLEAN]
  OBVIOUS
<1>3. Seq([job : DOMAIN asked, client : {None} \cup DOMAIN owner])
        \subseteq Seq([job : DOMAIN asked', client : {None} \cup DOMAIN owner'])
  BY <1>1, SeqGrows
<1>4. Seq([client : {Foreign} \cup DOMAIN owner, job : {0} \cup DOMAIN asked, json : BOOLEAN])
        \subseteq Seq([client : {Foreign} \cup DOMAIN owner',
                       job : {0} \cup DOMAIN asked', json : BOOLEAN])
  BY <1>2, SeqGrows
<1> QED BY <1>3, <1>4 DEF TypeOK

(* A connection gets the next id and is listed once among the clients. *)
LEMMA ConnectTyped ==
  ASSUME TypeOK, NEW p \in Pages, Connect(p)
  PROVE  TypeOK'
<1> DEFINE n == Len(owner) + 1
<1>1. owner' \in Seq(Pages) /\ Len(owner') = n /\ n <= MaxSockets
  BY BoundsAssumption DEF TypeOK, Connect
<1>2. DOMAIN owner = 1..Len(owner) /\ DOMAIN owner' = 1..n /\ Len(owner) \in Nat
  BY <1>1 DEF TypeOK
<1>3. clients \in Seq(DOMAIN owner') /\ n \in DOMAIN owner'
  BY <1>2, SeqGrows DEF TypeOK
<1>4. clients' \in Seq(DOMAIN owner')
  BY <1>3 DEF Connect
<1>5. socket' \in [Pages -> {None} \cup DOMAIN owner']
  BY <1>2 DEF TypeOK, Connect, None
<1>6. \A j, k \in DOMAIN clients' : clients'[j] = clients'[k] => j = k
  <2>1. \A j \in DOMAIN clients : clients[j] \in 1..Len(owner)
    BY <1>2 DEF TypeOK
  <2>2. \A j \in DOMAIN clients : clients[j] # n
    BY <1>2, <2>1
  <2>3. /\ DOMAIN clients = 1..Len(clients) /\ Len(clients) \in Nat
        /\ DOMAIN clients' = 1..(Len(clients) + 1)
        /\ clients'[Len(clients) + 1] = n
        /\ \A j \in DOMAIN clients : clients'[j] = clients[j]
    BY <1>3 DEF Connect
  <2>4. \A j, k \in DOMAIN clients : clients[j] = clients[k] => j = k
    BY DEF TypeOK
  <2> HIDE DEF n
  <2> QED BY <2>2, <2>3, <2>4
<1>7. \A q \in Pages : socket'[q] # None => Contains(clients', socket'[q])
  <2>1. Contains(clients', n)
    BY <1>3 DEF Connect, Contains
  <2>2. ASSUME NEW q \in Pages, q # p, socket[q] # None
        PROVE  Contains(clients', socket[q])
    BY <1>3, <2>2 DEF Connect, Contains, TypeOK
  <2> QED BY <2>1, <2>2 DEF TypeOK, Connect
<1>8. /\ jobs' \in Seq([job : DOMAIN asked', client : {None} \cup DOMAIN owner'])
      /\ events' \in Seq([client : {Foreign} \cup DOMAIN owner',
                         job : {0} \cup DOMAIN asked', json : BOOLEAN])
  BY <1>2, RecordsStay DEF Connect
<1> QED BY <1>1, <1>4, <1>5, <1>6, <1>7, <1>8 DEF TypeOK, Connect

(* A connection that goes takes what was under way on it along. *)
LEMMA DropTyped ==
  ASSUME TypeOK, NEW p \in Pages, Drop(p)
  PROVE  TypeOK'
<1>1. /\ socket' \in [Pages -> {None} \cup DOMAIN owner]
      /\ \A q \in Pages : socket'[q] # None => Contains(clients, socket'[q])
  BY DEF TypeOK, Drop
<1>2. up' \in [Ids -> Seq(DOMAIN asked)] /\ down' \in [Ids -> Seq(DOMAIN events)]
  <2>1. /\ up \in [Ids -> Seq(DOMAIN asked)] /\ down \in [Ids -> Seq(DOMAIN events)]
        /\ <<>> \in Seq(DOMAIN asked) /\ <<>> \in Seq(DOMAIN events)
    BY DEF TypeOK
  <2> QED BY <2>1 DEF Drop
<1> QED BY <1>1, <1>2 DEF TypeOK, Drop, Contains

(* Taking out an id that no page is connected with leaves the others in.     *)
LEMMA NoticeDisconnectTyped ==
  ASSUME TypeOK, Connected, NEW i \in DOMAIN owner, NoticeDisconnect(i)
  PROVE  TypeOK'
<1> PICK k \in DOMAIN clients : clients[k] = i /\ clients' = RemoveAt(clients, k)
  BY DEF NoticeDisconnect
<1>1. clients \in Seq(DOMAIN owner) /\ DOMAIN clients = 1..Len(clients) /\ Len(clients) \in Nat
  BY DEF TypeOK
<1>2. clients' \in Seq(DOMAIN owner) /\ Len(clients') = Len(clients) - 1
      /\ DOMAIN clients' = 1..(Len(clients) - 1)
  <2>1. RemoveAt(clients, k) \in Seq(DOMAIN owner) /\ Len(RemoveAt(clients, k)) = Len(clients) - 1
    BY <1>1, RemoveAtFacts
  <2> QED BY <2>1
<1>3. \A j \in DOMAIN clients' : clients'[j] = clients[IF j < k THEN j ELSE j + 1]
  <2>1. \A j \in 1..(Len(clients) - 1) :
          RemoveAt(clients, k)[j] = clients[IF j < k THEN j ELSE j + 1]
    BY <1>1, RemoveAtFacts
  <2> QED BY <1>2, <2>1
<1>4. \A j, l \in DOMAIN clients' : clients'[j] = clients'[l] => j = l
  <2> SUFFICES ASSUME NEW j \in DOMAIN clients', NEW l \in DOMAIN clients',
                      clients'[j] = clients'[l]
               PROVE  j = l
    OBVIOUS
  <2> DEFINE at(x) == IF x < k THEN x ELSE x + 1
  <2>1. at(j) \in DOMAIN clients /\ at(l) \in DOMAIN clients
    BY <1>1, <1>2
  <2>2. at(j) = at(l)
    BY <1>3, <2>1 DEF TypeOK
  <2> QED BY <1>1, <1>2, <2>2
<1>5. ASSUME NEW q \in Pages, socket[q] # None
      PROVE  Contains(clients', socket[q])
  <2>1. PICK j \in DOMAIN clients : clients[j] = socket[q]
    BY <1>1, <1>5 DEF TypeOK, Contains
  <2>2. j # k
    BY <2>1, <1>5 DEF Connected, NoticeDisconnect
  <2> DEFINE x == IF j < k THEN j ELSE j - 1
  <2>3. x \in 1..Len(clients') /\ clients'[x] = clients[j]
    BY <1>1, <1>2, <1>3, <2>2
  <2> QED BY <2>1, <2>3 DEF Contains
<1> QED BY <1>2, <1>4, <1>5 DEF TypeOK, NoticeDisconnect

(* A question of a page goes up on its connection. *)
LEMMA AskTyped ==
  ASSUME TypeOK, NEW p \in Pages, NEW text \in Texts, Ask(p, text)
  PROVE  TypeOK'
<1>1. asked' \in Seq([page : Pages, text : Texts])
  BY DEF TypeOK, Ask
<1>2. /\ DOMAIN asked = 1..Len(asked) /\ Len(asked) \in Nat
      /\ DOMAIN asked' = 1..(Len(asked) + 1)
  BY DEF TypeOK, Ask
<1>3. /\ jobs' \in Seq([job : DOMAIN asked', client : {None} \cup DOMAIN owner'])
      /\ events' \in Seq([client : {Foreign} \cup DOMAIN owner',
                         job : {0} \cup DOMAIN asked', json : BOOLEAN])
  BY <1>2, RecordsStay DEF Ask
<1>4. Seq(DOMAIN asked) \subseteq Seq(DOMAIN asked')
  BY <1>2, SeqGrows
<1>5. up' \in [Ids -> Seq(DOMAIN asked')]
  <2>1. ASSUME NEW i \in Ids
        PROVE  up[i] \in Seq(DOMAIN asked') /\ Append(up[i], Len(asked) + 1) \in Seq(DOMAIN asked')
    <3>1. up[i] \in Seq(DOMAIN asked') /\ Len(asked) + 1 \in DOMAIN asked'
      BY <1>2, <1>4 DEF TypeOK
    <3> QED BY <3>1
  <2> QED BY <2>1 DEF TypeOK, Ask
<1> QED BY <1>1, <1>3, <1>5 DEF TypeOK, Ask, Contains

(* The handler of a page's message makes one job of it. *)
LEMMA MessageTyped ==
  ASSUME TypeOK, NEW i \in DOMAIN owner, Message(i)
  PROVE  TypeOK'
<1>1. i \in Ids
  BY BoundsAssumption DEF TypeOK, Ids
<1>2. up[i] \in Seq(DOMAIN asked) /\ Head(up[i]) \in DOMAIN asked
      /\ Tail(up[i]) \in Seq(DOMAIN asked)
  BY <1>1 DEF TypeOK, Message
<1>3. up' \in [Ids -> Seq(DOMAIN asked)]
  BY <1>2 DEF TypeOK, Message
<1>4. jobs' \in Seq([job : DOMAIN asked, client : {None} \cup DOMAIN owner])
  BY <1>2 DEF TypeOK, Message, ClientId
<1> QED BY <1>3, <1>4 DEF TypeOK, Message, Contains

(* A builder's event carries the client of its job, or one that is           *)
(* foreign.                                                                  *)
LEMMA BuilderEventTyped ==
  ASSUME TypeOK, BuilderEvent
  PROVE  TypeOK'
<1>1. PICK e \in [client : {Foreign} \cup DOMAIN owner, job : {0} \cup DOMAIN asked,
                  json : BOOLEAN] : events' = Append(events, e)
  <2> DEFINE JobRecord == [job : DOMAIN asked, client : {None} \cup DOMAIN owner]
  <2>1. \A k \in DOMAIN jobs : jobs[k] \in JobRecord
    <3>1. jobs \in Seq(JobRecord)
      BY DEF TypeOK
    <3> HIDE DEF JobRecord
    <3> QED BY <3>1
  <2> QED BY <2>1 DEF BuilderEvent
<1>2. /\ DOMAIN events = 1..Len(events) /\ Len(events) \in Nat
      /\ DOMAIN events' = 1..(Len(events) + 1)
      /\ Len(events') = Len(events) + 1
  BY <1>1 DEF TypeOK
<1>3. Seq(DOMAIN events) \subseteq Seq(DOMAIN events')
  BY <1>2, SeqGrows
<1>4. down' \in [Ids -> Seq(DOMAIN events')] /\ received' \in [Pages -> Seq(DOMAIN events')]
  BY <1>3 DEF TypeOK, BuilderEvent, net
<1>5. relayed' \in 0..Len(events')
  BY <1>2 DEF TypeOK, BuilderEvent
<1>6. events' \in Seq([client : {Foreign} \cup DOMAIN owner, job : {0} \cup DOMAIN asked,
                      json : BOOLEAN])
  BY <1>1 DEF TypeOK
<1> QED BY <1>4, <1>5, <1>6 DEF TypeOK, BuilderEvent, net, Contains

(* An id is listed once, so that the first match is the only one.            *)
LEMMA FirstMatch ==
  ASSUME TypeOK, NEW e, Matches(e) # {}
  PROVE  /\ clients[Min(Matches(e))] = e.client
         /\ e.client \in DOMAIN owner /\ e.client \in Ids
<1>1. PICK k \in DOMAIN clients : clients[k] = e.client
  BY DEF Matches
<1>2. Matches(e) = {k} /\ k \in Int
  <2>1. DOMAIN clients = 1..Len(clients) /\ Len(clients) \in Nat
    BY DEF TypeOK
  <2>2. \A j \in DOMAIN clients : clients[j] = clients[k] => j = k
    BY DEF TypeOK
  <2> QED BY <1>1, <2>1, <2>2 DEF Matches
<1>3. Min({k}) = k
  BY <1>2 DEF Min
<1>4. clients[k] \in DOMAIN owner
  BY DEF TypeOK
<1> QED BY <1>1, <1>2, <1>3, <1>4, IdsInUse

(* What the callback does with the next event.                               *)
LEMMA Emits ==
  ASSUME TypeOK, BuilderEventArrives
  PROVE  LET e == events[relayed + 1] IN
         /\ relayed + 1 \in DOMAIN events
         /\ \/ UNCHANGED down
            \/ /\ e.client \in DOMAIN owner /\ e.client \in Ids
               /\ down' = [down EXCEPT ![e.client] = Append(@, relayed + 1)]
<1>1. relayed + 1 \in DOMAIN events
  BY DEF TypeOK, BuilderEventArrives
<1> QED BY <1>1, FirstMatch DEF BuilderEventArrives

(* What the callback of the subscription emits is an event that was sent. *)
LEMMA BuilderEventArrivesTyped ==
  ASSUME TypeOK, BuilderEventArrives
  PROVE  TypeOK'
<1>1. down' \in [Ids -> Seq(DOMAIN events)]
  <2>1. \A i \in Ids : down[i] \in Seq(DOMAIN events)
    BY DEF TypeOK
  <2>2. relayed + 1 \in DOMAIN events
    BY Emits
  <2>3. \A i \in Ids : Append(down[i], relayed + 1) \in Seq(DOMAIN events)
    BY <2>1, <2>2
  <2>4. down \in [Ids -> Seq(DOMAIN events)]
    BY DEF TypeOK
  <2> QED BY Emits, <2>3, <2>4
<1>2. relayed' \in 0..Len(events)
  BY DEF TypeOK, BuilderEventArrives
<1> QED BY <1>1, <1>2 DEF TypeOK, BuilderEventArrives, Contains

(* A page takes the oldest event from its connection. *)
LEMMA ReceiveTyped ==
  ASSUME TypeOK, NEW p \in Pages, Receive(p)
  PROVE  TypeOK'
<1>1. socket[p] \in Ids
  BY IdsInUse DEF TypeOK, Receive
<1>2. /\ Head(down[socket[p]]) \in DOMAIN events
      /\ Tail(down[socket[p]]) \in Seq(DOMAIN events)
  BY <1>1 DEF TypeOK, Receive
<1>3. down' \in [Ids -> Seq(DOMAIN events)] /\ received' \in [Pages -> Seq(DOMAIN events)]
  <2>1. \A q \in Pages : received[q] \in Seq(DOMAIN events)
    BY DEF TypeOK
  <2>2. Append(received[p], Head(down[socket[p]])) \in Seq(DOMAIN events)
    BY <1>2, <2>1
  <2> QED BY <1>2, <2>2 DEF TypeOK, Receive
<1> QED BY <1>3 DEF TypeOK, Receive, Contains

(* One of the actions is taken.                                              *)
LEMMA NextTyped == TypeOK /\ Connected /\ [Next]_vars => TypeOK'
<1> SUFFICES ASSUME TypeOK, Connected, [Next]_vars PROVE TypeOK'
  OBVIOUS
<1>1. CASE UNCHANGED vars
  BY <1>1 DEF vars, net, TypeOK, Contains
<1>2. CASE Next
  BY <1>2, ConnectTyped, DropTyped, ReceiveTyped, AskTyped, NoticeDisconnectTyped, MessageTyped,
     BuilderEventArrivesTyped, BuilderEventTyped DEF Next, Browser, Server
<1> QED BY <1>1, <1>2

-----------------------------------------------------------------------------
(* Nothing is under way on an id that no connection has had yet. *)
Unused == \A i \in Ids \ DOMAIN owner : up[i] = <<>> /\ down[i] = <<>>

(* The questions on a connection are those of its page. *)
UpOwned == \A i \in DOMAIN owner : \A k \in DOMAIN up[i] : asked[up[i][k]].page = owner[i]

(* A job that names a client names the one of the page that asked. *)
JobsOwned ==
  \A k \in DOMAIN jobs :
    jobs[k].client # None => asked[jobs[k].job].page = owner[jobs[k].client]

(* An event that names a client of this application is of a build that the   *)
(* page of the client asked for.                                             *)
EventsOwned ==
  \A k \in DOMAIN events :
    events[k].client # Foreign
      => events[k].job # 0 /\ asked[events[k].job].page = owner[events[k].client]

(* The events on a connection name it as their client. *)
DownOwned == \A i \in Ids : \A k \in DOMAIN down[i] : events[down[i][k]].client = i

(* Whose everything is, from the question to the event. *)
OwnInv == Connected /\ Unused /\ UpOwned /\ JobsOwned /\ EventsOwned /\ DownOwned /\ OnlyItsOwn

(* Of two events on a connection the older one is the first. *)
DownSorted ==
  \A i \in Ids : \A j, k \in DOMAIN down[i] : j < k => down[i][j] < down[i][k]

(* No event is on a connection before the callback had it. *)
DownRelayed == \A i \in Ids : \A k \in DOMAIN down[i] : down[i][k] <= relayed

(* What is under way to a page is newer than all that the page has seen.     *)
(* This rests on Connect: a page that connects again starts with nothing     *)
(* under way.                                                                *)
DownUnseen ==
  \A p \in Pages : socket[p] # None
    => \A k \in DOMAIN down[socket[p]] : down[socket[p]][k] > Seen(p)

(* A page has seen nothing that the callback has not had. *)
SeenRelayed == \A p \in Pages : Seen(p) \in 0..relayed

(* In which order events reach a page. *)
OrderInv == DownSorted /\ DownRelayed /\ DownUnseen /\ SeenRelayed

(* The inductive invariant. *)
IInv == TypeOK /\ OwnInv /\ OrderInv

(* Nothing is under way at the start. *)
LEMMA InitOwn == Init => OwnInv
BY DEF Init, OwnInv, Connected, Unused, UpOwned, JobsOwned, EventsOwned, DownOwned, OnlyItsOwn,
       None

(* What is asked or published stays where it is.                             *)
LEMMA AppendFacts ==
  ASSUME NEW S, NEW s \in Seq(S), NEW e
  PROVE  /\ Append(s, e)[Len(s) + 1] = e /\ Len(Append(s, e)) = Len(s) + 1
         /\ DOMAIN s = 1..Len(s) /\ DOMAIN Append(s, e) = DOMAIN s \cup {Len(s) + 1}
         /\ \A j \in DOMAIN s : Append(s, e)[j] = s[j]
         /\ Len(s) \in Nat /\ Len(s) + 1 \notin DOMAIN s
OBVIOUS

(* A sequence without its first element. *)
LEMMA TailFacts ==
  ASSUME NEW S, NEW s \in Seq(S), s # <<>>
  PROVE  /\ Head(s) = s[1] /\ 1 \in DOMAIN s
         /\ \A j \in DOMAIN Tail(s) : j + 1 \in DOMAIN s /\ Tail(s)[j] = s[j + 1] /\ j \in Nat \ {0}
OBVIOUS

(* The elements of each sequence are what the indices in them stand for.     *)
LEMMA Ranges ==
  ASSUME TypeOK
  PROVE  /\ \A i \in Ids : \A k \in DOMAIN up[i] : up[i][k] \in DOMAIN asked
         /\ \A i \in Ids : \A k \in DOMAIN down[i] : down[i][k] \in DOMAIN events
         /\ \A p \in Pages : \A k \in DOMAIN received[p] : received[p][k] \in DOMAIN events
         /\ \A k \in DOMAIN jobs : /\ jobs[k].job \in DOMAIN asked
                                  /\ jobs[k].client \in {None} \cup DOMAIN owner
         /\ \A k \in DOMAIN events : /\ events[k].client \in {Foreign} \cup DOMAIN owner
                                    /\ events[k].job \in {0} \cup DOMAIN asked
<1>1. \A i \in Ids : up[i] \in Seq(DOMAIN asked) /\ down[i] \in Seq(DOMAIN events)
  BY DEF TypeOK
<1>2. \A p \in Pages : received[p] \in Seq(DOMAIN events)
  BY DEF TypeOK
<1> DEFINE JobRecord == [job : DOMAIN asked, client : {None} \cup DOMAIN owner]
           EventRecord == [client : {Foreign} \cup DOMAIN owner, job : {0} \cup DOMAIN asked,
                           json : BOOLEAN]
<1>3. \A e \in JobRecord : e.job \in DOMAIN asked /\ e.client \in {None} \cup DOMAIN owner
  OBVIOUS
<1>4. \A e \in EventRecord : /\ e.client \in {Foreign} \cup DOMAIN owner
                             /\ e.job \in {0} \cup DOMAIN asked
  OBVIOUS
<1>5. jobs \in Seq(JobRecord) /\ events \in Seq(EventRecord)
  BY DEF TypeOK
<1> HIDE DEF JobRecord, EventRecord
<1>6. /\ \A k \in DOMAIN jobs : jobs[k] \in JobRecord
      /\ \A k \in DOMAIN events : events[k] \in EventRecord
  BY <1>5
<1> QED BY <1>1, <1>2, <1>3, <1>4, <1>6

(* An id of its own for each connection: the page changes, the owners of all *)
(* that is under way do not.                                                 *)
LEMMA ConnectOwn ==
  ASSUME TypeOK, OwnInv, NEW p \in Pages, Connect(p)
  PROVE  OwnInv'
<1>1. /\ DOMAIN owner' = DOMAIN owner \cup {Len(owner) + 1}
      /\ owner'[Len(owner) + 1] = p
      /\ \A i \in DOMAIN owner : owner'[i] = owner[i]
      /\ Len(owner) + 1 \notin DOMAIN owner
  BY AppendFacts DEF TypeOK, Connect
<1>2. Len(owner) + 1 \in Ids
  BY BoundsAssumption DEF Ids, TypeOK, Connect
<1>3. up[Len(owner) + 1] = <<>> /\ down[Len(owner) + 1] = <<>>
  BY <1>1, <1>2 DEF OwnInv, Unused
<1>4. Connected'
  BY <1>1 DEF OwnInv, Connected, Connect, TypeOK
<1>5. Unused'
  BY <1>1 DEF OwnInv, Unused, Connect
<1>6. UpOwned'
  BY <1>1, <1>3 DEF OwnInv, UpOwned, Connect
<1>7. JobsOwned'
  BY <1>1, Ranges DEF OwnInv, JobsOwned, Connect
<1>8. EventsOwned'
  BY <1>1, Ranges DEF OwnInv, EventsOwned, Connect
<1>9. DownOwned' /\ OnlyItsOwn'
  BY DEF OwnInv, DownOwned, OnlyItsOwn, Connect
<1> QED BY <1>4, <1>5, <1>6, <1>7, <1>8, <1>9 DEF OwnInv

(* What is left when a connection goes is owned as before. *)
LEMMA DropOwn ==
  ASSUME TypeOK, OwnInv, NEW p \in Pages, Drop(p)
  PROVE  OwnInv'
<1>1. /\ up \in [Ids -> Seq(DOMAIN asked)] /\ down \in [Ids -> Seq(DOMAIN events)]
      /\ socket \in [Pages -> {None} \cup DOMAIN owner]
  BY DEF TypeOK
<1>2. Connected'
  BY <1>1 DEF OwnInv, Connected, Drop
<1>3. Unused'
  BY <1>1 DEF OwnInv, Unused, Drop
<1>4. UpOwned'
  BY <1>1, IdsInUse DEF OwnInv, UpOwned, Drop
<1>5. DownOwned'
  BY <1>1 DEF OwnInv, DownOwned, Drop
<1>6. JobsOwned' /\ EventsOwned' /\ OnlyItsOwn'
  BY DEF OwnInv, JobsOwned, EventsOwned, OnlyItsOwn, Drop
<1> QED BY <1>2, <1>3, <1>4, <1>5, <1>6 DEF OwnInv

(* The list of clients says nothing about owners. *)
LEMMA NoticeDisconnectOwn ==
  ASSUME OwnInv, NEW i \in DOMAIN owner, NoticeDisconnect(i)
  PROVE  OwnInv'
BY DEF NoticeDisconnect, OwnInv, Connected, Unused, UpOwned, JobsOwned, EventsOwned, DownOwned,
       OnlyItsOwn

(* A question is asked by the page that owns the connection it goes up on. *)
LEMMA AskOwn ==
  ASSUME TypeOK, OwnInv, NEW p \in Pages, NEW text \in Texts, Ask(p, text)
  PROVE  OwnInv'
<1> DEFINE n == Len(asked) + 1
<1>1. /\ DOMAIN asked' = DOMAIN asked \cup {n} /\ n \notin DOMAIN asked /\ 0 \notin DOMAIN asked
      /\ asked'[n].page = p
      /\ \A j \in DOMAIN asked : asked'[j] = asked[j]
  <2>1. asked \in Seq([page : Pages, text : Texts])
    BY DEF TypeOK
  <2>2. asked' = Append(asked, [page |-> p, text |-> text])
    BY DEF Ask
  <2>3. /\ asked'[n] = [page |-> p, text |-> text] /\ DOMAIN asked = 1..Len(asked)
        /\ DOMAIN asked' = DOMAIN asked \cup {n} /\ n \notin DOMAIN asked
        /\ \A j \in DOMAIN asked : asked'[j] = asked[j]
    BY <2>1, <2>2, AppendFacts
  <2>4. 0 \notin DOMAIN asked
    BY <2>3
  <2> QED BY <2>3, <2>4
<1>2. socket[p] \in DOMAIN owner /\ socket[p] \in Ids /\ owner[socket[p]] = p
  BY IdsInUse DEF TypeOK, OwnInv, Connected, Ask
<1>3. up[socket[p]] \in Seq(DOMAIN asked) /\ up \in [Ids -> Seq(DOMAIN asked)]
  BY <1>2 DEF TypeOK
<1> HIDE DEF n
<1>4. UpOwned'
  <2> SUFFICES ASSUME NEW i \in DOMAIN owner, NEW k \in DOMAIN up'[i]
               PROVE  asked'[up'[i][k]].page = owner[i]
    BY DEF UpOwned, Ask
  <2>1. CASE i # socket[p]
    BY <1>1, <1>3, <2>1, Ranges, IdsInUse DEF OwnInv, UpOwned, Ask
  <2>2. CASE i = socket[p]
    <3>1. up'[i] = Append(up[i], n)
      BY <1>2, <1>3, <2>2 DEF Ask, n
    <3>2. CASE k \in DOMAIN up[i]
      <4>1. up'[i][k] = up[i][k] /\ up[i][k] \in DOMAIN asked
        BY <1>2, <1>3, <2>2, <3>1, <3>2, AppendFacts, Ranges
      <4> QED BY <1>1, <4>1, <3>2 DEF OwnInv, UpOwned
    <3>3. CASE k \notin DOMAIN up[i]
      <4>1. up'[i][k] = n
        BY <1>3, <2>2, <3>1, <3>3, AppendFacts
      <4> QED BY <1>1, <1>2, <2>2, <4>1
    <3> QED BY <3>2, <3>3
  <2> QED BY <2>1, <2>2
<1>5. Unused'
  BY <1>2 DEF OwnInv, Unused, Ask
<1>6. JobsOwned'
  BY <1>1, Ranges DEF OwnInv, JobsOwned, Ask
<1>7. EventsOwned'
  BY <1>1, Ranges DEF OwnInv, EventsOwned, Ask
<1>8. OnlyItsOwn'
  <2>1. \A q \in Pages : \A k \in DOMAIN received[q] :
          events[received[q][k]].job \in DOMAIN asked
    BY Ranges DEF OwnInv, OnlyItsOwn
  <2> QED BY <1>1, <2>1 DEF OwnInv, OnlyItsOwn, Ask
<1>9. Connected' /\ DownOwned'
  BY DEF OwnInv, Connected, DownOwned, Ask
<1> QED BY <1>4, <1>5, <1>6, <1>7, <1>8, <1>9 DEF OwnInv

(* A job names the connection that its question came on. *)
LEMMA MessageOwn ==
  ASSUME TypeOK, OwnInv, NEW i \in DOMAIN owner, Message(i)
  PROVE  OwnInv'
<1>1. i \in Ids /\ up \in [Ids -> Seq(DOMAIN asked)] /\ up[i] \in Seq(DOMAIN asked)
  BY IdsInUse DEF TypeOK
<1>2. up' = [up EXCEPT ![i] = Tail(@)] /\ up[i] # <<>>
  BY DEF Message
<1>3. UpOwned'
  <2> SUFFICES ASSUME NEW j \in DOMAIN owner, NEW k \in DOMAIN up'[j]
               PROVE  asked[up'[j][k]].page = owner[j]
    BY DEF UpOwned, Message
  <2>1. CASE j # i
    BY <1>1, <1>2, <2>1 DEF OwnInv, UpOwned
  <2>2. CASE j = i
    BY <1>1, <1>2, <2>2, TailFacts DEF OwnInv, UpOwned
  <2> QED BY <2>1, <2>2
<1>4. JobsOwned'
  <2> DEFINE j == [job |-> Head(up[i]), client |-> ClientId(i, Head(up[i]))]
  <2>1. jobs' = Append(jobs, j)
    BY DEF Message
  <2>2. j.client # None => asked[j.job].page = owner[j.client]
    BY <1>1, <1>2, TailFacts DEF OwnInv, UpOwned, ClientId
  <2> HIDE DEF j
  <2>3. /\ DOMAIN jobs' = DOMAIN jobs \cup {Len(jobs) + 1} /\ jobs'[Len(jobs) + 1] = j
        /\ \A k \in DOMAIN jobs : jobs'[k] = jobs[k]
    <3> DEFINE JobRecord == [job : DOMAIN asked, client : {None} \cup DOMAIN owner]
    <3>1. jobs \in Seq(JobRecord)
      BY DEF TypeOK
    <3> HIDE DEF JobRecord
    <3> QED BY <2>1, <3>1, AppendFacts
  <2> QED BY <2>2, <2>3 DEF OwnInv, JobsOwned, Message
<1>5. Unused'
  BY <1>1 DEF OwnInv, Unused, Message
<1>6. Connected' /\ EventsOwned' /\ DownOwned' /\ OnlyItsOwn'
  BY DEF OwnInv, Connected, EventsOwned, DownOwned, OnlyItsOwn, Message
<1> QED BY <1>3, <1>4, <1>5, <1>6 DEF OwnInv

(* An event names the client of its job, so the owner goes with it. *)
LEMMA BuilderEventOwn ==
  ASSUME TypeOK, OwnInv, BuilderEvent
  PROVE  OwnInv'
<1>1. PICK e : /\ events' = Append(events, e)
               /\ \/ \E k \in DOMAIN jobs : /\ jobs[k].client # None
                                           /\ e.client = jobs[k].client /\ e.job = jobs[k].job
                  \/ e.client = Foreign
  <2>1. ASSUME NEW k \in DOMAIN jobs, NEW json \in BOOLEAN, jobs[k].client # None,
               events' = Append(events, [client |-> jobs[k].client, job |-> jobs[k].job,
                                         json |-> json])
        PROVE  \E e : /\ events' = Append(events, e) /\ jobs[k].client # None
                      /\ e.client = jobs[k].client /\ e.job = jobs[k].job
    <3> WITNESS [client |-> jobs[k].client, job |-> jobs[k].job, json |-> json]
    <3> QED BY <2>1
  <2>2. ASSUME events' = Append(events, [client |-> Foreign, job |-> 0, json |-> TRUE])
        PROVE  \E e : events' = Append(events, e) /\ e.client = Foreign
    <3> WITNESS [client |-> Foreign, job |-> 0, json |-> TRUE]
    <3> QED BY <2>2
  <2> QED BY <2>1, <2>2 DEF BuilderEvent
<1>2. e.client # Foreign => e.job # 0 /\ asked[e.job].page = owner[e.client]
  <2>1. 0 \notin DOMAIN asked
    BY DEF TypeOK
  <2> QED BY <1>1, <2>1, Ranges DEF OwnInv, JobsOwned
<1>3. /\ DOMAIN events' = DOMAIN events \cup {Len(events) + 1} /\ events'[Len(events) + 1] = e
      /\ \A k \in DOMAIN events : events'[k] = events[k]
  <2> DEFINE EventRecord == [client : {Foreign} \cup DOMAIN owner, job : {0} \cup DOMAIN asked,
                             json : BOOLEAN]
  <2>1. events \in Seq(EventRecord)
    BY DEF TypeOK
  <2> HIDE DEF EventRecord
  <2> QED BY <1>1, <2>1, AppendFacts
<1>4. EventsOwned'
  BY <1>2, <1>3 DEF OwnInv, EventsOwned, BuilderEvent, net
<1>5. DownOwned'
  BY <1>3, Ranges DEF OwnInv, DownOwned, BuilderEvent, net
<1>6. OnlyItsOwn'
  BY <1>3, Ranges DEF OwnInv, OnlyItsOwn, BuilderEvent, net
<1>7. Connected' /\ Unused' /\ UpOwned' /\ JobsOwned'
  BY DEF OwnInv, Connected, Unused, UpOwned, JobsOwned, BuilderEvent, net
<1> QED BY <1>4, <1>5, <1>6, <1>7 DEF OwnInv

(* The callback emits an event on the connection that it names. *)
LEMMA BuilderEventArrivesOwn ==
  ASSUME TypeOK, OwnInv, BuilderEventArrives
  PROVE  OwnInv'
<1>1. DownOwned' /\ Unused'
  <2>1. CASE UNCHANGED down
    BY <2>1 DEF OwnInv, DownOwned, Unused, BuilderEventArrives
  <2>2. CASE down' # down
    <3> DEFINE n == relayed + 1
               i == events[n].client
    <3>1. /\ i \in DOMAIN owner /\ i \in Ids
          /\ down' = [down EXCEPT ![i] = Append(@, n)]
      BY <2>2, Emits
    <3>2. events[n].client = i
      OBVIOUS
    <3>3. down[i] \in Seq(DOMAIN events) /\ down \in [Ids -> Seq(DOMAIN events)]
      BY <3>1 DEF TypeOK
    <3> HIDE DEF n, i
    <3>4. \A k \in DOMAIN down'[i] : events[down'[i][k]].client = i
      BY <3>1, <3>2, <3>3, AppendFacts DEF OwnInv, DownOwned
    <3>5. DownOwned'
      BY <3>1, <3>3, <3>4 DEF OwnInv, DownOwned, BuilderEventArrives
    <3>6. Unused'
      BY <3>1, <3>3 DEF OwnInv, Unused, BuilderEventArrives
    <3> QED BY <3>5, <3>6
  <2> QED BY <2>1, <2>2
<1>2. Connected' /\ UpOwned' /\ JobsOwned' /\ EventsOwned' /\ OnlyItsOwn'
  BY DEF OwnInv, Connected, UpOwned, JobsOwned, EventsOwned, OnlyItsOwn, BuilderEventArrives
<1> QED BY <1>1, <1>2 DEF OwnInv

(* What a page takes from its socket, and what it has then.                  *)
LEMMA Receives ==
  ASSUME TypeOK, NEW p \in Pages, Receive(p)
  PROVE  LET i == socket[p]  e == down[i][1]
         IN  /\ i \in DOMAIN owner /\ i \in Ids /\ 1 \in DOMAIN down[i] /\ e \in DOMAIN events
             /\ received' = [received EXCEPT ![p] = Append(@, e)]
             /\ DOMAIN received'[p] = DOMAIN received[p] \cup {Len(received[p]) + 1}
             /\ received'[p][Len(received[p]) + 1] = e
             /\ \A k \in DOMAIN received[p] : received'[p][k] = received[p][k]
             /\ \A q \in Pages \ {p} : received'[q] = received[q]
             /\ \A k \in DOMAIN down'[i] :
                  k + 1 \in DOMAIN down[i] /\ down'[i][k] = down[i][k + 1] /\ k \in Nat \ {0}
             /\ \A j \in Ids \ {i} : down'[j] = down[j]
<1> DEFINE i == socket[p]
<1>1. i \in DOMAIN owner /\ i \in Ids
  BY IdsInUse DEF TypeOK, Receive
<1>2. /\ down \in [Ids -> Seq(DOMAIN events)] /\ received \in [Pages -> Seq(DOMAIN events)]
      /\ down[i] \in Seq(DOMAIN events) /\ down[i] # <<>> /\ received[p] \in Seq(DOMAIN events)
  BY <1>1 DEF TypeOK, Receive
<1>3. Head(down[i]) = down[i][1] /\ 1 \in DOMAIN down[i] /\ down[i][1] \in DOMAIN events
  BY <1>2
<1>4. /\ received' = [received EXCEPT ![p] = Append(@, down[i][1])]
      /\ down' = [down EXCEPT ![i] = Tail(@)]
  BY <1>3 DEF Receive
<1> HIDE DEF i
<1>5. received'[p] = Append(received[p], down[i][1]) /\ down'[i] = Tail(down[i])
  BY <1>1, <1>2, <1>4
<1>6. /\ DOMAIN received'[p] = DOMAIN received[p] \cup {Len(received[p]) + 1}
      /\ received'[p][Len(received[p]) + 1] = down[i][1]
      /\ \A k \in DOMAIN received[p] : received'[p][k] = received[p][k]
  BY <1>2, <1>5, AppendFacts
<1>7. \A k \in DOMAIN down'[i] :
        k + 1 \in DOMAIN down[i] /\ down'[i][k] = down[i][k + 1] /\ k \in Nat \ {0}
  BY <1>2, <1>5, TailFacts
<1>8. /\ \A q \in Pages \ {p} : received'[q] = received[q]
      /\ \A j \in Ids \ {i} : down'[j] = down[j]
  BY <1>2, <1>4
<1> QED BY <1>1, <1>3, <1>4, <1>6, <1>7, <1>8 DEF i

(* A page is the owner of its connection, so what it takes is of its own. *)
LEMMA ReceiveOwn ==
  ASSUME TypeOK, OwnInv, NEW p \in Pages, Receive(p)
  PROVE  OwnInv'
<1> DEFINE i == socket[p]
           e == down[i][1]
<1>1. events[e].client = i /\ owner[i] = p /\ i # Foreign
  <2>1. i \in Ids /\ 1 \in DOMAIN down[i] /\ i # None
    BY Receives DEF Receive
  <2>2. events[e].client = i /\ owner[i] = p
    BY <2>1 DEF OwnInv, DownOwned, Connected
  <2> QED BY <2>1, <2>2 DEF Ids, Foreign
<1>2. events[e].job # 0 /\ asked[events[e].job].page = p
  BY <1>1, Receives DEF OwnInv, EventsOwned
<1>3. OnlyItsOwn'
  BY <1>2, Receives DEF OwnInv, OnlyItsOwn, Receive
<1>4. DownOwned'
  <2> SUFFICES ASSUME NEW j \in Ids, NEW k \in DOMAIN down'[j]
               PROVE  events[down'[j][k]].client = j
    BY DEF DownOwned, Receive
  <2>1. CASE j = i
    BY <2>1, Receives DEF OwnInv, DownOwned
  <2>2. CASE j # i
    BY <2>2, Receives DEF OwnInv, DownOwned
  <2> QED BY <2>1, <2>2
<1>5. Unused'
  BY Receives DEF OwnInv, Unused, Receive
<1>6. Connected' /\ UpOwned' /\ JobsOwned' /\ EventsOwned'
  BY DEF OwnInv, Connected, UpOwned, JobsOwned, EventsOwned, Receive
<1> QED BY <1>3, <1>4, <1>5, <1>6 DEF OwnInv

-----------------------------------------------------------------------------
(* There are no events at the start. *)
LEMMA InitOrder == Init => OrderInv
BY DEF Init, OrderInv, DownSorted, DownRelayed, DownUnseen, SeenRelayed, Seen, None

(* A new connection has nothing under way. *)
LEMMA ConnectOrder ==
  ASSUME TypeOK, OwnInv, OrderInv, NEW p \in Pages, Connect(p)
  PROVE  OrderInv'
<1>1. Len(owner) + 1 \in Ids /\ Len(owner) + 1 \notin DOMAIN owner
  <2>1. Len(owner) \in Nat /\ Len(owner) < MaxSockets /\ DOMAIN owner = 1..Len(owner)
    BY IdsInUse DEF Connect
  <2> QED BY <2>1, BoundsAssumption DEF Ids
<1>2. down[Len(owner) + 1] = <<>>
  BY <1>1 DEF OwnInv, Unused
<1>3. \A q \in Pages : Seen(q)' = Seen(q)
  BY DEF Seen, Connect
<1>4. DownUnseen'
  BY <1>2, <1>3 DEF OrderInv, DownUnseen, Connect, TypeOK
<1>5. DownSorted' /\ DownRelayed' /\ SeenRelayed'
  BY <1>3 DEF OrderInv, DownSorted, DownRelayed, SeenRelayed, Connect
<1> QED BY <1>4, <1>5 DEF OrderInv

(* What goes with a connection is out of nobody's order. *)
LEMMA DropOrder ==
  ASSUME TypeOK, OrderInv, NEW p \in Pages, Drop(p)
  PROVE  OrderInv'
<1>1. \A q \in Pages : Seen(q)' = Seen(q)
  BY DEF Seen, Drop
<1>2. down \in [Ids -> Seq(DOMAIN events)] /\ socket \in [Pages -> {None} \cup DOMAIN owner]
  BY DEF TypeOK
<1>3. \A i \in Ids : down'[i] = down[i] \/ down'[i] = <<>>
  BY <1>2 DEF Drop
<1>4. \A q \in Pages : socket'[q] # None => socket'[q] = socket[q] /\ socket[q] \in Ids
  BY <1>2, IdsInUse DEF Drop
<1>5. DownUnseen'
  BY <1>1, <1>3, <1>4 DEF OrderInv, DownUnseen
<1>6. DownSorted' /\ DownRelayed'
  BY <1>3 DEF OrderInv, DownSorted, DownRelayed, Drop
<1>7. SeenRelayed'
  BY <1>1 DEF OrderInv, SeenRelayed, Drop
<1> QED BY <1>5, <1>6, <1>7 DEF OrderInv

(* The steps that neither move an event nor connect anybody.                 *)
LEMMA QuietOrder ==
  ASSUME OrderInv, UNCHANGED <<socket, down, relayed, received>>
  PROVE  OrderInv'
BY DEF OrderInv, DownSorted, DownRelayed, DownUnseen, SeenRelayed, Seen

(* The callback appends an event newer than all that are under way or seen.  *)
LEMMA BuilderEventArrivesOrder ==
  ASSUME TypeOK, OwnInv, OrderInv, BuilderEventArrives
  PROVE  OrderInv'
<1>1. \A q \in Pages : Seen(q)' = Seen(q)
  BY DEF Seen, BuilderEventArrives
<1>2. relayed \in Nat /\ relayed' = relayed + 1
  BY DEF TypeOK, BuilderEventArrives
<1>3. SeenRelayed'
  BY <1>1, <1>2 DEF OrderInv, SeenRelayed
<1>4. \A i \in Ids : \A k \in DOMAIN down[i] : down[i][k] \in Nat
  BY Ranges DEF TypeOK
<1>5. CASE UNCHANGED down
  BY <1>1, <1>2, <1>3, <1>4, <1>5
     DEF OrderInv, DownSorted, DownRelayed, DownUnseen, BuilderEventArrives
<1>6. CASE down' # down
  <2> DEFINE i == events[relayed + 1].client
  <2>1. /\ i \in Ids
        /\ down' = [down EXCEPT ![i] = Append(@, relayed + 1)]
    BY <1>6, Emits
  <2>2. down[i] \in Seq(DOMAIN events) /\ down \in [Ids -> Seq(DOMAIN events)]
    BY <2>1 DEF TypeOK
  <2> HIDE DEF i
  <2>3. /\ DOMAIN down'[i] = DOMAIN down[i] \cup {Len(down[i]) + 1}
        /\ DOMAIN down[i] = 1..Len(down[i]) /\ Len(down[i]) \in Nat
        /\ down'[i][Len(down[i]) + 1] = relayed + 1
        /\ \A k \in DOMAIN down[i] : down'[i][k] = down[i][k]
    BY <2>1, <2>2, AppendFacts
  <2>4. \A j \in Ids \ {i} : down'[j] = down[j]
    BY <2>1, <2>2
  <2>5. DownRelayed'
    <3> SUFFICES ASSUME NEW j \in Ids, NEW k \in DOMAIN down'[j]
                 PROVE  down'[j][k] <= relayed + 1
      BY <1>2 DEF DownRelayed
    <3>1. CASE j # i
      BY <1>2, <1>4, <2>4, <3>1 DEF OrderInv, DownRelayed
    <3>2. CASE j = i
      BY <1>2, <1>4, <2>3, <3>2 DEF OrderInv, DownRelayed
    <3> QED BY <3>1, <3>2
  <2>6. DownSorted'
    <3> SUFFICES ASSUME NEW j \in Ids, NEW k \in DOMAIN down'[j], NEW l \in DOMAIN down'[j], k < l
                 PROVE  down'[j][k] < down'[j][l]
      BY DEF DownSorted
    <3>1. CASE j # i
      BY <2>4, <3>1 DEF OrderInv, DownSorted
    <3>2. CASE j = i
      <4>1. k \in DOMAIN down[i]
        BY <2>3, <3>2
      <4>2. CASE l \in DOMAIN down[i]
        BY <2>3, <3>2, <4>1, <4>2 DEF OrderInv, DownSorted
      <4>3. CASE l = Len(down[i]) + 1
        BY <1>2, <1>4, <2>1, <2>3, <3>2, <4>1, <4>3 DEF OrderInv, DownRelayed
      <4> QED BY <2>3, <3>2, <4>2, <4>3
    <3> QED BY <3>1, <3>2
  <2>7. DownUnseen'
    <3> SUFFICES ASSUME NEW p \in Pages, socket[p] # None, NEW k \in DOMAIN down'[socket[p]]
                 PROVE  down'[socket[p]][k] > Seen(p)
      BY <1>1 DEF DownUnseen, BuilderEventArrives
    <3>1. socket[p] \in Ids
      BY IdsInUse DEF TypeOK
    <3>2. CASE socket[p] # i
      BY <2>4, <3>1, <3>2 DEF OrderInv, DownUnseen
    <3>3. CASE socket[p] = i
      <4>1. Seen(p) <= relayed /\ Seen(p) \in Nat
        BY <1>2 DEF OrderInv, SeenRelayed
      <4>2. \A j \in DOMAIN down[i] : down[i][j] > Seen(p)
        BY <3>3 DEF OrderInv, DownUnseen
      <4>3. relayed + 1 > Seen(p)
        BY <1>2, <4>1
      <4> QED BY <2>3, <3>3, <4>2, <4>3
    <3> QED BY <3>2, <3>3
  <2> QED BY <1>3, <2>5, <2>6, <2>7 DEF OrderInv
<1> QED BY <1>5, <1>6

(* What a page takes is older than the rest on its connection. *)
LEMMA ReceiveOrder ==
  ASSUME TypeOK, OwnInv, OrderInv, NEW p \in Pages, Receive(p)
  PROVE  OrderInv'
<1> DEFINE i == socket[p]
           e == down[i][1]
<1>1. Seen(p)' = e /\ \A q \in Pages \ {p} : Seen(q)' = Seen(q)
  <2>1. received'[p] = Append(received[p], e) /\ received[p] \in Seq(DOMAIN events)
    BY Receives DEF TypeOK
  <2>2. Last(received'[p]) = e /\ received'[p] # <<>>
    BY <2>1 DEF Last
  <2> QED BY <2>2, Receives DEF Seen
<1>2. e \in 0..relayed
  BY Receives DEF OrderInv, DownRelayed, TypeOK
<1>3. SeenRelayed'
  BY <1>1, <1>2 DEF OrderInv, SeenRelayed, Receive
<1>4. DownSorted'
  <2> SUFFICES ASSUME NEW j \in Ids, NEW k \in DOMAIN down'[j], NEW l \in DOMAIN down'[j], k < l
               PROVE  down'[j][k] < down'[j][l]
    BY DEF DownSorted
  <2>1. CASE j # i
    BY <2>1, Receives DEF OrderInv, DownSorted
  <2>2. CASE j = i
    <3>1. /\ k + 1 \in DOMAIN down[i] /\ l + 1 \in DOMAIN down[i] /\ k + 1 < l + 1
          /\ down'[i][k] = down[i][k + 1] /\ down'[i][l] = down[i][l + 1] /\ i \in Ids
      BY <2>2, Receives
    <3> QED BY <2>2, <3>1 DEF OrderInv, DownSorted
  <2> QED BY <2>1, <2>2
<1>5. DownRelayed'
  <2> SUFFICES ASSUME NEW j \in Ids, NEW k \in DOMAIN down'[j]
               PROVE  down'[j][k] <= relayed
    BY DEF DownRelayed, Receive
  <2>1. CASE j # i
    BY <2>1, Receives DEF OrderInv, DownRelayed
  <2>2. CASE j = i
    BY <2>2, Receives DEF OrderInv, DownRelayed
  <2> QED BY <2>1, <2>2
<1>6. DownUnseen'
  <2> SUFFICES ASSUME NEW q \in Pages, socket[q] # None, NEW k \in DOMAIN down'[socket[q]]
               PROVE  down'[socket[q]][k] > Seen(q)'
    BY DEF DownUnseen, Receive
  <2>1. CASE q = p
    <3>1. k + 1 \in DOMAIN down[i] /\ 1 \in DOMAIN down[i] /\ 1 < k + 1 /\ i \in Ids
      BY <2>1, Receives
    <3>2. down[i][1] < down[i][k + 1]
      BY <3>1 DEF OrderInv, DownSorted
    <3> QED BY <1>1, <2>1, <3>2, Receives
  <2>2. CASE q # p
    <3>1. socket[q] # i /\ socket[q] \in Ids
      BY <2>2, IdsInUse DEF OwnInv, Connected, TypeOK, Receive
    <3> QED BY <1>1, <2>2, <3>1, Receives DEF OrderInv, DownUnseen
  <2> QED BY <2>1, <2>2
<1> QED BY <1>3, <1>4, <1>5, <1>6 DEF OrderInv

(* The order stays, whatever happens. *)
LEMMA NextOrder == TypeOK /\ OwnInv /\ OrderInv /\ [Next]_vars => OrderInv'
<1> SUFFICES ASSUME TypeOK, OwnInv, OrderInv, [Next]_vars PROVE OrderInv'
  OBVIOUS
<1>1. CASE UNCHANGED vars
  BY <1>1, QuietOrder DEF vars, net
<1>2. ASSUME NEW p \in Pages, NEW text \in Texts, Ask(p, text)
      PROVE  OrderInv'
  BY <1>2, QuietOrder DEF Ask
<1>3. ASSUME NEW i \in DOMAIN owner, NoticeDisconnect(i) \/ Message(i)
      PROVE  OrderInv'
  BY <1>3, QuietOrder DEF NoticeDisconnect, Message
<1>4. CASE BuilderEvent
  BY <1>4, QuietOrder DEF BuilderEvent, net
<1>5. CASE Next
  BY <1>2, <1>3, <1>4, <1>5, ConnectOrder, DropOrder, ReceiveOrder, BuilderEventArrivesOrder
     DEF Next, Browser, Server
<1> QED BY <1>1, <1>5

-----------------------------------------------------------------------------
(* The owners stay, whatever happens. *)
LEMMA NextOwn == TypeOK /\ OwnInv /\ [Next]_vars => OwnInv'
<1> SUFFICES ASSUME TypeOK, OwnInv, [Next]_vars PROVE OwnInv'
  OBVIOUS
<1>1. CASE UNCHANGED vars
  BY <1>1 DEF vars, net, OwnInv, Connected, Unused, UpOwned, JobsOwned, EventsOwned, DownOwned,
       OnlyItsOwn
<1>2. CASE Next
  BY <1>2, ConnectOwn, DropOwn, ReceiveOwn, AskOwn, NoticeDisconnectOwn, MessageOwn,
     BuilderEventArrivesOwn, BuilderEventOwn DEF Next, Browser, Server
<1> QED BY <1>1, <1>2

(* IInv holds in every state of the web application. *)
LEMMA Invariant == Spec => []IInv
<1>1. Init => IInv
  BY InitTyped, InitOwn, InitOrder DEF IInv
<1>2. IInv /\ [Next]_vars => IInv'
  BY NextTyped, NextOwn, NextOrder DEF IInv, OwnInv
<1> QED BY <1>1, <1>2, PTL DEF Spec

(* app.js:66-115: ids, clients, questions, jobs and events are well          *)
(* formed, and no id is twice in the list of clients, so that the first      *)
(* match of the callback (app.js:106) is the only one.                       *)
THEOREM TypeCorrect == Spec => []TypeOK
<1>1. IInv => TypeOK
  BY DEF IInv
<1> QED BY <1>1, Invariant, PTL

(* app.js:68-81, 97-115: an event that a page receives is of a build that    *)
(* this page asked for, on whatever connection, however many pages there     *)
(* are.                                                                      *)
THEOREM PagesSeeTheirOwn == Spec => []OnlyItsOwn
<1>1. IInv => OnlyItsOwn
  BY DEF IInv, OwnInv
<1> QED BY <1>1, Invariant, PTL

(* Each step puts an event into the channel to one page, passes one on, or   *)
(* is none of the channel's.                                                 *)
LEMMA ChannelStep ==
  ASSUME IInv, [Next]_vars
  PROVE  [Channel!Accept \/ Channel!Pass]_(Channel!channel)
<1>1. CASE UNCHANGED <<events, received>>
  BY <1>1 DEF Channel!channel, Seen
<1>2. CASE BuilderEvent
  <2>1. PICK e : events' = Append(events, e)
    BY <1>2 DEF BuilderEvent
  <2>2. /\ DOMAIN events = 1..Len(events) /\ DOMAIN events' = 1..(Len(events) + 1)
        /\ Len(events) \in Nat
    BY <2>1 DEF IInv, TypeOK
  <2>3. Channel!Accept
    BY <1>2, <2>2 DEF Channel!Accept, Seen, BuilderEvent
  <2> QED BY <2>3
<1>3. ASSUME NEW p \in Pages, p # ThisPage, Receive(p)
      PROVE  UNCHANGED Channel!channel
  BY <1>3, PageAssumption DEF Receive, Channel!channel, Seen, IInv, TypeOK
<1>4. CASE Receive(ThisPage)
  <2> DEFINE i == socket[ThisPage]
             to == down[i][1]
  <2>1. /\ Seen(ThisPage) + 1 <= to /\ to <= Len(events)
        /\ to \in Nat /\ Seen(ThisPage) \in Nat
    <3>1. /\ to \in DOMAIN events /\ 1 \in DOMAIN down[i] /\ i # None
          /\ DOMAIN events = 1..Len(events) /\ Len(events) \in Nat
      <4>1. to \in DOMAIN events /\ 1 \in DOMAIN down[i]
        BY <1>4, PageAssumption, Receives DEF IInv
      <4>2. i # None
        BY <1>4 DEF Receive
      <4>3. DOMAIN events = 1..Len(events) /\ Len(events) \in Nat
        BY DEF IInv, TypeOK
      <4> QED BY <4>1, <4>2, <4>3
    <3>2. to > Seen(ThisPage)
      BY <3>1, PageAssumption DEF IInv, OrderInv, DownUnseen
    <3>3. Seen(ThisPage) \in Nat
      BY PageAssumption DEF IInv, OrderInv, SeenRelayed, TypeOK
    <3> QED BY <3>1, <3>2, <3>3
  <2>2. /\ received'[ThisPage] = Append(received[ThisPage], to)
        /\ received[ThisPage] \in Seq(Nat)
    BY <1>4, PageAssumption, Receives, SeqGrows DEF IInv, TypeOK
  <2>3. Seen(ThisPage)' = to
    BY <2>2 DEF Seen, Last
  <2> HIDE DEF to
  <2>4. Channel!Pass
    <3> DEFINE sent == [k \in DOMAIN events |-> k]
               kept == [j \in 1..1 |-> to]
    <3>1. Len(sent) = Len(events) /\ sent[to] = to
      BY <2>1 DEF IInv, TypeOK
    <3>2. Len(received'[ThisPage]) - Len(received[ThisPage]) = 1
      BY <2>2
    <3>3. received'[ThisPage] = received[ThisPage] \o [j \in DOMAIN kept |-> sent[kept[j]]]
      <4>1. [j \in DOMAIN kept |-> sent[kept[j]]] = <<to>>
        BY <3>1
      <4>2. Append(received[ThisPage], to) = received[ThisPage] \o <<to>>
        BY <2>1, <2>2
      <4> QED BY <2>2, <4>1, <4>2
    <3>4. kept \in [1..1 -> (Seen(ThisPage) + 1)..to]
      BY <2>1
    <3>5. UNCHANGED sent
      BY <1>4 DEF Receive
    <3>6. to \in (Seen(ThisPage) + 1)..Len(sent)
      BY <2>1, <3>1
    <3> HIDE DEF sent, kept
    <3>7. \A j, k \in DOMAIN kept : j < k => kept[j] < kept[k]
      BY DEF kept
    <3> QED BY <2>3, <3>2, <3>3, <3>4, <3>5, <3>6, <3>7 DEF Channel!Pass, sent
  <2> QED BY <2>4
<1>5. CASE UNCHANGED vars
  BY <1>1, <1>5 DEF vars
<1>6. CASE Next
  BY <1>1, <1>2, <1>3, <1>4, <1>6
     DEF Next, Browser, Server, Connect, Drop, Ask, NoticeDisconnect, Message, BuilderEventArrives
<1> QED BY <1>5, <1>6

(* EventsInOrder, app.js:81-115: between the builders and any one page the   *)
(* web application is an event channel. It may lose events; it never         *)
(* repeats one or swaps two, over as many connections of the page as there   *)
(* are.                                                                      *)
THEOREM ImplementsChannel == Spec => EventsInOrder
<1>1. Init => Channel!ChannelInit
  BY PageAssumption DEF Init, Channel!ChannelInit, Seen
<1>2. IInv /\ [Next]_vars => [Channel!Accept \/ Channel!Pass]_(Channel!channel)
  BY ChannelStep
<1> QED BY <1>1, <1>2, Invariant, PTL DEF Spec, EventsInOrder, Channel!ChannelSpec
=============================================================================
