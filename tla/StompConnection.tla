---------------------------- MODULE StompConnection ----------------------------
(***************************************************************************)
(* node/stomp.js: the STOMP client of the web application.                 *)
(*                                                                         *)
(* Commands wait in a queue that a timer empties every 100 ms while the    *)
(* socket is open.  Frames from the broker arrive as a byte stream; each   *)
(* data event brings any piece of it and is taken apart by itself: nothing *)
(* is kept from one data event to the next, although the constructor makes *)
(* a buffer for it.                                                        *)
(*                                                                         *)
(* A frame of the broker is a sequence of parts, so that a TCP segment may *)
(* end inside its header, before or inside its body, and before or between *)
(* the two bytes that end it.                                              *)
(***************************************************************************)
EXTENDS Integers, Sequences, FiniteSets, SequencesExt

CONSTANTS
  Destinations,  \* topics
  MaxFrames,     \* bound: frames the broker sends
  MaxCommands    \* bound: commands issued by the application

ASSUME BoundsAssumption == MaxFrames \in Nat /\ MaxCommands \in Nat

VARIABLES
  readyState,     \* of the socket
  running,        \* the node process; an uncaught exception ends it
  armed,          \* the timer of processCommands
  commands,       \* the command queue
  subscriptions,  \* the destinations with a callback
  full,           \* conn.write returns false until the next drain
  listening,      \* callbacks added as drain listeners, by command
  called,         \* how often the callback of a command was called, up to 2
  wire,           \* what was written to the socket
  frames,         \* MESSAGE frames the broker sent: their destinations
  stream,         \* the bytes of them that no data event has brought yet
  delivered,      \* what the callbacks got: frame and body
  pushed          \* history: every command ever queued

out == <<armed, commands, full, listening, called, wire>>
inb == <<frames, stream, delivered>>
vars == <<readyState, running, subscriptions, out, inb, pushed>>

Kinds == {"SEND", "SUBSCRIBE", "UNSUBSCRIBE", "BEGIN", "COMMIT", "ABORT", "DISCONNECT"}
Command(kind, d, cb, n) == [command |-> kind, destination |-> d, callback |-> cb, id |-> n]
Connect == [command |-> "CONNECT"]
Ack(i) == [command |-> "ACK", frame |-> i]

Init ==
  /\ readyState = "opening" /\ running = TRUE /\ armed = TRUE
  /\ commands = <<>> /\ subscriptions = {} /\ pushed = <<>>
  /\ full = FALSE /\ listening = {} /\ called = <<>> /\ wire = <<>>
  /\ frames = <<>> /\ stream = <<>> /\ delivered = <<>>

-----------------------------------------------------------------------------
(* The application's calls.  Each but ack only queues a command. *)
Push(kind, d, cb) ==
  /\ running /\ Len(pushed) < MaxCommands
  /\ LET c == Command(kind, d, cb, Len(pushed) + 1) IN
       /\ commands' = Append(commands, c)
       /\ pushed' = Append(pushed, c)
  /\ called' = Append(called, 0)
  /\ UNCHANGED <<readyState, running, armed, full, listening, wire, inb>>

Publish(d, cb) == Push("SEND", d, cb) /\ UNCHANGED subscriptions

Subscribe(d) ==
  Push("SUBSCRIBE", d, FALSE) /\ subscriptions' = subscriptions \cup {d}

(* Mutant of Unsubscribe: the callback stays until the broker knows. *)
UnsubscribeLater(d) == Push("UNSUBSCRIBE", d, FALSE) /\ UNCHANGED subscriptions

Unsubscribe(d) ==
  Push("UNSUBSCRIBE", d, FALSE) /\ subscriptions' = subscriptions \ {d}

(* begin, commit and abort of a transaction, and disconnect. *)
Control(kind, d) ==
  /\ kind \in {"BEGIN", "COMMIT", "ABORT", "DISCONNECT"}
  /\ Push(kind, d, FALSE) /\ UNCHANGED subscriptions

(* transmit without a callback, past the queue. *)
AckMessage(i) ==
  /\ running /\ readyState = "open"
  /\ \E j \in DOMAIN delivered : delivered[j].frame = i
  /\ Ack(i) \notin ToSet(wire)
  /\ wire' = Append(wire, Ack(i))
  /\ full' \in {full, TRUE}
  /\ UNCHANGED <<readyState, running, armed, commands, subscriptions, listening,
                 called, inb, pushed>>

Client ==
  \/ \E d \in Destinations : \/ \E cb \in BOOLEAN : Publish(d, cb)
                             \/ Subscribe(d) \/ Unsubscribe(d)
                             \/ \E kind \in Kinds : Control(kind, d)
  \/ \E i \in DOMAIN frames : AckMessage(i)

-----------------------------------------------------------------------------
Twice(n) == IF n < 2 THEN n + 1 ELSE 2

(* transmit of each: a write that the socket took calls back at once, one   *)
(* that it refused adds a drain listener, and from the first refusal on all *)
(* are refused.                                                             *)
Transmit(cs, taken) ==
  LET Written(id) == \E j \in 1..taken : cs[j].id = id /\ cs[j].callback
      Waits(id) == \E j \in (taken + 1)..Len(cs) : cs[j].id = id /\ cs[j].callback
  IN  /\ wire' = wire \o cs
      /\ full' = (full \/ taken < Len(cs))
      /\ called' = [id \in DOMAIN called |->
                      IF Written(id) THEN Twice(called[id]) ELSE called[id]]
      /\ listening' = listening \cup {id \in DOMAIN called : Waits(id)}

(* Mutant of ProcessCommands: one that does not wait for the connection. *)
ProcessCommandsEarly ==
  /\ running /\ armed
  /\ \E taken \in (IF full THEN {0} ELSE 0..Len(commands)) : Transmit(commands, taken)
  /\ commands' = <<>>
  /\ UNCHANGED <<readyState, running, armed, subscriptions, inb, pushed>>

(* Every 100 ms until the socket is seen closed, which ends the timer. *)
ProcessCommands ==
  /\ running /\ armed
  /\ \/ /\ readyState = "open" /\ commands # <<>>
        /\ \E taken \in (IF full THEN {0} ELSE 0..Len(commands)) : Transmit(commands, taken)
        /\ commands' = <<>>
        /\ UNCHANGED armed
     \/ /\ readyState = "closed"
        /\ armed' = FALSE
        /\ UNCHANGED <<commands, full, listening, called, wire>>
  /\ UNCHANGED <<readyState, running, subscriptions, inb, pushed>>

(* Mutant of Drain: one listener for all, which calls whom it has a callback  *)
(* of, be the command written or still in the queue.                         *)
DrainCallsAll ==
  /\ running /\ readyState = "open" /\ full
  /\ full' = FALSE
  /\ called' = [id \in DOMAIN called |->
                  IF pushed[id].callback THEN Twice(called[id]) ELSE called[id]]
  /\ UNCHANGED <<readyState, running, armed, commands, listening, subscriptions,
                 wire, inb, pushed>>

(* Mutant of Drain: every drain forgets the listeners that were not called. *)
DrainOne ==
  /\ running /\ readyState = "open" /\ full
  /\ full' = FALSE
  /\ \E id \in listening : called' = [called EXCEPT ![id] = Twice(@)]
  /\ listening' = {}
  /\ UNCHANGED <<readyState, running, armed, commands, subscriptions, wire, inb, pushed>>

(* The listeners are added with "on" and stay: each is called at each drain. *)
Drain ==
  /\ running /\ readyState = "open" /\ full
  /\ full' = FALSE
  /\ called' = [id \in DOMAIN called |->
                  IF id \in listening THEN Twice(called[id]) ELSE called[id]]
  /\ UNCHANGED <<readyState, running, armed, commands, listening, subscriptions,
                 wire, inb, pushed>>

-----------------------------------------------------------------------------
(* The socket.  CONNECT is written from the connect listener; nothing waits *)
(* for the broker's CONNECTED.                                              *)
Open ==
  /\ running /\ readyState = "opening"
  /\ readyState' = "open"
  /\ wire' = Append(wire, Connect)
  /\ UNCHANGED <<running, armed, commands, full, listening, called, subscriptions,
                 inb, pushed>>

(* The broker ends the connection, or it fails.  A failure has no listener  *)
(* for "error" and ends the process; the listeners of "end" and "close"     *)
(* call a method close that the socket of a later node has not, which ends  *)
(* it as well.  Where it has, the process goes on without a connection.     *)
Close ==
  /\ running /\ readyState \in {"opening", "open"}
  /\ readyState' = "closed"
  /\ running' \in BOOLEAN
  /\ UNCHANGED <<subscriptions, out, inb, pushed>>

-----------------------------------------------------------------------------
(* The broker's side: what it was told last about a destination. *)
About(d, c) == c.command \in {"SUBSCRIBE", "UNSUBSCRIBE"} /\ c.destination = d
Told(d, cs) ==
  \E i \in DOMAIN cs : /\ About(d, cs[i]) /\ cs[i].command = "SUBSCRIBE"
                       /\ \A j \in DOMAIN cs : j > i => ~About(d, cs[j])

Parts == <<"start", "head", "body1", "body2", "nul", "nl">>
FrameParts(i) == [p \in DOMAIN Parts |-> [frame |-> i, part |-> Parts[p]]]

BrokerSends(d) ==
  /\ readyState = "open" /\ Len(frames) < MaxFrames
  /\ Told(d, wire)
  /\ frames' = Append(frames, d)
  /\ stream' = stream \o FrameParts(Len(frames) + 1)
  /\ UNCHANGED <<readyState, running, subscriptions, out, delivered, pushed>>

(* data.split("\0\n"): the pieces between the separators, as intervals. *)
Separators(data) ==
  {i \in 1..(Len(data) - 1) : data[i].part = "nul" /\ data[i + 1].part = "nl"}
Starts(data) == {1} \cup {i + 2 : i \in Separators(data)}
EndOf(data, s) ==
  LET ends == {i \in Separators(data) : i >= s}
  IN  IF ends = {} THEN Len(data) ELSE (CHOOSE i \in ends : \A j \in ends : i <= j) - 1

(* Mutant of Handled: an if in the place of the while. *)
HandledFirst(data) == {s \in {1} : EndOf(data, s) >= s}

(* while(frame = frames.shift()): an empty piece ends the loop. *)
Handled(data) ==
  {s \in Starts(data) : \A t \in Starts(data) : t <= s => EndOf(data, t) >= t}

(* Mutant of Parse: a header that was cut is taken for a whole one. *)
ParseLoose(piece) == piece[1].part \in {"start", "head"}

(* The regular expression wants a command at the beginning and an empty line *)
(* after the headers; the separator was put back.  The rest is the body.     *)
Parse(piece) == Len(piece) >= 2 /\ piece[1].part = "start"

BodyOf(piece) == [p \in 1..(Len(piece) - 2) |-> piece[p + 2].part]

(* processMessage: a MESSAGE goes to the callback of its destination, if any. *)
ProcessMessage(piece) == Parse(piece) /\ frames[piece[1].frame] \in subscriptions

(* The pieces in turn: those with a callback are its calls. *)
Piece(data, s) == SubSeq(data, s, EndOf(data, s))
Calls(data) == {s \in Handled(data) : ProcessMessage(Piece(data, s))}
ProcessData(data) ==
  \E turn \in [1..Cardinality(Calls(data)) -> Calls(data)] :
    /\ ToSet(turn) = Calls(data)
    /\ \A j, k \in DOMAIN turn : j < k => turn[j] < turn[k]
    /\ delivered' = delivered \o [k \in DOMAIN turn |-> [frame |-> data[turn[k]].frame,
                                              body |-> BodyOf(Piece(data, turn[k]))]]

(* Mutant of Data: an unfinished piece stays in a buffer for the next data    *)
(* event although it was handed over.                                        *)
DataBuffered(n) ==
  /\ running /\ readyState = "open" /\ n \in 1..Len(stream)
  /\ LET data == SubSeq(stream, 1, n)
         done == {0} \cup {i + 1 : i \in Separators(data)}
         rest == CHOOSE i \in done : \A j \in done : j <= i
     IN  /\ ProcessData(data)
         /\ stream' = SubSeq(stream, rest + 1, Len(stream))
  /\ delivered' # delivered
  /\ UNCHANGED <<readyState, running, subscriptions, out, frames, pushed>>

(* A data event brings the first n bytes that are there. *)
Data(n) ==
  /\ running /\ readyState = "open" /\ n \in 1..Len(stream)
  /\ ProcessData(SubSeq(stream, 1, n))
  /\ stream' = SubSeq(stream, n + 1, Len(stream))
  /\ UNCHANGED <<readyState, running, subscriptions, out, frames, pushed>>

Network == Open \/ Close \/ Drain \/ (\E d \in Destinations : BrokerSends(d))
             \/ (\E n \in DOMAIN stream : Data(n))

(* Every 100 ms: a buffer that nothing is put into is emptied. *)
ProcessMessages == running /\ UNCHANGED vars

Exited == ~running /\ UNCHANGED vars

Events == ProcessCommands \/ ProcessMessages \/ Network \/ Exited

Next == Client \/ Events

Spec == Init /\ [][Next]_vars

(* Timers fire, and a socket that took all it can is drained in the end. *)
Fairness == WF_vars(ProcessCommands) /\ WF_vars(Drain) /\ WF_vars(Open)

-----------------------------------------------------------------------------
(* The variables have their shapes. *)
Typed ==
  /\ readyState \in {"opening", "open", "closed"}
  /\ running \in BOOLEAN /\ armed \in BOOLEAN /\ full \in BOOLEAN
  /\ subscriptions \subseteq Destinations
  /\ \A c \in ToSet(commands) \cup ToSet(pushed) :
       c \in [command : Kinds, destination : Destinations, callback : BOOLEAN,
              id : 1..MaxCommands]
  /\ called \in Seq(0..2) /\ Len(called) = Len(pushed)
  /\ listening \subseteq DOMAIN called
  /\ frames \in Seq(Destinations)
  /\ \A i \in DOMAIN delivered : delivered[i].frame \in DOMAIN frames

(* A callback is called, or waits for a drain, only when its command has     *)
(* left the queue, and a second call is that of a drain listener.            *)
CalledWhenWritten ==
  \A id \in DOMAIN called :
    /\ called[id] > 0 \/ id \in listening =>
         id <= Len(pushed) - Len(commands) /\ pushed[id].callback
    /\ called[id] = 2 => id \in listening

(* The state is well formed, and the callbacks called or waiting are those   *)
(* of commands that were handed to the socket.  (stomp.js:56-66 and 78-84.)  *)
TypeOK == Typed /\ CalledWhenWritten

(* What the application asked for reaches the socket in the order of the     *)
(* calls, nothing twice and nothing left out, and only after CONNECT; an ack *)
(* may overtake.  (stomp.js:78, the queue and its timer.)                    *)
Queued == {i \in DOMAIN wire : wire[i].command \notin {"CONNECT", "ACK"}}
CommandsInOrder ==
  LET gone == Len(pushed) - Len(commands) IN
    /\ \A k \in DOMAIN commands : gone + k \in DOMAIN pushed /\ commands[k] = pushed[gone + k]
    /\ \A i \in Queued : wire[i].id \in 1..gone /\ wire[i] = pushed[wire[i].id]
    /\ \A i, j \in Queued : i < j => wire[i].id < wire[j].id
    /\ \A n \in 1..gone : \E i \in Queued : wire[i].id = n
    /\ \A i \in DOMAIN wire : wire[i] = Connect <=> i = 1

(* The table of callbacks and what the broker knows or is about to be told   *)
(* agree on every destination.  (stomp.js:148-152, 161-164.)                 *)
SubscriptionsAgree ==
  \A d \in Destinations : d \in subscriptions <=> Told(d, wire \o commands)

Body == <<"body1", "body2">>
BodyAndNul == Append(Body, "nul")

(* However the stream is cut, a callback gets what begins a body of one      *)
(* frame (possibly with a NUL too many), and no frame twice or out of order: *)
(* the end of one frame is never taken for the body of another.              *)
NeverMixed ==
  /\ \A i \in DOMAIN delivered : IsPrefix(delivered[i].body, BodyAndNul)
  /\ \A i, j \in DOMAIN delivered : i < j => delivered[i].frame < delivered[j].frame

(* A data event that begins with a frame brings all its whole frames to the  *)
(* callbacks, wherever it ends: the damage of a cut does not outlast the     *)
(* next data event that begins with a frame.                                 *)
Resynchronizes ==
  [][ \A i \in DOMAIN frames :
        LET mine == {p \in DOMAIN stream : stream[p].frame = i}
            gone == Len(stream) - Len(stream')
        IN  /\ gone > 0 /\ stream[1].part = "start"
            /\ Cardinality(mine) = Len(Parts) /\ \A p \in mine : p <= gone
            /\ frames[i] \in subscriptions
            => \E k \in DOMAIN delivered' : delivered'[k] = [frame |-> i, body |-> Body]
    ]_vars

(* A callback is called in the end, unless the connection ends. *)
CallbacksGetCalled ==
  \A n \in 1..MaxCommands :
    (Len(pushed) >= n /\ pushed[n].callback)
      ~> (readyState = "closed" \/ (n \in DOMAIN called /\ called[n] >= 1))

(* The callbacks see an event channel, of whole frames and of cut ones. *)
FirstOpen ==
  LET open == {stream[p].frame : p \in {q \in DOMAIN stream : stream[q].part = "start"}}
  IN  IF open = {} THEN Len(frames) + 1 ELSE CHOOSE i \in open : \A j \in open : i <= j
Inbound == INSTANCE EventChannel WITH
  lossy <- TRUE,
  sent <- [i \in DOMAIN frames |-> i],
  next <- FirstOpen,
  got <- [i \in DOMAIN delivered |-> delivered[i].frame]

(* Frames reach the callbacks in the order they were sent, and each once.    *)
FramesInOrder == Inbound!ChannelSpec
=============================================================================
