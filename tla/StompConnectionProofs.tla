------------------------ MODULE StompConnectionProofs ------------------------
(***************************************************************************)
(* StompConnection for any set of topics and any bounds: the inductive     *)
(* invariant IInv of the two halves of stomp.js. Out of the queue go the   *)
(* commands in their order, CONNECT before them; into the callbacks come   *)
(* frames cut out of a byte stream, for which StreamInv says where in the  *)
(* broker's frames the stream stands.                                      *)
(***************************************************************************)
EXTENDS StompConnection, SequenceTheorems, FiniteSetTheorems, NaturalsInduction, TLAPS

(* What the queue and the socket hold. *)
Queueable == [command : Kinds, destination : Destinations, callback : BOOLEAN,
              id : 1..MaxCommands]

(* What may be written to the socket. *)
Writable == Queueable \cup {Connect} \cup {Ack(i) : i \in 1..MaxFrames}

(* The parts of a frame. *)
PartNames == {"start", "head", "body1", "body2", "nul", "nl"}

(* A byte of the stream. *)
Byte == [frame : Nat, part : PartNames]

(* What a callback gets. *)
Delivery == [frame : Nat, body : Seq(PartNames)]

(* The sequences, in full; the number of frames is bounded. *)
Shapes ==
  /\ commands \in Seq(Queueable) /\ pushed \in Seq(Queueable)
  /\ wire \in Seq(Writable)
  /\ delivered \in Seq(Delivery)
  /\ stream \in Seq(Byte) /\ Len(frames) <= MaxFrames

(* The queue numbers its commands, and CONNECT is the first thing written.   *)
QueueInv ==
  /\ \A n \in DOMAIN pushed : pushed[n].id = n
  /\ Len(commands) <= Len(pushed)
  /\ readyState = "opening" => wire = <<>>
  /\ readyState = "open" => wire # <<>>

(* The bytes of the broker have been brought up to cut: what stream holds is *)
(* the rest of its frames, and a callback got nothing that begins behind it. *)
Cut == 6 * Len(frames) - Len(stream)

(* Each byte of the stream is in its place. *)
StreamInv ==
  /\ Cut >= 0
  /\ \A p \in DOMAIN stream : \E i \in DOMAIN frames, k \in 1..6 :
       Cut + p = 6 * (i - 1) + k /\ stream[p] = [frame |-> i, part |-> Parts[k]]
  /\ \A j \in DOMAIN delivered : 6 * (delivered[j].frame - 1) < Cut

(* The inductive invariant. *)
IInv ==
  /\ Typed /\ Shapes
  /\ QueueInv /\ CommandsInOrder
  /\ SubscriptionsAgree
  /\ StreamInv /\ NeverMixed

-----------------------------------------------------------------------------
(* What is queued is neither CONNECT nor an ack. *)
LEMMA Items ==
  /\ \A c \in Queueable : /\ c.command \in Kinds /\ c.command \notin {"CONNECT", "ACK"}
                          /\ c.id \in 1..MaxCommands /\ c # Connect
  /\ Connect.command = "CONNECT"
  /\ \A i : Ack(i).command = "ACK" /\ Ack(i) # Connect
<1>1. ASSUME NEW c \in Queueable
      PROVE  c.command \in Kinds /\ c.id \in 1..MaxCommands
  BY DEF Queueable
<1>2. "CONNECT" \notin Kinds /\ "ACK" \notin Kinds
  BY DEF Kinds
<1>3. Connect.command = "CONNECT" /\ \A i : Ack(i).command = "ACK"
  BY DEF Connect, Ack
<1> QED BY <1>1, <1>2, <1>3

(* A function on an interval from 1 is a sequence. *)
LEMMA FunctionIsSeq ==
  ASSUME NEW S, NEW n \in Nat, NEW f \in [1..n -> S]
  PROVE  f \in Seq(S) /\ Len(f) = n
OBVIOUS

(* A call of the application appends one command, numbered by its place, to  *)
(* the queue and to the history of it.                                       *)
LEMMA PushTyped ==
  ASSUME Typed, Shapes, NEW kind \in Kinds, NEW d \in Destinations, NEW cb \in BOOLEAN,
         Push(kind, d, cb), subscriptions' \subseteq Destinations
  PROVE  Typed' /\ Shapes'
<1> DEFINE c == Command(kind, d, cb, Len(pushed) + 1)
<1>1. /\ commands \in Seq(Queueable) /\ pushed \in Seq(Queueable) /\ Len(pushed) < MaxCommands
      /\ commands' = Append(commands, c) /\ pushed' = Append(pushed, c)
  BY DEF Push, Shapes
<1>2. Len(pushed) \in Nat /\ MaxCommands \in Nat
  BY <1>1, BoundsAssumption
<1>3. c \in Queueable
  BY <1>1, <1>2 DEF Command, Queueable
<1> HIDE DEF c
<1>4. commands' \in Seq(Queueable) /\ pushed' \in Seq(Queueable) /\ Len(pushed') = Len(pushed) + 1
  BY <1>1, <1>3
<1>5. called' \in Seq(0..2) /\ Len(called') = Len(pushed') /\ DOMAIN called \subseteq DOMAIN called'
  BY <1>4 DEF Typed, Push
<1>6. \A e \in ToSet(commands') \cup ToSet(pushed') : e \in Queueable
  BY <1>4 DEF ToSet
<1>7. UNCHANGED <<readyState, running, armed, full, listening, wire, frames, stream, delivered>>
  BY DEF Push, inb
<1> QED BY <1>4, <1>5, <1>6, <1>7 DEF Typed, Shapes, Queueable

(* A burst: every callback of it is called or waits. *)
LEMMA TransmitTyped ==
  ASSUME Typed, Shapes, NEW taken \in 0..Len(commands), Transmit(commands, taken)
  PROVE  /\ full' \in BOOLEAN /\ wire' = wire \o commands /\ wire' \in Seq(Writable)
         /\ called' \in Seq(0..2) /\ Len(called') = Len(called)
         /\ listening' \subseteq DOMAIN called'
<1>1. commands \in Seq(Queueable) /\ wire \in Seq(Writable) /\ Queueable \subseteq Writable
  BY DEF Shapes, Writable
<1>2. commands \in Seq(Writable)
  BY <1>1, SeqMonotonic
<1>3. wire' = wire \o commands /\ wire' \in Seq(Writable)
  BY <1>1, <1>2 DEF Transmit
<1>4. /\ called \in Seq(0..2) /\ DOMAIN called = 1..Len(called) /\ Len(called) \in Nat
      /\ \A n \in 0..2 : Twice(n) \in 0..2
  BY DEF Typed, Twice
<1>5. called' \in [1..Len(called) -> 0..2]
  BY <1>4 DEF Transmit
<1>6. called' \in Seq(0..2) /\ Len(called') = Len(called) /\ DOMAIN called' = DOMAIN called
  BY <1>4, <1>5, FunctionIsSeq
<1> QED BY <1>3, <1>6 DEF Transmit, Typed

(* The timer empties the queue onto the socket. *)
LEMMA ProcessCommandsTyped ==
  ASSUME Typed, Shapes, ProcessCommands
  PROVE  Typed' /\ Shapes'
<1>1. UNCHANGED <<readyState, running, subscriptions, frames, stream, delivered, pushed>>
  BY DEF ProcessCommands, inb
<1>2. CASE /\ readyState = "open" /\ commands # <<>>
           /\ \E taken \in (IF full THEN {0} ELSE 0..Len(commands)) : Transmit(commands, taken)
           /\ commands' = <<>>
           /\ UNCHANGED armed
  <2>1. PICK taken \in 0..Len(commands) : Transmit(commands, taken)
    BY <1>2 DEF Shapes
  <2>2. ToSet(commands') = {} /\ commands' \in Seq(Queueable)
    BY <1>2 DEF ToSet
  <2> QED BY <1>1, <1>2, <2>1, <2>2, TransmitTyped DEF Typed, Shapes
<1>3. CASE /\ readyState = "closed" /\ armed' = FALSE
           /\ UNCHANGED <<commands, full, listening, called, wire>>
  BY <1>1, <1>3 DEF Typed, Shapes
<1> QED BY <1>2, <1>3 DEF ProcessCommands

(* A drain calls the listeners. *)
LEMMA DrainTyped ==
  ASSUME Typed, Shapes, Drain
  PROVE  Typed' /\ Shapes'
<1>1. /\ called \in Seq(0..2) /\ DOMAIN called = 1..Len(called) /\ Len(called) \in Nat
      /\ \A n \in 0..2 : Twice(n) \in 0..2
  BY DEF Typed, Twice
<1>2. called' \in [1..Len(called) -> 0..2]
  BY <1>1 DEF Drain
<1>3. called' \in Seq(0..2) /\ Len(called') = Len(called) /\ DOMAIN called' = DOMAIN called
  BY <1>1, <1>2, FunctionIsSeq
<1> QED BY <1>3 DEF Drain, inb, Typed, Shapes

(* An ack goes past the queue. *)
LEMMA AckTyped ==
  ASSUME Typed, Shapes, NEW i \in DOMAIN frames, AckMessage(i)
  PROVE  Typed' /\ Shapes'
<1>1. i \in 1..MaxFrames
  BY BoundsAssumption DEF Typed, Shapes
<1>2. wire' \in Seq(Writable)
  BY <1>1 DEF AckMessage, Shapes, Writable
<1> QED BY <1>2 DEF AckMessage, inb, Typed, Shapes

(* CONNECT is written when the socket opens. *)
LEMMA OpenTyped ==
  ASSUME Typed, Shapes, Open
  PROVE  Typed' /\ Shapes'
<1>1. wire' \in Seq(Writable)
  BY DEF Open, Shapes, Writable
<1> QED BY <1>1 DEF Open, inb, Typed, Shapes

(* The connection ends. *)
LEMMA CloseTyped ==
  ASSUME Typed, Shapes, Close
  PROVE  Typed' /\ Shapes'
BY DEF Close, out, inb, Typed, Shapes

(* The broker's next frame is put on the stream, part by part. *)
LEMMA BrokerSendsTyped ==
  ASSUME Typed, Shapes, NEW d \in Destinations, BrokerSends(d)
  PROVE  /\ Typed' /\ Shapes'
         /\ Len(frames') = Len(frames) + 1
         /\ stream' = stream \o FrameParts(Len(frames) + 1)
         /\ FrameParts(Len(frames) + 1) \in Seq(Byte) /\ Len(FrameParts(Len(frames) + 1)) = 6
<1>1. frames \in Seq(Destinations) /\ Len(frames) < MaxFrames /\ Len(frames) \in Nat
  BY DEF BrokerSends, Typed
<1>2. /\ Parts \in [1..6 -> PartNames] /\ DOMAIN Parts = 1..6
  BY DEF Parts, PartNames
<1>3. FrameParts(Len(frames) + 1) \in [1..6 -> Byte]
  BY <1>1, <1>2 DEF FrameParts, Byte
<1>4. FrameParts(Len(frames) + 1) \in Seq(Byte) /\ Len(FrameParts(Len(frames) + 1)) = 6
  <2>1. \A f \in [1..6 -> Byte] : f \in Seq(Byte) /\ Len(f) = 6
    BY FunctionIsSeq
  <2> QED BY <1>3, <2>1
<1>5. stream' = stream \o FrameParts(Len(frames) + 1) /\ stream \in Seq(Byte)
  BY DEF BrokerSends, Shapes
<1>6. stream' \in Seq(Byte)
  BY <1>4, <1>5
<1>7. /\ frames' \in Seq(Destinations) /\ Len(frames') = Len(frames) + 1
      /\ Len(frames') <= MaxFrames /\ DOMAIN frames \subseteq DOMAIN frames'
  BY <1>1, BoundsAssumption DEF BrokerSends
<1> QED BY <1>4, <1>5, <1>6, <1>7 DEF BrokerSends, out, Typed, Shapes

-----------------------------------------------------------------------------
(* A set of numbers has a least one. *)
LEMMA Least ==
  ASSUME NEW T, T \subseteq Nat, T # {}
  PROVE  \E m \in T : \A j \in T : m <= j
<1>1. PICK m \in T : \A j \in T : ~(<<j, m>> \in OpToRel(<, Nat))
  BY WFMin, NatLessThanWellFounded
<1>2. \A j \in T : ~(j < m)
  BY <1>1 DEF OpToRel
<1> QED BY <1>2

(* A piece ends before the first separator that is not before it. *)
LEMMA Ends ==
  ASSUME NEW data \in Seq(Byte), NEW s \in Nat
  PROVE  /\ Separators(data) \subseteq 1..(Len(data) - 1) /\ Len(data) \in Nat
         /\ EndOf(data, s) \in Int /\ EndOf(data, s) <= Len(data)
         /\ \A i \in Separators(data) : i >= s => EndOf(data, s) < i
         /\ EndOf(data, s) = Len(data) \/ EndOf(data, s) + 1 \in Separators(data)
         /\ EndOf(data, s) + 1 >= s \/ EndOf(data, s) = Len(data)
<1> DEFINE ends == {i \in Separators(data) : i >= s}
<1>1. Len(data) \in Nat /\ Separators(data) \subseteq 1..(Len(data) - 1)
  BY DEF Separators
<1>2. CASE ends = {}
  BY <1>1, <1>2 DEF EndOf
<1>3. CASE ends # {}
  <2>1. ends \subseteq Nat
    BY <1>1
  <2> DEFINE least == CHOOSE i \in ends : \A j \in ends : i <= j
  <2>2. least \in ends /\ \A j \in ends : least <= j
    <3>1. \E i \in ends : \A j \in ends : i <= j
      BY <1>3, <2>1, Least
    <3> QED BY <3>1
  <2>3. EndOf(data, s) = least - 1
    BY <1>3 DEF EndOf
  <2> HIDE DEF least
  <2> QED BY <1>1, <2>2, <2>3
<1> QED BY <1>2, <1>3

(* What the calls of one data event add to delivered. *)
LEMMA Delivers ==
  ASSUME Shapes, NEW data \in Seq(Byte), ProcessData(data)
  PROVE  \E turn \in Seq(Calls(data)) :
           /\ ToSet(turn) = Calls(data)
           /\ \A j, k \in DOMAIN turn : j < k => turn[j] < turn[k]
           /\ Len(delivered') = Len(delivered) + Len(turn)
           /\ delivered' \in Seq(Delivery)
           /\ \A j \in DOMAIN delivered : delivered'[j] = delivered[j]
           /\ \A k \in DOMAIN turn : delivered'[Len(delivered) + k] =
                [frame |-> data[turn[k]].frame, body |-> BodyOf(Piece(data, turn[k]))]
<1>1. PICK turn \in [1..Cardinality(Calls(data)) -> Calls(data)] :
        /\ ToSet(turn) = Calls(data)
        /\ \A j, k \in DOMAIN turn : j < k => turn[j] < turn[k]
        /\ delivered' = delivered \o [k \in DOMAIN turn |-> [frame |-> data[turn[k]].frame,
                                              body |-> BodyOf(Piece(data, turn[k]))]]
  BY DEF ProcessData
<1> DEFINE more == [k \in DOMAIN turn |-> [frame |-> data[turn[k]].frame,
                                       body |-> BodyOf(Piece(data, turn[k]))]]
<1>2. Cardinality(Calls(data)) \in Nat
  <2>1. Separators(data) \subseteq 1..(Len(data) - 1) /\ Len(data) \in Nat
    BY Ends
  <2>2. Calls(data) \subseteq 1..(Len(data) + 1)
    BY <2>1 DEF Calls, Handled, Starts
  <2>3. IsFiniteSet(1..(Len(data) + 1))
    BY <2>1, FS_Interval
  <2>4. IsFiniteSet(Calls(data))
    BY <2>2, <2>3, FS_Subset
  <2> QED BY <2>4, FS_CardinalityType
<1>3. turn \in Seq(Calls(data)) /\ DOMAIN turn = 1..Len(turn) /\ Len(turn) \in Nat
  BY <1>1, <1>2
<1>4. ASSUME NEW s \in Calls(data)
      PROVE  data[s].frame \in Nat /\ BodyOf(Piece(data, s)) \in Seq(PartNames)
  <2>1. s \in Handled(data) /\ ProcessMessage(Piece(data, s))
    BY DEF Calls
  <2>2. Len(data) \in Nat /\ s \in 1..(Len(data) + 1)
    <3>1. Len(data) \in Nat /\ Separators(data) \subseteq 1..(Len(data) - 1)
      BY DEF Separators
    <3>2. s = 1 \/ \E i \in Separators(data) : s = i + 2
      BY <2>1 DEF Handled, Starts
    <3> QED BY <3>1, <3>2
  <2>3. s <= s /\ EndOf(data, s) >= s
    <3>1. s <= s /\ s \in Starts(data)
      BY <2>1, <2>2 DEF Handled
    <3> QED BY <2>1, <3>1 DEF Handled
  <2>4. EndOf(data, s) \in Int /\ EndOf(data, s) <= Len(data)
    BY <2>2, Ends
  <2>5. PICK e \in Int : e = EndOf(data, s) /\ e <= Len(data) /\ s \in 1..(Len(data) + 1) /\ e >= s
    BY <2>2, <2>3, <2>4
  <2>6. /\ Piece(data, s) \in Seq(Byte) /\ Len(Piece(data, s)) = e - s + 1
    BY <2>5, SubSeqProperties DEF Piece
  <2>7. Len(Piece(data, s)) >= 2
    BY <2>1 DEF ProcessMessage, Parse
  <2>8. ASSUME NEW piece \in Seq(Byte), Len(piece) >= 2
        PROVE  BodyOf(piece) \in Seq(PartNames)
    <3>1. \A b \in Byte : b.part \in PartNames
      BY DEF Byte
    <3>2. /\ Len(piece) - 2 \in Nat /\ \A p \in 1..(Len(piece) - 2) : piece[p + 2] \in Byte
      BY <2>8
    <3>3. BodyOf(piece) \in [1..(Len(piece) - 2) -> PartNames]
      BY <3>1, <3>2 DEF BodyOf
    <3> QED BY <3>2, <3>3, FunctionIsSeq
  <2>9. data[s] \in Byte
    BY <2>5
  <2>10. data[s].frame \in Nat
    BY <2>9 DEF Byte
  <2> QED BY <2>6, <2>7, <2>8, <2>10
<1>5. more \in Seq(Delivery) /\ Len(more) = Len(turn)
  <2>1. more \in [1..Len(turn) -> Delivery]
    BY <1>1, <1>3, <1>4 DEF Delivery
  <2> QED BY <1>3, <2>1, FunctionIsSeq
<1>6. \A k \in DOMAIN turn : more[k] = [frame |-> data[turn[k]].frame,
                                     body |-> BodyOf(Piece(data, turn[k]))]
  OBVIOUS
<1> HIDE DEF more
<1>7. delivered' = delivered \o more /\ delivered \in Seq(Delivery)
  BY <1>1 DEF Shapes, more
<1>8. /\ Len(delivered') = Len(delivered) + Len(turn) /\ delivered' \in Seq(Delivery)
      /\ \A j \in DOMAIN delivered : delivered'[j] = delivered[j]
      /\ \A k \in DOMAIN turn : delivered'[Len(delivered) + k] = more[k]
  <2> DEFINE n == Len(delivered)
  <2>1. n \in Nat /\ DOMAIN delivered = 1..n
    BY <1>7
  <2>2. /\ delivered' \in Seq(Delivery) /\ Len(delivered') = n + Len(turn)
        /\ \A i \in 1..(n + Len(turn)) : delivered'[i] = IF i <= n THEN delivered[i] ELSE more[i - n]
    <3>1. ASSUME NEW a \in Seq(Delivery), NEW b \in Seq(Delivery)
          PROVE  /\ a \o b \in Seq(Delivery) /\ Len(a \o b) = Len(a) + Len(b)
                 /\ \A i \in 1..(Len(a) + Len(b)) :
                      (a \o b)[i] = IF i <= Len(a) THEN a[i] ELSE b[i - Len(a)]
      BY ConcatProperties
    <3> QED BY <1>5, <1>7, <3>1
  <2>3. ASSUME NEW k \in DOMAIN turn
        PROVE  delivered'[n + k] = more[k]
    BY <1>3, <2>1, <2>2
  <2>4. ASSUME NEW j \in DOMAIN delivered
        PROVE  delivered'[j] = delivered[j]
    BY <1>3, <2>1, <2>2
  <2> QED BY <2>2, <2>3, <2>4
<1> QED BY <1>1, <1>3, <1>6, <1>8

-----------------------------------------------------------------------------
(* The parts of a frame, by their places. *)
LEMMA PartsAre ==
  /\ DOMAIN Parts = 1..6
  /\ \A k \in 1..6 : /\ Parts[k] \in PartNames
                     /\ Parts[k] = "start" <=> k = 1
                     /\ Parts[k] = "nul" <=> k = 5
                     /\ Parts[k] = "nl" <=> k = 6
  /\ Parts[3] = "body1" /\ Parts[4] = "body2" /\ Parts[5] = "nul"
BY DEF Parts, PartNames

(* Frames and bytes are counted by natural numbers, the cut by an integer. *)
LEMMA Counts ==
  ASSUME Typed, Shapes
  PROVE  /\ Len(frames) \in Nat /\ DOMAIN frames = 1..Len(frames)
         /\ Len(stream) \in Nat /\ DOMAIN stream = 1..Len(stream)
         /\ Cut \in Int /\ Cut = 6 * Len(frames) - Len(stream)
BY DEF Typed, Shapes, Cut

(* Where a byte of the stream belongs ... *)
LEMMA PlaceOf ==
  ASSUME Typed, Shapes, StreamInv, NEW p \in DOMAIN stream
  PROVE  \E i \in DOMAIN frames, k \in 1..6 :
           Cut + p = 6 * (i - 1) + k /\ stream[p].frame = i /\ stream[p].part = Parts[k]
BY DEF StreamInv

(* ... and where a byte that has not been brought yet is. *)
LEMMA ByteAt ==
  ASSUME Typed, Shapes, StreamInv, NEW i \in DOMAIN frames, NEW k \in 1..6,
         6 * (i - 1) + k > Cut
  PROVE  /\ 6 * (i - 1) + k - Cut \in DOMAIN stream
         /\ stream[6 * (i - 1) + k - Cut].frame = i
         /\ stream[6 * (i - 1) + k - Cut].part = Parts[k]
<1> DEFINE p == 6 * (i - 1) + k - Cut
<1>1. p \in DOMAIN stream /\ p \in Int /\ Cut \in Int
  BY Counts
<1>2. PICK j \in DOMAIN frames, l \in 1..6 :
        Cut + p = 6 * (j - 1) + l /\ stream[p].frame = j /\ stream[p].part = Parts[l]
  BY <1>1, PlaceOf
<1>3. i \in Nat /\ j \in Nat
  BY Counts
<1>4. 6 * (j - 1) + l = 6 * (i - 1) + k
  <2>1. Cut + p = 6 * (i - 1) + k
    BY <1>1, <1>3
  <2> QED BY <1>2, <2>1
<1>5. j = i /\ l = k
  BY <1>3, <1>4
<1> QED BY <1>1, <1>2, <1>5

(* The bytes of a data event. *)
LEMMA DataFacts ==
  ASSUME Shapes, NEW n \in 1..Len(stream)
  PROVE  LET data == SubSeq(stream, 1, n)
         IN  /\ data \in Seq(Byte) /\ Len(data) = n
             /\ \A p \in 1..n : p \in DOMAIN stream /\ data[p] = stream[p]
BY DEF Shapes

(* A piece that begins with a frame ends in it, and before its last byte;    *)
(* when the whole frame is there, before its NUL.                            *)
LEMMA PieceOf ==
  ASSUME Typed, Shapes, StreamInv, NEW n \in 1..Len(stream),
         NEW s \in 1..n, stream[s].part = "start"
  PROVE  LET data == SubSeq(stream, 1, n)
             e == EndOf(data, s)
         IN  /\ e \in s..n /\ e <= s + 4
             /\ Cut + s = 6 * (stream[s].frame - 1) + 1
             /\ \A p \in s..e : data[p].part = Parts[p - s + 1]
             /\ n >= s + 5 => e = s + 3
<1> DEFINE data == SubSeq(stream, 1, n)
<1>1. /\ data \in Seq(Byte) /\ Len(data) = n
      /\ \A p \in 1..n : p \in DOMAIN stream /\ data[p] = stream[p]
  BY DataFacts
<1> HIDE DEF data
<1>2. PICK i \in DOMAIN frames : Cut + s = 6 * (i - 1) + 1 /\ stream[s].frame = i
  BY <1>1, PlaceOf, PartsAre
<1>3. i \in Nat /\ Cut \in Int /\ n \in Nat
  BY Counts
<1>4. ASSUME NEW p \in s..n, p <= s + 5
      PROVE  data[p].part = Parts[p - s + 1] /\ p - s + 1 \in 1..6
  <2>1. PICK j \in DOMAIN frames, l \in 1..6 :
          Cut + p = 6 * (j - 1) + l /\ stream[p].frame = j /\ stream[p].part = Parts[l]
    BY <1>1, PlaceOf
  <2>2. j \in Nat /\ p \in Int
    BY Counts
  <2>3. l = p - s + 1
    BY <1>2, <1>3, <1>4, <2>1, <2>2
  <2> QED BY <1>1, <1>3, <2>1, <2>3
<1> DEFINE e == EndOf(data, s)
<1>5. /\ e \in Int /\ e <= n
      /\ \A q \in Separators(data) : q >= s => e < q
      /\ e = n \/ e + 1 \in Separators(data)
      /\ e + 1 >= s \/ e = n
  BY <1>1, Ends
<1> HIDE DEF e
<1>6. \A q \in 1..(n - 1) : q \in Separators(data) <=> data[q].part = "nul" /\ data[q + 1].part = "nl"
  BY <1>1 DEF Separators
<1>7. Separators(data) \subseteq 1..(n - 1)
  BY <1>1, Ends
<1>8. e \in s..n /\ e <= s + 4 /\ (n >= s + 5 => e = s + 3)
  <2>1. CASE n >= s + 5
    <3>1. data[s + 4].part = "nul" /\ data[s + 5].part = "nl"
      <4>1. s + 4 \in s..n /\ s + 5 \in s..n /\ s + 4 <= s + 5 /\ (s + 4) - s + 1 = 5 /\ (s + 5) - s + 1 = 6
        BY <2>1
      <4> QED BY <1>4, <4>1, PartsAre
    <3>2. s + 4 \in Separators(data)
      <4>1. s + 4 \in 1..(n - 1) /\ (s + 4) + 1 = s + 5
        BY <2>1
      <4> QED BY <1>6, <3>1, <4>1
    <3>3. e < s + 4 /\ e + 1 \in Separators(data) /\ e + 1 >= s
      BY <1>5, <2>1, <3>2
    <3>4. data[e + 1].part = "nul" /\ e + 1 \in s..n
      BY <1>5, <1>6, <1>7, <3>3
    <3>5. (e + 1) - s + 1 = 5
      <4>1. e + 1 <= s + 5
        BY <1>5, <3>3
      <4>2. data[e + 1].part = Parts[(e + 1) - s + 1] /\ (e + 1) - s + 1 \in 1..6
        BY <1>4, <3>4, <4>1
      <4> QED BY <3>4, <4>2, PartsAre
    <3>6. e = s + 3
      BY <1>5, <3>5
    <3> QED BY <2>1, <3>6
  <2>2. CASE n <= s + 4
    <3>1. e >= s
      <4>1. CASE e = n
        BY <4>1
      <4>2. CASE e + 1 \in Separators(data) /\ e + 1 = s
        <5>1. data[s].part = "nul"
          BY <1>6, <1>7, <4>2
        <5> QED BY <1>1, <5>1
      <4> QED BY <1>5, <4>1, <4>2
    <3> QED BY <1>3, <1>5, <2>2, <3>1
  <2> QED BY <1>3, <2>1, <2>2
<1>9. \A p \in s..e : data[p].part = Parts[p - s + 1]
  <2>1. \A p \in s..e : p \in s..n /\ p <= s + 5
    BY <1>3, <1>5, <1>8
  <2> QED BY <1>4, <2>1
<1> QED BY <1>2, <1>8, <1>9 DEF data, e

(* What a callback gets begins a body and ends at its NUL at the latest.     *)
LEMMA CallsOf ==
  ASSUME Typed, Shapes, StreamInv, NEW n \in 1..Len(stream),
         NEW s \in Calls(SubSeq(stream, 1, n))
  PROVE  LET data == SubSeq(stream, 1, n)
         IN  /\ s \in 1..n /\ stream[s].part = "start"
             /\ data[s].frame = stream[s].frame /\ stream[s].frame \in DOMAIN frames
             /\ Cut + s = 6 * (stream[s].frame - 1) + 1
             /\ IsPrefix(BodyOf(Piece(data, s)), BodyAndNul)
             /\ n >= s + 5 => BodyOf(Piece(data, s)) = Body
<1> DEFINE data == SubSeq(stream, 1, n)
           e == EndOf(data, s)
<1>1. /\ data \in Seq(Byte) /\ Len(data) = n
      /\ \A p \in 1..n : p \in DOMAIN stream /\ data[p] = stream[p]
  BY DataFacts
<1> HIDE DEF data
<1>2. /\ s \in {1} \cup {i + 2 : i \in Separators(data)} /\ e >= s
      /\ Len(Piece(data, s)) >= 2 /\ Piece(data, s)[1].part = "start"
  <2>1. /\ s \in Starts(data) /\ \A t \in Starts(data) : t <= s => EndOf(data, t) >= t
        /\ ProcessMessage(Piece(data, s))
    BY DEF Calls, Handled, data
  <2>2. s \in Nat
    BY <1>1, <2>1, Ends DEF Starts
  <2> QED BY <2>1, <2>2 DEF Starts, ProcessMessage, Parse
<1>3. e \in Int /\ e <= n /\ Separators(data) \subseteq 1..(n - 1)
  BY <1>1, <1>2, Ends
<1>4. s \in 1..n
  BY <1>2, <1>3
<1> HIDE DEF e
<1>5. /\ Len(Piece(data, s)) = e - s + 1
      /\ \A q \in 1..(e - s + 1) : Piece(data, s)[q] = data[q + s - 1]
  <2>1. Piece(data, s) = SubSeq(data, s, e)
    BY DEF Piece, e
  <2>2. \A i \in s..e : data[i] \in Byte
    BY <1>1, <1>3, <1>4
  <2>3. /\ Len(SubSeq(data, s, e)) = IF s <= e THEN e - s + 1 ELSE 0
        /\ \A q \in 1..(e - s + 1) : SubSeq(data, s, e)[q] = data[s + q - 1]
    BY <1>3, <1>4, <2>2, SubSeqProperties
  <2>4. \A q \in 1..(e - s + 1) : s + q - 1 = q + s - 1
    BY <1>3, <1>4
  <2> QED BY <1>2, <1>3, <1>4, <2>1, <2>3, <2>4
<1>6. stream[s].part = "start"
  BY <1>1, <1>2, <1>4, <1>5
<1>7. /\ e \in s..n /\ e <= s + 4
      /\ Cut + s = 6 * (stream[s].frame - 1) + 1
      /\ \A p \in s..e : data[p].part = Parts[p - s + 1]
      /\ n >= s + 5 => e = s + 3
  BY <1>4, <1>6, PieceOf DEF data, e
<1>8. stream[s].frame \in DOMAIN frames
  BY <1>1, <1>4, PlaceOf
<1> DEFINE body == BodyOf(Piece(data, s))
<1>9. e - s + 1 \in 2..5
  BY <1>2, <1>5, <1>7
<1>10. \A p \in 1..(e - s - 1) : Piece(data, s)[p + 2].part = Parts[p + 2]
  <2> SUFFICES ASSUME NEW p \in 1..(e - s - 1) PROVE Piece(data, s)[p + 2].part = Parts[p + 2]
    OBVIOUS
  <2>1. p + 2 \in 1..(e - s + 1) /\ (p + 2) + s - 1 \in s..e /\ ((p + 2) + s - 1) - s + 1 = p + 2
    BY <1>4, <1>7
  <2> QED BY <1>5, <1>7, <2>1
<1>11. body = [p \in 1..(e - s - 1) |-> Parts[p + 2]]
  <2>1. Len(Piece(data, s)) - 2 = e - s - 1
    BY <1>5, <1>3, <1>4
  <2> QED BY <1>10, <2>1 DEF BodyOf
<1>12. e - s - 1 \in 0..3
  BY <1>4, <1>7, <1>9
<1>13. IsPrefix([p \in 1..(e - s - 1) |-> Parts[p + 2]], BodyAndNul)
  BY <1>12, PartsAre DEF IsPrefix, BodyAndNul, Body
<1>14. n >= s + 5 => [p \in 1..(e - s - 1) |-> Parts[p + 2]] = Body
  <2> SUFFICES ASSUME n >= s + 5 PROVE [p \in 1..(e - s - 1) |-> Parts[p + 2]] = Body
    OBVIOUS
  <2>1. e - s - 1 = 2
    BY <1>4, <1>7
  <2> QED BY <2>1, PartsAre DEF Body
<1> QED BY <1>1, <1>4, <1>6, <1>7, <1>8, <1>11, <1>13, <1>14 DEF data

-----------------------------------------------------------------------------
(* A byte that comes later belongs to no earlier frame. *)
LEMMA Later ==
  \A c, t \in Int, f, g \in Nat :
    6 * (g - 1) < c /\ 6 * (f - 1) + 1 = c + t /\ t >= 1 => g < f
OBVIOUS

(* Of two frames that begin on the stream, the one behind is the later. *)
LEMMA LaterStart ==
  \A c, t, u \in Int, f, g \in Nat :
    6 * (g - 1) + 1 = c + t /\ 6 * (f - 1) + 1 = c + u /\ t < u => g < f
OBVIOUS

(* A data event. *)
LEMMA DataStep ==
  ASSUME Typed, Shapes, StreamInv, NeverMixed, NEW n \in DOMAIN stream, Data(n)
  PROVE  /\ Typed' /\ Shapes' /\ StreamInv' /\ NeverMixed'
         /\ Len(stream') = Len(stream) - n /\ Cut' = Cut + n
<1> DEFINE data == SubSeq(stream, 1, n)
<1>1. /\ Len(frames) \in Nat /\ DOMAIN frames = 1..Len(frames)
      /\ Len(stream) \in Nat /\ DOMAIN stream = 1..Len(stream) /\ n \in 1..Len(stream)
      /\ Cut \in Int /\ Cut = 6 * Len(frames) - Len(stream)
  BY Counts
<1>2. data \in Seq(Byte)
  BY <1>1, DataFacts
<1>3. /\ ProcessData(data) /\ stream' = SubSeq(stream, n + 1, Len(stream))
      /\ UNCHANGED <<readyState, running, subscriptions, out, frames, pushed>>
  BY DEF Data
<1>4. PICK turn \in Seq(Calls(data)) :
        /\ ToSet(turn) = Calls(data)
        /\ \A j, k \in DOMAIN turn : j < k => turn[j] < turn[k]
        /\ Len(delivered') = Len(delivered) + Len(turn)
        /\ delivered' \in Seq(Delivery)
        /\ \A j \in DOMAIN delivered : delivered'[j] = delivered[j]
        /\ \A k \in DOMAIN turn : delivered'[Len(delivered) + k] =
             [frame |-> data[turn[k]].frame, body |-> BodyOf(Piece(data, turn[k]))]
  BY <1>2, <1>3, Delivers
<1>5. \A s \in Calls(data) :
        /\ s \in 1..n /\ data[s].frame \in DOMAIN frames
        /\ Cut + s = 6 * (data[s].frame - 1) + 1
        /\ IsPrefix(BodyOf(Piece(data, s)), BodyAndNul)
  BY <1>1, CallsOf
<1>6. /\ stream' \in Seq(Byte) /\ Len(stream') = Len(stream) - n
      /\ \A p \in 1..(Len(stream) - n) : stream'[p] = stream[p + n]
  <2>1. \A p \in (n + 1)..Len(stream) : stream[p] \in Byte
    BY <1>1 DEF Shapes
  <2>2. /\ stream' \in Seq(Byte)
        /\ Len(stream') = IF n + 1 <= Len(stream) THEN Len(stream) - (n + 1) + 1 ELSE 0
        /\ \A p \in 1..(Len(stream) - (n + 1) + 1) : stream'[p] = stream[(n + 1) + p - 1]
    BY <1>1, <1>3, <2>1, SubSeqProperties
  <2>3. /\ 1..(Len(stream) - (n + 1) + 1) = 1..(Len(stream) - n)
        /\ \A p \in 1..(Len(stream) - n) : (n + 1) + p - 1 = p + n
    BY <1>1
  <2>4. Len(stream') = Len(stream) - n
    <3>1. CASE n + 1 <= Len(stream)
      BY <1>1, <2>2, <3>1
    <3>2. CASE ~(n + 1 <= Len(stream))
      BY <1>1, <2>2, <3>2
    <3> QED BY <3>1, <3>2
  <2>5. ASSUME NEW p \in 1..(Len(stream) - n)
        PROVE  stream'[p] = stream[p + n]
    BY <2>2, <2>3
  <2> QED BY <2>2, <2>4, <2>5
<1>7. Cut' = Cut + n /\ DOMAIN stream' = 1..(Len(stream) - n)
  BY <1>1, <1>3, <1>6 DEF Cut
<1> HIDE DEF data
<1>8. DOMAIN turn = 1..Len(turn) /\ Len(turn) \in Nat /\ \A k \in DOMAIN turn : turn[k] \in Calls(data)
  BY <1>4
<1>9. /\ DOMAIN delivered = 1..Len(delivered) /\ Len(delivered) \in Nat
      /\ DOMAIN delivered' = 1..(Len(delivered) + Len(turn))
  BY <1>4 DEF Shapes
<1>10. ASSUME NEW j \in DOMAIN delivered'
       PROVE  \/ j \in DOMAIN delivered /\ delivered'[j] = delivered[j]
              \/ /\ j > Len(delivered) /\ j - Len(delivered) \in DOMAIN turn
                 /\ delivered'[j].frame = data[turn[j - Len(delivered)]].frame
                 /\ delivered'[j].body = BodyOf(Piece(data, turn[j - Len(delivered)]))
  <2>1. CASE j <= Len(delivered)
    BY <1>4, <1>9, <2>1
  <2>2. CASE j > Len(delivered)
    <3>1. j - Len(delivered) \in DOMAIN turn /\ Len(delivered) + (j - Len(delivered)) = j
      BY <1>8, <1>9, <2>2
    <3> DEFINE k == j - Len(delivered)
    <3>2. delivered'[j] = [frame |-> data[turn[k]].frame, body |-> BodyOf(Piece(data, turn[k]))]
      BY <1>4, <3>1
    <3> QED BY <2>2, <3>1, <3>2
  <2> QED BY <1>9, <2>1, <2>2
<1>11. ASSUME NEW j \in DOMAIN delivered
       PROVE  /\ delivered[j].frame \in DOMAIN frames /\ IsPrefix(delivered[j].body, BodyAndNul)
              /\ 6 * (delivered[j].frame - 1) < Cut
  BY DEF Typed, NeverMixed, StreamInv
<1>12. ASSUME NEW k \in DOMAIN turn
       PROVE  /\ data[turn[k]].frame \in DOMAIN frames
              /\ 6 * (data[turn[k]].frame - 1) + 1 = Cut + turn[k] /\ turn[k] \in 1..n
              /\ IsPrefix(BodyOf(Piece(data, turn[k])), BodyAndNul)
  BY <1>5, <1>8
<1>13. \A j \in DOMAIN delivered' : /\ delivered'[j].frame \in DOMAIN frames
                                   /\ IsPrefix(delivered'[j].body, BodyAndNul)
  BY <1>10, <1>11, <1>12
<1>14. ASSUME NEW j \in DOMAIN delivered'
       PROVE  6 * (delivered'[j].frame - 1) < Cut + n
  <2>1. CASE delivered'[j] = delivered[j] /\ j \in DOMAIN delivered
    BY <1>1, <1>11, <2>1
  <2>2. CASE /\ j - Len(delivered) \in DOMAIN turn
             /\ delivered'[j].frame = data[turn[j - Len(delivered)]].frame
    <3> DEFINE k == j - Len(delivered)
    <3>1. /\ data[turn[k]].frame \in Nat /\ 6 * (data[turn[k]].frame - 1) + 1 = Cut + turn[k]
          /\ turn[k] \in 1..n
      BY <1>1, <1>12, <2>2
    <3> QED BY <1>1, <2>2, <3>1
  <2> QED BY <1>10, <2>1, <2>2
<1>15. ASSUME NEW i \in DOMAIN delivered', NEW j \in DOMAIN delivered', i < j
       PROVE  delivered'[i].frame < delivered'[j].frame
  <2>1. CASE j \in DOMAIN delivered
    <3>1. i \in DOMAIN delivered
      BY <1>9, <1>15, <2>1
    <3> QED BY <1>4, <1>15, <2>1, <3>1 DEF NeverMixed
  <2>2. CASE j \notin DOMAIN delivered /\ i \in DOMAIN delivered
    <3> DEFINE k == j - Len(delivered)
    <3>1. k \in DOMAIN turn /\ delivered'[j].frame = data[turn[k]].frame
      BY <1>10, <2>2
    <3>2. data[turn[k]].frame \in Nat /\ 6 * (data[turn[k]].frame - 1) + 1 = Cut + turn[k] /\ turn[k] \in 1..n
      BY <1>1, <1>12, <3>1
    <3>3. delivered'[i] = delivered[i] /\ delivered[i].frame \in Nat /\ 6 * (delivered[i].frame - 1) < Cut
      BY <1>1, <1>4, <1>11, <2>2
    <3> HIDE DEF k
    <3>4. turn[k] \in Int /\ turn[k] >= 1
      BY <1>1, <3>2
    <3>5. delivered[i].frame < data[turn[k]].frame
      BY <1>1, <3>2, <3>3, <3>4, Later
    <3> QED BY <3>1, <3>3, <3>5
  <2>3. CASE j \notin DOMAIN delivered /\ i \notin DOMAIN delivered
    <3> DEFINE k == j - Len(delivered)
               l == i - Len(delivered)
    <3>1. /\ k \in DOMAIN turn /\ delivered'[j].frame = data[turn[k]].frame
          /\ l \in DOMAIN turn /\ delivered'[i].frame = data[turn[l]].frame
      BY <1>10, <2>3
    <3>2. l < k
      BY <1>9, <1>15
    <3>3. turn[l] < turn[k]
      BY <1>4, <3>1, <3>2
    <3> HIDE DEF k, l
    <3>4. data[turn[k]].frame \in Nat /\ 6 * (data[turn[k]].frame - 1) + 1 = Cut + turn[k] /\ turn[k] \in 1..n
      BY <1>1, <1>12, <3>1
    <3>5. data[turn[l]].frame \in Nat /\ 6 * (data[turn[l]].frame - 1) + 1 = Cut + turn[l] /\ turn[l] \in 1..n
      BY <1>1, <1>12, <3>1
    <3>6. turn[k] \in Int /\ turn[l] \in Int
      BY <1>1, <3>4, <3>5
    <3>7. data[turn[l]].frame < data[turn[k]].frame
      <4>1. \A f, g \in Nat :
              6 * (g - 1) + 1 = Cut + turn[l] /\ 6 * (f - 1) + 1 = Cut + turn[k] => g < f
        BY <1>1, <3>3, <3>6, LaterStart
      <4> QED BY <3>4, <3>5, <4>1
    <3> QED BY <3>1, <3>7
  <2> QED BY <2>1, <2>2, <2>3
<1>16. StreamInv'
  <2>1. ASSUME NEW p \in DOMAIN stream'
        PROVE  \E i \in DOMAIN frames', k \in 1..6 :
                 Cut' + p = 6 * (i - 1) + k /\ stream'[p] = [frame |-> i, part |-> Parts[k]]
    <3>1. p + n \in DOMAIN stream /\ stream'[p] = stream[p + n] /\ Cut' + p = Cut + (p + n)
      BY <1>1, <1>6, <1>7
    <3> QED BY <1>3, <3>1 DEF StreamInv
  <2>2. Cut' >= 0
    BY <1>1, <1>7 DEF StreamInv
  <2> QED BY <1>7, <1>14, <2>1, <2>2 DEF StreamInv
<1>17. NeverMixed'
  BY <1>13, <1>15 DEF NeverMixed
<1>18. Shapes'
  BY <1>3, <1>4, <1>6 DEF Shapes, out
<1>19. Typed'
  BY <1>3, <1>13 DEF Typed, out
<1> QED BY <1>6, <1>7, <1>16, <1>17, <1>18, <1>19

(* The broker adds a frame. *)
LEMMA BrokerSendsStep ==
  ASSUME Typed, Shapes, StreamInv, NeverMixed, NEW d \in Destinations, BrokerSends(d)
  PROVE  Cut' = Cut /\ StreamInv' /\ NeverMixed'
<1> DEFINE i == Len(frames) + 1
<1>1. /\ Len(frames) \in Nat /\ DOMAIN frames = 1..Len(frames)
      /\ Len(stream) \in Nat /\ DOMAIN stream = 1..Len(stream)
      /\ Cut \in Int /\ Cut = 6 * Len(frames) - Len(stream)
  BY Counts
<1>2. /\ Len(frames') = i /\ stream' = stream \o FrameParts(i) /\ Typed' /\ Shapes'
      /\ FrameParts(i) \in Seq(Byte) /\ Len(FrameParts(i)) = 6
  BY BrokerSendsTyped
<1>3. delivered' = delivered
  BY DEF BrokerSends
<1>4. \A k \in 1..6 : FrameParts(i)[k] = [frame |-> i, part |-> Parts[k]]
  BY PartsAre DEF FrameParts
<1>5. /\ Len(stream') = Len(stream) + 6
      /\ \A p \in 1..Len(stream) : stream'[p] = stream[p]
      /\ \A k \in 1..6 : stream'[Len(stream) + k] = FrameParts(i)[k]
  <2>1. stream \in Seq(Byte)
    BY DEF Shapes
  <2>2. ASSUME NEW a \in Seq(Byte), NEW b \in Seq(Byte)
        PROVE  /\ Len(a \o b) = Len(a) + Len(b)
               /\ \A p \in 1..(Len(a) + Len(b)) :
                    (a \o b)[p] = IF p <= Len(a) THEN a[p] ELSE b[p - Len(a)]
    BY ConcatProperties
  <2>3. /\ Len(stream') = Len(stream) + 6
        /\ \A p \in 1..(Len(stream) + 6) :
             stream'[p] = IF p <= Len(stream) THEN stream[p] ELSE FrameParts(i)[p - Len(stream)]
    BY <1>2, <2>1, <2>2
  <2>4. ASSUME NEW k \in 1..6
        PROVE  stream'[Len(stream) + k] = FrameParts(i)[k]
    <3>1. /\ Len(stream) + k \in 1..(Len(stream) + 6) /\ ~(Len(stream) + k <= Len(stream))
          /\ (Len(stream) + k) - Len(stream) = k
      BY <1>1
    <3> QED BY <2>3, <3>1
  <2> QED BY <1>1, <2>3, <2>4
<1>6. Cut' = Cut /\ DOMAIN stream' = 1..(Len(stream) + 6) /\ DOMAIN frames' = 1..(Len(frames) + 1)
  <2>1. stream' \in Seq(Byte) /\ frames' \in Seq(Destinations)
    BY <1>2 DEF Shapes, Typed
  <2>2. Cut' = 6 * i - (Len(stream) + 6)
    BY <1>2, <1>5 DEF Cut
  <2> QED BY <1>1, <1>2, <1>5, <2>1, <2>2
<1>7. ASSUME NEW p \in DOMAIN stream'
      PROVE  \E j \in DOMAIN frames', k \in 1..6 :
               Cut + p = 6 * (j - 1) + k /\ stream'[p] = [frame |-> j, part |-> Parts[k]]
  <2>1. CASE p <= Len(stream)
    <3>1. p \in DOMAIN stream /\ stream'[p] = stream[p] /\ DOMAIN frames \subseteq DOMAIN frames'
      BY <1>1, <1>5, <1>6, <2>1
    <3> QED BY <3>1 DEF StreamInv
  <2>2. CASE p > Len(stream)
    <3> DEFINE k == p - Len(stream)
    <3>1. p \in Int /\ p <= Len(stream) + 6 /\ Len(stream) \in Int
      BY <1>1, <1>6
    <3>2. k \in 1..6 /\ Len(stream) + k = p
      BY <2>2, <3>1
    <3>3. Cut + Len(stream) = 6 * (i - 1) /\ Cut \in Int /\ 6 * (i - 1) \in Int
      BY <1>1
    <3>4. Cut + p = 6 * (i - 1) + k
      BY <3>1, <3>2, <3>3
    <3>5. i \in DOMAIN frames'
      BY <1>1, <1>6
    <3>6. k \in 1..6 /\ Len(stream) + k = p /\ Cut + p = 6 * (i - 1) + k /\ i \in DOMAIN frames'
      BY <3>2, <3>4, <3>5
    <3> QED BY <1>4, <1>5, <3>6
  <2> QED BY <1>1, <1>6, <2>1, <2>2
<1> QED BY <1>3, <1>6, <1>7 DEF StreamInv, NeverMixed

-----------------------------------------------------------------------------
(* Sequences of what can be written, element by element. *)
LEMMA Joined ==
  ASSUME NEW a \in Seq(Writable), NEW b \in Seq(Writable)
  PROVE  /\ a \o b \in Seq(Writable) /\ Len(a \o b) = Len(a) + Len(b)
         /\ DOMAIN (a \o b) = 1..(Len(a) + Len(b)) /\ Len(a) \in Nat /\ Len(b) \in Nat
         /\ \A i \in 1..Len(a) : (a \o b)[i] = a[i]
         /\ \A k \in 1..Len(b) : (a \o b)[Len(a) + k] = b[k]
<1>1. /\ a \o b \in Seq(Writable) /\ Len(a \o b) = Len(a) + Len(b)
      /\ \A i \in 1..(Len(a) + Len(b)) : (a \o b)[i] = IF i <= Len(a) THEN a[i] ELSE b[i - Len(a)]
  BY ConcatProperties
<1>2. Len(a) \in Nat /\ Len(b) \in Nat
  OBVIOUS
<1>3. DOMAIN (a \o b) = 1..(Len(a) + Len(b))
  BY <1>1
<1>4. \A i \in 1..Len(a) : (a \o b)[i] = a[i]
  BY <1>1, <1>2
<1>5. ASSUME NEW k \in 1..Len(b)
      PROVE  (a \o b)[Len(a) + k] = b[k]
  <2>1. /\ Len(a) + k \in 1..(Len(a) + Len(b)) /\ ~(Len(a) + k <= Len(a))
        /\ (Len(a) + k) - Len(a) = k
    BY <1>2
  <2> QED BY <1>1, <2>1
<1> QED BY <1>1, <1>2, <1>3, <1>4, <1>5

(* A sequence with one more element. *)
LEMMA Appended ==
  ASSUME NEW S, NEW a \in Seq(S), NEW x \in S
  PROVE  /\ Append(a, x) \in Seq(S) /\ Len(Append(a, x)) = Len(a) + 1 /\ Len(a) \in Nat
         /\ DOMAIN a = 1..Len(a) /\ DOMAIN Append(a, x) = 1..(Len(a) + 1)
         /\ \A i \in 1..Len(a) : Append(a, x)[i] = a[i]
         /\ Append(a, x)[Len(a) + 1] = x
OBVIOUS

(* The queue and the wire hold what may be written. *)
LEMMA Held ==
  ASSUME Shapes
  PROVE  /\ commands \in Seq(Queueable) /\ pushed \in Seq(Queueable)
         /\ commands \in Seq(Writable) /\ wire \in Seq(Writable)
         /\ Len(commands) \in Nat /\ Len(pushed) \in Nat /\ Len(wire) \in Nat
         /\ DOMAIN commands = 1..Len(commands) /\ DOMAIN pushed = 1..Len(pushed)
         /\ DOMAIN wire = 1..Len(wire)
<1>1. commands \in Seq(Queueable) /\ pushed \in Seq(Queueable) /\ wire \in Seq(Writable)
  BY DEF Shapes
<1>2. commands \in Seq(Writable)
  BY <1>1, SeqMonotonic DEF Writable
<1> QED BY <1>1, <1>2

(* The application queues a command. *)
LEMMA PushStep ==
  ASSUME Typed, Shapes, QueueInv, CommandsInOrder,
         NEW kind \in Kinds, NEW d \in Destinations, NEW cb \in BOOLEAN, Push(kind, d, cb)
  PROVE  QueueInv' /\ CommandsInOrder'
<1> DEFINE c == Command(kind, d, cb, Len(pushed) + 1)
           gone == Len(pushed) - Len(commands)
<1>1. /\ commands' = Append(commands, c) /\ pushed' = Append(pushed, c) /\ Len(pushed) < MaxCommands
      /\ wire' = wire /\ readyState' = readyState
  BY DEF Push
<1>2. /\ commands \in Seq(Queueable) /\ pushed \in Seq(Queueable)
      /\ Len(commands) \in Nat /\ Len(pushed) \in Nat
  BY Held
<1>3. c \in Queueable /\ c.id = Len(pushed) + 1
  BY <1>1, <1>2, BoundsAssumption DEF Command, Queueable
<1> HIDE DEF c
<1>4. /\ Len(commands') = Len(commands) + 1 /\ DOMAIN commands' = 1..(Len(commands) + 1)
      /\ \A k \in 1..Len(commands) : commands'[k] = commands[k]
      /\ commands'[Len(commands) + 1] = c /\ DOMAIN commands = 1..Len(commands)
  BY <1>1, <1>2, <1>3, Appended
<1>5. /\ Len(pushed') = Len(pushed) + 1 /\ DOMAIN pushed' = 1..(Len(pushed) + 1)
      /\ \A n \in 1..Len(pushed) : pushed'[n] = pushed[n]
      /\ pushed'[Len(pushed) + 1] = c /\ DOMAIN pushed = 1..Len(pushed)
  BY <1>1, <1>2, <1>3, Appended
<1>6. Len(pushed') - Len(commands') = gone /\ gone \in Int /\ gone <= Len(pushed)
  BY <1>2, <1>4, <1>5
<1>7. ASSUME NEW k \in DOMAIN commands'
      PROVE  gone + k \in DOMAIN pushed' /\ commands'[k] = pushed'[gone + k]
  <2>1. CASE k <= Len(commands)
    <3>1. k \in DOMAIN commands
      BY <1>2, <1>4, <2>1
    <3>2. gone + k \in DOMAIN pushed /\ commands[k] = pushed[gone + k]
      BY <3>1 DEF CommandsInOrder
    <3> QED BY <1>2, <1>4, <1>5, <3>1, <3>2
  <2>2. CASE k = Len(commands) + 1
    <3>1. gone + k = Len(pushed) + 1
      BY <1>2, <2>2
    <3> QED BY <1>2, <1>4, <1>5, <2>2, <3>1
  <2> QED BY <1>2, <1>4, <2>1, <2>2
<1>8. Queued' = Queued
  BY <1>1 DEF Queued
<1>9. \A i \in Queued : wire[i].id \in 1..gone /\ wire[i] = pushed'[wire[i].id]
  <2>1. \A i \in Queued : wire[i].id \in 1..gone /\ wire[i] = pushed[wire[i].id]
    BY DEF CommandsInOrder
  <2>2. 1..gone \subseteq 1..Len(pushed)
    BY <1>2, <1>6
  <2> QED BY <1>5, <2>1, <2>2
<1>10. CommandsInOrder'
  BY <1>1, <1>6, <1>7, <1>8, <1>9 DEF CommandsInOrder
<1>11. QueueInv'
  <2>1. \A n \in DOMAIN pushed' : pushed'[n].id = n
    BY <1>2, <1>3, <1>5 DEF QueueInv
  <2> QED BY <1>1, <1>2, <1>4, <1>5, <2>1 DEF QueueInv
<1> QED BY <1>10, <1>11

(* CONNECT, the first of all, and acks are written past the queue. *)
LEMMA PastTheQueue ==
  ASSUME Typed, Shapes, QueueInv, CommandsInOrder, NEW x \in Writable,
         x.command \in {"CONNECT", "ACK"}, x = Connect <=> wire = <<>>,
         wire' = Append(wire, x), UNCHANGED <<commands, pushed>>
  PROVE  CommandsInOrder'
<1>1. /\ Len(wire') = Len(wire) + 1 /\ Len(wire) \in Nat
      /\ DOMAIN wire = 1..Len(wire) /\ DOMAIN wire' = 1..(Len(wire) + 1)
      /\ \A i \in 1..Len(wire) : wire'[i] = wire[i]
      /\ wire'[Len(wire) + 1] = x
  BY Held, Appended
<1>2. Queued' = Queued /\ \A i \in Queued : wire'[i] = wire[i]
  BY <1>1 DEF Queued
<1>3. \A i \in DOMAIN wire' : wire'[i] = Connect <=> i = 1
  <2>1. \A i \in DOMAIN wire : wire[i] = Connect <=> i = 1
    BY DEF CommandsInOrder
  <2>2. wire = <<>> <=> Len(wire) = 0
    BY Held
  <2> QED BY <1>1, <2>1, <2>2
<1> DEFINE gone == Len(pushed) - Len(commands)
<1>4. commands' = commands /\ pushed' = pushed /\ Len(pushed') - Len(commands') = gone
  OBVIOUS
<1>5. \A k \in DOMAIN commands' : gone + k \in DOMAIN pushed' /\ commands'[k] = pushed'[gone + k]
  BY <1>4 DEF CommandsInOrder
<1>6. /\ \A i \in Queued' : wire'[i].id \in 1..gone /\ wire'[i] = pushed'[wire'[i].id]
      /\ \A i, j \in Queued' : i < j => wire'[i].id < wire'[j].id
      /\ \A n \in 1..gone : \E i \in Queued' : wire'[i].id = n
  BY <1>2, <1>4 DEF CommandsInOrder
<1> HIDE DEF gone
<1> QED BY <1>3, <1>4, <1>5, <1>6 DEF CommandsInOrder

(* The queue is written. *)
LEMMA TransmitStep ==
  ASSUME Typed, Shapes, QueueInv, CommandsInOrder, wire # <<>>,
         wire' = wire \o commands, commands' = <<>>, pushed' = pushed
  PROVE  CommandsInOrder'
<1> DEFINE gone == Len(pushed) - Len(commands)
<1>1. /\ Len(commands) \in Nat /\ Len(pushed) \in Nat /\ Len(wire) \in Nat
      /\ DOMAIN commands = 1..Len(commands) /\ DOMAIN pushed = 1..Len(pushed)
      /\ DOMAIN wire = 1..Len(wire) /\ Len(wire) > 0
      /\ commands \in Seq(Queueable)
  BY Held
<1>2. /\ DOMAIN wire' = 1..(Len(wire) + Len(commands))
      /\ \A i \in 1..Len(wire) : wire'[i] = wire[i]
      /\ \A k \in 1..Len(commands) : wire'[Len(wire) + k] = commands[k]
  BY Held, Joined
<1>3. gone \in Nat /\ gone + Len(commands) = Len(pushed) /\ Len(pushed') - Len(commands') = Len(pushed)
  BY <1>1 DEF QueueInv
<1>4. ASSUME NEW k \in 1..Len(commands)
      PROVE  /\ wire'[Len(wire) + k] = pushed[gone + k] /\ gone + k \in 1..Len(pushed)
             /\ wire'[Len(wire) + k].id = gone + k
             /\ wire'[Len(wire) + k].command \notin {"CONNECT", "ACK"}
             /\ wire'[Len(wire) + k] # Connect
  <2>1. commands[k] = pushed[gone + k] /\ gone + k \in DOMAIN pushed /\ commands[k] \in Queueable
    BY <1>1 DEF CommandsInOrder
  <2> QED BY <1>1, <1>2, <2>1, Items DEF QueueInv
<1> HIDE DEF gone
<1>5. ASSUME NEW i \in DOMAIN wire'
      PROVE  i \in DOMAIN wire \/ \E k \in 1..Len(commands) : i = Len(wire) + k
  <2>1. CASE i > Len(wire)
    <3>1. i - Len(wire) \in 1..Len(commands) /\ i = Len(wire) + (i - Len(wire))
      BY <1>1, <1>2, <2>1
    <3> QED BY <3>1
  <2> QED BY <1>1, <1>2, <2>1
<1>6. \A i \in Queued' : \/ i \in Queued /\ wire'[i] = wire[i] /\ wire[i].id \in 1..gone /\ i <= Len(wire)
                        \/ \E k \in 1..Len(commands) : i = Len(wire) + k
  <2> SUFFICES ASSUME NEW i \in Queued', ~\E k \in 1..Len(commands) : i = Len(wire) + k
               PROVE  i \in Queued /\ wire'[i] = wire[i] /\ wire[i].id \in 1..gone /\ i <= Len(wire)
    OBVIOUS
  <2>1. i \in DOMAIN wire'
    BY DEF Queued
  <2>2. i \in DOMAIN wire
    BY <1>5, <2>1
  <2>3. wire'[i] = wire[i] /\ i \in Queued /\ i <= Len(wire)
    BY <1>1, <1>2, <2>2 DEF Queued
  <2> QED BY <2>3 DEF CommandsInOrder, gone
<1>7. \A i \in Queued' : wire'[i].id \in 1..Len(pushed) /\ wire'[i] = pushed[wire'[i].id]
  <2>1. \A i \in Queued : wire[i] = pushed[wire[i].id]
    BY DEF CommandsInOrder
  <2>2. 1..gone \subseteq 1..Len(pushed)
    BY <1>1, <1>3
  <2> QED BY <1>4, <1>6, <2>1, <2>2
<1>8. ASSUME NEW i \in Queued', NEW j \in Queued', i < j
      PROVE  wire'[i].id < wire'[j].id
  <2>1. CASE j \in Queued /\ wire'[j] = wire[j] /\ j <= Len(wire)
    <3>1. i \in Queued /\ wire'[i] = wire[i]
      BY <1>1, <1>6, <1>8, <2>1 DEF Queued
    <3> QED BY <1>8, <2>1, <3>1 DEF CommandsInOrder
  <2>2. ASSUME NEW k \in 1..Len(commands), j = Len(wire) + k
        PROVE  wire'[i].id < wire'[j].id
    <3>1. wire'[j].id = gone + k
      BY <1>4, <2>2
    <3>2. CASE wire'[i] = wire[i] /\ wire[i].id \in 1..gone
      BY <1>3, <3>1, <3>2
    <3>3. ASSUME NEW l \in 1..Len(commands), i = Len(wire) + l
          PROVE  wire'[i].id < wire'[j].id
      <4>1. wire'[i].id = gone + l /\ l < k
        BY <1>1, <1>4, <1>8, <2>2, <3>3
      <4> QED BY <1>3, <3>1, <4>1
    <3> QED BY <1>6, <3>2, <3>3
  <2> QED BY <1>6, <2>1, <2>2
<1>9. ASSUME NEW n \in 1..Len(pushed)
      PROVE  \E i \in Queued' : wire'[i].id = n
  <2>1. CASE n <= gone
    <3>1. PICK i \in Queued : wire[i].id = n
      BY <1>3, <2>1 DEF CommandsInOrder, gone
    <3>2. i \in Queued' /\ wire'[i] = wire[i]
      BY <1>1, <1>2 DEF Queued
    <3> QED BY <3>1, <3>2
  <2>2. CASE n > gone
    <3>1. n - gone \in 1..Len(commands) /\ gone + (n - gone) = n
      BY <1>1, <1>3, <2>2
    <3>2. Len(wire) + (n - gone) \in DOMAIN wire'
      BY <1>1, <1>2, <3>1
    <3>3. Len(wire) + (n - gone) \in Queued' /\ wire'[Len(wire) + (n - gone)].id = n
      BY <1>4, <3>1, <3>2 DEF Queued
    <3> QED BY <3>3
  <2>3. n \in Int /\ gone \in Int
    BY <1>1, <1>3
  <2>4. n <= gone \/ n > gone
    BY <2>3
  <2> QED BY <2>1, <2>2, <2>4
<1>10. \A i \in DOMAIN wire' : wire'[i] = Connect <=> i = 1
  <2>1. \A i \in DOMAIN wire : wire[i] = Connect <=> i = 1
    BY DEF CommandsInOrder
  <2>2. \A k \in 1..Len(commands) : Len(wire) + k # 1
    BY <1>1
  <2> QED BY <1>1, <1>2, <1>4, <1>5, <2>1, <2>2
<1>11. DOMAIN commands' = {}
  OBVIOUS
<1> QED BY <1>3, <1>7, <1>8, <1>9, <1>10, <1>11 DEF CommandsInOrder

-----------------------------------------------------------------------------
(* What is last in a sequence is what the broker is told last. *)
LEMMA ToldLast ==
  ASSUME NEW a \in Seq(Writable), NEW x \in Writable, NEW d
  PROVE  Told(d, Append(a, x)) <=> IF About(d, x) THEN x.command = "SUBSCRIBE" ELSE Told(d, a)
<1> DEFINE b == Append(a, x)
<1>1. /\ Len(a) \in Nat /\ DOMAIN a = 1..Len(a) /\ DOMAIN b = 1..(Len(a) + 1)
      /\ \A i \in 1..Len(a) : b[i] = a[i]
      /\ b[Len(a) + 1] = x
  BY Appended
<1> HIDE DEF b
<1>2. \A i \in DOMAIN b : \/ i \in DOMAIN a /\ i < Len(a) + 1 /\ b[i] = a[i]
                         \/ i = Len(a) + 1
  BY <1>1
<1>3. CASE About(d, x)
  <2>1. ASSUME Told(d, b) PROVE x.command = "SUBSCRIBE"
    <3>1. PICK i \in DOMAIN b : /\ About(d, b[i]) /\ b[i].command = "SUBSCRIBE"
                               /\ \A j \in DOMAIN b : j > i => ~About(d, b[j])
      BY <2>1 DEF Told
    <3>2. ~(Len(a) + 1 > i)
      BY <1>1, <1>3, <3>1
    <3>3. i = Len(a) + 1
      BY <1>1, <1>2, <3>2
    <3> QED BY <1>1, <3>1, <3>3
  <2>2. ASSUME x.command = "SUBSCRIBE" PROVE Told(d, b)
    <3>1. Len(a) + 1 \in DOMAIN b /\ \A j \in DOMAIN b : ~(j > Len(a) + 1)
      BY <1>1
    <3> QED BY <1>1, <1>3, <2>2, <3>1 DEF Told
  <2> QED BY <1>3, <2>1, <2>2 DEF b
<1>4. CASE ~About(d, x)
  <2>1. ASSUME Told(d, b) PROVE Told(d, a)
    <3>1. PICK i \in DOMAIN b : /\ About(d, b[i]) /\ b[i].command = "SUBSCRIBE"
                               /\ \A j \in DOMAIN b : j > i => ~About(d, b[j])
      BY <2>1 DEF Told
    <3>2. i \in DOMAIN a /\ b[i] = a[i]
      BY <1>1, <1>2, <1>4, <3>1
    <3>3. \A j \in DOMAIN a : j \in DOMAIN b /\ b[j] = a[j]
      BY <1>1
    <3> QED BY <3>1, <3>2, <3>3 DEF Told
  <2>2. ASSUME Told(d, a) PROVE Told(d, b)
    <3>1. PICK i \in DOMAIN a : /\ About(d, a[i]) /\ a[i].command = "SUBSCRIBE"
                               /\ \A j \in DOMAIN a : j > i => ~About(d, a[j])
      BY <2>2 DEF Told
    <3>2. i \in DOMAIN b /\ b[i] = a[i]
      BY <1>1
    <3>3. \A j \in DOMAIN b : j > i => ~About(d, b[j])
      BY <1>1, <1>2, <1>4, <3>1
    <3> QED BY <3>1, <3>2, <3>3 DEF Told
  <2> QED BY <1>4, <2>1, <2>2 DEF b
<1> QED BY <1>3, <1>4

(* What is not about a destination changes nothing, wherever it comes.       *)
LEMMA ToldPast ==
  ASSUME NEW a \in Seq(Writable), NEW b \in Seq(Writable), NEW x \in Writable, NEW d,
         ~About(d, x)
  PROVE  Told(d, Append(a, x) \o b) <=> Told(d, a \o b)
<1> DEFINE ax == Append(a, x)
           old == a \o b
           new == ax \o b
           At(i) == IF i <= Len(a) THEN i ELSE i + 1
<1>1. /\ ax \in Seq(Writable) /\ Len(ax) = Len(a) + 1 /\ Len(a) \in Nat /\ Len(b) \in Nat
      /\ \A i \in 1..Len(a) : ax[i] = a[i]
      /\ ax[Len(a) + 1] = x
  BY Appended
<1> HIDE DEF ax
<1>2. /\ DOMAIN old = 1..(Len(a) + Len(b))
      /\ \A i \in 1..Len(a) : old[i] = a[i]
      /\ \A k \in 1..Len(b) : old[Len(a) + k] = b[k]
  BY Joined
<1>3. /\ DOMAIN new = 1..(Len(a) + 1 + Len(b))
      /\ \A i \in 1..(Len(a) + 1) : new[i] = ax[i]
      /\ \A k \in 1..Len(b) : new[Len(a) + 1 + k] = b[k]
  <2>1. /\ DOMAIN new = 1..(Len(ax) + Len(b))
        /\ \A i \in 1..Len(ax) : new[i] = ax[i]
        /\ \A k \in 1..Len(b) : new[Len(ax) + k] = b[k]
    BY <1>1, Joined
  <2> QED BY <1>1, <2>1
<1> HIDE DEF old, new
<1>4. ASSUME NEW i \in DOMAIN old
      PROVE  At(i) \in DOMAIN new /\ new[At(i)] = old[i]
  <2>1. CASE i <= Len(a)
    <3>1. i \in 1..Len(a) /\ i \in 1..(Len(a) + 1)
      BY <1>1, <1>2, <2>1
    <3> QED BY <1>1, <1>2, <1>3, <2>1, <3>1
  <2>2. CASE i > Len(a)
    <3>1. /\ i - Len(a) \in 1..Len(b) /\ Len(a) + (i - Len(a)) = i
          /\ Len(a) + 1 + (i - Len(a)) = i + 1 /\ i + 1 \in 1..(Len(a) + 1 + Len(b)) /\ ~(i <= Len(a))
      BY <1>1, <1>2, <2>2
    <3>2. old[i] = b[i - Len(a)] /\ new[i + 1] = b[i - Len(a)]
      BY <1>2, <1>3, <3>1
    <3> QED BY <1>3, <3>1, <3>2
  <2> QED BY <1>1, <1>2, <2>1, <2>2
<1>5. ASSUME NEW i \in DOMAIN new, i # Len(a) + 1
      PROVE  \E j \in DOMAIN old : i = At(j)
  <2>1. CASE i <= Len(a)
    BY <1>1, <1>2, <1>3, <2>1
  <2>2. CASE i > Len(a) + 1
    <3>1. i - 1 \in DOMAIN old /\ ~(i - 1 <= Len(a)) /\ (i - 1) + 1 = i
      BY <1>1, <1>2, <1>3, <2>2
    <3> QED BY <3>1
  <2> QED BY <1>1, <1>3, <1>5, <2>1, <2>2
<1>6. \A i, j \in DOMAIN old : At(i) < At(j) <=> i < j
  BY <1>1, <1>2
<1>7. new[Len(a) + 1] = x
  BY <1>1, <1>3
<1>8. DOMAIN old \subseteq Int /\ DOMAIN new \subseteq Int /\ \A i \in DOMAIN old : At(i) \in Int
  BY <1>1, <1>2, <1>3
<1> HIDE DEF At
<1>9. ASSUME Told(d, new) PROVE Told(d, old)
  <2>1. PICK i \in DOMAIN new : /\ About(d, new[i]) /\ new[i].command = "SUBSCRIBE"
                               /\ \A j \in DOMAIN new : j > i => ~About(d, new[j])
    BY <1>9 DEF Told
  <2>2. PICK k \in DOMAIN old : i = At(k)
    BY <1>5, <1>7, <2>1
  <2>3. ASSUME NEW j \in DOMAIN old, j > k
        PROVE  ~About(d, old[j])
    <3>1. At(j) > At(k)
      BY <1>6, <1>8, <2>3
    <3> QED BY <1>4, <2>1, <2>2, <3>1
  <2> QED BY <1>4, <2>1, <2>2, <2>3 DEF Told
<1>10. ASSUME Told(d, old) PROVE Told(d, new)
  <2>1. PICK k \in DOMAIN old : /\ About(d, old[k]) /\ old[k].command = "SUBSCRIBE"
                               /\ \A j \in DOMAIN old : j > k => ~About(d, old[j])
    BY <1>10 DEF Told
  <2>2. ASSUME NEW i \in DOMAIN new, i > At(k)
        PROVE  ~About(d, new[i])
    <3>1. CASE i = Len(a) + 1
      BY <1>7, <3>1
    <3>2. CASE i # Len(a) + 1
      <4>1. PICK j \in DOMAIN old : i = At(j)
        BY <1>5, <3>2
      <4>2. j > k
        BY <1>6, <1>8, <2>2, <4>1
      <4> QED BY <1>4, <2>1, <4>1, <4>2
    <3> QED BY <3>1, <3>2
  <2> QED BY <1>4, <2>1, <2>2 DEF Told
<1> QED BY <1>9, <1>10 DEF old, new, ax

(* The end of the queue is the end of what the broker will be told. *)
LEMMA JoinedLast ==
  ASSUME NEW a \in Seq(Writable), NEW b \in Seq(Writable), NEW x \in Writable
  PROVE  a \o Append(b, x) = Append(a \o b, x)
OBVIOUS

(* A call of the application puts the same into the table and the queue. *)
LEMMA PushAgrees ==
  ASSUME Typed, Shapes, SubscriptionsAgree,
         NEW kind \in Kinds, NEW d \in Destinations, NEW cb \in BOOLEAN, Push(kind, d, cb),
         subscriptions' = CASE kind = "SUBSCRIBE" -> subscriptions \cup {d}
                            [] kind = "UNSUBSCRIBE" -> subscriptions \ {d}
                            [] OTHER -> subscriptions
  PROVE  SubscriptionsAgree'
<1> DEFINE c == Command(kind, d, cb, Len(pushed) + 1)
<1>1. commands' = Append(commands, c) /\ wire' = wire
  BY DEF Push
<1>2. c \in Writable
  <2>1. Len(pushed) < MaxCommands /\ Len(pushed) \in Nat
    BY Held DEF Push
  <2> QED BY <2>1, BoundsAssumption DEF Command, Writable, Queueable
<1>3. \A e : About(e, c) <=> kind \in {"SUBSCRIBE", "UNSUBSCRIBE"} /\ e = d
  BY DEF About, Command
<1>4. c.command = kind
  BY DEF Command
<1> HIDE DEF c
<1>5. commands \in Seq(Writable) /\ wire \in Seq(Writable) /\ wire \o commands \in Seq(Writable)
  BY Held, Joined
<1>6. wire' \o commands' = Append(wire \o commands, c)
  BY <1>1, <1>2, <1>5, JoinedLast
<1>7. ASSUME NEW e \in Destinations
      PROVE  e \in subscriptions' <=> Told(e, wire' \o commands')
  <2>1. Told(e, wire' \o commands') <=>
          IF About(e, c) THEN kind = "SUBSCRIBE" ELSE Told(e, wire \o commands)
    <3>1. \A a \in Seq(Writable) :
            Told(e, Append(a, c)) <=> IF About(e, c) THEN c.command = "SUBSCRIBE" ELSE Told(e, a)
      BY <1>2, ToldLast
    <3>2. Told(e, Append(wire \o commands, c)) <=>
            IF About(e, c) THEN c.command = "SUBSCRIBE" ELSE Told(e, wire \o commands)
      BY <1>5, <3>1
    <3> QED BY <1>4, <1>6, <3>2
  <2> QED BY <1>3, <2>1 DEF SubscriptionsAgree
<1> QED BY <1>7 DEF SubscriptionsAgree

(* CONNECT and acks say nothing about a destination. *)
LEMMA PastAgrees ==
  ASSUME Typed, Shapes, SubscriptionsAgree, NEW x \in Writable,
         x.command \in {"CONNECT", "ACK"},
         wire' = Append(wire, x), UNCHANGED <<commands, subscriptions>>
  PROVE  SubscriptionsAgree'
<1>1. \A d : ~About(d, x)
  BY DEF About
<1> QED BY <1>1, Held, ToldPast DEF SubscriptionsAgree

(* What moves from the queue to the wire keeps its place among the           *)
(* commands.                                                                 *)
LEMMA TransmitAgrees ==
  ASSUME Typed, Shapes, SubscriptionsAgree,
         wire' = wire \o commands, commands' = <<>>, UNCHANGED subscriptions
  PROVE  SubscriptionsAgree'
<1>1. wire' \o commands' = wire \o commands
  BY Held, Joined
<1> QED BY <1>1 DEF SubscriptionsAgree

-----------------------------------------------------------------------------
(* Steps that leave the queue and the wire alone. *)
LEMMA QuietQueue ==
  ASSUME QueueInv, CommandsInOrder, SubscriptionsAgree,
         UNCHANGED <<commands, pushed, wire, subscriptions>>,
         readyState' \in {readyState, "closed"}
  PROVE  QueueInv' /\ CommandsInOrder' /\ SubscriptionsAgree'
<1>1. CommandsInOrder'
  BY DEF CommandsInOrder, Queued
<1>2. QueueInv'
  BY DEF QueueInv
<1> QED BY <1>1, <1>2 DEF SubscriptionsAgree

(* Steps that leave the way of the broker's frames alone. *)
LEMMA QuietStream ==
  ASSUME StreamInv, NeverMixed, UNCHANGED inb
  PROVE  StreamInv' /\ NeverMixed'
BY DEF inb, StreamInv, NeverMixed, Cut

(* The calls of the application. *)
LEMMA ClientStep ==
  ASSUME IInv, Client
  PROVE  IInv'
<1>1. ASSUME NEW kind \in Kinds, NEW d \in Destinations, NEW cb \in BOOLEAN, Push(kind, d, cb),
             subscriptions' = CASE kind = "SUBSCRIBE" -> subscriptions \cup {d}
                                [] kind = "UNSUBSCRIBE" -> subscriptions \ {d}
                                [] OTHER -> subscriptions
      PROVE  IInv'
  <2>1. subscriptions' \subseteq Destinations
    BY <1>1 DEF IInv, Typed
  <2>2. UNCHANGED inb
    BY <1>1 DEF Push
  <2> QED BY <1>1, <2>1, <2>2, PushTyped, PushStep, PushAgrees, QuietStream DEF IInv
<1>2. ASSUME NEW d \in Destinations,
             \/ \E cb \in BOOLEAN : Publish(d, cb)
             \/ Subscribe(d) \/ Unsubscribe(d) \/ \E kind \in Kinds : Control(kind, d)
      PROVE  \E kind \in Kinds, cb \in BOOLEAN :
               /\ Push(kind, d, cb)
               /\ subscriptions' = CASE kind = "SUBSCRIBE" -> subscriptions \cup {d}
                                     [] kind = "UNSUBSCRIBE" -> subscriptions \ {d}
                                     [] OTHER -> subscriptions
  BY <1>2 DEF Publish, Subscribe, Unsubscribe, Control, Kinds
<1>3. ASSUME NEW i \in DOMAIN frames, AckMessage(i)
      PROVE  IInv'
  <2>1. /\ wire' = Append(wire, Ack(i)) /\ UNCHANGED <<readyState, commands, subscriptions, pushed, inb>>
        /\ readyState = "open"
    BY <1>3 DEF AckMessage
  <2>2. Ack(i) \in Writable /\ Ack(i).command = "ACK" /\ Ack(i) # Connect
    <3>1. i \in 1..MaxFrames
      BY BoundsAssumption DEF IInv, Typed, Shapes
    <3> QED BY <3>1, Items DEF Writable
  <2>3. wire # <<>> /\ wire' # <<>>
    BY <2>1, <2>2, Held, Appended DEF IInv, QueueInv
  <2>4. CommandsInOrder'
    BY <2>1, <2>2, <2>3, PastTheQueue DEF IInv
  <2>5. QueueInv'
    BY <2>1, <2>3 DEF IInv, QueueInv
  <2> QED BY <1>3, <2>1, <2>2, <2>4, <2>5, AckTyped, PastAgrees, QuietStream DEF IInv
<1> QED BY <1>1, <1>2, <1>3 DEF Client

(* The timer of the queue. *)
LEMMA ProcessCommandsStep ==
  ASSUME IInv, ProcessCommands
  PROVE  IInv'
<1>1. UNCHANGED <<readyState, subscriptions, pushed, inb>>
  BY DEF ProcessCommands
<1>2. Typed' /\ Shapes' /\ StreamInv' /\ NeverMixed'
  BY <1>1, ProcessCommandsTyped, QuietStream DEF IInv
<1>3. CASE readyState = "open" /\ wire' = wire \o commands /\ commands' = <<>>
  <2>1. wire # <<>>
    BY <1>3 DEF IInv, QueueInv
  <2>2. CommandsInOrder' /\ SubscriptionsAgree'
    BY <1>1, <1>3, <2>1, TransmitStep, TransmitAgrees DEF IInv
  <2>3. wire' # <<>>
    BY <1>3, <2>1, Held, Joined DEF IInv
  <2>4. Len(commands') <= Len(pushed')
    BY <1>1, <1>3, Held DEF IInv
  <2>5. QueueInv'
    BY <1>1, <1>3, <2>3, <2>4 DEF IInv, QueueInv
  <2> QED BY <1>2, <2>2, <2>5 DEF IInv
<1>4. CASE UNCHANGED <<commands, wire>>
  BY <1>1, <1>2, <1>4, QuietQueue DEF IInv
<1> QED BY <1>3, <1>4 DEF ProcessCommands, Transmit

(* The socket and the broker. *)
LEMMA NetworkStep ==
  ASSUME IInv, Network
  PROVE  IInv'
<1>1. CASE Open
  <2>1. /\ readyState = "opening" /\ readyState' = "open" /\ wire' = Append(wire, Connect)
        /\ UNCHANGED <<commands, subscriptions, pushed, inb>>
    BY <1>1 DEF Open
  <2>2. Connect \in Writable /\ Connect.command = "CONNECT" /\ wire = <<>>
    BY <2>1, Items DEF Writable, IInv, QueueInv
  <2>3. CommandsInOrder' /\ SubscriptionsAgree'
    BY <2>1, <2>2, PastTheQueue, PastAgrees DEF IInv
  <2>4. wire' # <<>>
    BY <2>1, <2>2, Held, Appended DEF IInv
  <2>5. QueueInv'
    BY <2>1, <2>4 DEF IInv, QueueInv
  <2> QED BY <1>1, <2>1, <2>3, <2>5, OpenTyped, QuietStream DEF IInv
<1>2. CASE Close
  <2>1. UNCHANGED <<commands, pushed, wire, subscriptions, inb>> /\ readyState' = "closed"
    BY <1>2 DEF Close, out
  <2> QED BY <1>2, <2>1, CloseTyped, QuietQueue, QuietStream DEF IInv
<1>3. CASE Drain
  <2>1. UNCHANGED <<commands, pushed, wire, subscriptions, inb, readyState>>
    BY <1>3 DEF Drain
  <2> QED BY <1>3, <2>1, DrainTyped, QuietQueue, QuietStream DEF IInv
<1>4. ASSUME NEW d \in Destinations, BrokerSends(d)
      PROVE  IInv'
  <2>1. UNCHANGED <<commands, pushed, wire, subscriptions, readyState>>
    BY <1>4 DEF BrokerSends, out
  <2> QED BY <1>4, <2>1, BrokerSendsTyped, BrokerSendsStep, QuietQueue DEF IInv
<1>5. ASSUME NEW n \in DOMAIN stream, Data(n)
      PROVE  IInv'
  <2>1. UNCHANGED <<commands, pushed, wire, subscriptions, readyState>>
    BY <1>5 DEF Data, out
  <2> QED BY <1>5, <2>1, DataStep, QuietQueue DEF IInv
<1> QED BY <1>1, <1>2, <1>3, <1>4, <1>5 DEF Network

(* The first state. *)
LEMMA InitIInv == Init => IInv
<1> SUFFICES ASSUME Init PROVE IInv
  OBVIOUS
<1>1. /\ commands = <<>> /\ pushed = <<>> /\ wire = <<>> /\ stream = <<>> /\ frames = <<>>
      /\ delivered = <<>> /\ called = <<>> /\ listening = {} /\ subscriptions = {}
      /\ readyState = "opening" /\ running = TRUE /\ armed = TRUE /\ full = FALSE
  BY DEF Init
<1>2. ToSet(commands) = {} /\ ToSet(pushed) = {}
  BY <1>1 DEF ToSet
<1>3. Typed /\ Shapes
  <2>1. \A S : <<>> \in Seq(S)
    BY EmptySeq
  <2>2. Shapes
    BY <1>1, <2>1, BoundsAssumption DEF Shapes
  <2>3. Typed
    <3>1. called \in Seq(0..2) /\ Len(called) = Len(pushed) /\ frames \in Seq(Destinations)
      BY <1>1, <2>1
    <3>2. \A i \in DOMAIN delivered : FALSE
      BY <1>1
    <3>3. ToSet(commands) \cup ToSet(pushed) = {}
      BY <1>2
    <3> QED BY <1>1, <3>1, <3>2, <3>3 DEF Typed
  <2> QED BY <2>2, <2>3
<1>4. QueueInv /\ CommandsInOrder
  <2>1. Queued = {} /\ Len(pushed) - Len(commands) = 0 /\ DOMAIN commands = {} /\ DOMAIN wire = {}
    BY <1>1 DEF Queued
  <2>2. \A n \in 1..0 : FALSE
    OBVIOUS
  <2> QED BY <1>1, <2>1, <2>2 DEF QueueInv, CommandsInOrder
<1>5. SubscriptionsAgree
  <2>1. DOMAIN (wire \o commands) = {}
    BY <1>1, <1>3, Held, Joined
  <2> QED BY <1>1, <2>1 DEF SubscriptionsAgree, Told
<1>6. StreamInv /\ NeverMixed
  BY <1>1 DEF StreamInv, NeverMixed, Cut
<1> QED BY <1>3, <1>4, <1>5, <1>6 DEF IInv

(* One of the actions is taken. *)
LEMMA NextIInv == IInv /\ [Next]_vars => IInv'
<1> SUFFICES ASSUME IInv, [Next]_vars PROVE IInv'
  OBVIOUS
<1>1. CASE UNCHANGED vars
  <2>1. UNCHANGED <<readyState, running, subscriptions, armed, commands, full, listening, called,
                    wire, frames, stream, delivered, pushed, inb>>
    BY <1>1 DEF vars, out, inb
  <2>2. Typed' /\ Shapes'
    BY <2>1 DEF IInv, Typed, Shapes
  <2> QED BY <2>1, <2>2, QuietQueue, QuietStream DEF IInv
<1>2. CASE Events
  BY <1>1, <1>2, ProcessCommandsStep, NetworkStep DEF Events, ProcessMessages, Exited
<1> QED BY <1>1, <1>2, ClientStep DEF Next

(* IInv holds in every state of the client. *)
LEMMA Invariant == Spec => []IInv
BY InitIInv, NextIInv, PTL DEF Spec

-----------------------------------------------------------------------------
(* The timer calls back, or makes wait, commands that it takes out of the    *)
(* queue: none of them had been called.                                      *)
LEMMA ProcessCommandsCalls ==
  ASSUME IInv, CalledWhenWritten, ProcessCommands
  PROVE  CalledWhenWritten'
<1> DEFINE gone == Len(pushed) - Len(commands)
<1>1. /\ Len(commands) \in Nat /\ Len(pushed) \in Nat
      /\ DOMAIN commands = 1..Len(commands) /\ DOMAIN pushed = 1..Len(pushed)
  BY Held DEF IInv
<1>2. /\ called \in Seq(0..2) /\ DOMAIN called = 1..Len(pushed) /\ pushed' = pushed
  BY <1>1 DEF IInv, Typed, ProcessCommands
<1>3. ASSUME NEW k \in 1..Len(commands)
      PROVE  /\ commands[k].id = gone + k /\ gone + k \in 1..Len(pushed)
             /\ pushed[gone + k] = commands[k]
  BY <1>1 DEF IInv, QueueInv, CommandsInOrder
<1>4. CASE readyState = "open" /\ commands' = <<>> /\ \E taken \in 0..Len(commands) : Transmit(commands, taken)
  <2>1. PICK taken \in 0..Len(commands) : Transmit(commands, taken)
    BY <1>4
  <2> DEFINE Written(id) == \E j \in 1..taken : commands[j].id = id /\ commands[j].callback
             Waits(id) == \E j \in (taken + 1)..Len(commands) : commands[j].id = id /\ commands[j].callback
  <2>2. /\ called' = [id \in DOMAIN called |->
                        IF Written(id) THEN Twice(called[id]) ELSE called[id]]
        /\ listening' = listening \cup {id \in DOMAIN called : Waits(id)}
    BY <2>1 DEF Transmit
  <2>3. \A id : Written(id) \/ Waits(id) => gone < id /\ pushed[id].callback
    <3>1. ASSUME NEW id, NEW j \in 1..Len(commands), commands[j].id = id, commands[j].callback
          PROVE  gone < id /\ pushed[id].callback
      BY <1>1, <1>3, <3>1
    <3> QED BY <1>1, <3>1
  <2>4. DOMAIN called' = DOMAIN called /\ Len(pushed') - Len(commands') = Len(pushed)
    BY <1>1, <1>2, <1>4, <2>2
  <2> HIDE DEF Written, Waits
  <2>5. ASSUME NEW id \in DOMAIN called
        PROVE  /\ called'[id] > 0 \/ id \in listening' =>
                    id <= Len(pushed') - Len(commands') /\ pushed'[id].callback
               /\ called'[id] = 2 => id \in listening'
    <3>1. /\ called[id] \in 0..2 /\ id \in 1..Len(pushed) /\ id <= Len(pushed) /\ id \in Nat
      BY <1>2
    <3>2. /\ called[id] > 0 \/ id \in listening => id <= gone /\ pushed[id].callback
          /\ called[id] = 2 => id \in listening
      BY DEF CalledWhenWritten
    <3>3. CASE Written(id)
      <4>1. gone < id /\ pushed[id].callback
        BY <2>3, <3>3
      <4>2. called[id] = 0
        <5>1. gone \in Int
          BY <1>1
        <5> HIDE DEF gone
        <5> QED BY <3>1, <3>2, <4>1, <5>1
      <4>3. called'[id] = 1
        BY <2>2, <3>3, <4>2 DEF Twice
      <4> QED BY <1>2, <2>4, <3>1, <4>1, <4>3
    <3>4. CASE ~Written(id)
      <4>1. called'[id] = called[id] /\ (id \in listening' => id \in listening \/ Waits(id))
        BY <2>2, <3>4
      <4>2. listening \subseteq listening'
        BY <2>2
      <4> QED BY <1>2, <2>3, <2>4, <3>1, <3>2, <4>1, <4>2
    <3> QED BY <3>3, <3>4
  <2> QED BY <2>4, <2>5 DEF CalledWhenWritten
<1>5. CASE UNCHANGED <<commands, listening, called>>
  BY <1>2, <1>5 DEF CalledWhenWritten
<1>6. DOMAIN commands = 1..Len(commands) /\ 0 \in 0..Len(commands)
  BY <1>1
<1> QED BY <1>4, <1>5, <1>6 DEF ProcessCommands

(* A drain calls those that wait. *)
LEMMA DrainCalls ==
  ASSUME IInv, CalledWhenWritten, Drain
  PROVE  CalledWhenWritten'
<1>1. /\ UNCHANGED <<commands, listening, pushed>>
      /\ called' = [id \in DOMAIN called |->
                      IF id \in listening THEN Twice(called[id]) ELSE called[id]]
  BY DEF Drain
<1> QED BY <1>1 DEF CalledWhenWritten

(* A command that is queued has not been called. *)
LEMMA PushCalls ==
  ASSUME IInv, CalledWhenWritten, NEW kind \in Kinds, NEW d \in Destinations, NEW cb \in BOOLEAN,
         Push(kind, d, cb)
  PROVE  CalledWhenWritten'
<1> DEFINE c == Command(kind, d, cb, Len(pushed) + 1)
<1>1. /\ commands' = Append(commands, c) /\ pushed' = Append(pushed, c) /\ called' = Append(called, 0)
      /\ listening' = listening
  BY DEF Push
<1>2. /\ commands \in Seq(Queueable) /\ pushed \in Seq(Queueable)
      /\ Len(commands) \in Nat /\ Len(pushed) \in Nat
  BY Held DEF IInv
<1>3. called \in Seq(0..2) /\ Len(called) = Len(pushed) /\ listening \subseteq DOMAIN called
  BY DEF IInv, Typed
<1> HIDE DEF c
<1>4. /\ Len(pushed') - Len(commands') = Len(pushed) - Len(commands)
      /\ DOMAIN called = 1..Len(pushed) /\ DOMAIN called' = 1..(Len(pushed) + 1)
      /\ \A id \in 1..Len(pushed) : called'[id] = called[id] /\ pushed'[id] = pushed[id]
      /\ called'[Len(pushed) + 1] = 0 /\ Len(pushed) + 1 \notin listening
  BY <1>1, <1>2, <1>3
<1> QED BY <1>1, <1>2, <1>4 DEF CalledWhenWritten

LEMMA NextCalls ==
  ASSUME IInv, CalledWhenWritten, [Next]_vars
  PROVE  CalledWhenWritten'
<1>1. CASE UNCHANGED <<commands, listening, called, pushed>>
  BY <1>1 DEF CalledWhenWritten
<1>2. CASE UNCHANGED vars
  BY <1>1, <1>2 DEF vars, out
<1>3. ASSUME Client PROVE CalledWhenWritten'
  <2>1. ASSUME NEW d \in Destinations,
               \/ \E cb \in BOOLEAN : Publish(d, cb)
               \/ Subscribe(d) \/ Unsubscribe(d) \/ \E kind \in Kinds : Control(kind, d)
        PROVE  CalledWhenWritten'
    <3>1. \E kind \in Kinds, cb \in BOOLEAN : Push(kind, d, cb)
      BY <2>1 DEF Publish, Subscribe, Unsubscribe, Control, Kinds
    <3> QED BY <3>1, PushCalls
  <2>2. ASSUME NEW i \in DOMAIN frames, AckMessage(i) PROVE CalledWhenWritten'
    BY <1>1, <2>2 DEF AckMessage
  <2> QED BY <1>3, <2>1, <2>2 DEF Client
<1>4. ASSUME Events PROVE CalledWhenWritten'
  <2>1. ASSUME Open \/ Close \/ (\E d \in Destinations : BrokerSends(d))
                 \/ (\E n \in DOMAIN stream : Data(n))
        PROVE  CalledWhenWritten'
    BY <1>1, <2>1 DEF Open, Close, BrokerSends, Data, out
  <2> QED BY <1>2, <1>4, <2>1, ProcessCommandsCalls, DrainCalls
          DEF Events, Network, ProcessMessages, Exited
<1> QED BY <1>2, <1>3, <1>4 DEF Next

(* The client's state is well formed, and a callback that was called or      *)
(* waits for a drain is that of a command written to the socket.             *)
(* (stomp.js:56-84.)                                                         *)
THEOREM TypeCorrect == Spec => []TypeOK
<1>1. Init => CalledWhenWritten
  BY DEF Init, CalledWhenWritten
<1>2. IInv /\ CalledWhenWritten /\ [Next]_vars => CalledWhenWritten'
  BY NextCalls
<1>3. IInv /\ CalledWhenWritten => TypeOK
  BY DEF IInv, TypeOK
<1> QED BY <1>1, <1>2, <1>3, Invariant, PTL DEF Spec

(* stomp.js:78: what is queued reaches the socket in the order of the calls, *)
(* once and completely, and behind CONNECT.                                  *)
THEOREM QueueIsKept == Spec => []CommandsInOrder
<1>1. IInv => CommandsInOrder
  BY DEF IInv
<1> QED BY <1>1, Invariant, PTL

(* stomp.js:148-164: the table of callbacks is what the broker will have     *)
(* been told when the queue is empty.                                        *)
THEOREM TableAgrees == Spec => []SubscriptionsAgree
<1>1. IInv => SubscriptionsAgree
  BY DEF IInv
<1> QED BY <1>1, Invariant, PTL

(* However TCP cuts the stream, no callback gets the bytes of two frames,    *)
(* and none gets a frame twice or behind a later one.                        *)
THEOREM FramesStayApart == Spec => []NeverMixed
<1>1. IInv => NeverMixed
  BY DEF IInv
<1> QED BY <1>1, Invariant, PTL

-----------------------------------------------------------------------------
(* A data event that begins with a frame hands over each whole frame in it.  *)
LEMMA WholeFrames ==
  ASSUME IInv, NEW n \in DOMAIN stream, Data(n),
         NEW i \in DOMAIN frames, stream[1].part = "start",
         {p \in DOMAIN stream : stream[p].frame = i} # {},
         \A p \in DOMAIN stream : stream[p].frame = i => p <= n,
         frames[i] \in subscriptions
  PROVE  \E k \in DOMAIN delivered' : delivered'[k] = [frame |-> i, body |-> Body]
<1> DEFINE data == SubSeq(stream, 1, n)
           s == 6 * (i - 1) + 1 - Cut
<1>1. /\ Len(frames) \in Nat /\ DOMAIN frames = 1..Len(frames) /\ i \in Nat
      /\ Len(stream) \in Nat /\ DOMAIN stream = 1..Len(stream) /\ n \in 1..Len(stream)
      /\ Cut \in Int /\ Cut = 6 * Len(frames) - Len(stream)
  BY Counts DEF IInv
<1>2. /\ data \in Seq(Byte) /\ Len(data) = n
      /\ \A p \in 1..n : p \in DOMAIN stream /\ data[p] = stream[p]
  BY <1>1, DataFacts DEF IInv
<1> HIDE DEF data
<1>3. PICK j \in DOMAIN frames : Cut + 1 = 6 * (j - 1) + 1
  <2>1. 1 \in DOMAIN stream
    BY <1>1
  <2>2. PICK j \in DOMAIN frames, k \in 1..6 :
          Cut + 1 = 6 * (j - 1) + k /\ stream[1].part = Parts[k]
    BY <2>1, PlaceOf DEF IInv
  <2> QED BY <2>2, PartsAre
<1>0. PICK a, b \in Int : a = 6 * (j - 1) /\ b = 6 * (i - 1) /\ a = Cut /\ s = b + 1 - Cut
  <2>1. i \in Int /\ j \in Int /\ Cut \in Int
    BY <1>1
  <2>2. 6 * (j - 1) \in Int /\ 6 * (i - 1) \in Int
    BY <2>1
  <2>3. 6 * (j - 1) = Cut
    BY <1>3, <2>1, <2>2
  <2> QED BY <2>2, <2>3
<1> HIDE DEF s
<1>4. b >= Cut
  <2>1. PICK p \in DOMAIN stream : stream[p].frame = i
    OBVIOUS
  <2>2. PICK k \in 1..6 : Cut + p = 6 * (i - 1) + k
    BY <2>1, PlaceOf DEF IInv
  <2>3. a + p = b + k
    BY <1>0, <2>2
  <2>4. j \in Nat /\ p \in Nat /\ p >= 1
    BY <1>1
  <2>5. b + 5 >= a
    BY <1>0, <2>3, <2>4
  <2>6. \A x, y \in Nat : 6 * (x - 1) + 5 >= 6 * (y - 1) => 6 * (x - 1) >= 6 * (y - 1)
    OBVIOUS
  <2>7. 6 * (i - 1) + 5 >= 6 * (j - 1)
    BY <1>0, <2>5
  <2>8. 6 * (i - 1) >= 6 * (j - 1)
    BY <1>1, <2>4, <2>6, <2>7
  <2> QED BY <1>0, <2>8
<1>5. ASSUME NEW k \in 1..6
      PROVE  /\ s + k - 1 \in 1..n
             /\ stream[s + k - 1].frame = i /\ stream[s + k - 1].part = Parts[k]
  <2>1. 6 * (i - 1) + k > Cut /\ 6 * (i - 1) + k - Cut = s + k - 1
    <3>1. Cut \in Int /\ s \in Int /\ s = b + 1 - Cut /\ b >= Cut
      BY <1>0, <1>4
    <3>2. b + k > Cut /\ b + k - Cut = s + k - 1
      BY <3>1
    <3> QED BY <1>0, <3>2
  <2>2. /\ s + k - 1 \in DOMAIN stream /\ stream[s + k - 1].frame = i
        /\ stream[s + k - 1].part = Parts[k]
    BY <2>1, ByteAt DEF IInv
  <2> QED BY <1>1, <2>2
<1>6. /\ s \in 1..n /\ s + 5 \in 1..n /\ stream[s].frame = i /\ stream[s].part = "start"
  <2>1. s \in Int
    BY <1>0
  <2>2. s + 1 - 1 = s /\ s + 6 - 1 = s + 5
    BY <2>1
  <2> QED BY <1>5, <2>2, PartsAre
<1>7. Separators(data) \subseteq 1..(n - 1)
  BY <1>2, Ends
<1>8. \A t \in Starts(data) : t <= s => EndOf(data, t) >= t
  <2> SUFFICES ASSUME NEW t \in Starts(data), t <= s PROVE EndOf(data, t) >= t
    OBVIOUS
  <2>1. t \in 1..n
    BY <1>1, <1>6, <1>7 DEF Starts
  <2>2. stream[t].part = "start"
    <3>1. CASE t = 1
      BY <3>1
    <3>2. ASSUME NEW q \in Separators(data), t = q + 2
          PROVE  stream[t].part = "start"
      <4>1. q + 1 \in 1..n /\ stream[q + 1].part = "nl"
        BY <1>1, <1>2, <1>7 DEF Separators
      <4>2. PICK f \in DOMAIN frames, l \in 1..6 :
              Cut + (q + 1) = 6 * (f - 1) + l /\ stream[q + 1].part = Parts[l]
        BY <1>2, <4>1, PlaceOf DEF IInv
      <4>3. l = 6
        BY <4>1, <4>2, PartsAre
      <4>4. PICK g \in DOMAIN frames, m \in 1..6 :
              Cut + t = 6 * (g - 1) + m /\ stream[t].part = Parts[m]
        BY <1>2, <2>1, PlaceOf DEF IInv
      <4>5. f \in Nat /\ g \in Nat /\ q \in Nat
        BY <1>1, <1>7
      <4>6. m = 1
        <5>1. 6 * (g - 1) + m = (6 * (f - 1) + 6) + 1
          BY <1>1, <3>2, <4>2, <4>3, <4>4, <4>5
        <5> QED BY <4>5, <5>1
      <4> QED BY <4>4, <4>6, PartsAre
    <3> QED BY <3>1, <3>2 DEF Starts
  <2>3. EndOf(data, t) \in t..n
    BY <1>1, <2>1, <2>2, PieceOf DEF IInv, data
  <2> QED BY <1>1, <2>1, <2>3
<1>9. s \in Starts(data)
  <2>1. CASE s = 1
    BY <2>1 DEF Starts
  <2>2. CASE s > 1
    <3>1. i > j
      BY <1>1, <1>3, <2>2 DEF s
    <3>2. i - 1 \in DOMAIN frames /\ 6 * ((i - 1) - 1) + 5 > Cut /\ 6 * ((i - 1) - 1) + 6 > Cut
      BY <1>1, <1>3, <3>1
    <3>3. 6 * ((i - 1) - 1) + 5 - Cut = s - 2 /\ 6 * ((i - 1) - 1) + 6 - Cut = s - 1
      BY <1>1 DEF s
    <3>4. /\ s - 2 \in DOMAIN stream /\ stream[s - 2].part = "nul"
          /\ s - 1 \in DOMAIN stream /\ stream[s - 1].part = "nl"
      BY <3>2, <3>3, ByteAt, PartsAre DEF IInv
    <3>5. s - 2 \in 1..(n - 1) /\ s - 1 \in 1..n /\ s - 2 \in 1..n /\ (s - 2) + 1 = s - 1
      BY <1>1, <1>6, <3>4
    <3>6. s - 2 \in Separators(data)
      BY <1>2, <3>4, <3>5 DEF Separators
    <3> QED BY <1>6, <3>6 DEF Starts
  <2> QED BY <1>6, <2>1, <2>2
<1>10. s \in Handled(data)
  BY <1>8, <1>9 DEF Handled
<1>11. ProcessMessage(Piece(data, s))
  <2> DEFINE e == EndOf(data, s)
  <2>1. e = s + 3 /\ e \in s..n
    BY <1>1, <1>6, PieceOf DEF IInv, data
  <2>2. \A q \in s..e : data[q] \in Byte
    BY <1>1, <1>2, <1>6, <2>1
  <2>3. /\ Len(SubSeq(data, s, e)) = IF s <= e THEN e - s + 1 ELSE 0
        /\ \A q \in 1..(e - s + 1) : SubSeq(data, s, e)[q] = data[s + q - 1]
    BY <1>6, <2>1, <2>2, SubSeqProperties
  <2>4. 1 \in 1..(e - s + 1) /\ s + 1 - 1 = s /\ s <= e /\ e - s + 1 = 4
    BY <1>6, <2>1
  <2>5. Len(Piece(data, s)) = 4 /\ Piece(data, s)[1] = data[s]
    BY <2>3, <2>4 DEF Piece
  <2> QED BY <1>2, <1>6, <2>5 DEF ProcessMessage, Parse
<1>12. s \in Calls(data)
  BY <1>10, <1>11 DEF Calls
<1>13. data[s].frame = i /\ BodyOf(Piece(data, s)) = Body
  <2>1. n >= s + 5
    BY <1>1, <1>6
  <2> QED BY <1>1, <1>2, <1>6, <1>12, <2>1, CallsOf DEF IInv, data
<1>14. PICK turn \in Seq(Calls(data)) :
        /\ ToSet(turn) = Calls(data)
        /\ Len(delivered') = Len(delivered) + Len(turn)
        /\ delivered' \in Seq(Delivery)
        /\ \A k \in DOMAIN turn : delivered'[Len(delivered) + k] =
             [frame |-> data[turn[k]].frame, body |-> BodyOf(Piece(data, turn[k]))]
  BY <1>2, Delivers DEF Data, IInv, data
<1>15. PICK k \in DOMAIN turn : turn[k] = s
  BY <1>12, <1>14 DEF ToSet
<1>16. Len(delivered) + k \in DOMAIN delivered'
  <2>1. Len(delivered) \in Nat
    BY DEF IInv, Shapes
  <2> QED BY <1>14, <1>15, <2>1
<1> QED BY <1>13, <1>14, <1>15, <1>16

(* The damage of a cut ends with the next data event that begins with a      *)
(* frame: it hands over every whole frame that it brings.  (stomp.js: the    *)
(* data listener and its while.)                                             *)
THEOREM CutsHeal == Spec => Resynchronizes
<1> DEFINE Healed ==
      \A i \in DOMAIN frames :
        LET mine == {p \in DOMAIN stream : stream[p].frame = i}
            gone == Len(stream) - Len(stream')
        IN  /\ gone > 0 /\ stream[1].part = "start"
            /\ Cardinality(mine) = Len(Parts) /\ \A p \in mine : p <= gone
            /\ frames[i] \in subscriptions
            => \E k \in DOMAIN delivered' : delivered'[k] = [frame |-> i, body |-> Body]
<1>1. ASSUME IInv, [Next]_vars PROVE [Healed]_vars
  <2> SUFFICES ASSUME NEW i \in DOMAIN frames, Len(stream) - Len(stream') > 0,
                      stream[1].part = "start",
                      Cardinality({p \in DOMAIN stream : stream[p].frame = i}) = Len(Parts),
                      \A p \in DOMAIN stream : stream[p].frame = i => p <= Len(stream) - Len(stream'),
                      frames[i] \in subscriptions
               PROVE  \E k \in DOMAIN delivered' : delivered'[k] = [frame |-> i, body |-> Body]
    OBVIOUS
  <2>1. Len(stream) \in Nat /\ DOMAIN stream = 1..Len(stream)
    BY <1>1, Counts DEF IInv
  <2>2. stream' # stream
    BY <2>1
  <2>3. CASE \E n \in DOMAIN stream : Data(n)
    <3>1. PICK n \in DOMAIN stream : Data(n)
      BY <2>3
    <3>2. Len(stream) - Len(stream') = n
      <4>1. Len(stream') = Len(stream) - n
        BY <1>1, <3>1, DataStep DEF IInv
      <4> QED BY <2>1, <4>1
    <3>3. {p \in DOMAIN stream : stream[p].frame = i} # {}
      <4> DEFINE mine == {p \in DOMAIN stream : stream[p].frame = i}
      <4>1. Len(Parts) = 6 /\ Cardinality(mine) = Len(Parts)
        BY DEF Parts
      <4>2. Cardinality({}) = 0
        BY FS_EmptySet
      <4> HIDE DEF mine
      <4>3. ASSUME mine = {} PROVE FALSE
        <5>1. Cardinality(mine) = 0
          BY <4>2, <4>3
        <5> QED BY <4>1, <5>1
      <4> QED BY <4>3 DEF mine
    <3> QED BY <1>1, <3>1, <3>2, <3>3, WholeFrames
  <2>4. ASSUME NEW d \in Destinations, BrokerSends(d)
        PROVE  FALSE
    <3>1. Cut' = Cut /\ Len(frames') = Len(frames) + 1 /\ Typed' /\ Shapes'
      BY <1>1, <2>4, BrokerSendsStep, BrokerSendsTyped DEF IInv
    <3>2. Len(frames) \in Nat /\ Len(stream') \in Nat
      BY <1>1, <3>1 DEF IInv, Typed, Shapes
    <3> QED BY <2>1, <3>1, <3>2 DEF Cut
  <2>5. CASE Client \/ ProcessCommands \/ Open \/ Close \/ Drain \/ UNCHANGED vars
    BY <2>2, <2>5 DEF Client, Publish, Subscribe, Unsubscribe, Control, Push, AckMessage,
       ProcessCommands, Open, Close, Drain, vars, inb
  <2> QED BY <1>1, <2>3, <2>4, <2>5 DEF Next, Events, Network, ProcessMessages, Exited
<1> QED BY <1>1, Invariant, PTL DEF Spec, Resynchronizes

-----------------------------------------------------------------------------
(* The frames whose first byte has been brought are those before FirstOpen.  *)
LEMMA FirstOpenIs ==
  ASSUME Typed, Shapes, StreamInv
  PROVE  /\ FirstOpen \in 1..(Len(frames) + 1)
         /\ \A i \in DOMAIN frames : i < FirstOpen <=> 6 * (i - 1) < Cut
<1> DEFINE starts == {q \in DOMAIN stream : stream[q].part = "start"}
           open == {stream[p].frame : p \in starts}
<1>1. /\ Len(frames) \in Nat /\ DOMAIN frames = 1..Len(frames) /\ Cut \in Int
      /\ DOMAIN stream = 1..Len(stream) /\ Len(stream) \in Nat
  BY Counts
<1>2. ASSUME NEW i \in DOMAIN frames, 6 * (i - 1) >= Cut
      PROVE  i \in open
  <2>1. 6 * (i - 1) + 1 > Cut
    BY <1>1, <1>2
  <2>2. 1 \in 1..6
    OBVIOUS
  <2>3. /\ 6 * (i - 1) + 1 - Cut \in starts
        /\ stream[6 * (i - 1) + 1 - Cut].frame = i
    BY <2>1, <2>2, ByteAt, PartsAre
  <2> QED BY <2>3
<1>3. ASSUME NEW i \in open
      PROVE  i \in DOMAIN frames /\ 6 * (i - 1) >= Cut
  <2>1. PICK p \in starts : stream[p].frame = i
    BY <1>3
  <2>2. PICK j \in DOMAIN frames, k \in 1..6 :
          Cut + p = 6 * (j - 1) + k /\ stream[p].frame = j /\ stream[p].part = Parts[k]
    BY PlaceOf
  <2>3. k = 1 /\ j = i /\ p \in Nat /\ p >= 1 /\ i \in Nat
    BY <1>1, <2>1, <2>2, PartsAre
  <2>4. Cut + p = 6 * (i - 1) + 1
    BY <2>2, <2>3
  <2> QED BY <1>1, <2>2, <2>3, <2>4
<1>4. CASE open = {}
  <2>1. FirstOpen = Len(frames) + 1
    BY <1>4 DEF FirstOpen
  <2>2. ASSUME NEW i \in DOMAIN frames
        PROVE  i < Len(frames) + 1 /\ 6 * (i - 1) < Cut
    <3>1. ~(6 * (i - 1) >= Cut)
      BY <1>2, <1>4
    <3> QED BY <1>1, <3>1
  <2> QED BY <1>1, <2>1, <2>2
<1>5. CASE open # {}
  <2> DEFINE least == CHOOSE i \in open : \A j \in open : i <= j
  <2>1. open \subseteq Nat
    BY <1>1, <1>3
  <2>2. \E i \in open : \A j \in open : i <= j
    BY <1>5, <2>1, Least
  <2>3. least \in open /\ \A j \in open : least <= j
    BY <2>2
  <2>4. FirstOpen = least
    BY <1>5 DEF FirstOpen
  <2> HIDE DEF least
  <2>5. least \in DOMAIN frames /\ 6 * (least - 1) >= Cut
    BY <1>3, <2>3
  <2>6. ASSUME NEW i \in DOMAIN frames
        PROVE  i < least <=> 6 * (i - 1) < Cut
    <3>1. CASE i < least
      <4>1. i \notin open
        <5>1. i \in Nat /\ least \in Nat /\ ~(least <= i)
          BY <1>1, <2>5, <3>1
        <5> QED BY <2>3, <5>1
      <4>2. ~(6 * (i - 1) >= Cut)
        BY <1>2, <4>1
      <4> QED BY <1>1, <3>1, <4>2
    <3>2. CASE i >= least
      <4>1. ~(6 * (i - 1) < Cut)
        BY <1>1, <2>5, <3>2
      <4> QED BY <1>1, <2>5, <3>2, <4>1
    <3> QED BY <1>1, <2>5, <3>1, <3>2
  <2> QED BY <1>1, <2>4, <2>5, <2>6
<1> QED BY <1>4, <1>5

(* FirstOpenIs, after a step. *)
LEMMA NextFirstOpen ==
  (Typed /\ Shapes /\ StreamInv)' =>
    (/\ FirstOpen \in 1..(Len(frames) + 1)
     /\ \A i \in DOMAIN frames : i < FirstOpen <=> 6 * (i - 1) < Cut)'
<1>1. Typed /\ Shapes /\ StreamInv =>
        (/\ FirstOpen \in 1..(Len(frames) + 1)
         /\ \A i \in DOMAIN frames : i < FirstOpen <=> 6 * (i - 1) < Cut)
  BY FirstOpenIs
<1> QED BY <1>1, PTL

(* What went into the channel: the numbers of the frames sent.               *)
Sent == [i \in DOMAIN frames |-> i]

(* What came out of the channel: the numbers of the frames. *)
Got == [i \in DOMAIN delivered |-> delivered[i].frame]

(* A frame that the broker sends goes into the channel. *)
LEMMA BrokerSendsAccepts ==
  ASSUME IInv, NEW d \in Destinations, BrokerSends(d)
  PROVE  Inbound!Accept
<1>1. /\ Cut' = Cut /\ StreamInv' /\ Typed' /\ Shapes' /\ Len(frames') = Len(frames) + 1
      /\ UNCHANGED delivered
  BY BrokerSendsStep, BrokerSendsTyped DEF IInv, BrokerSends
<1>2. /\ FirstOpen \in 1..(Len(frames) + 1)
      /\ \A i \in DOMAIN frames : i < FirstOpen <=> 6 * (i - 1) < Cut
  BY FirstOpenIs DEF IInv
<1>3. /\ FirstOpen' \in 1..(Len(frames') + 1)
      /\ \A i \in DOMAIN frames' : i < FirstOpen' <=> 6 * (i - 1) < Cut'
  BY <1>1, NextFirstOpen
<1>4. /\ Len(frames) \in Nat /\ DOMAIN frames = 1..Len(frames) /\ Len(stream) \in Nat
      /\ Cut \in Int /\ Cut = 6 * Len(frames) - Len(stream)
  BY Counts DEF IInv
<1>5. DOMAIN frames' = 1..(Len(frames) + 1)
  BY <1>1 DEF Typed
<1>6. FirstOpen' = FirstOpen
  <2>1. FirstOpen' <= Len(frames) + 1
    <3>1. Len(frames) + 1 \in DOMAIN frames' /\ ~(6 * ((Len(frames) + 1) - 1) < Cut)
      BY <1>4, <1>5
    <3>2. ~(Len(frames) + 1 < FirstOpen')
      BY <1>1, <1>3, <3>1
    <3> QED BY <1>1, <1>3, <1>4, <3>2
  <2>2. ~(FirstOpen < FirstOpen')
    BY <1>1, <1>2, <1>3, <1>4, <1>5, <2>1
  <2>3. ~(FirstOpen' < FirstOpen)
    BY <1>1, <1>2, <1>3, <1>4, <1>5, <2>1
  <2> QED BY <1>1, <1>2, <1>3, <1>4, <2>2, <2>3
<1>7. /\ Len(Sent) = Len(frames) /\ Len(Sent') = Len(frames) + 1
      /\ SubSeq(Sent', 1, Len(Sent)) = Sent
  BY <1>4, <1>5 DEF Sent
<1>8. Len(Sent') >= Len(Sent)
  BY <1>4, <1>7
<1> QED BY <1>1, <1>6, <1>7, <1>8 DEF Inbound!Accept, Sent

(* The frames that a data event brings to the callbacks come out of the      *)
(* channel, in their order; those of which it brings no whole header are     *)
(* lost.                                                                     *)
LEMMA DataPasses ==
  ASSUME IInv, NEW n \in DOMAIN stream, Data(n)
  PROVE  Inbound!Pass \/ UNCHANGED Inbound!channel
<1> DEFINE data == SubSeq(stream, 1, n)
<1>1. /\ Len(frames) \in Nat /\ DOMAIN frames = 1..Len(frames) /\ Cut \in Int
      /\ n \in 1..Len(stream) /\ Len(stream) \in Nat
  BY Counts DEF IInv
<1>2. data \in Seq(Byte)
  BY <1>1, DataFacts DEF IInv
<1>3. /\ Typed' /\ Shapes' /\ StreamInv' /\ NeverMixed' /\ Cut' = Cut + n /\ UNCHANGED frames
  BY <1>1, DataStep DEF IInv, Data
<1>4. PICK turn \in Seq(Calls(data)) :
        /\ Len(delivered') = Len(delivered) + Len(turn)
        /\ delivered' \in Seq(Delivery)
        /\ \A j \in DOMAIN delivered : delivered'[j] = delivered[j]
        /\ \A k \in DOMAIN turn : delivered'[Len(delivered) + k] =
             [frame |-> data[turn[k]].frame, body |-> BodyOf(Piece(data, turn[k]))]
  BY <1>2, Delivers DEF Data, IInv
<1>5. \A s \in Calls(data) :
        s \in 1..n /\ data[s].frame \in DOMAIN frames /\ Cut + s = 6 * (data[s].frame - 1) + 1
  BY <1>1, CallsOf DEF IInv
<1> HIDE DEF data
<1>6. /\ DOMAIN turn = 1..Len(turn) /\ Len(turn) \in Nat /\ \A k \in DOMAIN turn : turn[k] \in Calls(data)
      /\ Len(delivered) \in Nat /\ DOMAIN delivered = 1..Len(delivered)
      /\ DOMAIN delivered' = 1..(Len(delivered) + Len(turn))
  BY <1>4 DEF IInv, Shapes
<1>7. /\ FirstOpen \in 1..(Len(frames) + 1)
      /\ \A i \in DOMAIN frames : i < FirstOpen <=> 6 * (i - 1) < Cut
  BY FirstOpenIs DEF IInv
<1>8. /\ FirstOpen' \in 1..(Len(frames) + 1)
      /\ \A i \in DOMAIN frames : i < FirstOpen' <=> 6 * (i - 1) < Cut + n
  BY <1>3, NextFirstOpen
<1>16. ASSUME NEW k \in 1..Len(turn)
       PROVE  delivered'[Len(delivered) + k].frame = data[turn[k]].frame
  <2>1. delivered'[Len(delivered) + k] =
          [frame |-> data[turn[k]].frame, body |-> BodyOf(Piece(data, turn[k]))]
    BY <1>4, <1>6
  <2> QED BY <2>1
<1> DEFINE kept == [k \in 1..Len(turn) |-> data[turn[k]].frame]
           to == FirstOpen' - 1
<1>9. ASSUME NEW k \in 1..Len(turn)
      PROVE  kept[k] \in DOMAIN frames /\ kept[k] \in FirstOpen..to
  <2>1. /\ turn[k] \in 1..n /\ kept[k] \in DOMAIN frames /\ kept[k] = data[turn[k]].frame
        /\ Cut + turn[k] = 6 * (kept[k] - 1) + 1
    BY <1>5, <1>6
  <2> HIDE DEF kept
  <2>2. ~(6 * (kept[k] - 1) < Cut) /\ 6 * (kept[k] - 1) < Cut + n
    BY <1>1, <2>1
  <2>3. ~(kept[k] < FirstOpen) /\ kept[k] < FirstOpen'
    BY <1>7, <1>8, <2>1, <2>2
  <2> QED BY <1>1, <1>7, <1>8, <2>1, <2>3
<1>10. ASSUME NEW j \in 1..Len(turn), NEW k \in 1..Len(turn), j < k
       PROVE  kept[j] < kept[k]
  <2>1. /\ Len(delivered) + j \in DOMAIN delivered' /\ Len(delivered) + k \in DOMAIN delivered'
        /\ Len(delivered) + j < Len(delivered) + k
    BY <1>6, <1>10
  <2>2. delivered'[Len(delivered) + j].frame < delivered'[Len(delivered) + k].frame
    BY <1>3, <2>1 DEF NeverMixed
  <2>3. /\ delivered'[Len(delivered) + j].frame = data[turn[j]].frame
        /\ delivered'[Len(delivered) + k].frame = data[turn[k]].frame
    BY <1>16
  <2> QED BY <2>2, <2>3
<1>11. Len(Got) = Len(delivered) /\ Len(Got') = Len(delivered) + Len(turn)
  BY <1>6 DEF Got
<1>12. Got' = Got \o kept
  <2>1. Got \in Seq(Nat) /\ kept \in Seq(Nat) /\ Got' \in Seq(Nat) /\ Len(kept) = Len(turn)
    <3>1. \A b \in Delivery : b.frame \in Nat
      BY DEF Delivery
    <3>2. \A i \in DOMAIN delivered : delivered[i] \in Delivery
      BY DEF IInv, Shapes
    <3>3. \A i \in DOMAIN delivered' : delivered'[i] \in Delivery
      BY <1>4
    <3>4. Got \in [1..Len(delivered) -> Nat]
      BY <1>6, <3>1, <3>2 DEF Got
    <3>5. Got' \in [1..(Len(delivered) + Len(turn)) -> Nat]
      BY <1>6, <3>1, <3>3 DEF Got
    <3>6. kept \in [1..Len(turn) -> Nat]
      BY <1>1, <1>9
    <3>7. Len(delivered) + Len(turn) \in Nat
      BY <1>6
    <3> HIDE DEF kept
    <3> QED BY <1>6, <3>4, <3>5, <3>6, <3>7, FunctionIsSeq
  <2>2. \A i \in 1..Len(delivered) : Got'[i] = Got[i]
    <3>1. 1..Len(delivered) \subseteq 1..(Len(delivered) + Len(turn))
      BY <1>6
    <3> QED BY <1>4, <1>6, <3>1 DEF Got
  <2>3. \A k \in 1..Len(turn) : Got'[Len(delivered) + k] = kept[k]
    <3>1. \A k \in 1..Len(turn) : Len(delivered) + k \in DOMAIN delivered'
      BY <1>6
    <3> QED BY <1>16, <3>1 DEF Got
  <2> HIDE DEF kept
  <2>4. /\ Got \o kept \in Seq(Nat) /\ Len(Got \o kept) = Len(Got) + Len(kept)
        /\ \A i \in 1..(Len(Got) + Len(kept)) :
             (Got \o kept)[i] = IF i <= Len(Got) THEN Got[i] ELSE kept[i - Len(Got)]
    BY <2>1, ConcatProperties
  <2>5. ASSUME NEW i \in 1..Len(Got')
        PROVE  Got'[i] = (Got \o kept)[i]
    <3>1. CASE i <= Len(delivered)
      <4>1. i \in 1..Len(delivered) /\ i <= Len(Got) /\ i \in 1..(Len(Got) + Len(kept))
        BY <1>6, <1>11, <2>1, <3>1
      <4>2. (Got \o kept)[i] = Got[i]
        BY <2>4, <4>1
      <4> QED BY <2>2, <4>1, <4>2
    <3>2. CASE i > Len(delivered)
      <4>1. i - Len(delivered) \in 1..Len(turn) /\ Len(delivered) + (i - Len(delivered)) = i
        BY <1>6, <1>11, <3>2
      <4>2. Got'[i] = kept[i - Len(delivered)]
        BY <2>3, <4>1
      <4> QED BY <1>6, <1>11, <2>1, <2>4, <3>2, <4>2
    <3>3. i \in Int
      BY <1>6, <1>11
    <3>4. i <= Len(delivered) \/ i > Len(delivered)
      BY <1>6, <3>3
    <3> QED BY <3>1, <3>2, <3>4
  <2> QED BY <1>11, <2>1, <2>4, <2>5, SeqEqual
<1>13. UNCHANGED Sent /\ Len(Sent) = Len(frames) /\ \A i \in DOMAIN frames : Sent[i] = i
  BY <1>1, <1>3 DEF Sent
<1>14. CASE FirstOpen' = FirstOpen
  <2>1. Len(turn) = 0
    BY <1>1, <1>6, <1>7, <1>9, <1>14
  <2>2. delivered' = delivered
    <3>1. Len(delivered') = Len(delivered) /\ delivered \in Seq(Delivery)
      BY <1>4, <1>6, <2>1 DEF IInv, Shapes
    <3> QED BY <1>4, <1>6, <3>1, SeqEqual
  <2> QED BY <1>3, <1>14, <2>2 DEF Inbound!channel
<1>15. CASE FirstOpen' # FirstOpen
  <2>1. FirstOpen <= to /\ to \in FirstOpen..Len(Sent) /\ FirstOpen' = to + 1
    <3>1. ~(FirstOpen' < FirstOpen)
      <4>1. ASSUME FirstOpen' < FirstOpen PROVE FALSE
        <5>1. FirstOpen' \in DOMAIN frames /\ FirstOpen' \in Nat
          BY <1>1, <1>7, <1>8, <4>1
        <5>2. 6 * (FirstOpen' - 1) < Cut /\ ~(6 * (FirstOpen' - 1) < Cut + n)
          BY <1>7, <1>8, <4>1, <5>1
        <5> QED BY <1>1, <5>1, <5>2
      <4> QED BY <4>1
    <3>2. FirstOpen \in Nat /\ FirstOpen' \in Nat /\ FirstOpen' <= Len(frames) + 1
      BY <1>1, <1>7, <1>8
    <3>3. FirstOpen < FirstOpen'
      BY <1>15, <3>1, <3>2
    <3>4. FirstOpen <= to /\ to <= Len(frames) /\ to \in Int /\ FirstOpen' = to + 1
      <4>1. ASSUME NEW x \in Nat, NEW y \in Nat, NEW z \in Nat, x < y, y <= z + 1
            PROVE  x <= y - 1 /\ y - 1 <= z /\ y - 1 \in Int /\ y = (y - 1) + 1
        BY <4>1
      <4> QED BY <1>1, <3>2, <3>3, <4>1
    <3>5. Len(Sent) = Len(frames)
      BY <1>13
    <3> HIDE DEF to
    <3> QED BY <1>1, <3>2, <3>4, <3>5
  <2>2. kept \in [1..(Len(Got') - Len(Got)) -> FirstOpen..to]
    <3>1. Len(Got') - Len(Got) = Len(turn)
      BY <1>6, <1>11
    <3> QED BY <1>9, <3>1
  <2>3. kept = [j \in DOMAIN kept |-> Sent[kept[j]]]
    BY <1>9, <1>13
  <2>4. \A j, k \in DOMAIN kept : j < k => kept[j] < kept[k]
    BY <1>10
  <2>5. Got' = Got \o [j \in DOMAIN kept |-> Sent[kept[j]]]
    BY <1>12, <2>3
  <2> HIDE DEF kept, to
  <2>6. /\ \E t \in FirstOpen..Len(Sent) :
             \E k \in [1..(Len(Got') - Len(Got)) -> FirstOpen..t] :
               /\ \A i, j \in DOMAIN k : i < j => k[i] < k[j]
               /\ Got' = Got \o [j \in DOMAIN k |-> Sent[k[j]]]
               /\ FirstOpen' = t + 1
        /\ UNCHANGED Sent
    BY <1>13, <2>1, <2>2, <2>4, <2>5
  <2> QED BY <2>6 DEF Inbound!Pass, Sent, Got
<1> QED BY <1>14, <1>15

(* FramesInOrder: the client is an event channel from the broker to the      *)
(* callbacks; it may lose frames, and never repeats or swaps one.            *)
THEOREM ImplementsChannel == Spec => FramesInOrder
<1>1. Init => Inbound!ChannelInit
  <2> SUFFICES ASSUME Init PROVE Inbound!ChannelInit
    OBVIOUS
  <2>1. frames = <<>> /\ stream = <<>> /\ delivered = <<>>
    BY DEF Init
  <2>2. FirstOpen = 1
    BY <2>1 DEF FirstOpen
  <2> QED BY <2>1, <2>2 DEF Inbound!ChannelInit
<1>2. IInv /\ [Next]_vars => [Inbound!Accept \/ Inbound!Pass]_(Inbound!channel)
  <2> SUFFICES ASSUME IInv, [Next]_vars
               PROVE  [Inbound!Accept \/ Inbound!Pass]_(Inbound!channel)
    OBVIOUS
  <2>1. ASSUME UNCHANGED inb PROVE UNCHANGED Inbound!channel
    BY <2>1 DEF inb, Inbound!channel, FirstOpen
  <2>2. CASE Client \/ ProcessCommands \/ Open \/ Close \/ Drain \/ UNCHANGED vars
    <3>1. UNCHANGED inb
      BY <2>2 DEF Client, Publish, Subscribe, Unsubscribe, Control, Push, AckMessage,
         ProcessCommands, Open, Close, Drain, vars
    <3> QED BY <2>1, <3>1
  <2> QED BY <2>2, BrokerSendsAccepts, DataPasses DEF Next, Events, Network, ProcessMessages, Exited
<1> QED BY <1>1, <1>2, Invariant, PTL DEF Spec, FramesInOrder, Inbound!ChannelSpec
=============================================================================
