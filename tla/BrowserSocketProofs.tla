------------------------- MODULE BrowserSocketProofs -------------------------
(***************************************************************************)
(* BrowserSocket for any browsers and any bounds: the inductive invariant  *)
(* IInv of a socket over its transport. It follows what is under way in    *)
(* each direction, number by number, as long as it can still get there;    *)
(* MultipartInv adds what xhr-multipart reads again and again.             *)
(* At the end, FrameCodec: what is put together in frames is read back.     *)
(***************************************************************************)
EXTENDS BrowserSocket, FrameCodec, SequenceTheorems, FiniteSetTheorems, NaturalsInduction, TLAPS

(* The messages among some frames are in order and lie behind from, up to to. *)
InOrder(frames, from, to) ==
  /\ \A i \in DOMAIN frames : frames[i] > 0 => frames[i] > from /\ frames[i] <= to
  /\ \A i, j \in DOMAIN frames :
       i < j /\ frames[i] > 0 /\ frames[j] > 0 => frames[i] < frames[j]

(* ... and none of them is missing. *)
Carries(frames, from, to) ==
  /\ from <= to
  /\ InOrder(frames, from, to)
  /\ \A m \in (from + 1)..to : \E i \in DOMAIN frames : frames[i] = m

(* How far a socket is in its only life. A connection that was lost is not   *)
(* made again, and nothing is left of a transport that gave way to another.  *)
LifeInv ==
  /\ connected <=> session
  /\ tconnected => session
  /\ link # "closed" => connecting \/ connected
  /\ link = "opening" => ~session
  /\ fired = IF ~session THEN <<>>
             ELSE IF tconnected THEN <<"connect">> ELSE <<"connect", "disconnect">>
  /\ transport = NoTransport => link = "closed" /\ ~session
  /\ ~session => up = <<>> /\ buffer = <<>> /\ ~posting /\ post = "none"

(* What a WebSocket and what an XHR transport has of its own. *)
WireInv ==
  /\ IsWebSocket => buffer = <<>> /\ ~posting /\ post = "none"
  /\ IsWebSocket /\ link # "open" => up = <<>>
  /\ ~IsWebSocket /\ post # "going" => up = <<>>

(* Only xhr-multipart keeps what it has read, and only while it has a response. *)
ReadInv ==
  /\ ~(IsMultipart /\ link \in {"open", "broken"}) =>
       response = <<>> /\ ~begun /\ msgs = <<>> /\ ~cutId
  /\ ~IsMultipart => got \in Seq(1..MaxTold)
  /\ ~session => got = <<>>

(* What is sent can still arrive: the WebSocket has not been lost, no POST   *)
(* has failed.                                                               *)
Flowing == IF IsWebSocket THEN session => link = "open" ELSE posting => post # "none"

(* What has been sent is on the wire, then in the buffer, then in the queue. *)
UpInv ==
  /\ \A i \in DOMAIN sent : sent[i] = i
  /\ \A i \in DOMAIN arrived : arrived[i] = i
  /\ Len(arrived) <= Len(sent)
  /\ Flowing => \E b, c \in Nat : /\ Carries(up, Len(arrived), b)
                                  /\ Carries(buffer, b, c)
                                  /\ Carries(queue, c, Len(sent))

(* Whether messages of the server may be passed over. *)
Lossy == transport = "xhr-polling" /\ browser.onload /\ browser.faults

(* The last message that "message" fired with, where each is read once. *)
LastGot == IF got = <<>> \/ IsMultipart THEN 0 ELSE Last(got)

(* What stands on a link whose frames are read once: what was told and has   *)
(* not been got, unless it was lost.  The session id is the first frame of a *)
(* connection and never comes again.                                         *)
LinkInv ==
  /\ LastGot <= Len(told)
  /\ session => \A i \in DOMAIN down : down[i] # Session
  /\ ~session /\ link = "open" =>
       /\ down # <<>>
       /\ \A i \in DOMAIN down : down[i] = Session <=> i = 1
  /\ InOrder(down, LastGot, Len(told))
  /\ ~Lossy /\ link = "open" => Carries(down, LastGot, Len(told))

(* What the server has told is on the link, which nothing outlives. *)
DownInv ==
  /\ \A i \in DOMAIN told : told[i] = i
  /\ link # "open" => down = <<>>
  /\ ~Lossy /\ (link = "opening" \/ ~(connecting \/ connected)) => told = <<>>
  /\ ~IsMultipart => LinkInv

(* The inductive invariant. *)
IInv == TypeOK /\ LifeInv /\ WireInv /\ ReadInv /\ UpInv /\ DownInv

-----------------------------------------------------------------------------
(* Sequences: one more element, one less, two joined. *)
LEMMA AppendFacts ==
  ASSUME NEW S, NEW s \in Seq(S), NEW e \in S
  PROVE  /\ Append(s, e) \in Seq(S) /\ Append(s, e) # <<>>
         /\ Len(Append(s, e)) = Len(s) + 1 /\ Len(s) \in Nat
         /\ DOMAIN s = 1..Len(s) /\ DOMAIN Append(s, e) = 1..(Len(s) + 1)
         /\ \A i \in 1..Len(s) : Append(s, e)[i] = s[i]
         /\ Append(s, e)[Len(s) + 1] = e
OBVIOUS

LEMMA TailFacts ==
  ASSUME NEW S, NEW s \in Seq(S), s # <<>>
  PROVE  /\ Head(s) \in S /\ Head(s) = s[1] /\ 1 \in DOMAIN s
         /\ Tail(s) \in Seq(S) /\ Len(Tail(s)) = Len(s) - 1 /\ Len(s) \in Nat /\ Len(s) >= 1
         /\ DOMAIN s = 1..Len(s) /\ DOMAIN Tail(s) = 1..(Len(s) - 1)
         /\ \A i \in 1..(Len(s) - 1) : Tail(s)[i] = s[i + 1]
OBVIOUS

LEMMA ConcatFacts ==
  ASSUME NEW S, NEW s \in Seq(S), NEW t \in Seq(S)
  PROVE  /\ s \o t \in Seq(S) /\ Len(s \o t) = Len(s) + Len(t)
         /\ Len(s) \in Nat /\ Len(t) \in Nat
         /\ DOMAIN s = 1..Len(s) /\ DOMAIN t = 1..Len(t)
         /\ DOMAIN (s \o t) = 1..(Len(s) + Len(t))
         /\ \A i \in 1..Len(s) : (s \o t)[i] = s[i]
         /\ \A i \in 1..Len(t) : (s \o t)[Len(s) + i] = t[i]
<1>1. /\ s \o t \in Seq(S) /\ Len(s \o t) = Len(s) + Len(t)
      /\ \A i \in 1..(Len(s) + Len(t)) : (s \o t)[i] = IF i <= Len(s) THEN s[i] ELSE t[i - Len(s)]
  BY ConcatProperties
<1>2. Len(s) \in Nat /\ Len(t) \in Nat
  OBVIOUS
<1>3. ASSUME NEW i \in 1..Len(t)
      PROVE  (s \o t)[Len(s) + i] = t[i]
  <2>1. /\ Len(s) + i \in 1..(Len(s) + Len(t)) /\ ~(Len(s) + i <= Len(s))
        /\ (Len(s) + i) - Len(s) = i
    BY <1>2
  <2> QED BY <1>1, <2>1
<1> QED BY <1>1, <1>2, <1>3

LEMMA SeqOfMore ==
  ASSUME NEW S, NEW T, S \subseteq T, NEW s \in Seq(S)
  PROVE  s \in Seq(T)
OBVIOUS

LEMMA LastElement ==
  ASSUME NEW S, NEW s \in Seq(S), s # <<>>
  PROVE  s[Len(s)] \in S
OBVIOUS

LEMMA SameElements ==
  ASSUME NEW S, NEW T, NEW s \in Seq(S), NEW t \in Seq(T), Len(s) = Len(t),
         \A i \in 1..Len(s) : s[i] = t[i]
  PROVE  s = t
OBVIOUS

LEMMA FunctionIsSeq ==
  ASSUME NEW S, NEW n \in Nat, NEW f \in [1..n -> S]
  PROVE  f \in Seq(S) /\ Len(f) = n /\ DOMAIN f = 1..n
OBVIOUS

LEMMA JoinedWithNothing ==
  ASSUME NEW S, NEW s \in Seq(S)
  PROVE  <<>> \o s = s /\ s \o <<>> = s
OBVIOUS

(* A set of numbers has a least one. *)
LEMMA Least ==
  ASSUME NEW T, T \subseteq Nat, T # {}
  PROVE  \E m \in T : \A j \in T : m <= j
<1>1. PICK m \in T : \A j \in T : ~(<<j, m>> \in OpToRel(<, Nat))
  BY WFMin, NatLessThanWellFounded
<1>2. \A j \in T : ~(j < m)
  BY <1>1 DEF OpToRel
<1> QED BY <1>2

(* Growing numbers that leave none out are counted up. *)
LEMMA CountedUp ==
  ASSUME NEW n \in Nat, NEW f \in [1..n -> Int], NEW a \in Nat, NEW b \in Nat, a <= b,
         \A j, k \in 1..n : j < k => f[j] < f[k],
         \A k \in 1..n : a < f[k] /\ f[k] <= b,
         \A m \in (a + 1)..b : \E k \in 1..n : f[k] = m
  PROVE  n = b - a /\ \A k \in 1..n : f[k] = a + k
<1> DEFINE wrong == {k \in 1..n : f[k] # a + k}
<1>1. CASE wrong = {}
  <2>1. \A k \in 1..n : f[k] = a + k
    BY <1>1
  <2>2. n <= b - a
    <3>1. CASE n = 0
      BY <3>1
    <3>2. CASE n # 0
      <4>1. n \in 1..n
        BY <3>2
      <4> QED BY <2>1, <4>1
    <3> QED BY <3>1, <3>2
  <2>3. b - a <= n
    <3>1. CASE a = b
      BY <3>1
    <3>2. CASE a # b
      <4>1. b \in (a + 1)..b
        BY <3>2
      <4>2. PICK k \in 1..n : f[k] = b
        BY <4>1
      <4> QED BY <2>1, <4>2
    <3> QED BY <3>1, <3>2
  <2> QED BY <2>1, <2>2, <2>3
<1>2. CASE wrong # {}
  <2>1. wrong \subseteq Nat
    OBVIOUS
  <2>2. PICK k \in wrong : \A j \in wrong : k <= j
    BY <1>2, <2>1, Least
  <2>3. k \in 1..n /\ f[k] \in Int /\ f[k] # a + k /\ \A j \in 1..n : j < k => f[j] = a + j
    BY <2>2
  <2> HIDE DEF wrong
  <2>4. CASE f[k] > a + k
    <3>1. a + k \in (a + 1)..b
      BY <2>3, <2>4
    <3>2. PICK j \in 1..n : f[j] = a + k
      BY <3>1
    <3>3. CASE j < k
      BY <2>3, <3>2, <3>3
    <3>4. CASE j >= k
      <4>1. f[j] >= f[k]
        <5>1. CASE j = k
          BY <2>3, <5>1
        <5>2. CASE j > k
          BY <2>3, <5>2
        <5> QED BY <2>3, <3>4, <5>1, <5>2
      <4> QED BY <2>3, <2>4, <3>2, <4>1
    <3> QED BY <2>3, <3>3, <3>4
  <2>5. CASE f[k] < a + k
    <3>1. PICK j \in Int : j = f[k] - a
      BY <2>3
    <3>2. j \in 1..n /\ j < k
      BY <2>3, <2>5, <3>1
    <3>3. f[j] = a + j
      BY <2>3, <3>2
    <3>4. f[j] = f[k]
      BY <2>3, <3>1, <3>3
    <3> QED BY <2>3, <3>2, <3>4
  <2> QED BY <2>3, <2>4, <2>5
<1> QED BY <1>1, <1>2

-----------------------------------------------------------------------------
(* Carries, for nothing, for one frame, and for two runs of frames. *)
LEMMA CarriesNothing ==
  ASSUME NEW a \in Nat
  PROVE  Carries(<<>>, a, a)
BY DEF Carries, InOrder

LEMMA CarriesBeat ==
  ASSUME NEW a \in Nat
  PROVE  Carries(<<Beat>>, a, a)
BY DEF Carries, InOrder, Beat

LEMMA CarriesOne ==
  ASSUME NEW a \in Nat
  PROVE  Carries(<<a + 1>>, a, a + 1)
<1>1. DOMAIN <<a + 1>> = {1} /\ <<a + 1>>[1] = a + 1 /\ (a + 1)..(a + 1) = {a + 1}
  OBVIOUS
<1> QED BY <1>1 DEF Carries, InOrder

LEMMA CarriesNoMore ==
  ASSUME NEW a \in Nat, NEW b \in Nat, Carries(<<>>, a, b)
  PROVE  a = b
<1>1. ASSUME a # b PROVE FALSE
  <2>1. b \in (a + 1)..b
    BY <1>1 DEF Carries
  <2> QED BY <2>1 DEF Carries
<1> QED BY <1>1

LEMMA CarriesBoth ==
  ASSUME NEW s \in Seq(Int), NEW t \in Seq(Int), NEW a \in Nat, NEW b \in Nat, NEW c \in Nat,
         Carries(s, a, b), Carries(t, b, c)
  PROVE  Carries(s \o t, a, c)
<1>1. /\ s \o t \in Seq(Int) /\ Len(s) \in Nat /\ Len(t) \in Nat
      /\ DOMAIN s = 1..Len(s) /\ DOMAIN t = 1..Len(t)
      /\ DOMAIN (s \o t) = 1..(Len(s) + Len(t))
      /\ \A i \in 1..Len(s) : (s \o t)[i] = s[i]
      /\ \A i \in 1..Len(t) : (s \o t)[Len(s) + i] = t[i]
  BY ConcatFacts
<1> DEFINE u == s \o t
<1>2. ASSUME NEW i \in DOMAIN u
      PROVE  \/ i \in DOMAIN s /\ u[i] = s[i]
             \/ i > Len(s) /\ i - Len(s) \in DOMAIN t /\ u[i] = t[i - Len(s)]
  <2>1. CASE i <= Len(s)
    BY <1>1, <2>1
  <2>2. CASE i > Len(s)
    <3>1. i - Len(s) \in 1..Len(t) /\ Len(s) + (i - Len(s)) = i
      BY <1>1, <2>2
    <3> QED BY <1>1, <2>2, <3>1
  <2> QED BY <1>1, <2>1, <2>2
<1>3. \A i \in DOMAIN s : i \in DOMAIN u /\ u[i] = s[i] /\ s[i] \in Int
  BY <1>1
<1>4. \A i \in DOMAIN t : Len(s) + i \in DOMAIN u /\ u[Len(s) + i] = t[i] /\ t[i] \in Int
  BY <1>1
<1>5. /\ a <= b /\ b <= c
      /\ \A i \in DOMAIN s : s[i] > 0 => s[i] > a /\ s[i] <= b
      /\ \A i \in DOMAIN t : t[i] > 0 => t[i] > b /\ t[i] <= c
  BY DEF Carries, InOrder
<1>10. DOMAIN u \subseteq Int
  BY <1>1
<1> HIDE DEF u
<1>6. \A i \in DOMAIN u : u[i] > 0 => u[i] > a /\ u[i] <= c
  BY <1>2, <1>3, <1>4, <1>5
<1>7. ASSUME NEW i \in DOMAIN u, NEW j \in DOMAIN u, i < j, u[i] > 0, u[j] > 0
      PROVE  u[i] < u[j]
  <2>1. CASE j \in DOMAIN s /\ u[j] = s[j]
    <3>1. i \in DOMAIN s /\ u[i] = s[i]
      BY <1>1, <1>2, <1>7, <1>10, <2>1
    <3> QED BY <1>7, <2>1, <3>1 DEF Carries, InOrder
  <2>2. CASE j > Len(s) /\ j - Len(s) \in DOMAIN t /\ u[j] = t[j - Len(s)]
    <3>1. CASE i \in DOMAIN s /\ u[i] = s[i]
      BY <1>3, <1>4, <1>5, <1>7, <2>2, <3>1
    <3>2. CASE i > Len(s) /\ i - Len(s) \in DOMAIN t /\ u[i] = t[i - Len(s)]
      <4>1. i - Len(s) < j - Len(s)
        BY <1>1, <1>7, <1>10, <2>2, <3>2
      <4> QED BY <1>7, <2>2, <3>2, <4>1 DEF Carries, InOrder
    <3> QED BY <1>2, <3>1, <3>2
  <2> QED BY <1>2, <2>1, <2>2
<1>8. ASSUME NEW m \in (a + 1)..c
      PROVE  \E i \in DOMAIN u : u[i] = m
  <2>1. CASE m <= b
    <3>1. m \in (a + 1)..b
      BY <2>1
    <3>2. PICK i \in DOMAIN s : s[i] = m
      BY <3>1 DEF Carries
    <3> QED BY <1>3, <3>2
  <2>2. CASE m > b
    <3>1. m \in (b + 1)..c
      BY <2>2
    <3>2. PICK i \in DOMAIN t : t[i] = m
      BY <3>1 DEF Carries
    <3> QED BY <1>4, <3>2
  <2> QED BY <2>1, <2>2
<1>9. Carries(u, a, c)
  BY <1>5, <1>6, <1>7, <1>8 DEF Carries, InOrder
<1> QED BY <1>9 DEF u

(* The first frame leaves. *)
LEMMA InOrderTail ==
  ASSUME NEW s \in Seq(Int), s # <<>>, NEW a \in Nat, NEW b \in Nat, InOrder(s, a, b)
  PROVE  /\ Head(s) \in Int
         /\ Head(s) <= 0 => InOrder(Tail(s), a, b)
         /\ Head(s) > 0 => a < Head(s) /\ Head(s) <= b /\ InOrder(Tail(s), Head(s), b)
<1>1. /\ Head(s) \in Int /\ Head(s) = s[1] /\ 1 \in DOMAIN s
      /\ Len(s) \in Nat /\ DOMAIN s = 1..Len(s) /\ DOMAIN Tail(s) = 1..(Len(s) - 1)
      /\ \A i \in 1..(Len(s) - 1) : Tail(s)[i] = s[i + 1]
  BY TailFacts
<1>2. \A i \in DOMAIN Tail(s) : i + 1 \in DOMAIN s /\ Tail(s)[i] = s[i + 1] /\ 1 < i + 1
  BY <1>1
<1>3. ASSUME NEW i \in DOMAIN Tail(s), NEW j \in DOMAIN Tail(s), i < j,
             Tail(s)[i] > 0, Tail(s)[j] > 0
      PROVE  Tail(s)[i] < Tail(s)[j]
  <2>1. i + 1 < j + 1
    BY <1>1, <1>3
  <2> QED BY <1>2, <1>3, <2>1 DEF InOrder
<1> HIDE DEF InOrder
<1>4. InOrder(Tail(s), a, b)
  BY <1>2, <1>3 DEF InOrder
<1>5. ASSUME Head(s) > 0
      PROVE  a < Head(s) /\ Head(s) <= b /\ InOrder(Tail(s), Head(s), b)
  <2>1. a < Head(s) /\ Head(s) <= b
    BY <1>1, <1>5 DEF InOrder
  <2>2. \A i \in DOMAIN Tail(s) : Tail(s)[i] > 0 => Tail(s)[i] > Head(s) /\ Tail(s)[i] <= b
    <3> SUFFICES ASSUME NEW i \in DOMAIN Tail(s), Tail(s)[i] > 0
                 PROVE  Tail(s)[i] > Head(s) /\ Tail(s)[i] <= b
      OBVIOUS
    <3>1. i + 1 \in DOMAIN s /\ Tail(s)[i] = s[i + 1] /\ 1 < i + 1
      BY <1>2
    <3>2. s[1] < s[i + 1] /\ s[i + 1] <= b
      BY <1>1, <1>5, <3>1 DEF InOrder
    <3>3. s[i + 1] \in Int
      BY <1>1, <3>1
    <3> QED BY <1>1, <3>1, <3>2, <3>3
  <2> QED BY <1>3, <2>1, <2>2 DEF InOrder
<1> QED BY <1>1, <1>4, <1>5

LEMMA CarriesTail ==
  ASSUME NEW s \in Seq(Int), s # <<>>, NEW a \in Nat, NEW b \in Nat, Carries(s, a, b)
  PROVE  /\ Head(s) <= 0 => Carries(Tail(s), a, b)
         /\ Head(s) > 0 => Head(s) = a + 1 /\ Carries(Tail(s), a + 1, b)
<1>1. /\ Head(s) \in Int /\ Head(s) = s[1] /\ 1 \in DOMAIN s
      /\ Len(s) \in Nat /\ DOMAIN s = 1..Len(s) /\ DOMAIN Tail(s) = 1..(Len(s) - 1)
      /\ \A i \in 1..(Len(s) - 1) : Tail(s)[i] = s[i + 1]
  BY TailFacts
<1>2. a <= b /\ InOrder(s, a, b)
  BY DEF Carries
<1>3. /\ Head(s) <= 0 => InOrder(Tail(s), a, b)
      /\ Head(s) > 0 => a < Head(s) /\ Head(s) <= b /\ InOrder(Tail(s), Head(s), b)
  BY <1>2, InOrderTail
<1>4. ASSUME NEW m \in (a + 1)..b, m # Head(s)
      PROVE  \E i \in DOMAIN Tail(s) : Tail(s)[i] = m
  <2>1. PICK i \in DOMAIN s : s[i] = m
    BY DEF Carries
  <2>2. i - 1 \in 1..(Len(s) - 1) /\ (i - 1) + 1 = i
    BY <1>1, <1>4, <2>1
  <2> QED BY <1>1, <2>1, <2>2
<1>5. CASE Head(s) <= 0
  <2>1. \A m \in (a + 1)..b : m # Head(s)
    BY <1>1, <1>5
  <2> QED BY <1>1, <1>2, <1>3, <1>4, <1>5, <2>1 DEF Carries
<1>6. CASE Head(s) > 0
  <2>1. Head(s) = a + 1
    <3>1. ASSUME Head(s) # a + 1 PROVE FALSE
      <4>1. a + 1 \in (a + 1)..b
        BY <1>1, <1>3, <1>6
      <4>2. PICK i \in DOMAIN Tail(s) : Tail(s)[i] = a + 1
        BY <1>4, <3>1, <4>1
      <4> QED BY <1>1, <1>3, <1>6, <4>2 DEF InOrder
    <3> QED BY <3>1
  <2>2. InOrder(Tail(s), a + 1, b) /\ a + 1 <= b
    BY <1>1, <1>3, <1>6, <2>1
  <2>3. \A m \in ((a + 1) + 1)..b : m \in (a + 1)..b /\ m # Head(s)
    BY <2>1
  <2> QED BY <1>1, <1>4, <1>6, <2>1, <2>2, <2>3 DEF Carries
<1> QED BY <1>1, <1>5, <1>6

(* A message joins the end. *)
LEMMA InOrderAppend ==
  ASSUME NEW s \in Seq(Int), NEW a \in Nat, NEW b \in Nat, a <= b, InOrder(s, a, b)
  PROVE  /\ InOrder(Append(s, Beat), a, b) /\ InOrder(Append(s, b + 1), a, b + 1)
         /\ Carries(s, a, b) => /\ Carries(Append(s, Beat), a, b)
                                /\ Carries(Append(s, b + 1), a, b + 1)
<1>1. ASSUME NEW e \in Int, NEW c \in Nat, b <= c, e > 0 => e > b /\ e <= c
      PROVE  InOrder(Append(s, e), a, c)
  <2>1. /\ Len(s) \in Nat /\ DOMAIN s = 1..Len(s) /\ DOMAIN Append(s, e) = 1..(Len(s) + 1)
        /\ \A i \in 1..Len(s) : Append(s, e)[i] = s[i] /\ s[i] \in Int
        /\ Append(s, e)[Len(s) + 1] = e
    BY AppendFacts
  <2>2. \A i \in DOMAIN Append(s, e) : i \in DOMAIN s \/ i = Len(s) + 1
    BY <2>1
  <2>3. \A i \in DOMAIN s : s[i] > 0 => s[i] > a /\ s[i] <= b
    BY DEF InOrder
  <2>4. \A i \in DOMAIN Append(s, e) : Append(s, e)[i] > 0 => Append(s, e)[i] > a /\ Append(s, e)[i] <= c
    BY <1>1, <2>1, <2>2, <2>3
  <2>5. ASSUME NEW i \in DOMAIN Append(s, e), NEW j \in DOMAIN Append(s, e), i < j,
               Append(s, e)[i] > 0, Append(s, e)[j] > 0
        PROVE  Append(s, e)[i] < Append(s, e)[j]
    <3>1. i \in DOMAIN s /\ Append(s, e)[i] = s[i]
      BY <2>1, <2>5
    <3>2. CASE j \in DOMAIN s
      BY <2>1, <2>5, <3>1, <3>2 DEF InOrder
    <3>3. CASE j = Len(s) + 1
      BY <1>1, <2>1, <2>3, <2>5, <3>1, <3>3
    <3> QED BY <2>2, <3>2, <3>3
  <2> QED BY <2>4, <2>5 DEF InOrder
<1>2. InOrder(Append(s, Beat), a, b)
  BY <1>1 DEF Beat
<1>3. InOrder(Append(s, b + 1), a, b + 1)
  BY <1>1
<1>4. ASSUME Carries(s, a, b)
      PROVE  Carries(Append(s, Beat), a, b) /\ Carries(Append(s, b + 1), a, b + 1)
  <2>1. ASSUME NEW e \in Int, NEW m \in (a + 1)..b
        PROVE  \E i \in DOMAIN Append(s, e) : Append(s, e)[i] = m
    <3>1. PICK i \in DOMAIN s : s[i] = m
      BY <1>4 DEF Carries
    <3> QED BY <3>1, AppendFacts
  <2>2. Carries(Append(s, Beat), a, b)
    <3>1. Beat \in Int
      BY DEF Beat
    <3>2. \A m \in (a + 1)..b : \E i \in DOMAIN Append(s, Beat) : Append(s, Beat)[i] = m
      BY <2>1, <3>1
    <3> QED BY <1>2, <3>2 DEF Carries
  <2>3. ASSUME NEW m \in (a + 1)..(b + 1)
        PROVE  \E i \in DOMAIN Append(s, b + 1) : Append(s, b + 1)[i] = m
    <3>1. CASE m <= b
      <4>1. m \in (a + 1)..b /\ b + 1 \in Int
        BY <3>1
      <4>2. PICK i \in DOMAIN s : s[i] = m
        BY <1>4, <4>1 DEF Carries
      <4>3. i \in DOMAIN Append(s, b + 1) /\ Append(s, b + 1)[i] = s[i]
        BY <4>1, AppendFacts
      <4> QED BY <4>2, <4>3
    <3>2. CASE m = b + 1
      <4>1. /\ Len(s) + 1 \in DOMAIN Append(s, b + 1)
            /\ Append(s, b + 1)[Len(s) + 1] = b + 1
        BY AppendFacts
      <4> QED BY <3>2, <4>1
    <3> QED BY <3>1, <3>2
  <2>4. a <= b + 1
    OBVIOUS
  <2> QED BY <1>3, <2>2, <2>3, <2>4 DEF Carries
<1> QED BY <1>2, <1>3, <1>4

-----------------------------------------------------------------------------
(* The first place that fits, or none. *)
LEMMA FirstPlace ==
  ASSUME NEW n \in Nat, NEW I \in SUBSET (1..n)
  PROVE  IF I # {} THEN Min(I) \in I ELSE I = {}
<1> SUFFICES ASSUME I # {} PROVE Min(I) \in I
  OBVIOUS
<1>1. I \subseteq Nat
  OBVIOUS
<1>2. \E m \in I : \A j \in I : m <= j
  BY <1>1, Least
<1> QED BY <1>2 DEF Min

(* A transport that is chosen is one of those there are. *)
LEMMA TransportChosen ==
  ASSUME NEW b \in Browsers, NEW list \in Seq(Kinds \cup {"jsonp-polling"})
  PROVE  GetTransport(b, list) \in Kinds \cup {NoTransport}
<1> DEFINE asked == IF b.remembered # NoTransport THEN <<b.remembered>> ELSE list
           I == {i \in 1..Len(asked) : Usable(b, asked[i])}
           place == SelectInSeq(asked, LAMBDA kind : Usable(b, kind))
<1>1. GetTransport(b, list) = IF place = 0 THEN NoTransport ELSE asked[place]
  BY DEF GetTransport
<1>2. place = IF I # {} THEN Min(I) ELSE 0
  BY DEF SelectInSeq
<1>3. Len(asked) \in Nat
  OBVIOUS
<1>4. I \in SUBSET (1..Len(asked))
  OBVIOUS
<1>5. I # {} => Min(I) \in I
  BY <1>3, <1>4, FirstPlace
<1>6. \A i \in I : asked[i] \in Kinds
  BY BrowsersAssumption DEF Usable
<1> HIDE DEF place, I
<1> QED BY <1>1, <1>2, <1>5, <1>6

(* The list of transports without one of them. *)
LEMMA ListLeft ==
  ASSUME NEW list \in Seq(Kinds \cup {"jsonp-polling"})
  PROVE  LET place == SelectInSeq(list, LAMBDA kind : kind = "flashsocket")
         IN RemoveAt(list, IF place = 0 THEN Len(list) ELSE place)
              \in Seq(Kinds \cup {"jsonp-polling"})
<1> DEFINE I == {i \in 1..Len(list) : list[i] = "flashsocket"}
           place == SelectInSeq(list, LAMBDA kind : kind = "flashsocket")
           p == IF place = 0 THEN Len(list) ELSE place
<1>1. place = IF I # {} THEN Min(I) ELSE 0
  BY DEF SelectInSeq
<1>2. Len(list) \in Nat /\ I \in SUBSET (1..Len(list))
  OBVIOUS
<1>3. I # {} => Min(I) \in I
  BY <1>2, FirstPlace
<1>4. p \in 0..Len(list)
  <2> HIDE DEF place
  <2> QED BY <1>1, <1>2, <1>3
<1> HIDE DEF p
<1>5. /\ SubSeq(list, 1, p - 1) \in Seq(Kinds \cup {"jsonp-polling"})
      /\ SubSeq(list, p + 1, Len(list)) \in Seq(Kinds \cup {"jsonp-polling"})
  <2>1. ASSUME NEW m \in Int, NEW n \in Int, m >= 1, n <= Len(list)
        PROVE  SubSeq(list, m, n) \in Seq(Kinds \cup {"jsonp-polling"})
    BY <1>2, <2>1
  <2>2. p \in Int /\ p - 1 <= Len(list) /\ p + 1 >= 1
    BY <1>2, <1>4
  <2> QED BY <1>2, <2>1, <2>2
<1>6. RemoveAt(list, p) \in Seq(Kinds \cup {"jsonp-polling"})
  BY <1>5, ConcatFacts DEF RemoveAt
<1> QED BY <1>6 DEF p

(* The messages of frames that carry the next ones are the next to arrive. *)
LEMMA MessagesArrive ==
  ASSUME NEW frames \in Seq(Ups), NEW b \in Nat, MaxSent \in Nat,
         arrived \in Seq(1..MaxSent), \A i \in DOMAIN arrived : arrived[i] = i,
         Carries(frames, Len(arrived), b), Messages(frames)
  PROVE  /\ arrived' \in Seq(1..MaxSent) /\ Len(arrived') = b
         /\ \A i \in DOMAIN arrived' : arrived'[i] = i
<1> DEFINE places == {i \in DOMAIN frames : frames[i] # Beat}
<1>1. PICK turn \in [1..Cardinality(places) -> places] :
        /\ ToSet(turn) = places
        /\ \A j, k \in DOMAIN turn : j < k => turn[j] < turn[k]
        /\ arrived' = arrived \o [k \in DOMAIN turn |-> frames[turn[k]]]
  BY DEF Messages
<1>2. Len(frames) \in Nat /\ DOMAIN frames = 1..Len(frames)
  OBVIOUS
<1>3. Cardinality(places) \in Nat
  <2>1. IsFiniteSet(1..Len(frames)) /\ places \subseteq 1..Len(frames)
    BY <1>2, FS_Interval
  <2>2. IsFiniteSet(places)
    BY <2>1, FS_Subset
  <2> QED BY <2>2, FS_CardinalityType
<1>4. PICK n \in Nat : n = Cardinality(places)
  BY <1>3
<1>5. /\ DOMAIN turn = 1..n /\ \A k \in 1..n : turn[k] \in places
      /\ \A i \in places : \E k \in 1..n : turn[k] = i
  BY <1>1, <1>4 DEF ToSet
<1> DEFINE more == [k \in DOMAIN turn |-> frames[turn[k]]]
<1>6. \A i \in places : frames[i] \in 1..MaxSent /\ frames[i] > 0 /\ i \in DOMAIN frames
  BY DEF Ups
<1>7. more \in [1..n -> 1..MaxSent] /\ \A k \in 1..n : more[k] = frames[turn[k]]
  BY <1>5, <1>6
<1>8. more \in Seq(1..MaxSent) /\ Len(more) = n /\ DOMAIN more = 1..n
  <2> HIDE DEF more
  <2> QED BY <1>7, FunctionIsSeq
<1>9. arrived' = arrived \o more
  BY <1>1
<1> HIDE DEF more
<1>10. \A j, k \in 1..n : j < k => more[j] < more[k]
  <2> SUFFICES ASSUME NEW j \in 1..n, NEW k \in 1..n, j < k
               PROVE  more[j] < more[k]
    OBVIOUS
  <2>1. turn[j] < turn[k]
    BY <1>1, <1>5
  <2>2. /\ turn[j] \in DOMAIN frames /\ turn[k] \in DOMAIN frames
        /\ frames[turn[j]] > 0 /\ frames[turn[k]] > 0
    BY <1>5, <1>6
  <2> QED BY <1>7, <2>1, <2>2 DEF Carries, InOrder
<1>11. PICK a \in Nat : a = Len(arrived)
  OBVIOUS
<1>12. \A k \in 1..n : a < more[k] /\ more[k] <= b
  <2> SUFFICES ASSUME NEW k \in 1..n PROVE a < more[k] /\ more[k] <= b
    OBVIOUS
  <2>1. turn[k] \in DOMAIN frames /\ frames[turn[k]] > 0 /\ more[k] = frames[turn[k]]
    BY <1>5, <1>6, <1>7
  <2> QED BY <1>11, <2>1 DEF Carries, InOrder
<1>13. \A m \in (a + 1)..b : \E k \in 1..n : more[k] = m
  <2> SUFFICES ASSUME NEW m \in (a + 1)..b PROVE \E k \in 1..n : more[k] = m
    OBVIOUS
  <2>1. PICK i \in DOMAIN frames : frames[i] = m
    BY <1>11 DEF Carries
  <2>2. i \in places
    BY <1>11, <2>1 DEF Beat
  <2> QED BY <1>5, <1>7, <2>1, <2>2
<1>14. more \in [1..n -> Int] /\ a <= b
  BY <1>7, <1>11 DEF Carries
<1>15. n = b - a /\ \A k \in 1..n : more[k] = a + k
  BY <1>10, <1>12, <1>13, <1>14, CountedUp
<1>16. /\ arrived' \in Seq(1..MaxSent) /\ Len(arrived') = a + n
       /\ DOMAIN arrived' = 1..(a + n) /\ DOMAIN arrived = 1..a
       /\ \A i \in 1..a : arrived'[i] = arrived[i]
       /\ \A i \in 1..n : arrived'[a + i] = more[i]
  <2> HIDE DEF places
  <2>1. /\ arrived \o more \in Seq(1..MaxSent) /\ Len(arrived \o more) = Len(arrived) + Len(more)
        /\ DOMAIN arrived = 1..Len(arrived)
        /\ DOMAIN (arrived \o more) = 1..(Len(arrived) + Len(more))
        /\ \A i \in 1..Len(arrived) : (arrived \o more)[i] = arrived[i]
        /\ \A i \in 1..Len(more) : (arrived \o more)[Len(arrived) + i] = more[i]
    <3>1. ASSUME NEW s \in Seq(1..MaxSent), NEW t \in Seq(1..MaxSent)
          PROVE  /\ s \o t \in Seq(1..MaxSent) /\ Len(s \o t) = Len(s) + Len(t)
                 /\ DOMAIN s = 1..Len(s) /\ DOMAIN (s \o t) = 1..(Len(s) + Len(t))
                 /\ \A i \in 1..Len(s) : (s \o t)[i] = s[i]
                 /\ \A i \in 1..Len(t) : (s \o t)[Len(s) + i] = t[i]
      BY ConcatFacts
    <3> QED BY <1>8, <3>1
  <2> QED BY <1>8, <1>9, <1>11, <2>1
<1>17. ASSUME NEW i \in DOMAIN arrived'
       PROVE  arrived'[i] = i
  <2>1. CASE i <= a
    BY <1>16, <2>1
  <2>2. CASE i > a
    <3>1. i - a \in 1..n /\ a + (i - a) = i
      BY <1>16, <2>2
    <3>2. arrived'[a + (i - a)] = more[i - a] /\ more[i - a] = a + (i - a)
      BY <1>15, <1>16, <3>1
    <3> QED BY <3>1, <3>2
  <2> QED BY <1>16, <2>1, <2>2
<1> QED BY <1>14, <1>15, <1>16, <1>17

-----------------------------------------------------------------------------
(* What Transmit does to the wire, and that it leaves out nothing.           *)
LEMMA TransmitKeeps ==
  ASSUME TypeOK, WireInv, NEW items \in Seq(Ups), Transmit(items)
  PROVE  /\ buffer' \in Seq(Ups) /\ up' \in Seq(Ups) /\ posting' \in BOOLEAN
         /\ post' \in {"none", "going", "coming"}
         /\ buffer' # <<>> => posting'
         /\ post' # "none" => posting'
         /\ IsWebSocket => buffer' = <<>> /\ ~posting' /\ post' = "none"
         /\ IsWebSocket /\ link # "open" => up' = <<>>
         /\ ~IsWebSocket /\ post' # "going" => up' = <<>>
<1>1. /\ buffer \in Seq(Ups) /\ up \in Seq(Ups) /\ posting \in BOOLEAN
      /\ post \in {"none", "going", "coming"} /\ (buffer # <<>> => posting)
      /\ (post # "none" => posting)
  BY DEF TypeOK
<1>2. up \o items \in Seq(Ups) /\ buffer \o items \in Seq(Ups)
  BY <1>1, ConcatFacts
<1>3. /\ IsWebSocket => buffer = <<>> /\ ~posting /\ post = "none"
      /\ IsWebSocket /\ link # "open" => up = <<>>
      /\ ~IsWebSocket /\ post # "going" => up = <<>>
  BY DEF WireInv
<1>4. CASE IsWebSocket
  BY <1>1, <1>2, <1>3, <1>4 DEF Transmit
<1>5. CASE ~IsWebSocket /\ (posting \/ buffer \o items = <<>>)
  <2>1. buffer' = buffer \o items /\ UNCHANGED <<up, posting, post>>
    BY <1>5 DEF Transmit
  <2> QED BY <1>1, <1>2, <1>3, <1>5, <2>1
<1>6. CASE ~IsWebSocket /\ ~(posting \/ buffer \o items = <<>>)
  <2>1. up' = buffer \o items /\ posting' = TRUE /\ post' = "going" /\ buffer' = <<>>
    BY <1>6 DEF Transmit
  <2> QED BY <1>2, <1>6, <2>1
<1> QED BY <1>4, <1>5, <1>6

LEMMA TransmitCarries ==
  ASSUME TypeOK, WireInv, NEW items \in Seq(Ups), Transmit(items),
         IF IsWebSocket THEN link = "open" ELSE posting' => post' # "none",
         NEW a \in Nat, NEW b \in Nat, NEW c \in Nat, NEW d \in Nat,
         Carries(up, a, b), Carries(buffer, b, c), Carries(items, c, d)
  PROVE  \E e \in Nat : Carries(up', a, e) /\ Carries(buffer', e, d)
<1>1. /\ buffer \in Seq(Int) /\ up \in Seq(Int) /\ items \in Seq(Int)
      /\ (buffer # <<>> => posting) /\ (post # "none" => posting)
  <2>1. Ups \subseteq Int
    BY BoundsAssumption DEF Ups, Beat
  <2>2. buffer \in Seq(Ups) /\ up \in Seq(Ups)
    BY DEF TypeOK
  <2>3. buffer \in Seq(Int) /\ up \in Seq(Int) /\ items \in Seq(Int)
    BY <2>1, <2>2, SeqOfMore
  <2> QED BY <2>3 DEF TypeOK
<1>2. CASE IsWebSocket
  <2>1. up' = up \o items /\ buffer' = buffer /\ buffer = <<>>
    BY <1>2 DEF Transmit, WireInv
  <2>2. b = c
    BY <2>1, CarriesNoMore
  <2>3. Carries(up', a, d)
    BY <1>1, <2>1, <2>2, CarriesBoth
  <2> QED BY <2>1, <2>3, CarriesNothing
<1>3. CASE ~IsWebSocket /\ (posting \/ buffer \o items = <<>>)
  <2>1. up' = up /\ buffer' = buffer \o items
    BY <1>3 DEF Transmit
  <2>2. Carries(buffer', b, d)
    BY <1>1, <2>1, CarriesBoth
  <2> QED BY <2>1, <2>2
<1>4. CASE ~IsWebSocket /\ ~(posting \/ buffer \o items = <<>>)
  <2>1. up' = buffer \o items /\ buffer' = <<>> /\ post = "none"
    BY <1>1, <1>4 DEF Transmit
  <2>2. up = <<>>
    BY <1>4, <2>1 DEF WireInv
  <2>3. a = b
    BY <2>2, CarriesNoMore
  <2>4. Carries(up', a, d)
    BY <1>1, <2>1, <2>3, CarriesBoth
  <2> QED BY <2>1, <2>4, CarriesNothing
<1> QED BY <1>2, <1>3, <1>4

(* An invariant of what a step leaves alone stays. *)
LEMMA UpKept ==
  ASSUME UpInv, UNCHANGED <<sent, arrived, up, buffer, queue>>, Flowing' => Flowing
  PROVE  UpInv'
<1>1. /\ \A i \in DOMAIN sent : sent[i] = i
      /\ \A i \in DOMAIN arrived : arrived[i] = i
      /\ Len(arrived) <= Len(sent)
      /\ Flowing' => \E b, c \in Nat : /\ Carries(up, Len(arrived), b)
                                       /\ Carries(buffer, b, c)
                                       /\ Carries(queue, c, Len(sent))
  BY DEF UpInv
<1>2. sent' = sent /\ arrived' = arrived /\ up' = up /\ buffer' = buffer /\ queue' = queue
  OBVIOUS
<1> HIDE DEF Flowing
<1> QED BY <1>1, <1>2 DEF UpInv

LEMMA DownKept ==
  ASSUME DownInv,
         UNCHANGED <<told, got, down, link, session, transport, browser, connecting, connected>>
  PROVE  DownInv'
BY DEF DownInv, LinkInv, LastGot, Lossy, IsMultipart

LEMMA ReadKept ==
  ASSUME ReadInv, UNCHANGED <<transport, got, response, begun, msgs, cutId>>,
         session' = session, link' = link \/ link' \in {"open", "broken"} \/ ~IsMultipart
  PROVE  ReadInv'
BY DEF ReadInv, IsMultipart

-----------------------------------------------------------------------------
(* One lemma for each action. *)
LEMMA ConnectKeeps ==
  ASSUME IInv, Connect
  PROVE  IInv'
<1> USE DEF IInv
<1>1. TypeOK'
  BY DEF TypeOK, Connect, server, reading
<1>2. LifeInv' /\ WireInv'
  BY DEF LifeInv, WireInv, IsWebSocket, Connect
<1>3. UpInv'
  <2>1. Flowing' => Flowing
    BY DEF Flowing, IsWebSocket, Connect, LifeInv
  <2> QED BY <2>1, UpKept DEF Connect, server
<1>4. DownInv'
  <2>1. link = "closed" /\ ~session /\ link' = "opening" /\ ~session'
    BY DEF Connect, LifeInv
  <2>2. down = <<>> /\ (~Lossy => told = <<>>)
    BY <2>1 DEF DownInv, Connect
  <2> QED BY <2>1, <2>2 DEF DownInv, LinkInv, LastGot, Lossy, IsMultipart, Connect, server
<1>5. ReadInv'
  BY DEF ReadInv, IsMultipart, LifeInv, Connect, reading
<1> QED BY <1>1, <1>2, <1>3, <1>4, <1>5

LEMMA SendKeeps ==
  ASSUME IInv, Send
  PROVE  IInv'
<1> USE DEF IInv
<1> DEFINE n == Len(sent) + 1
<1>1. /\ sent \in Seq(1..MaxSent) /\ Len(sent) \in Nat /\ n \in 1..MaxSent /\ n \in Int
      /\ sent' = Append(sent, n) /\ queue \in Seq(1..MaxSent) /\ <<n>> \in Seq(Ups)
  BY BoundsAssumption DEF TypeOK, Send, Ups
<1> HIDE DEF n
<1>2. /\ sent' \in Seq(1..MaxSent) /\ Len(sent') = n /\ DOMAIN sent = 1..Len(sent)
      /\ DOMAIN sent' = 1..n /\ \A i \in 1..Len(sent) : sent'[i] = sent[i]
      /\ sent'[n] = n
  BY <1>1, AppendFacts DEF n
<1>3. /\ UNCHANGED <<browser, transports, transport, connected, connecting, tconnected, session, link,
                     down, server, got, fired, reading>>
  BY DEF Send
<1>4. Carries(<<n>>, Len(sent), n)
  BY <1>1, CarriesOne DEF n
<1>5. \A i \in DOMAIN sent' : sent'[i] = i
  <2>1. \A i \in 1..n : i \in 1..Len(sent) \/ i = n
    BY <1>1 DEF n
  <2> QED BY <1>2, <2>1 DEF UpInv
<1>6. arrived' = arrived /\ Len(arrived) \in Nat /\ Len(arrived) <= n
  BY <1>1, <1>3 DEF server, reading, UpInv, TypeOK, n
<1>7. DownInv' /\ ReadInv'
  BY <1>3, DownKept, ReadKept DEF server, reading
<1>8. CASE transport = NoTransport \/ ~tconnected
  <2>1. queue' = Append(queue, n) /\ UNCHANGED <<buffer, posting, post, up>>
    BY <1>8 DEF Send, n
  <2>2. queue' \in Seq(1..MaxSent) /\ queue' = queue \o <<n>>
    BY <1>1, <2>1
  <2>3. ~tconnected
    BY <1>8 DEF LifeInv
  <2>4. TypeOK'
    BY <1>2, <1>3, <2>1, <2>2, <2>3 DEF TypeOK, server, reading
  <2>5. LifeInv' /\ WireInv'
    BY <1>3, <2>1 DEF LifeInv, WireInv, IsWebSocket
  <2>6. ASSUME Flowing'
        PROVE  \E b, c \in Nat : /\ Carries(up', Len(arrived'), b)
                                 /\ Carries(buffer', b, c)
                                 /\ Carries(queue', c, Len(sent'))
    <3>1. Flowing
      BY <1>3, <2>1, <2>6 DEF Flowing, IsWebSocket
    <3>2. PICK b, c \in Nat : /\ Carries(up, Len(arrived), b)
                              /\ Carries(buffer, b, c)
                              /\ Carries(queue, c, Len(sent))
      BY <3>1 DEF UpInv
    <3>3. queue \in Seq(Int) /\ <<n>> \in Seq(Int) /\ n \in Nat
      <4>1. n \in Nat
        BY <1>1
      <4>2. \A s \in Seq(1..MaxSent) : s \in Seq(Int)
        BY BoundsAssumption
      <4> QED BY <1>1, <4>1, <4>2
    <3>4. Carries(queue', c, n)
      BY <1>1, <1>4, <2>2, <3>2, <3>3, CarriesBoth
    <3> QED BY <1>2, <1>6, <2>1, <3>2, <3>4
  <2>7. UpInv'
    BY <1>2, <1>5, <1>6, <2>6 DEF UpInv
  <2> QED BY <1>7, <2>4, <2>5, <2>7
<1>9. CASE ~(transport = NoTransport \/ ~tconnected)
  <2>1. Transmit(<<n>>) /\ queue' = queue /\ queue = <<>> /\ session
    BY <1>9 DEF Send, n, TypeOK, LifeInv
  <2>2. /\ buffer' \in Seq(Ups) /\ up' \in Seq(Ups) /\ posting' \in BOOLEAN
        /\ post' \in {"none", "going", "coming"}
        /\ buffer' # <<>> => posting'
        /\ post' # "none" => posting'
        /\ IsWebSocket => buffer' = <<>> /\ ~posting' /\ post' = "none"
        /\ IsWebSocket /\ link # "open" => up' = <<>>
        /\ ~IsWebSocket /\ post' # "going" => up' = <<>>
    BY <1>1, <2>1, TransmitKeeps
  <2>3. TypeOK'
    BY <1>2, <1>3, <2>1, <2>2 DEF TypeOK, server, reading
  <2>4. LifeInv' /\ WireInv'
    BY <1>3, <2>1, <2>2 DEF LifeInv, WireInv, IsWebSocket
  <2>5. ASSUME Flowing'
        PROVE  \E b, c \in Nat : /\ Carries(up', Len(arrived'), b)
                                 /\ Carries(buffer', b, c)
                                 /\ Carries(queue', c, Len(sent'))
    <3>1. Flowing /\ IF IsWebSocket THEN link = "open" ELSE posting' => post' # "none"
      BY <1>3, <2>1, <2>2, <2>5 DEF Flowing, IsWebSocket, Transmit
    <3>2. PICK b, c \in Nat : /\ Carries(up, Len(arrived), b)
                              /\ Carries(buffer, b, c)
                              /\ Carries(queue, c, Len(sent))
      BY <3>1 DEF UpInv
    <3>3. c = Len(sent)
      BY <1>1, <2>1, <3>2, CarriesNoMore
    <3>4. PICK e \in Nat : Carries(up', Len(arrived), e) /\ Carries(buffer', e, n)
      <4>1. n \in Nat
        BY <1>1
      <4>2. TypeOK /\ WireInv /\ <<n>> \in Seq(Ups) /\ Transmit(<<n>>)
        BY <1>1, <2>1
      <4>3. Carries(<<n>>, c, n)
        BY <1>4, <3>3
      <4>4. Len(arrived) \in Nat
        BY <1>6
      <4> HIDE DEF IInv
      <4> QED BY <3>1, <3>2, <4>1, <4>2, <4>3, <4>4, TransmitCarries
    <3>5. Carries(queue', n, Len(sent'))
      BY <1>1, <1>2, <2>1, CarriesNothing
    <3> QED BY <1>1, <1>6, <3>4, <3>5
  <2>6. UpInv'
    BY <1>2, <1>5, <1>6, <2>5 DEF UpInv
  <2> QED BY <1>7, <2>3, <2>4, <2>6
<1> QED BY <1>8, <1>9

(* The last message got. *)
LEMMA LastGotIs ==
  ASSUME TypeOK, ReadInv
  PROVE  LastGot \in Nat /\ Len(told) \in Nat /\ down \in Seq(Int)
<1>1. /\ told \in Seq(1..MaxTold) /\ MaxTold \in Nat /\ down \in Seq(Downs)
      /\ ~IsMultipart => got \in Seq(1..MaxTold)
  BY BoundsAssumption DEF TypeOK, ReadInv
<1>2. down \in Seq(Int)
  <2>1. Downs \subseteq Int
    BY <1>1 DEF Downs, Session, Beat
  <2> QED BY <1>1, <2>1, SeqOfMore
<1>3. LastGot \in Nat
  <2>1. CASE got = <<>> \/ IsMultipart
    BY <2>1 DEF LastGot
  <2>2. CASE got # <<>> /\ ~IsMultipart
    <3>1. got[Len(got)] \in 1..MaxTold
      BY <1>1, <2>2, LastElement
    <3> QED BY <1>1, <2>2, <3>1 DEF LastGot, Last
  <2> QED BY <2>1, <2>2
<1> QED BY <1>1, <1>2, <1>3

LEMMA GotOneMore ==
  ASSUME got \in Seq(1..MaxTold), NEW e \in 1..MaxTold, got' = Append(got, e), ~IsMultipart'
  PROVE  got' \in Seq(1..MaxTold) /\ LastGot' = e
<1>1. /\ got' \in Seq(1..MaxTold) /\ got' # <<>> /\ Len(got') = Len(got) + 1
      /\ got'[Len(got) + 1] = e
  BY AppendFacts
<1>2. got'[Len(got')] = e
  BY <1>1
<1> QED BY <1>1, <1>2 DEF LastGot, Last

(* What stands on the link without its first frame. *)
LEMMA DownTail ==
  ASSUME IInv, link = "open", down # <<>>, ~IsMultipart
  PROVE  /\ Head(down) \in Downs
         /\ Tail(down) \in Seq(Downs)
         /\ ~session => Head(down) = Session
         /\ session => Head(down) # Session
         /\ \A i \in DOMAIN Tail(down) : Tail(down)[i] # Session
         /\ Head(down) <= 0 => /\ InOrder(Tail(down), LastGot, Len(told))
                               /\ ~Lossy => Carries(Tail(down), LastGot, Len(told))
         /\ Head(down) > 0 => /\ LastGot < Head(down) /\ Head(down) <= Len(told)
                              /\ InOrder(Tail(down), Head(down), Len(told))
                              /\ ~Lossy => /\ Head(down) = LastGot + 1
                                           /\ Carries(Tail(down), Head(down), Len(told))
<1>1. down \in Seq(Downs)
  BY DEF IInv, TypeOK
<1>2. LastGot \in Nat /\ Len(told) \in Nat /\ down \in Seq(Int)
  BY LastGotIs DEF IInv
<1>3. /\ Head(down) \in Downs /\ Head(down) = down[1] /\ 1 \in DOMAIN down
      /\ Tail(down) \in Seq(Downs)
      /\ Len(down) \in Nat /\ DOMAIN down = 1..Len(down)
      /\ DOMAIN Tail(down) = 1..(Len(down) - 1)
      /\ \A i \in 1..(Len(down) - 1) : Tail(down)[i] = down[i + 1]
  BY <1>1, TailFacts
<1>4. InOrder(down, LastGot, Len(told)) /\ (~Lossy => Carries(down, LastGot, Len(told)))
  BY DEF IInv, DownInv, LinkInv
<1>5. ~session => Head(down) = Session
  BY <1>3 DEF IInv, DownInv, LinkInv
<1>6. session => Head(down) # Session
  BY <1>3 DEF IInv, DownInv, LinkInv
<1>7. \A i \in DOMAIN Tail(down) : i + 1 \in DOMAIN down /\ i + 1 # 1 /\ Tail(down)[i] = down[i + 1]
  BY <1>3
<1>8. \A i \in DOMAIN Tail(down) : Tail(down)[i] # Session
  BY <1>7 DEF IInv, DownInv, LinkInv
<1> QED BY <1>2, <1>3, <1>4, <1>5, <1>6, <1>8, InOrderTail, CarriesTail

(* What is done with a frame, whatever it is: the way up stays as it should. *)
LEMMA OnMessageKeeps ==
  ASSUME IInv, NEW frame \in Downs \cup {Piece}, OnMessage(frame),
         link \in {"open", "broken"}, IsWebSocket => link = "open",
         UNCHANGED <<browser, transports, transport, link, arrived, told, beats, sent>>,
         down' \in Seq(Downs), response' \in Seq(Downs), msgs' \in Seq(Downs \cup {Piece}),
         begun' \in BOOLEAN, cutId' \in BOOLEAN
  PROVE  TypeOK' /\ LifeInv' /\ WireInv' /\ UpInv' /\ session' /\ (connecting' \/ connected')
<1>1. TypeOK /\ LifeInv /\ WireInv /\ UpInv
  BY DEF IInv
<1>2. Len(arrived) \in Nat /\ Len(sent) \in Nat
  BY <1>1 DEF TypeOK
<1>3. /\ IsWebSocket' = IsWebSocket
      /\ IsWebSocket => link = "open" /\ link' = "open"
      /\ Flowing' <=> IF IsWebSocket THEN TRUE ELSE posting' => post' # "none"
  BY DEF IsWebSocket, Flowing
<1>4. CASE ~session
  <2>1. /\ OnSession /\ Transmit(queue) /\ queue' = <<>> /\ session' = TRUE
        /\ tconnected' = TRUE /\ connected' = TRUE /\ connecting' = FALSE
        /\ fired' = Append(fired, "connect") /\ got' = got
    BY <1>4 DEF OnMessage, OnSession
  <2>2. fired = <<>>
    BY <1>1, <1>4 DEF LifeInv
  <2>3. fired' = <<"connect">>
    BY <2>1, <2>2
  <2>4. queue \in Seq(Ups)
    <3>1. 1..MaxSent \subseteq Ups /\ queue \in Seq(1..MaxSent)
      BY <1>1 DEF TypeOK, Ups
    <3> QED BY <3>1, SeqOfMore
  <2>5. /\ buffer' \in Seq(Ups) /\ up' \in Seq(Ups) /\ posting' \in BOOLEAN
        /\ post' \in {"none", "going", "coming"}
        /\ buffer' # <<>> => posting'
        /\ post' # "none" => posting'
        /\ IsWebSocket => buffer' = <<>> /\ ~posting' /\ post' = "none"
        /\ ~IsWebSocket /\ post' # "going" => up' = <<>>
    BY <1>1, <2>1, <2>4, TransmitKeeps
  <2>6. TypeOK'
    <3>1. /\ browser' \in Browsers /\ transports' \in Seq(Kinds \cup {"jsonp-polling"})
          /\ transport' \in Kinds \cup {NoTransport}
          /\ link' \in {"closed", "opening", "open", "broken"}
          /\ sent' \in Seq(1..MaxSent) /\ arrived' \in Seq(1..MaxSent)
          /\ told' \in Seq(1..MaxTold) /\ got' \in Seq({Session, Piece} \cup 1..MaxTold)
          /\ beats' \in 0..MaxBeats
      BY <1>1, <2>1 DEF TypeOK
    <3>2. /\ connected' \in BOOLEAN /\ connecting' \in BOOLEAN
          /\ tconnected' \in BOOLEAN /\ session' \in BOOLEAN
      BY <2>1
    <3>3. fired' \in {<<>>, <<"connect">>, <<"connect", "disconnect">>}
      BY <2>3
    <3>4. queue' \in Seq(1..MaxSent)
      BY <2>1
    <3> QED BY <2>1, <2>5, <3>1, <3>2, <3>3, <3>4 DEF TypeOK
  <2>7. LifeInv'
    BY <1>1, <2>1, <2>3 DEF LifeInv
  <2>8. WireInv'
    BY <1>3, <2>5 DEF WireInv
  <2>9. ASSUME Flowing'
        PROVE  \E b, c \in Nat : /\ Carries(up', Len(arrived'), b)
                                 /\ Carries(buffer', b, c)
                                 /\ Carries(queue', c, Len(sent'))
    <3>1. Flowing /\ IF IsWebSocket THEN link = "open" ELSE posting' => post' # "none"
      BY <1>1, <1>3, <1>4, <2>9 DEF Flowing, LifeInv
    <3>2. PICK b, c \in Nat : /\ Carries(up, Len(arrived), b)
                              /\ Carries(buffer, b, c)
                              /\ Carries(queue, c, Len(sent))
      BY <1>1, <3>1 DEF UpInv
    <3>3. PICK e \in Nat : Carries(up', Len(arrived), e) /\ Carries(buffer', e, Len(sent))
      BY <1>1, <1>2, <2>1, <2>4, <3>1, <3>2, TransmitCarries
    <3>4. Carries(queue', Len(sent), Len(sent))
      BY <1>2, <2>1, CarriesNothing
    <3> QED BY <1>2, <3>3, <3>4
  <2>10. UpInv'
    BY <1>1, <2>9 DEF UpInv
  <2> QED BY <2>1, <2>6, <2>7, <2>8, <2>10
<1>5. CASE session /\ frame = Beat
  <2>1. /\ Transmit(<<Beat>>) /\ got' = got
        /\ UNCHANGED <<connected, connecting, queue, tconnected, session, fired>>
    BY <1>5 DEF OnMessage
  <2>2. <<Beat>> \in Seq(Ups)
    BY DEF Ups
  <2>3. /\ buffer' \in Seq(Ups) /\ up' \in Seq(Ups) /\ posting' \in BOOLEAN
        /\ post' \in {"none", "going", "coming"}
        /\ buffer' # <<>> => posting'
        /\ post' # "none" => posting'
        /\ IsWebSocket => buffer' = <<>> /\ ~posting' /\ post' = "none"
        /\ ~IsWebSocket /\ post' # "going" => up' = <<>>
    BY <1>1, <2>1, <2>2, TransmitKeeps
  <2>4. TypeOK'
    BY <1>1, <2>1, <2>3 DEF TypeOK
  <2>5. LifeInv' /\ WireInv'
    BY <1>1, <1>3, <1>5, <2>1, <2>3 DEF LifeInv, WireInv
  <2>6. ASSUME Flowing'
        PROVE  \E b, c \in Nat : /\ Carries(up', Len(arrived'), b)
                                 /\ Carries(buffer', b, c)
                                 /\ Carries(queue', c, Len(sent'))
    <3>1. Flowing /\ IF IsWebSocket THEN link = "open" ELSE posting' => post' # "none"
      BY <1>1, <1>3, <2>1, <2>3, <2>6 DEF Flowing, Transmit
    <3>2. PICK b, c \in Nat : /\ Carries(up, Len(arrived), b)
                              /\ Carries(buffer, b, c)
                              /\ Carries(queue, c, Len(sent))
      BY <1>1, <3>1 DEF UpInv
    <3>3. PICK e \in Nat : Carries(up', Len(arrived), e) /\ Carries(buffer', e, c)
      BY <1>1, <1>2, <2>1, <2>2, <3>1, <3>2, CarriesBeat, TransmitCarries
    <3> QED BY <2>1, <3>2, <3>3
  <2>7. UpInv'
    BY <1>1, <2>6 DEF UpInv
  <2>8. session' /\ (connecting' \/ connected')
    BY <1>1, <1>5, <2>1 DEF LifeInv
  <2> QED BY <2>4, <2>5, <2>7, <2>8
<1>6. CASE session /\ frame # Beat
  <2>1. /\ got' = Append(got, frame) /\ UNCHANGED <<buffer, posting, post, up>>
        /\ UNCHANGED <<connected, connecting, queue, tconnected, session, fired>>
    BY <1>6 DEF OnMessage
  <2>2. got' \in Seq({Session, Piece} \cup 1..MaxTold)
    <3>1. frame \in {Session, Piece} \cup 1..MaxTold
      BY <1>6 DEF Downs
    <3> QED BY <1>1, <2>1, <3>1, AppendFacts DEF TypeOK
  <2>3. TypeOK'
    BY <1>1, <2>1, <2>2 DEF TypeOK
  <2>4. LifeInv' /\ WireInv'
    BY <1>1, <1>3, <2>1 DEF LifeInv, WireInv
  <2>5. UpInv'
    <3>1. Flowing' => Flowing
      BY <2>1 DEF Flowing, IsWebSocket
    <3> QED BY <1>1, <2>1, <3>1, UpKept
  <2>6. session' /\ (connecting' \/ connected')
    BY <1>1, <1>6, <2>1 DEF LifeInv
  <2> QED BY <2>3, <2>4, <2>5, <2>6
<1> QED BY <1>4, <1>5, <1>6

LEMMA OnDataKeeps ==
  ASSUME IInv, OnData
  PROVE  IInv'
<1>1. /\ link = "open" /\ down # <<>> /\ down' = Tail(down) /\ OnMessage(Head(down))
      /\ ~IsMultipart /\ ~IsMultipart'
      /\ UNCHANGED <<browser, transports, transport, link, arrived, told, beats, sent,
                     response, begun, msgs, cutId>>
  BY DEF OnData, server, reading, IsMultipart
<1>2. TypeOK /\ LifeInv /\ WireInv /\ ReadInv /\ UpInv /\ DownInv
  BY DEF IInv
<1>3. /\ Head(down) \in Downs /\ down' \in Seq(Downs)
      /\ \A i \in DOMAIN down' : down'[i] # Session
  BY <1>1, DownTail
<1>4. LastGot \in Nat /\ Len(told) \in Nat /\ Lossy' = Lossy
  BY <1>1, <1>2, LastGotIs DEF Lossy
<1>5. TypeOK' /\ LifeInv' /\ WireInv' /\ UpInv' /\ session' /\ (connecting' \/ connected')
  <2>1. /\ response' \in Seq(Downs) /\ msgs' \in Seq(Downs \cup {Piece})
        /\ begun' \in BOOLEAN /\ cutId' \in BOOLEAN /\ Head(down) \in Downs \cup {Piece}
        /\ link \in {"open", "broken"}
    BY <1>1, <1>2, <1>3 DEF TypeOK
  <2> QED BY <1>1, <1>3, <2>1, OnMessageKeeps
<1>6. CASE UNCHANGED got /\ Head(down) <= 0
  <2>1. LastGot' = LastGot
    BY <1>1, <1>6 DEF LastGot
  <2>2. /\ InOrder(Tail(down), LastGot, Len(told))
        /\ ~Lossy => Carries(Tail(down), LastGot, Len(told))
    BY <1>1, <1>6, DownTail
  <2>3. LastGot <= Len(told)
    BY <1>1, <1>2 DEF DownInv, LinkInv
  <2>4. LinkInv'
    BY <1>1, <1>3, <1>4, <1>5, <2>1, <2>2, <2>3 DEF LinkInv
  <2>5. DownInv'
    BY <1>1, <1>2, <1>4, <1>5, <2>4 DEF DownInv
  <2>6. ReadInv'
    BY <1>1, <1>2, <1>5, <1>6 DEF ReadInv
  <2> QED BY <1>5, <2>5, <2>6 DEF IInv
<1>7. CASE session /\ Head(down) # Beat
  <2>1. got' = Append(got, Head(down))
    BY <1>1, <1>7 DEF OnMessage
  <2>2. Head(down) \in 1..MaxTold /\ Head(down) > 0
    BY <1>1, <1>7, DownTail DEF Downs
  <2>3. got' \in Seq(1..MaxTold) /\ LastGot' = Head(down)
    BY <1>1, <1>2, <2>1, <2>2, GotOneMore DEF ReadInv
  <2>4. /\ Head(down) <= Len(told)
        /\ InOrder(Tail(down), Head(down), Len(told))
        /\ ~Lossy => Carries(Tail(down), Head(down), Len(told))
    BY <1>1, <2>2, DownTail
  <2>5. LinkInv'
    BY <1>1, <1>3, <1>4, <1>5, <2>3, <2>4 DEF LinkInv
  <2>6. DownInv'
    BY <1>1, <1>2, <1>4, <1>5, <2>5 DEF DownInv
  <2>7. ReadInv'
    BY <1>1, <1>2, <1>5, <2>3 DEF ReadInv
  <2> QED BY <1>5, <2>6, <2>7 DEF IInv
<1>8. CASE ~session
  <2>1. Head(down) <= 0
    BY <1>1, <1>8, DownTail DEF Session
  <2>2. UNCHANGED got
    BY <1>1, <1>8 DEF OnMessage, OnSession
  <2> QED BY <1>6, <2>1, <2>2
<1>9. CASE session /\ Head(down) = Beat
  <2>1. UNCHANGED got /\ Head(down) <= 0
    BY <1>1, <1>9 DEF OnMessage, Beat
  <2> QED BY <1>6, <2>1
<1> QED BY <1>7, <1>8, <1>9

(* What is read of a response, whatever it is. *)
LEMMA OnResponseTyped ==
  ASSUME TypeOK, OnResponse
  PROVE  /\ response' \in Seq(Downs) /\ down' \in Seq(Downs)
         /\ msgs' \in Seq(Downs \cup {Piece}) /\ begun' \in BOOLEAN
<1>1. response \in Seq(Downs) /\ down \in Seq(Downs) /\ Len(down) \in Nat
  BY DEF TypeOK
<1>2. PICK n \in 0..Len(down) :
        /\ response' = response \o SubSeq(down, 1, n)
        /\ down' = SubSeq(down, n + 1, Len(down))
        /\ \/ n > 0 /\ msgs' = response' /\ begun' = FALSE
           \/ /\ n < Len(down) /\ begun' = TRUE
              /\ \E piece \in Pieces(down[n + 1]) : msgs' = response' \o piece
  BY DEF OnResponse
<1>3. SubSeq(down, 1, n) \in Seq(Downs) /\ SubSeq(down, n + 1, Len(down)) \in Seq(Downs)
  <2>1. ASSUME NEW S, NEW s \in Seq(S), NEW m \in 0..Len(s)
        PROVE  SubSeq(s, 1, m) \in Seq(S) /\ SubSeq(s, m + 1, Len(s)) \in Seq(S)
    BY <2>1
  <2> QED BY <1>1, <2>1
<1>4. response' \in Seq(Downs)
  BY <1>1, <1>2, <1>3, ConcatFacts
<1>5. response' \in Seq(Downs \cup {Piece})
  BY <1>4, SeqOfMore
<1>6. msgs' \in Seq(Downs \cup {Piece})
  <2>1. CASE msgs' = response'
    BY <1>5, <2>1
  <2>2. ASSUME NEW piece \in Pieces(down[n + 1]), msgs' = response' \o piece
        PROVE  msgs' \in Seq(Downs \cup {Piece})
    <3>1. piece \in Seq(Downs \cup {Piece})
      <4>1. piece \in {<<>>, <<Piece>>, <<Beat>>}
        BY <2>2 DEF Pieces
      <4>2. Beat \in Downs \cup {Piece} /\ Piece \in Downs \cup {Piece}
        BY DEF Downs
      <4>3. \A S : <<>> \in Seq(S) /\ \A e \in S : <<e>> \in Seq(S)
        OBVIOUS
      <4> QED BY <4>1, <4>2, <4>3
    <3> QED BY <1>5, <2>2, <3>1, ConcatFacts
  <2> QED BY <1>2, <2>1, <2>2
<1> QED BY <1>2, <1>3, <1>4, <1>6

LEMMA OnResponseKeeps ==
  ASSUME IInv, OnResponse
  PROVE  IInv'
<1>1. TypeOK /\ LifeInv /\ WireInv /\ ReadInv /\ UpInv /\ DownInv
  BY DEF IInv
<1>2. /\ IsMultipart /\ link = "open"
      /\ UNCHANGED <<browser, transports, transport, connected, connecting, queue, tconnected, session,
                     buffer, posting, link, post, up, arrived, told, beats, sent, got, fired, cutId>>
      /\ IsWebSocket' = IsWebSocket /\ IsMultipart' /\ (Flowing' <=> Flowing) /\ Lossy' = Lossy
  BY DEF OnResponse, base, server, IsWebSocket, IsMultipart, Flowing, Lossy
<1>3. TypeOK'
  BY <1>1, <1>2, OnResponseTyped DEF TypeOK
<1>4. LifeInv' /\ WireInv' /\ UpInv'
  BY <1>1, <1>2, UpKept DEF LifeInv, WireInv
<1>5. DownInv' /\ ReadInv'
  BY <1>1, <1>2 DEF DownInv, ReadInv
<1> QED BY <1>3, <1>4, <1>5 DEF IInv

LEMMA OnDecodedKeeps ==
  ASSUME IInv, OnDecoded
  PROVE  IInv'
<1>1. TypeOK /\ LifeInv /\ WireInv /\ ReadInv /\ UpInv /\ DownInv
  BY DEF IInv
<1>2. /\ msgs # <<>> /\ msgs' = Tail(msgs) /\ OnMessage(Head(msgs))
      /\ UNCHANGED <<browser, transports, transport, link, down, arrived, told, beats, sent,
                     response, begun>>
  BY DEF OnDecoded, server
<1>3. IsMultipart /\ IsMultipart' /\ link \in {"open", "broken"} /\ ~IsWebSocket
  BY <1>1, <1>2 DEF ReadInv, IsMultipart, IsWebSocket, WebSockets
<1>4. Head(msgs) \in Downs \cup {Piece} /\ msgs' \in Seq(Downs \cup {Piece})
  BY <1>1, <1>2, TailFacts DEF TypeOK
<1>5. cutId' \in BOOLEAN
  BY <1>1 DEF OnDecoded, TypeOK
<1>6. TypeOK' /\ LifeInv' /\ WireInv' /\ UpInv' /\ session' /\ (connecting' \/ connected')
  <2>1. down' \in Seq(Downs) /\ response' \in Seq(Downs) /\ begun' \in BOOLEAN
    BY <1>1, <1>2 DEF TypeOK
  <2> QED BY <1>2, <1>3, <1>4, <1>5, <2>1, OnMessageKeeps
<1>7. DownInv' /\ ReadInv'
  BY <1>1, <1>2, <1>3, <1>6 DEF DownInv, ReadInv, Lossy
<1> QED BY <1>6, <1>7 DEF IInv

LEMMA PartEndsKeeps ==
  ASSUME IInv, PartEnds
  PROVE  IInv'
<1>1. TypeOK /\ LifeInv /\ WireInv /\ ReadInv /\ UpInv /\ DownInv
  BY DEF IInv
<1>2. /\ IsMultipart /\ link = "open" /\ response' = <<>> /\ UNCHANGED <<begun, msgs, cutId>>
      /\ UNCHANGED <<browser, transports, transport, connected, connecting, queue, tconnected, session,
                     buffer, posting, link, post, up, down, arrived, told, beats, sent, got, fired>>
      /\ IsWebSocket' = IsWebSocket /\ IsMultipart' /\ (Flowing' <=> Flowing)
  BY DEF PartEnds, base, wires, server, IsWebSocket, IsMultipart, Flowing
<1>3. TypeOK'
  <2>1. response' \in Seq(Downs)
    BY <1>2
  <2> QED BY <1>1, <1>2, <2>1 DEF TypeOK
<1>4. LifeInv' /\ WireInv' /\ UpInv' /\ DownInv'
  BY <1>1, <1>2, UpKept, DownKept DEF LifeInv, WireInv
<1>5. ReadInv'
  BY <1>1, <1>2 DEF ReadInv
<1> QED BY <1>3, <1>4, <1>5 DEF IInv

LEMMA FallBackKeeps ==
  ASSUME IInv, IsWebSocket, link = "broken", ~connected, FallBack
  PROVE  IInv'
<1>1. TypeOK /\ LifeInv /\ WireInv /\ ReadInv /\ UpInv /\ DownInv
  BY DEF IInv
<1>2. PICK left : /\ left \in Seq(Kinds \cup {"jsonp-polling"}) /\ transports' = left
                  /\ transport' = GetTransport(browser, left)
  <2> DEFINE place == SelectInSeq(transports, LAMBDA kind : kind = "flashsocket")
             left == RemoveAt(transports, IF place = 0 THEN Len(transports) ELSE place)
  <2>1. left \in Seq(Kinds \cup {"jsonp-polling"})
    BY <1>1, ListLeft DEF TypeOK
  <2>2. transports' = left /\ transport' = GetTransport(browser, left)
    BY DEF FallBack
  <2> QED BY <2>1, <2>2
<1>3. transport' \in Kinds \cup {NoTransport}
  BY <1>1, <1>2, TransportChosen DEF TypeOK
<1>4. connecting = TRUE /\ ~session /\ ~tconnected
  BY <1>1 DEF LifeInv, TypeOK
<1>5. /\ link' = "closed" /\ connecting' = TRUE /\ tconnected' = FALSE /\ session' = FALSE
      /\ buffer' = <<>> /\ posting' = FALSE
      /\ UNCHANGED <<browser, connected, queue, post, up, down, arrived, told, beats, sent, got, fired,
                     response, begun, msgs, cutId>>
  BY <1>4 DEF FallBack, server, reading
<1>6. up = <<>> /\ buffer = <<>> /\ ~posting /\ post = "none" /\ down = <<>> /\ fired = <<>>
  BY <1>1, <1>4 DEF LifeInv, DownInv
<1>7. TypeOK'
  <2>1. buffer' \in Seq(Ups)
    BY <1>5
  <2> QED BY <1>1, <1>2, <1>3, <1>4, <1>5, <1>6, <2>1 DEF TypeOK
<1>8. LifeInv' /\ WireInv'
  BY <1>1, <1>4, <1>5, <1>6 DEF LifeInv, WireInv
<1>9. UpInv'
  <2>1. Flowing
    BY <1>4 DEF Flowing
  <2> QED BY <1>1, <1>5, <1>6, <2>1, UpKept
<1>10. got = <<>> /\ response = <<>> /\ ~begun /\ msgs = <<>> /\ ~cutId
  BY <1>1, <1>4 DEF ReadInv, IsMultipart, IsWebSocket, WebSockets
<1>11. DownInv'
  <2>1. /\ \A i \in DOMAIN told' : told'[i] = i
        /\ down' = <<>> /\ link' = "closed" /\ connecting' /\ got' = <<>> /\ Len(told') \in Nat
    BY <1>1, <1>5, <1>6, <1>10 DEF DownInv, TypeOK
  <2>2. LastGot' = 0
    BY <2>1 DEF LastGot
  <2>3. DOMAIN down' = {}
    BY <2>1
  <2>4. LinkInv'
    BY <2>1, <2>2, <2>3 DEF LinkInv, InOrder
  <2> QED BY <2>1, <2>4 DEF DownInv
<1>12. ReadInv'
  <2>1. got' \in Seq(1..MaxTold)
    BY <1>5, <1>10
  <2> QED BY <1>5, <1>10, <2>1 DEF ReadInv
<1> QED BY <1>7, <1>8, <1>9, <1>11, <1>12 DEF IInv

LEMMA OnCloseKeeps ==
  ASSUME IInv, OnClose
  PROVE  IInv'
<1>1. TypeOK /\ LifeInv /\ WireInv /\ ReadInv /\ UpInv /\ DownInv
  BY DEF IInv
<1>2. IsWebSocket /\ link = "broken"
  BY DEF OnClose
<1>3. CASE transport = "flashsocket" /\ ~connected
  BY <1>2, <1>3, FallBackKeeps DEF OnClose
<1>4. CASE ~(transport = "flashsocket" /\ ~connected)
  <2>1. /\ link' = "closed" /\ OnDisconnect
        /\ UNCHANGED <<browser, transports, transport, connected, connecting, queue, session, buffer,
                       posting, post, up, down, arrived, told, beats, sent, got,
                       response, begun, msgs, cutId>>
    BY <1>4 DEF OnClose, server, reading
  <2>2. /\ tconnected' = FALSE
        /\ fired' \in {<<>>, <<"connect">>, <<"connect", "disconnect">>}
        /\ fired' = IF ~session THEN <<>> ELSE <<"connect", "disconnect">>
    <3>1. CASE tconnected
      <4>1. fired = <<"connect">> /\ session
        BY <1>1, <3>1 DEF LifeInv
      <4>2. fired' = <<"connect", "disconnect">> /\ tconnected' = FALSE
        BY <2>1, <3>1, <4>1 DEF OnDisconnect
      <4> QED BY <4>1, <4>2
    <3>2. CASE ~tconnected
      BY <1>1, <2>1, <3>2 DEF OnDisconnect, LifeInv, TypeOK
    <3> QED BY <3>1, <3>2
  <2>3. TypeOK'
    BY <1>1, <2>1, <2>2 DEF TypeOK
  <2>4. LifeInv' /\ WireInv'
    BY <1>1, <1>2, <2>1, <2>2 DEF LifeInv, WireInv, IsWebSocket
  <2>5. UpInv'
    <3>1. Flowing' => Flowing
      BY <1>2, <2>1 DEF Flowing, IsWebSocket
    <3> QED BY <1>1, <2>1, <3>1, UpKept
  <2>6. DownInv'
    BY <1>1, <1>2, <2>1 DEF DownInv, LinkInv, LastGot, Lossy, LifeInv, IsMultipart
  <2>7. ReadInv'
    BY <1>1, <1>2, <2>1, ReadKept DEF IsMultipart, IsWebSocket, WebSockets
  <2> QED BY <2>3, <2>4, <2>5, <2>6, <2>7 DEF IInv
<1> QED BY <1>3, <1>4

(* Whatever breaks a connection: nothing is left on its way down, and on its *)
(* way up only what a POST has of its own.                                   *)
LEMMA BrokenKeeps ==
  ASSUME IInv, link' = "broken", link \in {"opening", "open"}, down' = <<>>,
         \/ up' = (IF IsWebSocket THEN <<>> ELSE up) /\ post' = post
         \/ up' = <<>> /\ post' = "none",
         UNCHANGED <<base, tconnected, session, buffer, posting, server, sent, got, fired, reading>>
  PROVE  IInv'
<1>1. TypeOK /\ LifeInv /\ WireInv /\ ReadInv /\ UpInv /\ DownInv
  BY DEF IInv
<1>2. /\ UNCHANGED <<browser, transports, transport, connected, connecting, queue, tconnected, session,
                     buffer, posting, arrived, told, beats, sent, got, fired,
                     response, begun, msgs, cutId>>
      /\ IsWebSocket' = IsWebSocket
  BY DEF base, server, reading, IsWebSocket
<1>3. TypeOK'
  <2>1. up' \in Seq(Ups) /\ down' \in Seq(Downs)
    <3>1. up \in Seq(Ups) /\ <<>> \in Seq(Ups)
      BY <1>1 DEF TypeOK
    <3>2. up' = up \/ up' = <<>>
      OBVIOUS
    <3>3. up' \in Seq(Ups)
      BY <3>1, <3>2
    <3>4. down' \in Seq(Downs)
      OBVIOUS
    <3> QED BY <3>3, <3>4
  <2>2. post' \in {"none", "going", "coming"} /\ (post' # "none" => posting)
    BY <1>1 DEF TypeOK
  <2> QED BY <1>1, <1>2, <2>1, <2>2 DEF TypeOK
<1>4. connecting \/ connected
  BY <1>1 DEF LifeInv
<1>5. LifeInv'
  BY <1>1, <1>2, <1>4 DEF LifeInv
<1>6. WireInv'
  BY <1>1, <1>2 DEF WireInv
<1>7. UpInv'
  <2>1. Flowing' => Flowing /\ up' = up
    <3>1. CASE IsWebSocket
      BY <1>1, <1>2, <3>1 DEF Flowing, LifeInv
    <3>2. CASE ~IsWebSocket
      <4>1. Flowing' => ~posting \/ post' # "none"
        BY <1>2, <3>2 DEF Flowing
      <4>2. ~posting => post = "none" /\ up = <<>>
        BY <1>1, <3>2 DEF TypeOK, WireInv
      <4> QED BY <1>2, <3>2, <4>1, <4>2 DEF Flowing
    <3> QED BY <3>1, <3>2
  <2>2. CASE Flowing'
    BY <1>1, <1>2, <2>1, <2>2, UpKept
  <2>3. CASE ~Flowing'
    BY <1>1, <1>2, <2>3 DEF UpInv
  <2> QED BY <2>2, <2>3
<1>8. DownInv'
  BY <1>1, <1>2, <1>4 DEF DownInv, LinkInv, LastGot, InOrder, IsMultipart
<1>9. ReadInv'
  BY <1>1, <1>2, ReadKept
<1> QED BY <1>3, <1>5, <1>6, <1>7, <1>8, <1>9 DEF IInv

LEMMA DisconnectKeeps ==
  ASSUME IInv, Disconnect
  PROVE  IInv'
BY BrokenKeeps DEF Disconnect

LEMMA BreakKeeps ==
  ASSUME IInv, Break
  PROVE  IInv'
<1>1. /\ link' = "broken" /\ link \in {"opening", "open"} /\ down' = <<>>
      /\ up' = (IF IsWebSocket THEN <<>> ELSE up) /\ post' = post
      /\ UNCHANGED <<base, tconnected, session, buffer, posting, server, sent, got, fired, reading>>
  BY DEF Break
<1> QED BY <1>1, BrokenKeeps

LEMMA OpenedKeeps ==
  ASSUME IInv, Opened
  PROVE  IInv'
<1>1. TypeOK /\ LifeInv /\ WireInv /\ ReadInv /\ UpInv /\ DownInv
  BY DEF IInv
<1>2. /\ link = "opening" /\ link' = "open" /\ down' = <<Session>> /\ ~session
      /\ UNCHANGED <<browser, transports, transport, connected, connecting, queue, tconnected, session,
                     buffer, posting, post, up, arrived, told, beats, sent, got, fired,
                     response, begun, msgs, cutId>>
      /\ IsWebSocket' = IsWebSocket
  BY <1>1 DEF Opened, base, server, reading, IsWebSocket, LifeInv
<1>3. TypeOK'
  <2>1. down' \in Seq(Downs)
    <3>1. Session \in Downs
      BY DEF Downs
    <3> QED BY <1>2, <3>1
  <2> QED BY <1>1, <1>2, <2>1 DEF TypeOK
<1>4. LifeInv' /\ WireInv'
  BY <1>1, <1>2 DEF LifeInv, WireInv
<1>5. UpInv'
  <2>1. Flowing
    BY <1>1, <1>2 DEF Flowing, LifeInv
  <2> QED BY <1>1, <1>2, <2>1, UpKept
<1>6. ASSUME ~IsMultipart
      PROVE  LinkInv'
  <2>1. LastGot \in Nat /\ Len(told) \in Nat /\ LastGot <= Len(told)
    BY <1>1, <1>6, LastGotIs DEF DownInv, LinkInv
  <2>2. DOMAIN <<Session>> = {1} /\ <<Session>>[1] = Session /\ <<Session>> # <<>>
    OBVIOUS
  <2>3. InOrder(<<Session>>, LastGot, Len(told))
    BY <2>2 DEF InOrder, Session
  <2>4. ~Lossy => Carries(<<Session>>, LastGot, Len(told))
    <3> SUFFICES ASSUME ~Lossy PROVE Carries(<<Session>>, LastGot, Len(told))
      OBVIOUS
    <3>1. told = <<>>
      BY <1>1, <1>2 DEF DownInv
    <3>2. Len(told) = 0
      BY <3>1
    <3>3. (LastGot + 1)..Len(told) = {}
      BY <2>1, <3>2
    <3> QED BY <2>1, <2>3, <3>3 DEF Carries
  <2>5. LastGot' = LastGot /\ Lossy' = Lossy
    BY <1>2 DEF LastGot, Lossy, IsMultipart
  <2> QED BY <1>2, <2>1, <2>2, <2>3, <2>4, <2>5 DEF LinkInv
<1>7. DownInv'
  <2>1. connecting \/ connected
    BY <1>1, <1>2 DEF LifeInv
  <2> QED BY <1>1, <1>2, <1>6, <2>1 DEF DownInv, Lossy, IsMultipart
<1>8. ReadInv'
  BY <1>1, <1>2, ReadKept
<1> QED BY <1>3, <1>4, <1>5, <1>7, <1>8 DEF IInv

LEMMA PollFailsKeeps ==
  ASSUME IInv, PollFails
  PROVE  IInv'
<1>1. TypeOK /\ LifeInv /\ WireInv /\ ReadInv /\ UpInv /\ DownInv
  BY DEF IInv
<1>2. /\ link \in {"opening", "open"} /\ down' = <<>> /\ transport = "xhr-polling" /\ browser.faults
      /\ UNCHANGED <<base, tconnected, session, buffer, posting, post, up, server, sent, got, fired, reading>>
      /\ ~IsWebSocket
  BY DEF PollFails, IsWebSocket, WebSockets
<1>3. CASE link' = "broken"
  <2>1. up' = (IF IsWebSocket THEN <<>> ELSE up) /\ post' = post
    BY <1>2
  <2>2. UNCHANGED <<base, tconnected, session, buffer, posting, server, sent, got, fired, reading>>
    BY <1>2
  <2> QED BY <1>2, <1>3, <2>1, <2>2, BrokenKeeps
<1>4. CASE browser.onload /\ link' = IF session THEN link ELSE "opening"
  <2>1. /\ UNCHANGED <<browser, transports, transport, connected, connecting, queue, tconnected, session,
                       buffer, posting, post, up, arrived, told, beats, sent, got, fired,
                       response, begun, msgs, cutId>>
        /\ IsWebSocket' = IsWebSocket /\ (Flowing' <=> Flowing)
    BY <1>2 DEF base, server, reading, IsWebSocket, Flowing
  <2>2. Lossy'
    BY <1>2, <1>4, <2>1 DEF Lossy
  <2>3. link' \in {"opening", "open"} /\ (~session => link' = "opening") /\ (session => link' = link)
    BY <1>2, <1>4
  <2>4. TypeOK'
    <3>1. down' \in Seq(Downs)
      BY <1>2
    <3> QED BY <1>1, <2>1, <2>3, <3>1 DEF TypeOK
  <2>5. LifeInv' /\ WireInv'
    BY <1>1, <1>2, <2>1, <2>3 DEF LifeInv, WireInv
  <2>6. UpInv'
    BY <1>1, <2>1, UpKept
  <2>7. DownInv'
    BY <1>1, <1>2, <2>1, <2>2, <2>3 DEF DownInv, LinkInv, LastGot, InOrder, IsMultipart
  <2>8. ReadInv'
    BY <1>1, <1>2, <2>1, ReadKept DEF IsMultipart
  <2> QED BY <2>4, <2>5, <2>6, <2>7, <2>8 DEF IInv
<1> QED BY <1>3, <1>4 DEF PollFails

LEMMA TellKeeps ==
  ASSUME IInv, Tell
  PROVE  IInv'
<1>1. TypeOK /\ LifeInv /\ WireInv /\ ReadInv /\ UpInv /\ DownInv
  BY DEF IInv
<1>2. /\ link = "open"
      /\ UNCHANGED <<browser, transports, transport, connected, connecting, queue, tconnected, session,
                     buffer, posting, link, post, up, arrived, sent, got, fired, response, begun, msgs,
                     cutId>>
  BY DEF Tell, base, reading
<1>3. /\ IsWebSocket' = IsWebSocket /\ (Flowing' <=> Flowing) /\ Lossy' = Lossy
      /\ LastGot' = LastGot /\ IsMultipart' = IsMultipart
  BY <1>2 DEF IsWebSocket, Flowing, Lossy, LastGot, IsMultipart
<1>4. /\ LastGot \in Nat /\ Len(told) \in Nat /\ down \in Seq(Int)
      /\ told \in Seq(1..MaxTold) /\ down \in Seq(Downs)
      /\ ~IsMultipart => LastGot <= Len(told)
  BY <1>1, LastGotIs DEF DownInv, LinkInv, TypeOK
<1>5. LifeInv' /\ WireInv' /\ UpInv' /\ ReadInv'
  BY <1>1, <1>2, <1>3, UpKept, ReadKept DEF LifeInv, WireInv
<1>6. ~IsMultipart => /\ InOrder(down, LastGot, Len(told))
                      /\ ~Lossy => Carries(down, LastGot, Len(told))
  BY <1>1, <1>2 DEF DownInv, LinkInv
<1>7. connecting \/ connected
  BY <1>1, <1>2 DEF LifeInv
<1>8. ASSUME NEW e \in {Beat} \cup 1..MaxTold, down' = Append(down, e)
      PROVE  /\ down' \in Seq(Downs)
             /\ ~IsMultipart =>
                  /\ session' => \A i \in DOMAIN down' : down'[i] # Session
                  /\ ~session' => /\ down' # <<>>
                                  /\ \A i \in DOMAIN down' : down'[i] = Session <=> i = 1
  <2>1. /\ down' \in Seq(Downs) /\ down' # <<>>
        /\ Len(down) \in Nat /\ DOMAIN down = 1..Len(down) /\ DOMAIN down' = 1..(Len(down) + 1)
        /\ \A i \in 1..Len(down) : down'[i] = down[i]
        /\ down'[Len(down) + 1] = e
    BY <1>4, <1>8, AppendFacts DEF Downs
  <2>2. e # Session
    BY <1>8, BoundsAssumption DEF Session, Beat
  <2>3. \A i \in DOMAIN down' : i \in DOMAIN down \/ i = Len(down) + 1
    BY <2>1
  <2>4. ASSUME ~IsMultipart, session'
        PROVE  \A i \in DOMAIN down' : down'[i] # Session
    BY <1>1, <1>2, <2>1, <2>2, <2>3, <2>4 DEF DownInv, LinkInv
  <2>5. ASSUME ~IsMultipart, ~session'
        PROVE  \A i \in DOMAIN down' : down'[i] = Session <=> i = 1
    <3>1. down # <<>> /\ \A i \in DOMAIN down : down[i] = Session <=> i = 1
      BY <1>1, <1>2, <2>5 DEF DownInv, LinkInv
    <3>2. Len(down) # 0
      BY <1>4, <3>1
    <3>3. Len(down) + 1 # 1
      BY <2>1, <3>2
    <3> QED BY <2>1, <2>2, <2>3, <3>1, <3>3
  <2> QED BY <2>1, <2>4, <2>5
<1>9. CASE Len(told) < MaxTold /\ told' = Append(told, Len(told) + 1)
           /\ down' = Append(down, Len(told) + 1) /\ UNCHANGED beats
  <2>1. Len(told) + 1 \in 1..MaxTold
    BY <1>4, <1>9, BoundsAssumption
  <2>2. /\ told' \in Seq(1..MaxTold) /\ Len(told') = Len(told) + 1
        /\ DOMAIN told = 1..Len(told) /\ DOMAIN told' = 1..(Len(told) + 1)
        /\ \A i \in 1..Len(told) : told'[i] = told[i]
        /\ told'[Len(told) + 1] = Len(told) + 1
    BY <1>4, <1>9, <2>1, AppendFacts
  <2>3. \A i \in DOMAIN told' : told'[i] = i
    <3>1. \A i \in DOMAIN told' : i \in DOMAIN told \/ i = Len(told) + 1
      BY <1>4, <2>2
    <3> QED BY <1>1, <2>2, <3>1 DEF DownInv
  <2>4. /\ down' \in Seq(Downs)
        /\ ~IsMultipart =>
             /\ session' => \A i \in DOMAIN down' : down'[i] # Session
             /\ ~session' => /\ down' # <<>>
                             /\ \A i \in DOMAIN down' : down'[i] = Session <=> i = 1
    BY <1>8, <1>9, <2>1
  <2>5. TypeOK'
    BY <1>1, <1>2, <1>9, <2>2, <2>4 DEF TypeOK
  <2>6. ASSUME ~IsMultipart
        PROVE  LinkInv'
    <3>1. /\ InOrder(down', LastGot, Len(told'))
          /\ ~Lossy => Carries(down', LastGot, Len(told'))
      BY <1>4, <1>6, <1>9, <2>2, <2>6, InOrderAppend
    <3>2. LastGot <= Len(told')
      BY <1>4, <2>2, <2>6
    <3> QED BY <1>2, <1>3, <2>4, <2>6, <3>1, <3>2 DEF LinkInv
  <2>7. DownInv'
    BY <1>2, <1>3, <1>7, <2>3, <2>6 DEF DownInv
  <2> QED BY <1>5, <2>5, <2>7 DEF IInv
<1>10. CASE beats < MaxBeats /\ beats' = beats + 1
            /\ down' = Append(down, Beat) /\ UNCHANGED told
  <2>1. /\ down' \in Seq(Downs)
        /\ ~IsMultipart =>
             /\ session' => \A i \in DOMAIN down' : down'[i] # Session
             /\ ~session' => /\ down' # <<>>
                             /\ \A i \in DOMAIN down' : down'[i] = Session <=> i = 1
    BY <1>8, <1>10
  <2>2. beats' \in 0..MaxBeats
    BY <1>1, <1>10, BoundsAssumption DEF TypeOK
  <2>3. TypeOK'
    BY <1>1, <1>2, <1>10, <2>1, <2>2 DEF TypeOK
  <2>4. ASSUME ~IsMultipart
        PROVE  LinkInv'
    <3>1. /\ InOrder(down', LastGot, Len(told))
          /\ ~Lossy => Carries(down', LastGot, Len(told))
      BY <1>4, <1>6, <1>10, <2>4, InOrderAppend
    <3> QED BY <1>2, <1>3, <1>4, <1>10, <2>1, <2>4, <3>1 DEF LinkInv
  <2>5. DownInv'
    BY <1>1, <1>2, <1>3, <1>7, <1>10, <2>4 DEF DownInv
  <2> QED BY <1>5, <2>3, <2>5 DEF IInv
<1> QED BY <1>9, <1>10 DEF Tell

(* What arrives is what comes next of what was sent. *)
LEMMA ArriveSteps ==
  ASSUME IInv, Arrive
  PROVE  \E b, c \in Nat :
           /\ arrived' \in Seq(1..MaxSent) /\ Len(arrived') = b
           /\ \A i \in DOMAIN arrived' : arrived'[i] = i
           /\ Len(arrived) <= b /\ b <= Len(sent)
           /\ up' \in Seq(Ups) /\ post' \in {"none", "going", "coming"}
           /\ post' # "none" => posting
           /\ IsWebSocket => link = "open" /\ post' = post
           /\ ~IsWebSocket => up' = <<>>
           /\ \E d \in Nat : Carries(up', b, d) /\ Carries(buffer, d, c) /\ Carries(queue, c, Len(sent))
<1>1. TypeOK /\ LifeInv /\ WireInv /\ ReadInv /\ UpInv /\ DownInv
  BY DEF IInv
<1>2. /\ up \in Seq(Ups) /\ up # <<>> /\ up \in Seq(Int) /\ arrived \in Seq(1..MaxSent)
      /\ Len(arrived) \in Nat /\ Len(sent) \in Nat /\ MaxSent \in Nat
  <2>1. Ups \subseteq Int /\ up \in Seq(Ups)
    BY <1>1, BoundsAssumption DEF Ups, Beat, TypeOK
  <2>2. up \in Seq(Int)
    BY <2>1, SeqOfMore
  <2> QED BY <1>1, <2>1, <2>2, BoundsAssumption DEF Arrive, TypeOK
<1>3. \A i \in DOMAIN arrived : arrived[i] = i
  BY <1>1 DEF UpInv
<1>4. CASE IsWebSocket
  <2>1. link = "open" /\ Messages(<<Head(up)>>) /\ up' = Tail(up) /\ post' = post /\ post = "none"
    BY <1>1, <1>4 DEF Arrive, WireInv
  <2>2. Flowing
    BY <1>4, <2>1 DEF Flowing
  <2>3. PICK d, c \in Nat : /\ Carries(up, Len(arrived), d)
                            /\ Carries(buffer, d, c)
                            /\ Carries(queue, c, Len(sent))
    BY <1>1, <2>2 DEF UpInv
  <2>4. /\ Head(up) \in Ups /\ Tail(up) \in Seq(Ups) /\ <<Head(up)>> \in Seq(Ups)
    BY <1>2, TailFacts
  <2>5. Head(up) \in Int /\ (Head(up) <= 0 => Head(up) = Beat)
    BY <1>2, <2>4 DEF Ups, Beat
  <2>6. /\ Head(up) <= 0 => Carries(Tail(up), Len(arrived), d)
        /\ Head(up) > 0 => Head(up) = Len(arrived) + 1 /\ Carries(Tail(up), Len(arrived) + 1, d)
    BY <1>2, <2>3, CarriesTail
  <2>7. PICK b \in Nat : /\ Carries(<<Head(up)>>, Len(arrived), b) /\ Carries(Tail(up), b, d)
    <3>1. CASE Head(up) <= 0
      BY <1>2, <2>5, <2>6, <3>1, CarriesBeat
    <3>2. CASE Head(up) > 0
      <4>1. Len(arrived) + 1 \in Nat
        BY <1>2
      <4> QED BY <1>2, <2>6, <3>2, <4>1, CarriesOne
    <3> QED BY <2>5, <3>1, <3>2
  <2>8. /\ arrived' \in Seq(1..MaxSent) /\ Len(arrived') = b
        /\ \A i \in DOMAIN arrived' : arrived'[i] = i
    BY <1>2, <1>3, <2>1, <2>4, <2>7, MessagesArrive
  <2>9. Len(arrived) <= b /\ b <= Len(sent)
    BY <1>2, <2>3, <2>7 DEF Carries
  <2> QED BY <1>4, <2>1, <2>3, <2>4, <2>7, <2>8, <2>9
<1>5. CASE ~IsWebSocket
  <2>1. post = "going" /\ Messages(up) /\ up' = <<>> /\ post' = "coming" /\ posting
    BY <1>1, <1>5 DEF Arrive, TypeOK
  <2>2. Flowing
    BY <1>5, <2>1 DEF Flowing
  <2>3. PICK b, c \in Nat : /\ Carries(up, Len(arrived), b)
                            /\ Carries(buffer, b, c)
                            /\ Carries(queue, c, Len(sent))
    BY <1>1, <2>2 DEF UpInv
  <2>4. /\ arrived' \in Seq(1..MaxSent) /\ Len(arrived') = b
        /\ \A i \in DOMAIN arrived' : arrived'[i] = i
    BY <1>2, <1>3, <2>1, <2>3, MessagesArrive
  <2>5. Len(arrived) <= b /\ b <= Len(sent)
    BY <1>2, <2>3 DEF Carries
  <2>6. Carries(up', b, b) /\ up' \in Seq(Ups)
    BY <2>1, CarriesNothing
  <2> QED BY <1>5, <2>1, <2>3, <2>4, <2>5, <2>6
<1> QED BY <1>4, <1>5

LEMMA ArriveKeeps ==
  ASSUME IInv, Arrive
  PROVE  IInv'
<1>1. TypeOK /\ LifeInv /\ WireInv /\ ReadInv /\ UpInv /\ DownInv
  BY DEF IInv
<1>2. PICK b, c \in Nat :
           /\ arrived' \in Seq(1..MaxSent) /\ Len(arrived') = b
           /\ \A i \in DOMAIN arrived' : arrived'[i] = i
           /\ Len(arrived) <= b /\ b <= Len(sent)
           /\ up' \in Seq(Ups) /\ post' \in {"none", "going", "coming"}
           /\ post' # "none" => posting
           /\ IsWebSocket => link = "open" /\ post' = post
           /\ ~IsWebSocket => up' = <<>>
           /\ \E d \in Nat : Carries(up', b, d) /\ Carries(buffer, d, c) /\ Carries(queue, c, Len(sent))
  BY ArriveSteps
<1>3. /\ UNCHANGED <<browser, transports, transport, connected, connecting, queue, tconnected, session,
                     buffer, posting, link, down, told, beats, sent, got, fired,
                     response, begun, msgs, cutId>>
      /\ IsWebSocket' = IsWebSocket /\ up # <<>>
  BY DEF Arrive, base, reading, IsWebSocket
<1>4. TypeOK'
  BY <1>1, <1>2, <1>3 DEF TypeOK
<1>5. session
  BY <1>1, <1>3 DEF LifeInv
<1>6. LifeInv' /\ WireInv'
  BY <1>1, <1>2, <1>3, <1>5 DEF LifeInv, WireInv
<1>7. UpInv'
  <2>1. Carries(queue, c, Len(sent)) /\ \E d \in Nat : Carries(up', b, d) /\ Carries(buffer, d, c)
    BY <1>2
  <2> QED BY <1>1, <1>2, <1>3, <2>1 DEF UpInv
<1>8. DownInv' /\ ReadInv'
  BY <1>1, <1>3, DownKept, ReadKept
<1> QED BY <1>4, <1>6, <1>7, <1>8 DEF IInv

LEMMA PostedKeeps ==
  ASSUME IInv, NEW status \in {200, 500}, Posted(status)
  PROVE  IInv'
<1>1. TypeOK /\ LifeInv /\ WireInv /\ ReadInv /\ UpInv /\ DownInv
  BY DEF IInv
<1>2. /\ UNCHANGED <<browser, transports, transport, connected, connecting, queue, tconnected, session,
                     link, down, arrived, told, beats, sent, got, fired,
                     response, begun, msgs, cutId>>
      /\ IsWebSocket' = IsWebSocket
      /\ post \in {"going", "coming"}
  BY DEF Posted, base, server, reading, IsWebSocket
<1>3. posting = TRUE /\ ~IsWebSocket /\ session
  BY <1>1, <1>2 DEF TypeOK, WireInv, LifeInv
<1>4. DownInv' /\ ReadInv'
  BY <1>1, <1>2, DownKept, ReadKept
<1>5. CASE status = 200
  <2>1. /\ post = "coming" /\ posting' = (buffer # <<>>)
        /\ post' = IF buffer # <<>> THEN "going" ELSE "none"
        /\ up' = buffer /\ buffer' = <<>>
    BY <1>5 DEF Posted
  <2>2. TypeOK'
    <3>1. /\ up' \in Seq(Ups) /\ buffer' \in Seq(Ups) /\ buffer' = <<>>
          /\ posting' \in BOOLEAN /\ post' \in {"none", "going", "coming"}
          /\ (post' # "none" => posting')
      <4>1. buffer \in Seq(Ups)
        BY <1>1 DEF TypeOK
      <4>2. buffer' \in Seq(Ups) /\ buffer' = <<>>
        BY <2>1
      <4> QED BY <2>1, <4>1, <4>2
    <3> QED BY <1>1, <1>2, <3>1 DEF TypeOK
  <2>3. LifeInv' /\ WireInv'
    BY <1>1, <1>2, <1>3, <2>1 DEF LifeInv, WireInv
  <2>4. UpInv'
    <3>1. up = <<>> /\ Flowing
      BY <1>1, <1>3, <2>1 DEF WireInv, Flowing
    <3>2. PICK b, c \in Nat : /\ Carries(up, Len(arrived), b)
                              /\ Carries(buffer, b, c)
                              /\ Carries(queue, c, Len(sent))
      BY <1>1, <3>1 DEF UpInv
    <3>3. b = Len(arrived)
      BY <1>1, <3>1, <3>2, CarriesNoMore DEF TypeOK
    <3>4. Carries(up', Len(arrived), c) /\ Carries(buffer', c, c)
      BY <2>1, <3>2, <3>3, CarriesNothing
    <3> QED BY <1>1, <1>2, <3>2, <3>4 DEF UpInv
  <2> QED BY <1>4, <2>2, <2>3, <2>4 DEF IInv
<1>6. CASE status = 500
  <2>1. post' = "none" /\ up' = <<>> /\ UNCHANGED <<buffer, posting>>
    BY <1>6 DEF Posted
  <2>2. TypeOK'
    BY <1>1, <1>2, <2>1 DEF TypeOK
  <2>3. LifeInv' /\ WireInv'
    BY <1>1, <1>2, <1>3, <2>1 DEF LifeInv, WireInv
  <2>4. ~Flowing'
    BY <1>2, <1>3, <2>1 DEF Flowing
  <2>5. UpInv'
    BY <1>1, <1>2, <2>4 DEF UpInv
  <2> QED BY <1>4, <2>2, <2>3, <2>5 DEF IInv
<1> QED BY <1>5, <1>6

-----------------------------------------------------------------------------
LEMMA InitIInv == Init => IInv
<1> SUFFICES ASSUME Init PROVE IInv
  OBVIOUS
<1>1. /\ browser \in Browsers
      /\ transports = browser.options /\ transport = GetTransport(browser, browser.options)
      /\ connected = FALSE /\ connecting = FALSE /\ queue = <<>>
      /\ tconnected = FALSE /\ session = FALSE /\ buffer = <<>> /\ posting = FALSE
      /\ link = "closed" /\ post = "none" /\ up = <<>> /\ down = <<>>
      /\ sent = <<>> /\ arrived = <<>> /\ told = <<>> /\ got = <<>> /\ beats = 0
      /\ fired = <<>>
      /\ response = <<>> /\ begun = FALSE /\ msgs = <<>> /\ cutId = FALSE
  BY DEF Init
<1>2. TypeOK
  <2>1. transports \in Seq(Kinds \cup {"jsonp-polling"})
    BY <1>1, BrowsersAssumption
  <2>2. transport \in Kinds \cup {NoTransport}
    BY <1>1, <2>1, TransportChosen
  <2>3. /\ \A S : <<>> \in Seq(S)
        /\ beats \in 0..MaxBeats
    BY <1>1, BoundsAssumption
  <2> QED BY <1>1, <2>1, <2>2, <2>3 DEF TypeOK
<1>3. LifeInv /\ WireInv /\ ReadInv
  <2>1. got \in Seq(1..MaxTold)
    BY <1>1
  <2> QED BY <1>1, <2>1 DEF LifeInv, WireInv, ReadInv
<1>4. UpInv
  <2>1. Len(<<>>) = 0 /\ DOMAIN <<>> = {}
    OBVIOUS
  <2>2. Carries(<<>>, 0, 0)
    BY CarriesNothing
  <2> QED BY <1>1, <2>1, <2>2 DEF UpInv
<1>5. DownInv
  <2>1. Len(<<>>) = 0 /\ DOMAIN <<>> = {}
    OBVIOUS
  <2> QED BY <1>1, <2>1 DEF DownInv, LinkInv, LastGot, InOrder
<1> QED BY <1>2, <1>3, <1>4, <1>5 DEF IInv

LEMMA NextIInv == IInv /\ [Next]_vars => IInv'
<1> SUFFICES ASSUME IInv, [Next]_vars PROVE IInv'
  OBVIOUS
<1>1. CASE UNCHANGED vars
  <2>1. UNCHANGED <<browser, transports, transport, connected, connecting, queue, tconnected, session,
                    buffer, posting, link, post, up, down, arrived, told, beats, sent, got, fired,
                    response, begun, msgs, cutId>>
    BY <1>1 DEF vars, base, wires, server, reading
  <2>2. TypeOK' /\ LifeInv' /\ WireInv'
    BY <2>1 DEF IInv, TypeOK, LifeInv, WireInv, IsWebSocket
  <2>3. UpInv' /\ DownInv' /\ ReadInv'
    <3>1. Flowing' => Flowing
      BY <2>1 DEF Flowing, IsWebSocket
    <3> QED BY <2>1, <3>1, UpKept, DownKept, ReadKept DEF IInv
  <2> QED BY <2>2, <2>3 DEF IInv
<1>2. CASE PostEnds
  BY <1>2, PostedKeeps DEF PostEnds
<1> QED BY <1>1, <1>2, ConnectKeeps, SendKeeps, OnDataKeeps, OnResponseKeeps, OnDecodedKeeps,
           PartEndsKeeps, OnCloseKeeps, DisconnectKeeps, OpenedKeeps, BreakKeeps, PollFailsKeeps,
           TellKeeps, ArriveKeeps DEF Next

LEMMA Invariant == Spec => []IInv
BY InitIInv, NextIInv, PTL DEF Spec

(* The state is well formed: the queue is empty while the transport is       *)
(* connected, a buffer waits only for a POST, and "connect" and "disconnect" *)
(* fire once, in this order.                                                 *)
(* (socket.js:47-53 and 90-121, transport.js:88-97, xhr.js:42-76.)           *)
THEOREM TypeCorrect == Spec => []TypeOK
<1>1. IInv => TypeOK
  BY DEF IInv
<1> QED BY <1>1, Invariant, PTL

-----------------------------------------------------------------------------
(* A message that is sent is accepted. *)
LEMMA SendAccepts ==
  ASSUME IInv, Send
  PROVE  Upwards!Accept
<1>1. sent \in Seq(1..MaxSent) /\ sent' = Append(sent, Len(sent) + 1) /\ arrived' = arrived
  BY DEF IInv, TypeOK, Send, server
<1>2. Len(sent') >= Len(sent) /\ SubSeq(sent', 1, Len(sent)) = sent
  <2>1. \A S : \A s \in Seq(S) : \A e : /\ Len(Append(s, e)) >= Len(s)
                                      /\ SubSeq(Append(s, e), 1, Len(s)) = s
    OBVIOUS
  <2> QED BY <1>1, <2>1
<1> QED BY <1>1, <1>2 DEF Upwards!Accept

(* What arrives passes, all of it and in order; an echo is nothing to the    *)
(* channel.                                                                  *)
LEMMA ArrivePasses ==
  ASSUME IInv, Arrive
  PROVE  Upwards!Pass \/ UNCHANGED Upwards!channel
<1>1. PICK b \in Nat : /\ arrived' \in Seq(1..MaxSent) /\ Len(arrived') = b
                       /\ \A i \in DOMAIN arrived' : arrived'[i] = i
                       /\ Len(arrived) <= b /\ b <= Len(sent)
  BY ArriveSteps
<1>2. /\ arrived \in Seq(1..MaxSent) /\ sent \in Seq(1..MaxSent) /\ sent' = sent
      /\ \A i \in DOMAIN arrived : arrived[i] = i
      /\ \A i \in DOMAIN sent : sent[i] = i
  BY DEF IInv, TypeOK, UpInv, Arrive
<1>3. PICK a \in Nat : a = Len(arrived)
  BY <1>2
<1>4. /\ DOMAIN arrived = 1..a /\ DOMAIN arrived' = 1..b /\ DOMAIN sent = 1..Len(sent)
      /\ Len(sent) \in Nat
  BY <1>1, <1>2, <1>3
<1>5. CASE a = b
  <2>1. arrived' = arrived
    BY <1>1, <1>2, <1>3, <1>4, <1>5, SameElements
  <2> QED BY <1>2, <2>1 DEF Upwards!channel
<1>6. CASE a # b
  <2> DEFINE kept == [k \in 1..(b - a) |-> a + k]
             passed == [j \in DOMAIN kept |-> sent[kept[j]]]
  <2>1. a < b /\ b - a \in Nat /\ a + 1 <= b
    BY <1>1, <1>3, <1>6
  <2>2. kept \in [1..(Len(arrived') - Len(arrived)) -> (Len(arrived) + 1)..b]
    BY <1>1, <1>3, <2>1
  <2>3. /\ DOMAIN kept = 1..(b - a) /\ \A k \in 1..(b - a) : kept[k] = a + k
        /\ kept \in Seq(Nat) /\ Len(kept) = b - a
    <3>1. kept \in [1..(b - a) -> Nat]
      BY <1>3
    <3> QED BY <2>1, <3>1, FunctionIsSeq
  <2>4. \A j, k \in DOMAIN kept : j < k => kept[j] < kept[k]
    BY <1>3, <2>1, <2>3
  <2>5. \A k \in 1..(b - a) : a + k \in 1..b /\ a + k \in DOMAIN sent
    BY <1>1, <1>3, <1>4, <2>1
  <2>6. passed \in [1..(b - a) -> Nat] /\ \A k \in 1..(b - a) : passed[k] = a + k
    <3>1. DOMAIN passed = 1..(b - a)
      BY <2>3
    <3>2. ASSUME NEW k \in 1..(b - a)
          PROVE  passed[k] = a + k /\ passed[k] \in Nat
      <4>1. a + k \in DOMAIN sent
        BY <2>5
      <4>2. sent[a + k] = a + k
        BY <1>2, <4>1
      <4>3. k \in DOMAIN kept /\ kept[k] = a + k
        BY <2>3
      <4>4. passed[k] = sent[kept[k]]
        BY <4>3
      <4>5. a + k \in Nat
        BY <1>3
      <4> HIDE DEF kept, passed
      <4> QED BY <4>2, <4>3, <4>4, <4>5
    <3>3. passed = [k \in 1..(b - a) |-> passed[k]]
      BY <3>1
    <3> HIDE DEF passed
    <3> QED BY <3>2, <3>3
  <2>7. passed \in Seq(Nat) /\ Len(passed) = b - a /\ DOMAIN passed = 1..(b - a)
    <3> HIDE DEF passed
    <3> QED BY <2>1, <2>6, FunctionIsSeq
  <2> HIDE DEF passed
  <2>8. arrived \in Seq(Nat) /\ arrived' \in Seq(Nat)
    <3>1. 1..MaxSent \subseteq Nat
      OBVIOUS
    <3> QED BY <1>1, <1>2, <3>1, SeqOfMore
  <2>9. /\ arrived \o passed \in Seq(Nat) /\ Len(arrived \o passed) = b
        /\ \A i \in 1..a : (arrived \o passed)[i] = arrived[i]
        /\ \A i \in 1..(b - a) : (arrived \o passed)[a + i] = passed[i]
    <3>1. Len(arrived) + Len(passed) = b
      BY <1>3, <2>1, <2>7
    <3> QED BY <1>3, <2>7, <2>8, <3>1, ConcatFacts
  <2>10. ASSUME NEW i \in 1..b
         PROVE  arrived'[i] = (arrived \o passed)[i]
    <3>1. CASE i <= a
      <4>1. i \in 1..a
        BY <1>3, <3>1
      <4>2. arrived[i] = i /\ arrived'[i] = i
        BY <1>1, <1>2, <1>4, <4>1
      <4> QED BY <2>9, <4>1, <4>2
    <3>2. CASE i > a
      <4>1. i - a \in 1..(b - a) /\ a + (i - a) = i
        BY <1>3, <2>1, <3>2
      <4>2. (arrived \o passed)[a + (i - a)] = passed[i - a] /\ passed[i - a] = a + (i - a)
        BY <2>6, <2>9, <4>1
      <4> QED BY <1>1, <1>4, <4>1, <4>2
    <3>3. i \in Int /\ a \in Int
      BY <1>3
    <3>4. i <= a \/ i > a
      BY <3>3
    <3> QED BY <3>1, <3>2, <3>4
  <2>11. arrived' = arrived \o passed
    BY <1>1, <2>8, <2>9, <2>10, SameElements
  <2>12. b \in (Len(arrived) + 1)..Len(sent)
    BY <1>1, <1>3, <1>4, <2>1
  <2>13. Len(arrived') + 1 = b + 1 /\ Len(kept) = b - (Len(arrived) + 1) + 1
    BY <1>1, <1>3, <2>3
  <2>14. arrived' = arrived \o [j \in DOMAIN kept |-> sent[kept[j]]]
    BY <2>11 DEF passed
  <2> HIDE DEF kept
  <2> QED BY <1>2, <2>2, <2>4, <2>12, <2>13, <2>14 DEF Upwards!Pass
<1> QED BY <1>5, <1>6

(* What the server tells is accepted. *)
LEMMA TellAccepts ==
  ASSUME IInv, Tell
  PROVE  Downwards!Accept \/ UNCHANGED Downwards!channel
<1>1. told \in Seq(1..MaxTold) /\ got' = got /\ IsMultipart' = IsMultipart
  BY DEF IInv, TypeOK, Tell, base, IsMultipart
<1>2. CASE told' = Append(told, Len(told) + 1)
  <2>1. \A S : \A s \in Seq(S) : \A e : /\ Len(Append(s, e)) >= Len(s)
                                      /\ SubSeq(Append(s, e), 1, Len(s)) = s
    OBVIOUS
  <2>2. Len(told') >= Len(told) /\ SubSeq(told', 1, Len(told)) = told
    BY <1>1, <1>2, <2>1
  <2> QED BY <1>1, <2>2 DEF Downwards!Accept
<1>3. CASE told' = told
  BY <1>1, <1>3 DEF Downwards!channel
<1> QED BY <1>2, <1>3 DEF Tell

(* A message that fires passes: the next one, unless some were lost. *)
LEMMA OnDataPasses ==
  ASSUME IInv, OnData
  PROVE  Downwards!Pass \/ UNCHANGED Downwards!channel
<1>1. /\ link = "open" /\ down # <<>> /\ told' = told /\ LastGot \in Nat /\ Len(told) \in Nat
      /\ got \in Seq(1..MaxTold) /\ told \in Seq(1..MaxTold)
      /\ \A i \in DOMAIN told : told[i] = i
      /\ ~IsMultipart /\ ~IsMultipart'
  BY LastGotIs DEF IInv, TypeOK, ReadInv, DownInv, OnData, server, IsMultipart
<1>2. CASE got' = got
  BY <1>1, <1>2 DEF Downwards!channel
<1>3. CASE got' # got
  <2> DEFINE to == Head(down)
             kept == [j \in 1..1 |-> to]
  <2>1. session /\ to # Beat /\ got' = Append(got, to)
    BY <1>3 DEF OnData, OnMessage, OnSession
  <2>2. to \in 1..MaxTold /\ to > 0
    BY <1>1, <2>1, DownTail DEF Downs
  <2>3. LastGot < to /\ to <= Len(told) /\ (~Lossy => to = LastGot + 1)
    BY <1>1, <2>2, DownTail
  <2> HIDE DEF to
  <2>4. LastGot' = to /\ Len(got') = Len(got) + 1 /\ Len(got) \in Nat
    BY <1>1, <2>1, <2>2, GotOneMore
  <2>5. told[to] = to /\ to \in (LastGot + 1)..Len(told)
    BY <1>1, <2>2, <2>3
  <2>6. kept \in [1..(Len(got') - Len(got)) -> (LastGot + 1)..to]
    <3>1. Len(got') - Len(got) = 1 /\ to \in (LastGot + 1)..to
      BY <1>1, <2>4, <2>5
    <3> QED BY <3>1
  <2>7. DOMAIN kept = 1..1 /\ \A j \in 1..1 : kept[j] = to
    OBVIOUS
  <2>8. \A j, k \in DOMAIN kept : j < k => kept[j] < kept[k]
    BY <2>7
  <2>9. Lossy \/ Len(kept) = to - (LastGot + 1) + 1
    <3>1. Len(kept) = 1
      <4>1. kept \in [1..1 -> Nat] /\ 1 \in Nat
        BY <2>2
      <4> HIDE DEF kept
      <4> QED BY <4>1, FunctionIsSeq
    <3> QED BY <1>1, <2>3, <3>1
  <2>10. got' = got \o [j \in DOMAIN kept |-> told[kept[j]]]
    <3>1. [j \in DOMAIN kept |-> told[kept[j]]] = <<to>>
      <4>1. [j \in DOMAIN kept |-> told[kept[j]]] = [j \in 1..1 |-> to]
        BY <2>5, <2>7
      <4>2. [j \in 1..1 |-> to] = <<to>>
        OBVIOUS
      <4> QED BY <4>1, <4>2
    <3>2. \A S : \A s \in Seq(S) : \A e \in S : Append(s, e) = s \o <<e>>
      OBVIOUS
    <3>3. Append(got, to) = got \o <<to>>
      BY <1>1, <2>2, <3>2
    <3> QED BY <2>1, <3>1, <3>3
  <2>11. /\ LastGot + 1 = IF got = <<>> \/ IsMultipart THEN 1 ELSE Last(got) + 1
         /\ LastGot' + 1 = IF got' = <<>> \/ IsMultipart' THEN 1 ELSE Last(got') + 1
    BY DEF LastGot
  <2> HIDE DEF kept
  <2>12. Lossy <=> transport = "xhr-polling" /\ browser.onload /\ browser.faults
    BY DEF Lossy
  <2>13. LastGot' + 1 = to + 1
    BY <2>4
  <2> QED BY <1>1, <2>5, <2>6, <2>8, <2>9, <2>10, <2>11, <2>12, <2>13 DEF Downwards!Pass
<1> QED BY <1>2, <1>3

(* What happens where a response is read anew is nothing to the channel. *)
LEMMA ReadAnew ==
  ASSUME IInv, told' = told, IsMultipart, IsMultipart'
  PROVE  UNCHANGED Downwards!channel
BY DEF Downwards!channel

(* A transport that takes over begins where nothing was got. *)
LEMMA OnClosePasses ==
  ASSUME IInv, OnClose
  PROVE  UNCHANGED Downwards!channel
<1>1. told' = told /\ got' = got
  BY DEF OnClose, FallBack, server
<1>2. CASE UNCHANGED transport
  BY <1>1, <1>2 DEF Downwards!channel, IsMultipart
<1>3. CASE ~UNCHANGED transport
  <2>1. ~connected
    BY <1>3 DEF OnClose
  <2>2. got = <<>>
    BY <2>1 DEF IInv, LifeInv, ReadInv
  <2> QED BY <1>1, <2>2 DEF Downwards!channel
<1> QED BY <1>2, <1>3

(* Messages come in order in both directions, none twice, and with no gap    *)
(* but where polling by onload passes over a failure.  What comes down over  *)
(* xhr-multipart is left to RereadsKeepOrder.                                *)
(* (socket.js:55-59 and 90-113, xhr.js:42-76; transport.js:64-86,            *)
(* xhr-polling.js:24-40.)                                                    *)
THEOREM ImplementsChannels == Spec => MessagesInOrder
<1>1. Init => Upwards!ChannelInit /\ Downwards!ChannelInit
  BY DEF Init, Upwards!ChannelInit, Downwards!ChannelInit
<1>2. IInv /\ [Next]_vars => [Upwards!Accept \/ Upwards!Pass]_(Upwards!channel)
  <2> SUFFICES ASSUME IInv, [Next]_vars
               PROVE  [Upwards!Accept \/ Upwards!Pass]_(Upwards!channel)
    OBVIOUS
  <2>1. CASE UNCHANGED <<sent, arrived>>
    BY <2>1 DEF Upwards!channel
  <2>2. Send \/ Arrive \/ UNCHANGED <<sent, arrived>>
    BY DEF Next, vars, Connect, OnData, OnResponse, OnDecoded, PartEnds, OnClose, FallBack, Disconnect,
       Opened, Break, PollFails, Tell, PostEnds, Posted, server
  <2> QED BY <2>1, <2>2, SendAccepts, ArrivePasses
<1>3. IInv /\ [Next]_vars => [Downwards!Accept \/ Downwards!Pass]_(Downwards!channel)
  <2> SUFFICES ASSUME IInv, [Next]_vars
               PROVE  [Downwards!Accept \/ Downwards!Pass]_(Downwards!channel)
    OBVIOUS
  <2>1. CASE UNCHANGED <<told, got, transport>>
    BY <2>1 DEF Downwards!channel, IsMultipart
  <2>2. CASE OnDecoded
    <3>1. told' = told /\ IsMultipart /\ IsMultipart'
      BY <2>2 DEF IInv, ReadInv, OnDecoded, server, IsMultipart
    <3> QED BY <3>1, ReadAnew
  <2>3. Tell \/ OnData \/ OnDecoded \/ OnClose \/ UNCHANGED <<told, got, transport>>
    BY DEF Next, vars, Connect, Send, OnResponse, PartEnds, Disconnect, Opened, Break, PollFails, Arrive,
       PostEnds, Posted, server, base
  <2> QED BY <2>1, <2>2, <2>3, TellAccepts, OnDataPasses, OnClosePasses
<1> QED BY <1>1, <1>2, <1>3, Invariant, PTL DEF Spec, MessagesInOrder, Upwards!ChannelSpec,
                                                Downwards!ChannelSpec

-----------------------------------------------------------------------------
(* xhr-multipart: what is read again and again.                              *)

(* Behind from, a sequence of texts climbs up to to: it comes to each number *)
(* for the first time when it has been at the one before.                    *)
Climbs(texts, from, to) ==
  /\ from <= to
  /\ \A i \in DOMAIN texts : texts[i] <= to
  /\ \A i \in DOMAIN texts : texts[i] > from + 1 => \E j \in 1..(i - 1) : texts[j] = texts[i] - 1
  /\ \A m \in (from + 1)..to : \E i \in DOMAIN texts : texts[i] = m

(* "message" has fired with the messages up to had; what was decoded climbs  *)
(* on from there up to read, and the link carries those that follow.  The    *)
(* first text of all is taken for the session id and is no message.          *)
ClimbsOn(had, read) ==
  /\ read <= Len(told)
  /\ Climbs(got, 0, had)
  /\ Climbs(msgs, had, read)
  /\ \A i \in DOMAIN response : response[i] <= read
  /\ link = "open" => Carries(down, read, Len(told))

BeforeSession ==
  ~session => /\ msgs # <<>> => Head(msgs) <= 0
              /\ link = "open" /\ msgs = <<>> =>
                   response = <<>> /\ down # <<>> /\ Head(down) = Session

MultipartInv ==
  IsMultipart => BeforeSession /\ \E had, read \in Nat : ClimbsOn(had, read)

LEMMA ClimbsNothing ==
  ASSUME NEW a \in Nat, NEW b \in Nat
  PROVE  Climbs(<<>>, a, a) /\ (Climbs(<<>>, a, b) => a = b)
<1>1. DOMAIN <<>> = {}
  OBVIOUS
<1>2. Climbs(<<>>, a, a)
  BY <1>1 DEF Climbs
<1>3. ASSUME Climbs(<<>>, a, b), a # b PROVE FALSE
  <2>1. b \in (a + 1)..b
    BY <1>3 DEF Climbs
  <2> QED BY <1>1, <1>3, <2>1 DEF Climbs
<1> QED BY <1>2, <1>3

(* A text that is no further than one step beyond joins the end. *)
LEMMA ClimbsAppend ==
  ASSUME NEW s \in Seq(Int), NEW a \in Nat, NEW e \in Int, e <= a + 1, Climbs(s, 0, a)
  PROVE  /\ e = a + 1 => Climbs(Append(s, e), 0, a + 1)
         /\ e <= a => Climbs(Append(s, e), 0, a)
<1>1. /\ Len(s) \in Nat /\ DOMAIN s = 1..Len(s) /\ DOMAIN Append(s, e) = 1..(Len(s) + 1)
      /\ \A i \in 1..Len(s) : Append(s, e)[i] = s[i] /\ s[i] \in Int
      /\ Append(s, e)[Len(s) + 1] = e
  BY AppendFacts
<1> DEFINE t == Append(s, e)
           n == Len(s)
<1>2. /\ n \in Nat /\ DOMAIN s = 1..n /\ DOMAIN t = 1..(n + 1)
      /\ \A i \in 1..n : t[i] = s[i] /\ s[i] \in Int
      /\ t[n + 1] = e
  BY <1>1
<1> HIDE DEF t, n
<1>3. \A i \in DOMAIN t : i \in 1..n \/ i = n + 1
  BY <1>2
<1>4. \A i \in DOMAIN t : t[i] <= a + 1 /\ (e <= a => t[i] <= a)
  <2>1. \A i \in 1..n : s[i] <= a
    BY <1>2 DEF Climbs
  <2> QED BY <1>2, <1>3, <2>1
<1>5. \A m \in 1..a : \E i \in 1..n : s[i] = m
  BY <1>2 DEF Climbs
<1>6. ASSUME NEW i \in DOMAIN t, t[i] > 1
      PROVE  \E j \in 1..(i - 1) : t[j] = t[i] - 1
  <2>1. CASE i \in 1..n
    <3>1. PICK j \in 1..(i - 1) : s[j] = s[i] - 1
      BY <1>2, <1>6, <2>1 DEF Climbs
    <3>2. j \in 1..n
      BY <1>2, <2>1
    <3> QED BY <1>2, <2>1, <3>1, <3>2
  <2>2. CASE i = n + 1
    <3>1. e - 1 \in 1..a
      BY <1>2, <1>6, <2>2
    <3>2. PICK j \in 1..n : s[j] = e - 1
      BY <1>5, <3>1
    <3>3. j \in 1..(i - 1)
      BY <1>2, <2>2
    <3> QED BY <1>2, <2>2, <3>2, <3>3
  <2> QED BY <1>3, <2>1, <2>2
<1>7. \A m \in 1..a : \E i \in DOMAIN t : t[i] = m
  <2> SUFFICES ASSUME NEW m \in 1..a PROVE \E i \in DOMAIN t : t[i] = m
    OBVIOUS
  <2>1. PICK i \in 1..n : s[i] = m
    BY <1>5
  <2>2. i \in DOMAIN t
    BY <1>2
  <2> QED BY <1>2, <2>1, <2>2
<1>8. CASE e = a + 1
  <2>1. \A m \in 1..(a + 1) : \E i \in DOMAIN t : t[i] = m
    <3> SUFFICES ASSUME NEW m \in 1..(a + 1) PROVE \E i \in DOMAIN t : t[i] = m
      OBVIOUS
    <3>1. m \in 1..a \/ m = a + 1
      OBVIOUS
    <3>2. n + 1 \in DOMAIN t
      BY <1>2
    <3> QED BY <1>2, <1>7, <1>8, <3>1, <3>2
  <2>2. Climbs(t, 0, a + 1)
    BY <1>4, <1>6, <2>1 DEF Climbs
  <2> QED BY <1>8, <2>2 DEF t
<1>9. CASE e <= a
  <2>1. Climbs(t, 0, a)
    BY <1>4, <1>6, <1>7, <1>9 DEF Climbs
  <2> QED BY <1>9, <2>1 DEF t
<1> QED BY <1>8, <1>9

(* The first text leaves. *)
LEMMA ClimbsTail ==
  ASSUME NEW s \in Seq(Int), s # <<>>, NEW a \in Nat, NEW b \in Nat, Climbs(s, a, b)
  PROVE  /\ Head(s) \in Int /\ Head(s) <= a + 1
         /\ Head(s) = a + 1 => Climbs(Tail(s), a + 1, b)
         /\ Head(s) <= a => Climbs(Tail(s), a, b)
<1> DEFINE t == Tail(s)
           n == Len(s)
           e == Head(s)
<1>1. /\ e \in Int /\ e = s[1] /\ n \in Nat /\ n >= 1
      /\ DOMAIN s = 1..n /\ DOMAIN t = 1..(n - 1)
      /\ \A i \in 1..(n - 1) : t[i] = s[i + 1]
      /\ \A i \in 1..n : s[i] \in Int
  BY TailFacts
<1> HIDE DEF t, n, e
<1>2. /\ a <= b
      /\ \A i \in 1..n : s[i] <= b
      /\ \A i \in 1..n : s[i] > a + 1 => \E j \in 1..(i - 1) : s[j] = s[i] - 1
      /\ \A m \in (a + 1)..b : \E i \in 1..n : s[i] = m
  BY <1>1 DEF Climbs
<1>3. e <= a + 1
  <2>1. 1 \in 1..n /\ 1..(1 - 1) = {} /\ s[1] = e
    BY <1>1
  <2>2. ~(s[1] > a + 1)
    BY <1>2, <2>1
  <2> QED BY <1>1, <2>1, <2>2
<1>4. \A i \in DOMAIN t : i + 1 \in 1..n /\ t[i] = s[i + 1] /\ t[i] \in Int /\ t[i] <= b
  <2> SUFFICES ASSUME NEW i \in DOMAIN t
               PROVE  i + 1 \in 1..n /\ t[i] = s[i + 1] /\ t[i] \in Int /\ t[i] <= b
    OBVIOUS
  <2>1. i + 1 \in 1..n /\ t[i] = s[i + 1]
    BY <1>1
  <2>2. s[i + 1] \in Int
    BY <1>1, <2>1
  <2>3. s[i + 1] <= b
    BY <1>2, <2>1
  <2> QED BY <2>1, <2>2, <2>3
<1>5. ASSUME NEW c \in Nat, c >= a, e <= c, NEW i \in DOMAIN t, t[i] > c + 1
      PROVE  \E j \in 1..(i - 1) : t[j] = t[i] - 1
  <2>1. i + 1 \in 1..n /\ t[i] = s[i + 1] /\ t[i] \in Int
    BY <1>4
  <2>2. s[i + 1] > a + 1
    BY <1>5, <2>1
  <2>3. PICK j \in 1..((i + 1) - 1) : s[j] = s[i + 1] - 1
    BY <1>2, <2>1, <2>2
  <2>4. s[j] # e
    BY <1>1, <1>5, <2>1, <2>3
  <2>5. j # 1
    BY <1>1, <2>4
  <2>6. i \in 1..(n - 1)
    BY <1>1
  <2>7. j - 1 \in 1..(i - 1) /\ j - 1 \in 1..(n - 1) /\ (j - 1) + 1 = j
    BY <1>1, <2>3, <2>5, <2>6
  <2>8. t[j - 1] = s[j]
    BY <1>1, <2>7
  <2> QED BY <2>1, <2>3, <2>7, <2>8
<1>6. ASSUME NEW m \in (a + 1)..b, m # e
      PROVE  \E i \in DOMAIN t : t[i] = m
  <2>1. PICK i \in 1..n : s[i] = m
    BY <1>2
  <2>2. i # 1
    BY <1>1, <1>6, <2>1
  <2>3. i - 1 \in 1..(n - 1) /\ (i - 1) + 1 = i
    BY <1>1, <2>2
  <2> QED BY <1>1, <2>1, <2>3
<1>7. CASE e = a + 1
  <2>1. e <= b
    BY <1>1, <1>2
  <2>2. \A i \in DOMAIN t : t[i] > (a + 1) + 1 => \E j \in 1..(i - 1) : t[j] = t[i] - 1
    <3>1. a + 1 \in Nat /\ a + 1 >= a /\ e <= a + 1
      BY <1>7
    <3> QED BY <1>5, <3>1
  <2>3. \A m \in ((a + 1) + 1)..b : m \in (a + 1)..b /\ m # e
    BY <1>7
  <2>4. Climbs(t, a + 1, b)
    BY <1>4, <1>6, <1>7, <2>1, <2>2, <2>3 DEF Climbs
  <2> QED BY <1>1, <1>3, <1>7, <2>4 DEF t, e
<1>8. CASE e <= a
  <2>1. \A i \in DOMAIN t : t[i] > a + 1 => \E j \in 1..(i - 1) : t[j] = t[i] - 1
    <3>1. a >= a
      OBVIOUS
    <3> QED BY <1>5, <1>8, <3>1
  <2>2. \A m \in (a + 1)..b : m # e
    BY <1>1, <1>8
  <2>3. Climbs(t, a, b)
    BY <1>2, <1>4, <1>6, <2>1, <2>2 DEF Climbs
  <2> QED BY <1>1, <1>3, <1>8, <2>3 DEF t, e
<1>9. e = a + 1 \/ e <= a
  BY <1>1, <1>3
<1> QED BY <1>7, <1>8, <1>9

(* What has been read before is put in front, what is no message behind. *)
LEMMA ClimbsAnew ==
  ASSUME NEW old \in Seq(Int), NEW new \in Seq(Int), NEW piece \in Seq(Int),
         NEW a \in Nat, NEW b \in Nat, Carries(new, a, b),
         \A i \in DOMAIN old : old[i] <= a, \A i \in DOMAIN piece : piece[i] <= 0
  PROVE  /\ Climbs((old \o new) \o piece, a, b)
         /\ \A i \in DOMAIN (old \o new) : (old \o new)[i] <= b
<1> DEFINE t == old \o new
           p == Len(old)
           q == Len(new)
<1>1. /\ t \in Seq(Int) /\ p \in Nat /\ q \in Nat /\ Len(t) = p + q
      /\ DOMAIN old = 1..p /\ DOMAIN new = 1..q /\ DOMAIN t = 1..(p + q)
      /\ \A i \in 1..p : t[i] = old[i]
      /\ \A i \in 1..q : t[p + i] = new[i]
  BY ConcatFacts
<1>12. \A i \in 1..p : old[i] \in Int /\ old[i] <= a
  OBVIOUS
<1> HIDE DEF t, p, q
<1> DEFINE u == t \o piece
           r == Len(piece)
<1>2. /\ r \in Nat /\ DOMAIN piece = 1..r /\ DOMAIN u = 1..((p + q) + r)
      /\ \A i \in 1..(p + q) : u[i] = t[i]
      /\ \A i \in 1..r : u[(p + q) + i] = piece[i]
  <2>1. /\ r \in Nat /\ DOMAIN piece = 1..r /\ DOMAIN u = 1..(Len(t) + r)
        /\ \A i \in 1..Len(t) : u[i] = t[i]
        /\ \A i \in 1..r : u[Len(t) + i] = piece[i]
    <3>1. t \in Seq(Int) /\ piece \in Seq(Int)
      BY <1>1
    <3> QED BY <3>1, ConcatFacts
  <2> HIDE DEF u, r
  <2> QED BY <1>1, <2>1
<1>13. \A i \in 1..r : piece[i] \in Int /\ piece[i] <= 0
  OBVIOUS
<1> HIDE DEF u, r
<1>3. /\ a <= b /\ \A i \in 1..q : new[i] \in Int /\ new[i] <= b
  <2>1. a <= b /\ \A i \in 1..q : new[i] > 0 => new[i] <= b
    BY <1>1 DEF Carries, InOrder
  <2>2. \A i \in 1..q : new[i] \in Int
    BY <1>1
  <2> QED BY <2>1, <2>2
<1>4. \A i \in DOMAIN u : \/ i \in 1..p /\ u[i] = old[i]
                          \/ i - p \in 1..q /\ u[i] = new[i - p]
                          \/ i - (p + q) \in 1..r /\ u[i] = piece[i - (p + q)]
  <2> SUFFICES ASSUME NEW i \in DOMAIN u
               PROVE  \/ i \in 1..p /\ u[i] = old[i]
                      \/ i - p \in 1..q /\ u[i] = new[i - p]
                      \/ i - (p + q) \in 1..r /\ u[i] = piece[i - (p + q)]
    OBVIOUS
  <2>1. i \in 1..((p + q) + r)
    BY <1>2
  <2>2. CASE i \in 1..p
    <3>1. i \in 1..(p + q)
      BY <1>1, <2>2
    <3> QED BY <1>1, <1>2, <2>2, <3>1
  <2>3. CASE i - p \in 1..q
    <3>1. i \in 1..(p + q) /\ p + (i - p) = i
      BY <1>1, <2>1, <2>3
    <3>2. t[p + (i - p)] = new[i - p]
      BY <1>1, <2>3
    <3> QED BY <1>2, <2>3, <3>1, <3>2
  <2>4. CASE i - (p + q) \in 1..r
    <3>1. (p + q) + (i - (p + q)) = i
      BY <1>1, <2>1
    <3>2. u[(p + q) + (i - (p + q))] = piece[i - (p + q)]
      BY <1>2, <2>4
    <3> QED BY <2>4, <3>1, <3>2
  <2> QED BY <1>1, <1>2, <2>1, <2>2, <2>3, <2>4
<1>5. \A i \in DOMAIN u : u[i] <= b
  <2> SUFFICES ASSUME NEW i \in DOMAIN u PROVE u[i] <= b
    OBVIOUS
  <2>1. CASE i \in 1..p /\ u[i] = old[i]
    BY <1>3, <1>12, <2>1
  <2>2. CASE i - p \in 1..q /\ u[i] = new[i - p]
    BY <1>3, <2>2
  <2>3. CASE i - (p + q) \in 1..r /\ u[i] = piece[i - (p + q)]
    BY <1>3, <1>13, <2>3
  <2> QED BY <1>4, <2>1, <2>2, <2>3
<1>6. ASSUME NEW m \in (a + 1)..b
      PROVE  \E i \in 1..q : new[i] = m
  BY <1>1 DEF Carries
<1>7. ASSUME NEW k \in 1..q
      PROVE  p + k \in DOMAIN u /\ u[p + k] = new[k]
  <2>1. p + k \in 1..(p + q) /\ p + k \in 1..((p + q) + r)
    BY <1>1, <1>2
  <2> QED BY <1>1, <1>2, <2>1
<1>8. ASSUME NEW i \in DOMAIN u, u[i] > a + 1
      PROVE  \E j \in 1..(i - 1) : u[j] = u[i] - 1
  <2>1. i - p \in 1..q /\ u[i] = new[i - p]
    <3>1. ~(i \in 1..p /\ u[i] = old[i])
      BY <1>8, <1>12
    <3>2. ~(i - (p + q) \in 1..r /\ u[i] = piece[i - (p + q)])
      BY <1>8, <1>13
    <3> QED BY <1>4, <3>1, <3>2
  <2> DEFINE k == i - p
  <2>2. k \in 1..q /\ u[i] = new[k] /\ new[k] \in Int /\ p + k = i
    <3>1. i \in Int
      BY <1>1, <1>2
    <3> QED BY <1>1, <1>3, <2>1, <3>1
  <2> HIDE DEF k
  <2>3. new[k] - 1 \in (a + 1)..b
    BY <1>3, <1>8, <2>2
  <2>4. PICK j \in 1..q : new[j] = new[k] - 1
    BY <1>6, <2>3
  <2>5. j < k
    <3>1. new[j] > 0 /\ new[k] > 0 /\ new[j] < new[k] /\ new[j] \in Int
      BY <1>3, <2>2, <2>3, <2>4
    <3>2. ~(k < j)
      <4>1. k \in DOMAIN new /\ j \in DOMAIN new
        BY <1>1, <2>2
      <4>2. k < j => new[k] < new[j]
        BY <3>1, <4>1 DEF Carries, InOrder
      <4>3. new[k] \in Int /\ new[j] \in Int
        BY <1>3, <2>2
      <4> QED BY <3>1, <4>2, <4>3
    <3>3. k # j
      BY <2>2, <3>1
    <3> QED BY <1>1, <2>2, <3>2, <3>3
  <2>6. p + j \in DOMAIN u /\ u[p + j] = new[j]
    BY <1>7
  <2>7. p + j \in 1..(i - 1)
    BY <1>1, <2>2, <2>5
  <2> QED BY <2>2, <2>4, <2>6, <2>7
<1>9. \A m \in (a + 1)..b : \E i \in DOMAIN u : u[i] = m
  <2> SUFFICES ASSUME NEW m \in (a + 1)..b PROVE \E i \in DOMAIN u : u[i] = m
    OBVIOUS
  <2>1. PICK k \in 1..q : new[k] = m
    BY <1>6
  <2> QED BY <1>7, <2>1
<1>10. Climbs(u, a, b)
  BY <1>3, <1>5, <1>8, <1>9 DEF Climbs
<1>11. \A i \in DOMAIN t : t[i] <= b
  <2> SUFFICES ASSUME NEW i \in DOMAIN t PROVE t[i] <= b
    OBVIOUS
  <2>1. i \in 1..(p + q) /\ i \in 1..((p + q) + r)
    BY <1>1, <1>2
  <2> QED BY <1>2, <1>5, <2>1
<1> QED BY <1>10, <1>11 DEF t, u

(* Frames that carry some messages do so in two pieces. *)
LEMMA CarriesApart ==
  ASSUME NEW s \in Seq(Int), NEW a \in Nat, NEW c \in Nat, Carries(s, a, c),
         NEW n \in 0..Len(s)
  PROVE  /\ SubSeq(s, 1, n) \in Seq(Int) /\ SubSeq(s, n + 1, Len(s)) \in Seq(Int)
         /\ \E b \in Nat : /\ Carries(SubSeq(s, 1, n), a, b)
                           /\ Carries(SubSeq(s, n + 1, Len(s)), b, c)
<1> DEFINE one == SubSeq(s, 1, n)
           two == SubSeq(s, n + 1, Len(s))
           z == Len(s)
<1>1. /\ z \in Nat /\ DOMAIN s = 1..z /\ n \in 0..z /\ \A i \in 1..z : s[i] \in Int
      /\ one \in Seq(Int) /\ DOMAIN one = 1..n /\ \A i \in 1..n : one[i] = s[i]
      /\ two \in Seq(Int) /\ DOMAIN two = 1..(z - n) /\ \A i \in 1..(z - n) : two[i] = s[n + i]
  <2>1. z \in Nat /\ DOMAIN s = 1..z /\ n \in 0..z /\ \A i \in 1..z : s[i] \in Int
    OBVIOUS
  <2>2. one \in Seq(Int) /\ DOMAIN one = 1..n /\ \A i \in 1..n : one[i] = s[i]
    BY <2>1
  <2>3. two \in Seq(Int) /\ DOMAIN two = 1..(z - n) /\ \A i \in 1..(z - n) : two[i] = s[n + i]
    BY <2>1
  <2> QED BY <2>1, <2>2, <2>3
<1> HIDE DEF one, two, z
<1>2. /\ a <= c
      /\ \A i \in 1..z : s[i] > 0 => s[i] > a /\ s[i] <= c
      /\ \A i, j \in 1..z : i < j /\ s[i] > 0 /\ s[j] > 0 => s[i] < s[j]
      /\ \A m \in (a + 1)..c : \E i \in 1..z : s[i] = m
  BY <1>1 DEF Carries, InOrder
<1> DEFINE T == {x \in a..c : \A i \in 1..n : s[i] > 0 => s[i] <= x}
<1>3. c \in T /\ T \subseteq Nat
  <2>1. \A i \in 1..n : i \in 1..z
    BY <1>1
  <2> QED BY <1>2, <2>1
<1>4. PICK b \in T : \A x \in T : b <= x
  BY <1>3, Least
<1>5. b \in Nat /\ a <= b /\ b <= c /\ \A i \in 1..n : i \in 1..z /\ (s[i] > 0 => s[i] <= b)
  BY <1>1, <1>3, <1>4
<1>6. b = a \/ \E i \in 1..n : s[i] = b
  <2> SUFFICES ASSUME b # a, \A i \in 1..n : s[i] # b PROVE FALSE
    OBVIOUS
  <2>1. b - 1 \in a..c
    BY <1>5
  <2>2. \A i \in 1..n : s[i] > 0 => s[i] <= b - 1
    BY <1>1, <1>5
  <2>3. b - 1 \in T
    BY <2>1, <2>2
  <2> QED BY <1>4, <1>5, <2>3
<1> HIDE DEF T
<1>7. Carries(one, a, b)
  <2>1. \A i \in DOMAIN one : one[i] > 0 => one[i] > a /\ one[i] <= b
    BY <1>1, <1>2, <1>5
  <2>2. \A i, j \in DOMAIN one : i < j /\ one[i] > 0 /\ one[j] > 0 => one[i] < one[j]
    BY <1>1, <1>2, <1>5
  <2>3. ASSUME NEW m \in (a + 1)..b
        PROVE  \E i \in DOMAIN one : one[i] = m
    <3>1. m \in (a + 1)..c
      BY <1>5
    <3>2. PICK i \in 1..z : s[i] = m
      BY <1>2, <3>1
    <3>3. PICK k \in 1..n : s[k] = b
      <4>1. a # b
        BY <1>5
      <4> QED BY <1>6, <4>1
    <3>4. ~(k < i)
      <4>1. s[k] > 0 /\ s[i] > 0 /\ ~(s[k] < s[i]) /\ k \in 1..z
        BY <1>5, <3>2, <3>3
      <4> QED BY <1>2, <4>1
    <3>5. i \in 1..n
      BY <1>1, <3>4
    <3> QED BY <1>1, <3>2, <3>5
  <2> QED BY <1>5, <2>1, <2>2, <2>3 DEF Carries, InOrder
<1>8. Carries(two, b, c)
  <2>1. \A i \in DOMAIN two : n + i \in 1..z /\ two[i] = s[n + i]
    BY <1>1
  <2>2. ASSUME NEW i \in DOMAIN two, two[i] > 0
        PROVE  two[i] > b /\ two[i] <= c
    <3>1. n + i \in 1..z /\ two[i] = s[n + i] /\ s[n + i] \in Int
      BY <1>1, <2>1
    <3>2. s[n + i] > a /\ s[n + i] <= c
      BY <1>2, <2>2, <3>1
    <3>3. CASE b = a
      BY <3>1, <3>2, <3>3
    <3>4. ASSUME NEW k \in 1..n, s[k] = b, b # a
          PROVE  s[n + i] > b
      <4>1. k < n + i /\ k \in 1..z /\ s[k] > 0
        <5>1. i \in 1..(z - n)
          BY <1>1
        <5> QED BY <1>1, <1>5, <3>4, <5>1
      <4> QED BY <1>2, <2>2, <3>1, <3>4, <4>1
    <3> QED BY <1>6, <3>1, <3>2, <3>3, <3>4
  <2>3. ASSUME NEW i \in DOMAIN two, NEW j \in DOMAIN two, i < j, two[i] > 0, two[j] > 0
        PROVE  two[i] < two[j]
    <3>1. n + i < n + j
      BY <1>1, <2>3
    <3> QED BY <1>2, <2>1, <2>3, <3>1
  <2>4. ASSUME NEW m \in (b + 1)..c
        PROVE  \E i \in DOMAIN two : two[i] = m
    <3>1. m \in (a + 1)..c
      BY <1>5
    <3>2. PICK i \in 1..z : s[i] = m
      BY <1>2, <3>1
    <3>3. i \notin 1..n
      BY <1>5, <3>2
    <3>4. i - n \in 1..(z - n) /\ n + (i - n) = i
      BY <1>1, <3>2, <3>3
    <3> QED BY <1>1, <3>2, <3>4
  <2> QED BY <1>5, <2>2, <2>3, <2>4 DEF Carries, InOrder
<1> QED BY <1>1, <1>5, <1>7, <1>8 DEF one, two, z

-----------------------------------------------------------------------------
(* What the steps do to it. *)
LEMMA TextsTyped ==
  ASSUME TypeOK
  PROVE  /\ got \in Seq(Int) /\ msgs \in Seq(Int) /\ response \in Seq(Int) /\ down \in Seq(Int)
         /\ Len(told) \in Nat
<1>1. /\ {Session, Piece} \cup 1..MaxTold \subseteq Int /\ Downs \subseteq Int
      /\ Downs \cup {Piece} \subseteq Int
  BY BoundsAssumption DEF Downs, Session, Beat, Piece
<1>2. /\ got \in Seq({Session, Piece} \cup 1..MaxTold) /\ response \in Seq(Downs)
      /\ msgs \in Seq(Downs \cup {Piece}) /\ down \in Seq(Downs) /\ told \in Seq(1..MaxTold)
  BY DEF TypeOK
<1>3. Len(told) \in Nat
  BY <1>2
<1> QED BY <1>1, <1>2, <1>3, SeqOfMore

(* What is read of the response, and of the link behind it. *)
LEMMA ResponseRead ==
  ASSUME IInv, MultipartInv, OnResponse
  PROVE  MultipartInv'
<1>1. /\ IsMultipart /\ IsMultipart' /\ link = "open" /\ link' = "open" /\ msgs = <<>>
      /\ UNCHANGED <<session, told, got>>
  BY DEF OnResponse, base, server, IsMultipart
<1>2. PICK had, read \in Nat : ClimbsOn(had, read)
  BY <1>1 DEF MultipartInv
<1>3. /\ got \in Seq(Int) /\ response \in Seq(Int) /\ down \in Seq(Int) /\ Len(told) \in Nat
      /\ Len(down) \in Nat
  BY TextsTyped DEF IInv
<1>4. had = read
  BY <1>1, <1>2, ClimbsNothing DEF ClimbsOn
<1>5. PICK n \in 0..Len(down) :
        /\ response' = response \o SubSeq(down, 1, n)
        /\ down' = SubSeq(down, n + 1, Len(down))
        /\ \/ n > 0 /\ msgs' = response'
           \/ /\ n < Len(down)
              /\ \E piece \in Pieces(down[n + 1]) : msgs' = response' \o piece
  BY DEF OnResponse
<1> DEFINE new == SubSeq(down, 1, n)
           left == SubSeq(down, n + 1, Len(down))
<1>6. PICK b \in Nat : /\ new \in Seq(Int) /\ Carries(new, had, b) /\ Carries(left, b, Len(told))
  <2>1. Carries(down, had, Len(told))
    BY <1>1, <1>2, <1>4 DEF ClimbsOn
  <2> QED BY <1>3, <2>1, CarriesApart
<1>7. PICK piece \in {<<>>, <<Piece>>, <<Beat>>} :
        /\ msgs' = (response \o new) \o piece
        /\ n > 0 \/ piece \in Pieces(down[n + 1])
  <2>1. response \o new \in Seq(Int)
    BY <1>3, <1>6, ConcatFacts
  <2>2. CASE n > 0 /\ msgs' = response'
    <3>1. (response \o new) \o <<>> = response \o new
      <4> HIDE DEF new
      <4> QED BY <2>1, JoinedWithNothing
    <3> QED BY <1>5, <2>2, <3>1
  <2>3. ASSUME NEW piece \in Pieces(down[n + 1]), msgs' = response' \o piece
        PROVE  /\ piece \in {<<>>, <<Piece>>, <<Beat>>}
               /\ msgs' = (response \o new) \o piece /\ piece \in Pieces(down[n + 1])
    BY <1>5, <2>3 DEF Pieces
  <2> QED BY <1>5, <2>2, <2>3
<1>8. piece \in Seq(Int) /\ \A i \in DOMAIN piece : piece[i] <= 0
  <2>1. \A e \in Int : <<e>> \in Seq(Int) /\ DOMAIN <<e>> = {1} /\ <<e>>[1] = e
    OBVIOUS
  <2>2. Piece \in Int /\ Beat \in Int /\ Piece <= 0 /\ Beat <= 0
    BY DEF Piece, Beat
  <2>3. <<>> \in Seq(Int) /\ DOMAIN <<>> = {}
    OBVIOUS
  <2>4. CASE piece = <<>>
    BY <2>3, <2>4
  <2>5. CASE piece = <<Piece>>
    BY <2>1, <2>2, <2>5
  <2>6. CASE piece = <<Beat>>
    BY <2>1, <2>2, <2>6
  <2> QED BY <2>4, <2>5, <2>6
<1>9. response' = response \o new /\ down' = left
  BY <1>5
<1>10. /\ Climbs(msgs', had, b)
       /\ \A i \in DOMAIN response' : response'[i] <= b
  <2>1. \A i \in DOMAIN response : response[i] <= had
    BY <1>2, <1>4 DEF ClimbsOn
  <2> HIDE DEF new
  <2> QED BY <1>3, <1>6, <1>7, <1>8, <1>9, <2>1, ClimbsAnew
<1>11. ClimbsOn(had, b)'
  <2>1. Climbs(got, 0, had) /\ b <= Len(told) /\ Carries(left, b, Len(told))
    BY <1>2, <1>6 DEF ClimbsOn, Carries
  <2> HIDE DEF left, new
  <2> QED BY <1>1, <1>9, <1>10, <2>1 DEF ClimbsOn
<1>12. BeforeSession'
  <2> SUFFICES ASSUME ~session
               PROVE  /\ msgs' # <<>> => Head(msgs') <= 0
                      /\ msgs' = <<>> => response' = <<>> /\ down' # <<>> /\ Head(down') = Session
    BY <1>1 DEF BeforeSession
  <2>1. response = <<>> /\ down # <<>> /\ Head(down) = Session
    BY <1>1 DEF MultipartInv, BeforeSession
  <2>2. CASE n = 0
    <3>1. new = <<>> /\ left = down
      BY <1>3, <2>2
    <3>2. response' = <<>> /\ down' = down
      BY <1>9, <2>1, <3>1
    <3>3. msgs' = piece
      BY <1>7, <2>1, <3>1
    <3>4. msgs' # <<>> => Head(msgs') <= 0
      BY <3>3 DEF Piece, Beat
    <3> QED BY <2>1, <3>2, <3>4
  <2>3. CASE n > 0
    <3>1. /\ Len(new) = n /\ new[1] = Session
      BY <1>3, <2>1, <2>3
    <3>2. new # <<>> /\ response \o new = new
      <4> HIDE DEF new
      <4>1. <<>> \o new = new
        BY <1>6, JoinedWithNothing
      <4> QED BY <1>6, <2>1, <2>3, <3>1, <4>1
    <3>3. msgs' = new \o piece
      BY <1>7, <3>2
    <3>4. /\ Len(new \o piece) >= 1 /\ (new \o piece)[1] = new[1]
      <4> HIDE DEF new
      <4>1. /\ Len(new \o piece) = Len(new) + Len(piece) /\ Len(piece) \in Nat
            /\ \A i \in 1..Len(new) : (new \o piece)[i] = new[i]
        BY <1>6, <1>8, ConcatFacts
      <4> QED BY <2>3, <3>1, <4>1
    <3>5. msgs' # <<>> /\ Head(msgs') = Session
      <4>1. \A s \in Seq(Int) : Len(s) >= 1 => s # <<>> /\ Head(s) = s[1]
        OBVIOUS
      <4>2. new \o piece \in Seq(Int)
        <5> HIDE DEF new
        <5> QED BY <1>6, <1>8, ConcatFacts
      <4> HIDE DEF new
      <4> QED BY <3>1, <3>3, <3>4, <4>1, <4>2
    <3> QED BY <3>5 DEF Session
  <2> QED BY <2>2, <2>3
<1> QED BY <1>1, <1>11, <1>12 DEF MultipartInv

(* The next of what was decoded is handled. *)
LEMMA DecodedRead ==
  ASSUME IInv, MultipartInv, OnDecoded, IsMultipart'
  PROVE  MultipartInv'
<1>1. /\ IsMultipart /\ msgs # <<>> /\ msgs' = Tail(msgs) /\ OnMessage(Head(msgs))
      /\ UNCHANGED <<link, down, told, response>>
  BY DEF OnDecoded, server, IsMultipart
<1>2. PICK had, read \in Nat : ClimbsOn(had, read)
  BY <1>1 DEF MultipartInv
<1>3. got \in Seq(Int) /\ msgs \in Seq(Int)
  BY TextsTyped DEF IInv
<1>4. session'
  BY <1>1 DEF OnMessage, OnSession, IInv, TypeOK
<1>5. Climbs(got, 0, had) /\ Climbs(msgs, had, read)
  BY <1>2 DEF ClimbsOn
<1>6. /\ Head(msgs) \in Int /\ Head(msgs) <= had + 1
      /\ Head(msgs) = had + 1 => Climbs(Tail(msgs), had + 1, read)
      /\ Head(msgs) <= had => Climbs(Tail(msgs), had, read)
  BY <1>1, <1>3, <1>5, ClimbsTail
<1>7. CASE got' = got /\ Head(msgs) <= 0
  <2>1. ClimbsOn(had, read)'
    BY <1>1, <1>2, <1>6, <1>7 DEF ClimbsOn
  <2> QED BY <1>4, <2>1 DEF MultipartInv, BeforeSession
<1>8. CASE got' = Append(got, Head(msgs))
  <2>1. CASE Head(msgs) = had + 1
    <3>1. Climbs(got', 0, had + 1)
      BY <1>3, <1>5, <1>6, <1>8, <2>1, ClimbsAppend
    <3>2. ClimbsOn(had + 1, read)'
      BY <1>1, <1>2, <1>6, <2>1, <3>1 DEF ClimbsOn
    <3>3. had + 1 \in Nat
      OBVIOUS
    <3> QED BY <1>4, <3>2, <3>3 DEF MultipartInv, BeforeSession
  <2>2. CASE Head(msgs) <= had
    <3>1. Climbs(got', 0, had)
      BY <1>3, <1>5, <1>6, <1>8, <2>2, ClimbsAppend
    <3>2. ClimbsOn(had, read)'
      BY <1>1, <1>2, <1>6, <2>2, <3>1 DEF ClimbsOn
    <3> QED BY <1>4, <3>2 DEF MultipartInv, BeforeSession
  <2> QED BY <1>6, <2>1, <2>2
<1>9. CASE ~session
  <2>1. Head(msgs) <= 0 /\ got' = got
    BY <1>1, <1>9 DEF MultipartInv, BeforeSession, OnMessage, OnSession
  <2> QED BY <1>7, <2>1
<1>10. CASE session /\ Head(msgs) = Beat
  <2>1. got' = got /\ Head(msgs) <= 0
    BY <1>1, <1>10 DEF OnMessage, Beat
  <2> QED BY <1>7, <2>1
<1>11. CASE session /\ Head(msgs) # Beat
  BY <1>1, <1>8, <1>11 DEF OnMessage
<1> QED BY <1>9, <1>10, <1>11

(* What the server tells follows on the link. *)
LEMMA TellRead ==
  ASSUME IInv, MultipartInv, Tell, IsMultipart'
  PROVE  MultipartInv'
<1>1. /\ IsMultipart /\ link = "open" /\ UNCHANGED <<link, session, got, response, msgs>>
  BY DEF Tell, base, reading, IsMultipart
<1>2. PICK had, read \in Nat : ClimbsOn(had, read)
  BY <1>1 DEF MultipartInv
<1>3. down \in Seq(Int) /\ Len(told) \in Nat /\ told \in Seq(1..MaxTold)
  BY TextsTyped DEF IInv, TypeOK
<1>4. read <= Len(told) /\ Carries(down, read, Len(told)) /\ InOrder(down, read, Len(told))
  BY <1>1, <1>2 DEF ClimbsOn, Carries
<1>5. /\ Carries(Append(down, Beat), read, Len(told))
      /\ Carries(Append(down, Len(told) + 1), read, Len(told) + 1)
  BY <1>3, <1>4, InOrderAppend
<1>6. PICK e \in Int : down' = Append(down, e) /\ read <= Len(told')
                       /\ Carries(down', read, Len(told'))
  <2>1. CASE told' = Append(told, Len(told) + 1) /\ down' = Append(down, Len(told) + 1)
    <3>1. Len(told') = Len(told) + 1
      <4>1. \A S : \A s \in Seq(S) : \A e : Len(Append(s, e)) = Len(s) + 1
        OBVIOUS
      <4> QED BY <1>3, <2>1, <4>1
    <3>2. Len(told) + 1 \in Int /\ read <= Len(told) + 1
      BY <1>3, <1>4
    <3> QED BY <1>5, <2>1, <3>1, <3>2
  <2>2. CASE told' = told /\ down' = Append(down, Beat)
    BY <1>4, <1>5, <2>2 DEF Beat
  <2> QED BY <2>1, <2>2 DEF Tell
<1>7. ClimbsOn(had, read)'
  BY <1>1, <1>2, <1>6 DEF ClimbsOn
<1>8. BeforeSession'
  <2>1. down # <<>> => down' # <<>> /\ Head(down') = Head(down)
    <3>1. \A s \in Seq(Int) : \A x \in Int : s # <<>> => Append(s, x) # <<>> /\ Head(Append(s, x)) = Head(s)
      OBVIOUS
    <3> QED BY <1>3, <1>6, <3>1
  <2> QED BY <1>1, <2>1 DEF MultipartInv, BeforeSession
<1> QED BY <1>7, <1>8 DEF MultipartInv

(* The rest: a connection that is made or breaks, and what is not its own. *)
LEMMA OthersRead ==
  ASSUME IInv, MultipartInv, UNCHANGED <<told, got, msgs>>,
         response' = response \/ response' = <<>>, IsMultipart, IsMultipart', session' = session,
         \/ link' = link /\ down' = down
         \/ link' # "open"
  PROVE  MultipartInv'
<1>1. PICK had, read \in Nat : ClimbsOn(had, read)
  BY DEF MultipartInv
<1>2. \A i \in DOMAIN response' : response'[i] <= read
  <2>1. DOMAIN <<>> = {}
    OBVIOUS
  <2> QED BY <1>1, <2>1 DEF ClimbsOn
<1>3. ClimbsOn(had, read)'
  BY <1>1, <1>2 DEF ClimbsOn
<1>4. BeforeSession'
  BY DEF MultipartInv, BeforeSession
<1> QED BY <1>3, <1>4 DEF MultipartInv

LEMMA OpenedRead ==
  ASSUME IInv, Opened
  PROVE  MultipartInv'
<1>1. /\ link = "opening" /\ down' = <<Session>>
      /\ UNCHANGED <<transport, session, told, got, response, msgs>>
  BY DEF Opened, base, server, reading
<1>2. got = <<>> /\ msgs = <<>> /\ response = <<>> /\ Len(told) \in Nat
  BY <1>1 DEF IInv, TypeOK, LifeInv, ReadInv
<1>3. CASE IsMultipart
  <2>1. told = <<>>
    BY <1>1, <1>3 DEF IInv, DownInv, Lossy, IsMultipart
  <2>2. /\ got' = <<>> /\ msgs' = <<>> /\ response' = <<>> /\ Len(told') \in Nat
        /\ down' = <<Session>> /\ told' = <<>>
    BY <1>1, <1>2, <2>1
  <2>3. Climbs(got', 0, 0) /\ Climbs(msgs', 0, 0)
    BY <2>2, ClimbsNothing
  <2>4. DOMAIN <<>> = {} /\ Len(<<>>) = 0 /\ DOMAIN <<Session>> = {1} /\ <<Session>>[1] = 0
        /\ <<Session>> # <<>> /\ Head(<<Session>>) = Session
    BY DEF Session
  <2>5. Carries(<<Session>>, 0, 0)
    BY <2>4 DEF Carries, InOrder
  <2>6. ClimbsOn(0, 0)'
    BY <2>2, <2>3, <2>4, <2>5 DEF ClimbsOn
  <2>7. BeforeSession'
    BY <2>2, <2>4 DEF BeforeSession
  <2> QED BY <2>6, <2>7 DEF MultipartInv
<1>4. CASE ~IsMultipart
  BY <1>1, <1>4 DEF MultipartInv, IsMultipart
<1> QED BY <1>3, <1>4

(* Only Flash gives way, and then nothing has been got. *)
LEMMA OnCloseRead ==
  ASSUME IInv, OnClose
  PROVE  MultipartInv'
<1>1. /\ UNCHANGED <<told, got, response, msgs, down>> /\ ~IsMultipart
      /\ UNCHANGED transport \/ (~connected /\ session' = FALSE /\ FallBack)
  BY DEF OnClose, FallBack, server, reading, IsMultipart, IsWebSocket, WebSockets
<1>2. CASE UNCHANGED transport
  BY <1>1, <1>2 DEF MultipartInv, IsMultipart
<1>3. CASE ~connected /\ session' = FALSE /\ FallBack
  <2>1. got' = <<>> /\ msgs' = <<>> /\ response' = <<>> /\ Len(told') \in Nat
    BY <1>1, <1>3 DEF IInv, TypeOK, LifeInv, ReadInv
  <2>2. link' = "closed"
    BY <1>3 DEF FallBack, OnClose, IInv, LifeInv
  <2>3. Climbs(got', 0, 0) /\ Climbs(msgs', 0, 0)
    BY <2>1, ClimbsNothing
  <2>4. DOMAIN <<>> = {}
    OBVIOUS
  <2>5. ClimbsOn(0, 0)'
    BY <2>1, <2>2, <2>3, <2>4 DEF ClimbsOn
  <2>6. BeforeSession'
    BY <2>1, <2>2 DEF BeforeSession
  <2> QED BY <2>5, <2>6 DEF MultipartInv
<1> QED BY <1>1, <1>2, <1>3

LEMMA InitRead == Init => MultipartInv
<1> SUFFICES ASSUME Init PROVE MultipartInv
  OBVIOUS
<1>1. got = <<>> /\ msgs = <<>> /\ response = <<>> /\ told = <<>> /\ link = "closed"
  BY DEF Init
<1>2. Len(told) \in Nat
  BY <1>1
<1>3. Climbs(got, 0, 0) /\ Climbs(msgs, 0, 0)
  BY <1>1, ClimbsNothing
<1>4. DOMAIN <<>> = {}
  OBVIOUS
<1>5. ClimbsOn(0, 0)
  BY <1>1, <1>2, <1>3, <1>4 DEF ClimbsOn
<1> QED BY <1>1, <1>5 DEF MultipartInv, BeforeSession

LEMMA NextRead == IInv /\ MultipartInv /\ [Next]_vars => MultipartInv'
<1> SUFFICES ASSUME IInv, MultipartInv, [Next]_vars, IsMultipart' PROVE MultipartInv'
  BY DEF MultipartInv
<1>1. CASE OnData \/ PollFails
  BY <1>1 DEF OnData, PollFails, base, IsMultipart
<1>2. CASE Disconnect \/ Break
  <2>1. /\ UNCHANGED <<transport, told, got, msgs, response, session>> /\ link' = "broken"
    BY <1>2 DEF Disconnect, Break, base, server, reading
  <2> QED BY <2>1, OthersRead DEF IsMultipart
<1>3. CASE Connect
  <2>1. /\ UNCHANGED <<transport, told, got, msgs, response, session>> /\ link' = "opening"
    BY <1>3 DEF Connect, server, reading
  <2> QED BY <2>1, OthersRead DEF IsMultipart
<1>4. CASE UNCHANGED vars \/ Send \/ PartEnds \/ Arrive \/ PostEnds
  <2>1. /\ UNCHANGED <<transport, told, got, msgs, session, link, down>>
        /\ response' = response \/ response' = <<>>
    BY <1>4 DEF vars, Send, PartEnds, Arrive, PostEnds, Posted, base, wires, server, reading
  <2> QED BY <2>1, OthersRead DEF IsMultipart
<1> QED BY <1>1, <1>2, <1>3, <1>4, ResponseRead, DecodedRead, TellRead, OpenedRead, OnCloseRead DEF Next

(* Over xhr-multipart, where all that has come is read again with each piece *)
(* of the response, "message" fires for a message for the first time when it *)
(* has fired for the one before, and for none that was not sent.             *)
(* (xhr-multipart.js:22-24, transport.js:42-82.)                             *)
THEOREM RereadsKeepOrder == Spec => []RereadsInOrder
<1>1. Spec => []MultipartInv
  BY InitRead, NextRead, Invariant, PTL DEF Spec
<1>2. IInv /\ MultipartInv => RereadsInOrder
  <2> SUFFICES ASSUME IInv, MultipartInv, IsMultipart, NEW i \in DOMAIN got
               PROVE  /\ got[i] <= Len(told)
                      /\ got[i] > 1 => \E j \in 1..(i - 1) : got[j] = got[i] - 1
    BY DEF RereadsInOrder
  <2>1. PICK had, read \in Nat : ClimbsOn(had, read)
    BY DEF MultipartInv
  <2>2. got \in Seq(Int) /\ Len(told) \in Nat /\ got[i] \in Int
    BY TextsTyped DEF IInv
  <2>3. had <= read /\ read <= Len(told) /\ got[i] <= had
    BY <2>1 DEF ClimbsOn, Climbs
  <2>4. got[i] > 0 + 1 => \E j \in 1..(i - 1) : got[j] = got[i] - 1
    BY <2>1 DEF ClimbsOn, Climbs
  <2> QED BY <2>2, <2>3, <2>4
<1> QED BY <1>1, <1>2, Invariant, PTL

-----------------------------------------------------------------------------
(* FrameCodec.  The functions that it defines by recursion exist and are the *)
(* only ones; a round of _decode takes one frame off.                        *)

(* A function over numbers that is defined by recursion: where it does not   *)
(* stop it goes by its value at one smaller number.                          *)
ByRecursion(A, D, Stop, first, step, back) ==
  /\ D \subseteq Nat /\ first \in [D -> A] /\ step \in [D \X A -> A]
  /\ \A n \in D \ Stop : back[n] \in D /\ back[n] < n
Defined(f, A, D, Stop, first, step, back) ==
  /\ f \in [D -> A]
  /\ \A n \in D : f[n] = IF n \in Stop THEN first[n] ELSE step[<<n, f[back[n]]>>]
Obeys(g, A, D, Stop, first, step, back) ==
  /\ g = [n \in D |-> g[n]]
  /\ \A n \in D : n \in Stop => g[n] = first[n]
  /\ \A n \in D \ Stop : g[back[n]] \in A => g[n] = step[<<n, g[back[n]]>>]

(* There is such a function. *)
LEMMA Recursion ==
  ASSUME NEW A, NEW D, NEW Stop, NEW first, NEW step, NEW back,
         ByRecursion(A, D, Stop, first, step, back)
  PROVE  \E f : Defined(f, A, D, Stop, first, step, back)
<1> USE DEF ByRecursion
<1> DEFINE Value(n, f) == IF n \in Stop THEN first[n] ELSE step[<<n, f[back[n]]>>]
           Below(n) == {i \in D : i <= n}
           Part(n) == {f \in [Below(n) -> A] : \A i \in Below(n) : f[i] = Value(i, f)}
<1>1. ASSUME NEW n \in D, NEW m \in D, NEW f \in Part(n), NEW g \in Part(m)
      PROVE  \A i \in Below(n) \cap Below(m) : f[i] = g[i]
  <2> DEFINE T == {i \in Below(n) \cap Below(m) : f[i] # g[i]}
  <2> SUFFICES T = {}
    OBVIOUS
  <2> SUFFICES ASSUME T # {} PROVE FALSE
    OBVIOUS
  <2>1. PICK i \in T : \A j \in T : i <= j
    <3>1. T \subseteq Nat
      OBVIOUS
    <3> QED BY <3>1, Least
  <2>2. i \in D /\ i \in Below(n) /\ i \in Below(m) /\ f[i] = Value(i, f) /\ g[i] = Value(i, g)
    OBVIOUS
  <2>3. i \notin Stop
    BY <2>1, <2>2
  <2>4. back[i] \in D /\ back[i] < i /\ back[i] \in Nat /\ i \in Nat /\ n \in Nat /\ m \in Nat
    BY <2>2, <2>3
  <2>5. back[i] \in Below(n) \cap Below(m) /\ back[i] \notin T
    BY <2>1, <2>2, <2>4
  <2>6. f[back[i]] = g[back[i]]
    BY <2>5
  <2> QED BY <2>1, <2>2, <2>6
<1>2. ASSUME NEW n \in D PROVE Part(n) # {}
  <2> DEFINE T == {i \in D : Part(i) = {}}
  <2> SUFFICES T = {}
    OBVIOUS
  <2> SUFFICES ASSUME T # {} PROVE FALSE
    OBVIOUS
  <2>1. PICK k \in T : \A j \in T : k <= j
    <3>1. T \subseteq Nat
      OBVIOUS
    <3> HIDE DEF T
    <3> QED BY <3>1, Least
  <2> HIDE DEF Part
  <2> DEFINE some(i) == CHOOSE f : f \in Part(i)
             g == [i \in Below(k) |-> IF i \in Stop THEN first[i]
                                      ELSE step[<<i, some(back[i])[back[i]]>>]]
  <2>2. ASSUME NEW i \in D, i < k PROVE some(i) \in Part(i)
    <3>1. i \notin T
      BY <2>1, <2>2
    <3> QED BY <3>1
  <2>3. ASSUME NEW i \in Below(k), i \notin Stop
        PROVE  /\ back[i] \in D /\ back[i] < i /\ back[i] < k
               /\ some(back[i]) \in Part(back[i]) /\ some(back[i])[back[i]] \in A
    <3>1. back[i] \in D /\ back[i] < i /\ i <= k /\ i \in Nat /\ k \in Nat /\ back[i] \in Nat
      BY <2>3
    <3>2. back[i] < k
      BY <3>1
    <3>3. some(back[i]) \in Part(back[i])
      BY <2>2, <3>1, <3>2
    <3>4. back[i] \in Below(back[i])
      BY <3>1
    <3> HIDE DEF some
    <3> QED BY <3>1, <3>2, <3>3, <3>4 DEF Part
  <2>4. ASSUME NEW i \in Below(k) PROVE g[i] \in A
    <3>1. i \in D
      OBVIOUS
    <3>2. CASE i \in Stop
      BY <3>1, <3>2
    <3>3. CASE i \notin Stop
      <4> HIDE DEF some
      <4> QED BY <2>3, <3>1, <3>3
    <3> QED BY <3>2, <3>3
  <2>5. ASSUME NEW i \in Below(k), i \notin Stop PROVE g[back[i]] = some(back[i])[back[i]]
    <3> DEFINE b == back[i]
    <3>1. /\ b \in D /\ b < i /\ b < k /\ some(b) \in Part(b) /\ b \in Nat
      BY <2>3, <2>5
    <3>2. b \in Below(k) /\ b \in Below(b)
      BY <3>1
    <3>3. some(b)[b] = Value(b, some(b))
      BY <3>1, <3>2 DEF Part
    <3>4. CASE b \in Stop
      BY <3>2, <3>3, <3>4
    <3>5. CASE b \notin Stop
      <4> DEFINE c == back[b]
      <4>1. c \in D /\ c < b /\ some(c) \in Part(c) /\ c \in Nat
        BY <2>3, <3>2, <3>5
      <4>2. c \in Below(b) \cap Below(c)
        BY <3>1, <4>1
      <4>3. some(b)[c] = some(c)[c]
        <5> HIDE DEF some, Below, b, c
        <5> QED BY <1>1, <3>1, <4>1, <4>2
      <4>4. g[b] = step[<<b, some(c)[c]>>]
        BY <3>2, <3>5
      <4> QED BY <3>3, <3>5, <4>3, <4>4
    <3> QED BY <3>4, <3>5
  <2>6. g \in Part(k)
    <3>1. g \in [Below(k) -> A]
      <4> HIDE DEF some
      <4> QED BY <2>4
    <3>2. ASSUME NEW i \in Below(k) PROVE g[i] = Value(i, g)
      <4> HIDE DEF some
      <4> QED BY <2>5
    <3> HIDE DEF g
    <3> QED BY <3>1, <3>2 DEF Part
  <2> QED BY <2>1, <2>6
<1> HIDE DEF Part
<1> DEFINE some(n) == CHOOSE f : f \in Part(n)
           all == [n \in D |-> some(n)[n]]
<1>3. ASSUME NEW n \in D PROVE some(n) \in Part(n) /\ n \in Below(n)
  BY <1>2
<1> HIDE DEF some
<1>4. ASSUME NEW n \in D PROVE all[n] \in A /\ all[n] = Value(n, all)
  <2>1. some(n) \in [Below(n) -> A] /\ some(n)[n] = Value(n, some(n))
    BY <1>3 DEF Part
  <2>2. CASE n \in Stop
    BY <1>3, <2>1, <2>2
  <2>3. CASE n \notin Stop
    <3>1. back[n] \in D /\ back[n] < n /\ n \in Nat /\ back[n] \in Nat
      BY <2>3
    <3>2. back[n] \in Below(n) \cap Below(back[n])
      BY <3>1
    <3>3. some(n)[back[n]] = some(back[n])[back[n]]
      BY <1>1, <1>3, <3>1, <3>2
    <3> QED BY <1>3, <2>1, <2>3, <3>1, <3>3
  <2> QED BY <2>2, <2>3
<1>5. all \in [D -> A]
  BY <1>4
<1> HIDE DEF all
<1> QED BY <1>4, <1>5 DEF Defined

(* ... and only one function is defined by it. *)
LEMMA OneRecursion ==
  ASSUME NEW A, NEW D, NEW Stop, NEW first, NEW step, NEW back,
         ByRecursion(A, D, Stop, first, step, back),
         NEW f, Defined(f, A, D, Stop, first, step, back),
         NEW g, Obeys(g, A, D, Stop, first, step, back)
  PROVE  g = f
<1> USE DEF ByRecursion, Defined, Obeys
<1> DEFINE T == {n \in D : f[n] # g[n]}
<1>1. ASSUME T # {} PROVE FALSE
  <2>1. PICK n \in T : \A j \in T : n <= j
    <3>1. T \subseteq Nat
      OBVIOUS
    <3> HIDE DEF T
    <3> QED BY <1>1, <3>1, Least
  <2>2. n \in D /\ n \notin Stop
    OBVIOUS
  <2>3. back[n] \in D /\ back[n] < n /\ back[n] \in Nat /\ n \in Nat
    BY <2>2
  <2>4. back[n] \notin T
    BY <2>1, <2>3
  <2>5. g[back[n]] = f[back[n]] /\ f[back[n]] \in A
    BY <2>3, <2>4
  <2> QED BY <2>2, <2>5
<1> QED BY <1>1

(* The ten figures are different characters and none of them is the mark's.  *)
LEMMA FigureFacts ==
  /\ \A d \in 0..9 : Figure(d) \in Characters /\ IsFigure(Figure(d)) /\ Digit(Figure(d)) = d
  /\ ~IsFigure("~")
<1>1. 0..9 = {0, 1, 2, 3, 4, 5, 6, 7, 8, 9}
  OBVIOUS
<1>2. /\ Figure(0) = "0" /\ Figure(1) = "1" /\ Figure(2) = "2" /\ Figure(3) = "3"
      /\ Figure(4) = "4" /\ Figure(5) = "5" /\ Figure(6) = "6" /\ Figure(7) = "7"
      /\ Figure(8) = "8" /\ Figure(9) = "9"
  BY DEF Figure, Figures
<1>3. ASSUME NEW d \in 0..9 PROVE Figure(d) \in Characters /\ Figure(d) # "~"
  <2>1. d \in {0, 1, 2, 3, 4, 5, 6, 7, 8, 9}
    BY <1>1
  <2>2. Figure(d) # "~"
    BY <1>2, <2>1
  <2>3. Figure(d) \in Characters
    BY <1>2, <2>1, TextsAssumption
  <2> QED BY <2>2, <2>3
<1>4. ASSUME NEW d \in 0..9, NEW e \in 0..9, Figure(d) = Figure(e)
      PROVE  d = e
  <2>1. d \in {0, 1, 2, 3, 4, 5, 6, 7, 8, 9} /\ e \in {0, 1, 2, 3, 4, 5, 6, 7, 8, 9}
    BY <1>1
  <2>2. CASE d \in {0, 1, 2, 3, 4}
    BY <1>2, <1>4, <2>1, <2>2
  <2>3. CASE d \in {5, 6, 7, 8, 9}
    BY <1>2, <1>4, <2>1, <2>3
  <2> QED BY <2>1, <2>2, <2>3
<1>5. ASSUME NEW d \in 0..9 PROVE IsFigure(Figure(d)) /\ Digit(Figure(d)) = d
  <2>1. IsFigure(Figure(d))
    BY DEF IsFigure
  <2>2. Digit(Figure(d)) \in 0..9 /\ Figure(Digit(Figure(d))) = Figure(d)
    BY DEF Digit
  <2> QED BY <1>4, <2>1, <2>2
<1> QED BY <1>3, <1>5 DEF IsFigure

(* The value of a figure. *)
LEMMA DigitFacts ==
  ASSUME NEW c, IsFigure(c)
  PROVE  Digit(c) \in 0..9 /\ Digit(c) \in Nat
BY DEF IsFigure, Digit

(* The value of some digits, from left to right. *)
LEMMA ValueFacts ==
  ASSUME NEW digits \in Seq(Characters), \A i \in 1..Len(digits) : IsFigure(digits[i])
  PROVE  \E f \in [0..Len(digits) -> Nat] :
           /\ f[0] = 0 /\ \A i \in 1..Len(digits) : f[i] = 10 * f[i - 1] + Digit(digits[i])
           /\ ValueOf(digits) = f[Len(digits)]
<1> DEFINE D == 0..Len(digits)
           Stop == {0}
           Body(f) == [i \in D |-> IF i = 0 THEN 0 ELSE 10 * f[i - 1] + Digit(digits[i])]
           first == [i \in D |-> 0]
           back == [i \in D |-> i - 1]
           step == [p \in D \X Nat |-> 10 * p[2] + IF p[1] = 0 THEN 0 ELSE Digit(digits[p[1]])]
<1>1. ByRecursion(Nat, D, Stop, first, step, back)
  <2>1. D \subseteq Nat /\ first \in [D -> Nat] /\ \A n \in D \ Stop : back[n] \in D /\ back[n] < n
    OBVIOUS
  <2>2. step \in [D \X Nat -> Nat]
    BY DigitFacts
  <2> HIDE DEF D, Stop, first, step, back
  <2> QED BY <2>1, <2>2 DEF ByRecursion
<1>2. PICK f : Defined(f, Nat, D, Stop, first, step, back)
  <2> HIDE DEF D, Stop, first, step, back
  <2> QED BY <1>1, Recursion
<1>3. f \in [D -> Nat]
  BY <1>2 DEF Defined
<1>4. ASSUME NEW i \in D PROVE f[i] = IF i = 0 THEN 0 ELSE 10 * f[i - 1] + Digit(digits[i])
  <2>1. CASE i = 0
    BY <1>2, <2>1 DEF Defined
  <2>2. CASE i # 0
    <3>1. i - 1 \in D /\ f[i - 1] \in Nat
      BY <1>3, <2>2
    <3> QED BY <1>2, <2>2, <3>1 DEF Defined
  <2> QED BY <2>1, <2>2
<1> DEFINE value == CHOOSE g : g = Body(g)
<1>5. value = Body(value)
  <2>1. f = Body(f)
    BY <1>3, <1>4
  <2> QED BY <2>1
<1>6. ValueOf(digits) = value[Len(digits)]
  BY DEF ValueOf
<1> HIDE DEF value
<1>7. Obeys(value, Nat, D, Stop, first, step, back)
  BY <1>5 DEF Obeys
<1>8. value = f
  <2> HIDE DEF D, Stop, first, step, back
  <2> QED BY <1>1, <1>2, <1>7, OneRecursion
<1> QED BY <1>3, <1>4, <1>6, <1>8

(* One more digit. *)
LEMMA ValueAppend ==
  ASSUME NEW digits \in Seq(Characters), NEW c \in Characters, IsFigure(c),
         \A i \in 1..Len(digits) : IsFigure(digits[i])
  PROVE  /\ ValueOf(Append(digits, c)) = 10 * ValueOf(digits) + Digit(c)
         /\ ValueOf(digits) \in Nat
<1> DEFINE more == Append(digits, c)
           m == Len(digits)
<1>1. /\ more \in Seq(Characters) /\ Len(more) = m + 1 /\ m \in Nat
      /\ \A i \in 1..m : more[i] = digits[i]
      /\ more[m + 1] = c
  BY AppendFacts
<1> HIDE DEF more
<1>2. \A i \in 1..Len(more) : IsFigure(more[i])
  <2> SUFFICES ASSUME NEW i \in 1..Len(more) PROVE IsFigure(more[i])
    OBVIOUS
  <2>1. i \in 1..m \/ i = m + 1
    BY <1>1
  <2> QED BY <1>1, <2>1
<1>3. PICK f \in [0..m -> Nat] : /\ f[0] = 0 /\ \A i \in 1..m : f[i] = 10 * f[i - 1] + Digit(digits[i])
                                 /\ ValueOf(digits) = f[m]
  BY ValueFacts
<1>4. PICK g \in [0..Len(more) -> Nat] :
        /\ g[0] = 0 /\ \A i \in 1..Len(more) : g[i] = 10 * g[i - 1] + Digit(more[i])
        /\ ValueOf(more) = g[Len(more)]
  BY <1>1, <1>2, ValueFacts
<1> HIDE DEF m
<1>5. ASSUME NEW i \in 0..m PROVE f[i] = g[i]
  <2> DEFINE T == {j \in 0..m : f[j] # g[j]}
  <2>1. ASSUME T # {} PROVE FALSE
    <3>1. PICK j \in T : \A k \in T : j <= k
      <4>1. T \subseteq Nat
        OBVIOUS
      <4> HIDE DEF T
      <4> QED BY <2>1, <4>1, Least
    <3>2. j \in 1..m /\ j \in 1..(m + 1) /\ j - 1 \in 0..m /\ j - 1 < j
      BY <1>1, <1>3, <1>4
    <3>3. f[j - 1] = g[j - 1]
      BY <3>1, <3>2
    <3>4. f[j] = 10 * f[j - 1] + Digit(digits[j]) /\ g[j] = 10 * g[j - 1] + Digit(more[j])
      BY <1>1, <1>3, <1>4, <3>2
    <3> QED BY <1>1, <3>2, <3>3, <3>4
  <2> QED BY <2>1
<1>6. g[m + 1] = 10 * g[m] + Digit(c)
  <2>1. m + 1 \in 1..Len(more) /\ (m + 1) - 1 = m
    BY <1>1
  <2> QED BY <1>1, <1>4, <2>1
<1>7. f[m] = g[m] /\ f[m] \in Nat
  BY <1>1, <1>3, <1>5
<1> QED BY <1>1, <1>3, <1>4, <1>6, <1>7 DEF more

(* What Decimal is defined by. *)
LEMMA DecimalIs ==
  ASSUME NEW n \in Nat
  PROVE  /\ Decimal[n] \in Seq(Characters)
         /\ Decimal[n] = IF n < 10 THEN <<Figure(n)>>
                         ELSE Append(Decimal[n \div 10], Figure(n % 10))
<1> DEFINE A == Seq(Characters)
           Stop == 0..9
           Body(f) == [i \in Nat |-> IF i < 10 THEN <<Figure(i)>>
                                     ELSE Append(f[i \div 10], Figure(i % 10))]
           first == [i \in Nat |-> <<Figure(i % 10)>>]
           back == [i \in Nat |-> i \div 10]
           step == [p \in Nat \X A |-> Append(p[2], Figure(p[1] % 10))]
<1>1. \A i \in Nat : i % 10 \in 0..9 /\ Figure(i % 10) \in Characters
  BY FigureFacts
<1>2. ByRecursion(A, Nat, Stop, first, step, back)
  <2>1. first \in [Nat -> A]
    BY <1>1
  <2>2. \A i \in Nat \ Stop : back[i] \in Nat /\ back[i] < i
    OBVIOUS
  <2>3. step \in [Nat \X A -> A]
    <3>1. ASSUME NEW i \in Nat, NEW s \in A PROVE Append(s, Figure(i % 10)) \in A
      BY <1>1, AppendFacts
    <3> HIDE DEF A
    <3> QED BY <3>1
  <2> HIDE DEF A, Stop, first, step, back
  <2> QED BY <2>1, <2>2, <2>3 DEF ByRecursion
<1>3. PICK f : Defined(f, A, Nat, Stop, first, step, back)
  <2> HIDE DEF A, Stop, first, step, back
  <2> QED BY <1>2, Recursion
<1>4. f \in [Nat -> A]
  BY <1>3 DEF Defined
<1>5. ASSUME NEW i \in Nat
      PROVE  f[i] = IF i < 10 THEN <<Figure(i)>> ELSE Append(f[i \div 10], Figure(i % 10))
  <2>1. CASE i < 10
    <3>1. i \in Stop /\ i % 10 = i
      BY <2>1
    <3>2. f[i] = first[i]
      BY <1>3, <3>1 DEF Defined
    <3> QED BY <2>1, <3>1, <3>2
  <2>2. CASE i >= 10
    <3>1. i \notin Stop /\ i \div 10 \in Nat
      BY <2>2
    <3>2. f[i] = step[<<i, f[back[i]]>>] /\ back[i] = i \div 10 /\ f[i \div 10] \in A
      BY <1>3, <1>4, <3>1 DEF Defined
    <3> HIDE DEF A
    <3> QED BY <2>2, <3>1, <3>2
  <2> QED BY <2>1, <2>2
<1>6. Decimal = Body(Decimal)
  <2>1. f = Body(f)
    BY <1>4, <1>5
  <2> QED BY <2>1 DEF Decimal
<1>7. Obeys(Decimal, A, Nat, Stop, first, step, back)
  <2>1. Decimal = [i \in Nat |-> Decimal[i]]
    BY <1>6
  <2>2. ASSUME NEW i \in Nat, i \in Stop PROVE Decimal[i] = first[i]
    <3>1. i < 10 /\ i % 10 = i
      BY <2>2
    <3> QED BY <1>6, <3>1
  <2>3. ASSUME NEW i \in Nat \ Stop, Decimal[back[i]] \in A
        PROVE  Decimal[i] = step[<<i, Decimal[back[i]]>>]
    <3>1. ~(i < 10) /\ back[i] = i \div 10
      BY <2>3
    <3>2. Decimal[i] = Append(Decimal[i \div 10], Figure(i % 10))
      BY <1>6, <3>1
    <3> HIDE DEF A
    <3> QED BY <2>3, <3>1, <3>2
  <2> HIDE DEF A, Stop, first, step, back
  <2> QED BY <2>1, <2>2, <2>3 DEF Obeys
<1>8. Decimal = f
  <2> HIDE DEF A, Stop, first, step, back
  <2> QED BY <1>2, <1>3, <1>7, OneRecursion
<1> QED BY <1>4, <1>5, <1>8

(* A number that is written can be read again. *)
LEMMA DecimalFacts ==
  ASSUME NEW n \in Nat
  PROVE  /\ Decimal[n] \in Seq(Characters) /\ Len(Decimal[n]) >= 1
         /\ \A i \in 1..Len(Decimal[n]) : IsFigure(Decimal[n][i])
         /\ ValueOf(Decimal[n]) = n
<1> DEFINE Good(i) == /\ Len(Decimal[i]) >= 1
                      /\ \A k \in 1..Len(Decimal[i]) : IsFigure(Decimal[i][k])
                      /\ ValueOf(Decimal[i]) = i
           T == {i \in Nat : ~Good(i)}
<1>1. ASSUME T # {} PROVE FALSE
  <2>1. PICK i \in T : \A j \in T : i <= j
    <3>1. T \subseteq Nat
      OBVIOUS
    <3> HIDE DEF T
    <3> QED BY <1>1, <3>1, Least
  <2>2. i \in Nat /\ ~Good(i)
    OBVIOUS
  <2> HIDE DEF Good
  <2>3. \A j \in Nat : j < i => Good(j)
    BY <2>1, <2>2
  <2>4. CASE i < 10
    <3>1. i \in 0..9 /\ Decimal[i] = <<Figure(i)>> /\ Figure(i) \in Characters
          /\ IsFigure(Figure(i)) /\ Digit(Figure(i)) = i
      <4>1. i \in 0..9
        BY <2>2, <2>4
      <4> QED BY <2>2, <2>4, <4>1, DecimalIs, FigureFacts
    <3>2. /\ Len(<<>>) = 0 /\ <<>> \in Seq(Characters)
          /\ Append(<<>>, Figure(i)) = <<Figure(i)>>
          /\ Len(<<Figure(i)>>) = 1 /\ <<Figure(i)>>[1] = Figure(i)
      OBVIOUS
    <3>3. ValueOf(<<>>) = 0
      <4>1. \A k \in 1..Len(<<>>) : IsFigure(<<>>[k])
        OBVIOUS
      <4>2. PICK f \in [0..Len(<<>>) -> Nat] : f[0] = 0 /\ ValueOf(<<>>) = f[Len(<<>>)]
        BY <3>2, <4>1, ValueFacts
      <4> QED BY <3>2, <4>2
    <3>4. ValueOf(<<Figure(i)>>) = 10 * 0 + i
      <4>1. \A k \in 1..Len(<<>>) : IsFigure(<<>>[k])
        OBVIOUS
      <4>2. ValueOf(Append(<<>>, Figure(i))) = 10 * ValueOf(<<>>) + Digit(Figure(i))
        BY <3>1, <3>2, <4>1, ValueAppend
      <4> QED BY <3>1, <3>2, <3>3, <4>2
    <3>5. 10 * 0 + i = i
      BY <2>2
    <3>6. \A k \in 1..1 : k = 1
      OBVIOUS
    <3> QED BY <2>2, <3>1, <3>2, <3>4, <3>5, <3>6 DEF Good
  <2>5. CASE i >= 10
    <3> DEFINE rest == Decimal[i \div 10]
               c == Figure(i % 10)
    <3>1. /\ i \div 10 \in Nat /\ i \div 10 < i /\ i % 10 \in 0..9
          /\ i = 10 * (i \div 10) + (i % 10) /\ ~(i < 10)
      <4> HIDE DEF T
      <4>1. i \div 10 \in Nat /\ i \div 10 < i
        BY <2>2, <2>5
      <4>2. i % 10 \in 0..9
        BY <2>2
      <4>3. i = 10 * (i \div 10) + (i % 10)
        BY <2>2
      <4> QED BY <2>2, <2>5, <4>1, <4>2, <4>3
    <3>2. /\ rest \in Seq(Characters) /\ c \in Characters /\ IsFigure(c) /\ Digit(c) = i % 10
          /\ Decimal[i] = Append(rest, c)
      BY <2>2, <3>1, DecimalIs, FigureFacts
    <3>3. \A k \in 1..Len(rest) : IsFigure(rest[k])
      BY <2>3, <3>1 DEF Good
    <3>4. ValueOf(rest) = i \div 10
      BY <2>3, <3>1 DEF Good
    <3> HIDE DEF rest, c
    <3>5. ValueOf(Decimal[i]) = i
      BY <3>1, <3>2, <3>3, <3>4, ValueAppend
    <3>6. /\ Len(Decimal[i]) = Len(rest) + 1 /\ Len(rest) \in Nat
          /\ \A k \in 1..Len(rest) : Decimal[i][k] = rest[k]
          /\ Decimal[i][Len(rest) + 1] = c
      BY <3>2, AppendFacts
    <3>7. ASSUME NEW k \in 1..Len(Decimal[i]) PROVE IsFigure(Decimal[i][k])
      <4>1. k \in 1..Len(rest) \/ k = Len(rest) + 1
        BY <3>6
      <4> QED BY <3>2, <3>3, <3>6, <4>1
    <3> QED BY <2>2, <3>5, <3>6, <3>7 DEF Good
  <2> QED BY <2>2, <2>4, <2>5
<1> QED BY <1>1, DecimalIs

(* What is left behind some characters. *)
LEMMA FromFacts ==
  ASSUME NEW C, NEW s \in Seq(C), NEW n \in Nat
  PROVE  /\ From(s, n) \in Seq(C)
         /\ Len(From(s, n)) = IF n <= Len(s) THEN Len(s) - n ELSE 0
         /\ \A i \in 1..Len(From(s, n)) : From(s, n)[i] = s[n + i]
<1>1. Len(s) \in Nat /\ \A i \in 1..Len(s) : s[i] \in C
  OBVIOUS
<1>2. \A i \in (n + 1)..Len(s) : s[i] \in C
  BY <1>1
<1>3. /\ From(s, n) \in Seq(C)
      /\ Len(From(s, n)) = IF n + 1 <= Len(s) THEN Len(s) - (n + 1) + 1 ELSE 0
      /\ \A i \in 1..(Len(s) - (n + 1) + 1) : From(s, n)[i] = s[(n + 1) + i - 1]
  BY <1>1, <1>2, SubSeqProperties DEF From
<1>4. Len(From(s, n)) = IF n <= Len(s) THEN Len(s) - n ELSE 0
  BY <1>1, <1>3
<1>5. ASSUME NEW i \in 1..Len(From(s, n)) PROVE From(s, n)[i] = s[n + i]
  <2>1. i \in 1..(Len(s) - (n + 1) + 1) /\ (n + 1) + i - 1 = n + i
    BY <1>1, <1>4
  <2> QED BY <1>3, <2>1
<1> QED BY <1>3, <1>4, <1>5

(* ... and what is in front of it. *)
LEMMA UptoFacts ==
  ASSUME NEW C, NEW s \in Seq(C), NEW n \in Nat
  PROVE  /\ Upto(s, n) \in Seq(C)
         /\ Len(Upto(s, n)) = IF n < Len(s) THEN n ELSE Len(s)
         /\ \A i \in 1..Len(Upto(s, n)) : Upto(s, n)[i] = s[i]
<1> DEFINE m == IF n < Len(s) THEN n ELSE Len(s)
<1>1. Len(s) \in Nat /\ m \in Nat /\ m <= Len(s) /\ \A i \in 1..Len(s) : s[i] \in C
  OBVIOUS
<1>2. \A i \in 1..m : s[i] \in C
  BY <1>1
<1>3. Upto(s, n) = SubSeq(s, 1, m)
  BY DEF Upto
<1> HIDE DEF m
<1>4. /\ Upto(s, n) \in Seq(C)
      /\ Len(Upto(s, n)) = IF 1 <= m THEN m - 1 + 1 ELSE 0
      /\ \A i \in 1..(m - 1 + 1) : Upto(s, n)[i] = s[1 + i - 1]
  BY <1>1, <1>2, <1>3, SubSeqProperties
<1>5. Len(Upto(s, n)) = m
  BY <1>1, <1>4
<1>6. ASSUME NEW i \in 1..Len(Upto(s, n)) PROVE Upto(s, n)[i] = s[i]
  <2>1. i \in 1..(m - 1 + 1) /\ 1 + i - 1 = i
    BY <1>1, <1>5
  <2> QED BY <1>4, <2>1
<1> QED BY <1>4, <1>5, <1>6 DEF m

(* Two parts that were put together come apart again. *)
LEMMA Apart ==
  ASSUME NEW C, NEW s \in Seq(C), NEW t \in Seq(C)
  PROVE  From(s \o t, Len(s)) = t /\ Upto(s \o t, Len(s)) = s
<1> DEFINE w == s \o t
<1>1. /\ w \in Seq(C) /\ Len(w) = Len(s) + Len(t) /\ Len(s) \in Nat /\ Len(t) \in Nat
      /\ \A i \in 1..Len(s) : w[i] = s[i]
      /\ \A i \in 1..Len(t) : w[Len(s) + i] = t[i]
  BY ConcatFacts
<1> HIDE DEF w
<1>2. From(w, Len(s)) = t
  <2>1. Len(s) <= Len(w) /\ Len(w) - Len(s) = Len(t)
    BY <1>1
  <2>2. /\ From(w, Len(s)) \in Seq(C) /\ Len(From(w, Len(s))) = Len(t)
        /\ \A i \in 1..Len(t) : From(w, Len(s))[i] = w[Len(s) + i]
    BY <1>1, <2>1, FromFacts
  <2> QED BY <1>1, <2>2, SameElements
<1>3. Upto(w, Len(s)) = s
  <2>1. ~(Len(s) < Len(w)) => Len(w) = Len(s)
    BY <1>1
  <2>2. /\ Upto(w, Len(s)) \in Seq(C) /\ Len(Upto(w, Len(s))) = Len(s)
        /\ \A i \in 1..Len(s) : Upto(w, Len(s))[i] = w[i]
    BY <1>1, <2>1, UptoFacts
  <2> QED BY <1>1, <2>2, SameElements
<1> QED BY <1>2, <1>3 DEF w

(* What is at hand in full, and what is not at all. *)
LEMMA AllOrNothing ==
  ASSUME NEW C, NEW s \in Seq(C), NEW n \in Nat, n >= Len(s)
  PROVE  From(s, n) = <<>> /\ Upto(s, n) = s
<1>1. Len(s) \in Nat
  OBVIOUS
<1>2. From(s, n) \in Seq(C) /\ Len(From(s, n)) = 0
  BY <1>1, FromFacts
<1>3. Upto(s, n) \in Seq(C) /\ Len(Upto(s, n)) = Len(s) /\ \A i \in 1..Len(s) : Upto(s, n)[i] = s[i]
  BY <1>1, UptoFacts
<1>4. Upto(s, n) = s
  BY <1>3, SameElements
<1> QED BY <1>2, <1>4

(* The digits that data begins with. *)
LEMMA LeadingFacts ==
  ASSUME NEW data \in Seq(Characters)
  PROVE  /\ LeadingDigits(data) \in 0..Len(data)
         /\ \A i \in 1..LeadingDigits(data) : IsFigure(data[i])
         /\ LeadingDigits(data) < Len(data) => ~IsFigure(data[LeadingDigits(data) + 1])
<1> DEFINE Ends(n) == /\ \A i \in 1..n : IsFigure(data[i])
                      /\ n < Len(data) => ~IsFigure(data[n + 1])
           T == {i \in 1..Len(data) : ~IsFigure(data[i])}
<1>1. Len(data) \in Nat
  OBVIOUS
<1>2. \E n \in 0..Len(data) : Ends(n)
  <2>1. CASE T = {}
    <3>1. Ends(Len(data)) /\ Len(data) \in 0..Len(data)
      BY <1>1, <2>1
    <3> QED BY <3>1
  <2>2. CASE T # {}
    <3>1. PICK m \in T : \A j \in T : m <= j
      <4>1. T \subseteq Nat
        OBVIOUS
      <4> HIDE DEF T
      <4> QED BY <2>2, <4>1, Least
    <3>2. m - 1 \in 0..Len(data) /\ (m - 1) + 1 = m /\ ~IsFigure(data[m])
      BY <1>1
    <3>3. ASSUME NEW i \in 1..(m - 1) PROVE IsFigure(data[i])
      <4>1. i \in 1..Len(data) /\ ~(m <= i)
        BY <1>1
      <4> QED BY <3>1, <4>1
    <3>4. Ends(m - 1)
      BY <3>2, <3>3
    <3> QED BY <3>2, <3>4
  <2> QED BY <2>1, <2>2
<1>3. LeadingDigits(data) = CHOOSE n \in 0..Len(data) : Ends(n)
  BY DEF LeadingDigits
<1>4. LeadingDigits(data) \in 0..Len(data) /\ Ends(LeadingDigits(data))
  <2> HIDE DEF Ends
  <2> QED BY <1>2, <1>3
<1> QED BY <1>4

(* Only one number of digits is that of those it begins with. *)
LEMMA LeadingIs ==
  ASSUME NEW data \in Seq(Characters), NEW n \in 0..Len(data),
         \A i \in 1..n : IsFigure(data[i]),
         n < Len(data) => ~IsFigure(data[n + 1])
  PROVE  LeadingDigits(data) = n
<1> DEFINE l == LeadingDigits(data)
<1>1. /\ l \in 0..Len(data) /\ Len(data) \in Nat
      /\ \A i \in 1..l : IsFigure(data[i])
      /\ l < Len(data) => ~IsFigure(data[l + 1])
  BY LeadingFacts
<1> HIDE DEF l
<1>2. CASE l < n
  <2>1. l + 1 \in 1..n /\ l < Len(data)
    BY <1>1, <1>2
  <2> QED BY <1>1, <2>1
<1>3. CASE n < l
  <2>1. n + 1 \in 1..l /\ n < Len(data)
    BY <1>1, <1>3
  <2> QED BY <1>1, <2>1
<1>4. l = n
  BY <1>1, <1>2, <1>3
<1> QED BY <1>4 DEF l

(* ... are a number. *)
LEMMA NumberFacts ==
  ASSUME NEW data \in Seq(Characters)
  PROVE  ValueOf(Number(data)) \in Nat
<1> DEFINE n == LeadingDigits(data)
<1>1. /\ n \in 0..Len(data) /\ Len(data) \in Nat /\ n \in Nat
      /\ \A i \in 1..n : IsFigure(data[i])
  BY LeadingFacts
<1>2. Number(data) = Upto(data, n)
  BY DEF Number
<1> HIDE DEF n
<1>3. /\ Number(data) \in Seq(Characters) /\ Len(Number(data)) = n
      /\ \A i \in 1..n : Number(data)[i] = data[i]
  BY <1>1, <1>2, UptoFacts
<1>4. \A i \in 1..Len(Number(data)) : IsFigure(Number(data)[i])
  BY <1>1, <1>3
<1>5. PICK f \in [0..Len(Number(data)) -> Nat] : ValueOf(Number(data)) = f[Len(Number(data))]
  BY <1>3, <1>4, ValueFacts
<1> QED BY <1>1, <1>3, <1>5

(* A frame: the mark, the number, the mark, the text. *)
LEMMA FrameFacts ==
  /\ Frame \in Seq(Characters) /\ Len(Frame) = 3
  /\ Frame[1] = "~" /\ ~IsFigure(Frame[1])
<1>1. "~" \in Characters /\ "m" \in Characters
  BY TextsAssumption
<1>2. Frame \in Seq(Characters) /\ Len(Frame) = 3 /\ Frame[1] = "~"
  BY <1>1 DEF Frame
<1> QED BY <1>2, FigureFacts

(* Texts that are put together. *)
LEMMA Joined ==
  /\ \A s, t \in Seq(Characters) : /\ s \o t \in Seq(Characters)
                                 /\ Len(s \o t) = Len(s) + Len(t)
                                 /\ Len(s) \in Nat /\ Len(t) \in Nat
  /\ \A s, t, u \in Seq(Characters) : (s \o t) \o u = s \o (t \o u)
<1>1. ASSUME NEW s \in Seq(Characters), NEW t \in Seq(Characters)
      PROVE  /\ s \o t \in Seq(Characters) /\ Len(s \o t) = Len(s) + Len(t)
             /\ Len(s) \in Nat /\ Len(t) \in Nat
  BY ConcatFacts
<1>2. ASSUME NEW s \in Seq(Characters), NEW t \in Seq(Characters), NEW u \in Seq(Characters)
      PROVE  (s \o t) \o u = s \o (t \o u)
  BY ConcatAssociative
<1> QED BY <1>1, <1>2

(* The parts of a frame, and how long it is. *)
LEMMA EncodeOneFacts ==
  ASSUME NEW text \in Seq(Characters)
  PROVE  /\ EncodeOne(text) \in Seq(Characters)
         /\ Decimal[Len(text)] \in Seq(Characters)
         /\ Len(EncodeOne(text)) = 6 + Len(Decimal[Len(text)]) + Len(text)
         /\ Len(Decimal[Len(text)]) \in Nat /\ Len(Decimal[Len(text)]) >= 1 /\ Len(text) \in Nat
         /\ Len(EncodeOne(text)) \in Nat
         /\ EncodeOne(text) = Frame \o (Decimal[Len(text)] \o (Frame \o text))
<1>1. Len(text) \in Nat
  OBVIOUS
<1> DEFINE number == Decimal[Len(text)]
<1>2. number \in Seq(Characters) /\ Len(number) >= 1 /\ Len(number) \in Nat
  BY <1>1, DecimalFacts
<1>3. EncodeOne(text) = Frame \o number \o Frame \o text
  BY DEF EncodeOne
<1> HIDE DEF number
<1> DEFINE a == Frame \o number
           b == a \o Frame
           u == Frame \o text
<1>4. a \in Seq(Characters) /\ Len(a) = Len(Frame) + Len(number)
  BY <1>2, FrameFacts, ConcatFacts
<1>5. u \in Seq(Characters)
  BY FrameFacts, ConcatFacts
<1>6. Frame \o (number \o u) = a \o u
  <2> HIDE DEF u
  <2>1. Frame \in Seq(Characters)
    BY FrameFacts
  <2>2. (Frame \o number) \o u = Frame \o (number \o u)
    BY <1>2, <1>5, <2>1, Joined
  <2> QED BY <2>2
<1> HIDE DEF a
<1>7. b \in Seq(Characters) /\ Len(b) = Len(a) + Len(Frame)
  BY <1>4, FrameFacts, ConcatFacts
<1>8. b \o text = a \o u
  <2>1. Frame \in Seq(Characters)
    BY FrameFacts
  <2>2. (a \o Frame) \o text = a \o (Frame \o text)
    BY <1>4, <2>1, Joined
  <2> QED BY <2>2
<1> HIDE DEF b
<1>9. b \o text \in Seq(Characters) /\ Len(b \o text) = Len(b) + Len(text)
  BY <1>7, ConcatFacts
<1>10. EncodeOne(text) = b \o text
  BY <1>3 DEF a, b
<1>11. Len(EncodeOne(text)) = 6 + Len(number) + Len(text)
  BY <1>1, <1>2, <1>4, <1>7, <1>9, <1>10, FrameFacts
<1>12. Len(EncodeOne(text)) \in Nat
  BY <1>1, <1>2, <1>11
<1> QED BY <1>1, <1>2, <1>6, <1>8, <1>9, <1>10, <1>11, <1>12 DEF number, u

(* The encoded messages: each behind those before. *)
LEMMA EncodeFacts ==
  ASSUME NEW texts \in Seq(Seq(Characters))
  PROVE  \E f \in [0..Len(texts) -> Seq(Characters)] :
           /\ f[0] = <<>>
           /\ \A i \in 1..Len(texts) : f[i] = f[i - 1] \o EncodeOne(texts[i])
           /\ Encode(texts) = f[Len(texts)]
<1> DEFINE A == Seq(Characters)
           D == 0..Len(texts)
           Stop == {0}
           Body(f) == [i \in D |-> IF i = 0 THEN <<>> ELSE f[i - 1] \o EncodeOne(texts[i])]
           first == [i \in D |-> <<>>]
           back == [i \in D |-> i - 1]
           step == [p \in D \X A |-> IF p[1] = 0 THEN <<>> ELSE p[2] \o EncodeOne(texts[p[1]])]
<1>1. ByRecursion(A, D, Stop, first, step, back)
  <2>1. D \subseteq Nat /\ first \in [D -> A] /\ \A n \in D \ Stop : back[n] \in D /\ back[n] < n
    OBVIOUS
  <2>2. step \in [D \X A -> A]
    <3>1. ASSUME NEW n \in D, NEW s \in A, n # 0 PROVE s \o EncodeOne(texts[n]) \in A
      <4>1. texts[n] \in Seq(Characters)
        BY <3>1
      <4> QED BY <4>1, EncodeOneFacts, ConcatFacts
    <3>2. <<>> \in A
      OBVIOUS
    <3> HIDE DEF A, D
    <3> QED BY <3>1, <3>2
  <2> HIDE DEF A, D, Stop, first, step, back
  <2> QED BY <2>1, <2>2 DEF ByRecursion
<1>2. PICK f : Defined(f, A, D, Stop, first, step, back)
  <2> HIDE DEF A, D, Stop, first, step, back
  <2> QED BY <1>1, Recursion
<1>3. f \in [D -> A]
  BY <1>2 DEF Defined
<1>4. ASSUME NEW i \in D PROVE f[i] = IF i = 0 THEN <<>> ELSE f[i - 1] \o EncodeOne(texts[i])
  <2>1. CASE i = 0
    BY <1>2, <2>1 DEF Defined
  <2>2. CASE i # 0
    <3>1. i - 1 \in D
      BY <2>2
    <3>2. f[i] = step[<<i, f[back[i]]>>] /\ back[i] = i - 1
      BY <1>2, <2>2 DEF Defined
    <3> HIDE DEF A, D
    <3> QED BY <1>3, <2>2, <3>1, <3>2
  <2> QED BY <2>1, <2>2
<1> DEFINE ret == CHOOSE g : g = Body(g)
<1>5. ret = Body(ret)
  <2>1. f = Body(f)
    BY <1>3, <1>4
  <2> QED BY <2>1
<1>6. Encode(texts) = ret[Len(texts)]
  BY DEF Encode
<1> HIDE DEF ret
<1>7. Obeys(ret, A, D, Stop, first, step, back)
  <2>1. ret = [i \in D |-> ret[i]] /\ \A i \in D : i \in Stop => ret[i] = first[i]
    BY <1>5
  <2>2. ASSUME NEW i \in D \ Stop, ret[back[i]] \in A
        PROVE  ret[i] = step[<<i, ret[back[i]]>>]
    <3>1. i # 0 /\ back[i] = i - 1 /\ ret[i] = ret[i - 1] \o EncodeOne(texts[i])
      BY <1>5
    <3> HIDE DEF A, D
    <3> QED BY <2>2, <3>1
  <2> HIDE DEF A, D, Stop, first, step, back
  <2> QED BY <2>1, <2>2 DEF Obeys
<1>8. ret = f
  <2> HIDE DEF A, D, Stop, first, step, back
  <2> QED BY <1>1, <1>2, <1>7, OneRecursion
<1>9. f[0] = <<>>
  <2>1. 0 \in D
    OBVIOUS
  <2> QED BY <1>4, <2>1
<1>10. ASSUME NEW i \in 1..Len(texts) PROVE f[i] = f[i - 1] \o EncodeOne(texts[i])
  <2>1. i \in D /\ i # 0
    OBVIOUS
  <2> QED BY <1>4, <2>1
<1> QED BY <1>3, <1>6, <1>8, <1>9, <1>10

(* They are characters. *)
LEMMA EncodeTyped ==
  ASSUME NEW texts \in Seq(Seq(Characters))
  PROVE  Encode(texts) \in Seq(Characters)
<1> DEFINE N == Len(texts)
<1>1. N \in 0..N
  OBVIOUS
<1>2. PICK f \in [0..N -> Seq(Characters)] : Encode(texts) = f[N]
  BY EncodeFacts
<1> HIDE DEF N
<1>3. f[N] \in Seq(Characters)
  BY <1>1
<1> QED BY <1>2, <1>3

(* The states of the loop of _decode. *)
States == [read : Seq(Seq(Characters)), data : Seq(Characters), over : BOOLEAN]
State(read, data, over) == [read |-> read, data |-> data, over |-> over]

(* What is behind the mark has a length and a rest. *)
LEMMA RestFacts ==
  ASSUME NEW data \in Seq(Characters)
  PROVE  DecodeRest(data).length \in Nat /\ DecodeRest(data).rest \in Seq(Characters)
<1>1. LeadingDigits(data) \in Nat /\ LeadingDigits(data) + 3 \in Nat
  <2>1. Len(data) \in Nat
    OBVIOUS
  <2> QED BY <2>1, LeadingFacts
<1>2. From(data, LeadingDigits(data) + 3) \in Seq(Characters)
  BY <1>1, FromFacts
<1> QED BY <1>2, NumberFacts, FrameFacts DEF DecodeRest

(* The three ways a round goes. *)
LEMMA RoundFacts ==
  ASSUME NEW read \in Seq(Seq(Characters)), NEW data \in Seq(Characters)
  PROVE  LET after == DecodeRest(From(data, 3))
             left == From(after.rest, after.length)
             text == Upto(after.rest, after.length)
         IN /\ Round(State(read, data, TRUE)) = State(read, data, TRUE)
            /\ Upto(data, 3) # Frame => Round(State(read, data, FALSE)) = State(read, data, TRUE)
            /\ Upto(data, 3) = Frame =>
                 Round(State(read, data, FALSE)) = State(Append(read, text), left, left = <<>>)
            /\ left \in Seq(Characters) /\ text \in Seq(Characters)
<1> DEFINE after == DecodeRest(From(data, 3))
           left == From(after.rest, after.length)
           text == Upto(after.rest, after.length)
<1>1. From(data, 3) \in Seq(Characters)
  BY FromFacts
<1>2. after.length \in Nat /\ after.rest \in Seq(Characters)
  BY <1>1, RestFacts
<1>3. left \in Seq(Characters) /\ text \in Seq(Characters)
  <2> HIDE DEF after
  <2> QED BY <1>2, FromFacts, UptoFacts
<1>4. Upto(data, 3) = Frame =>
        Round(State(read, data, FALSE)) = State(Append(read, text), left, left = <<>>)
  BY DEF Round, State
<1>5. /\ Round(State(read, data, TRUE)) = State(read, data, TRUE)
      /\ Upto(data, 3) # Frame => Round(State(read, data, FALSE)) = State(read, data, TRUE)
  BY DEF Round, State
<1> HIDE DEF after, left, text
<1> QED BY <1>3, <1>4, <1>5 DEF after, left, text

(* A round leaves such a state. *)
LEMMA RoundTyped ==
  ASSUME NEW s \in States
  PROVE  Round(s) \in States
<1>1. /\ s.read \in Seq(Seq(Characters)) /\ s.data \in Seq(Characters)
      /\ s.over \in BOOLEAN /\ s = State(s.read, s.data, s.over)
  BY DEF States, State
<1> DEFINE after == DecodeRest(From(s.data, 3))
           left == From(after.rest, after.length)
           text == Upto(after.rest, after.length)
<1>2. /\ Round(State(s.read, s.data, TRUE)) = State(s.read, s.data, TRUE)
      /\ Upto(s.data, 3) # Frame => Round(State(s.read, s.data, FALSE)) = State(s.read, s.data, TRUE)
      /\ Upto(s.data, 3) = Frame =>
           Round(State(s.read, s.data, FALSE)) = State(Append(s.read, text), left, left = <<>>)
      /\ left \in Seq(Characters) /\ text \in Seq(Characters)
  BY <1>1, RoundFacts
<1> HIDE DEF left, text
<1>3. Append(s.read, text) \in Seq(Seq(Characters))
  BY <1>1, <1>2, AppendFacts
<1>4. \A r \in Seq(Seq(Characters)), d \in Seq(Characters), o \in BOOLEAN : State(r, d, o) \in States
  BY DEF States, State
<1>5. CASE s.over = TRUE
  BY <1>1, <1>2, <1>5
<1>6. CASE s.over = FALSE
  BY <1>1, <1>2, <1>3, <1>4, <1>6
<1> QED BY <1>1, <1>5, <1>6

(* The loop of _decode, round by round. *)
LEMMA DecodeFacts ==
  ASSUME NEW data \in Seq(Characters)
  PROVE  \E f \in [Nat -> States] :
           /\ f[0] = State(<<>>, data, FALSE)
           /\ \A i \in Nat : f[i + 1] = Round(f[i])
           /\ Decode(data) = f[Len(data) + 1].read
<1> DEFINE Stop == {0}
           start == State(<<>>, data, FALSE)
           Body(f) == [i \in Nat |-> IF i = 0 THEN [read |-> <<>>, data |-> data, over |-> FALSE]
                                     ELSE Round(f[i - 1])]
           first == [i \in Nat |-> start]
           back == [i \in Nat |-> i - 1]
           step == [p \in Nat \X States |-> Round(p[2])]
<1>1. start \in States /\ start = [read |-> <<>>, data |-> data, over |-> FALSE]
  BY DEF States, State
<1> HIDE DEF start
<1>2. ByRecursion(States, Nat, Stop, first, step, back)
  <2>1. first \in [Nat -> States] /\ \A n \in Nat \ Stop : back[n] \in Nat /\ back[n] < n
    BY <1>1
  <2>2. step \in [Nat \X States -> States]
    BY RoundTyped
  <2> HIDE DEF Stop, first, step, back
  <2> QED BY <2>1, <2>2 DEF ByRecursion
<1>3. PICK f : Defined(f, States, Nat, Stop, first, step, back)
  <2> HIDE DEF Stop, first, step, back
  <2> QED BY <1>2, Recursion
<1>4. f \in [Nat -> States]
  BY <1>3 DEF Defined
<1>5. ASSUME NEW i \in Nat PROVE f[i] = IF i = 0 THEN start ELSE Round(f[i - 1])
  <2>1. CASE i = 0
    BY <1>3, <2>1 DEF Defined
  <2>2. CASE i # 0
    <3>1. i - 1 \in Nat
      BY <2>2
    <3>2. f[i] = step[<<i, f[back[i]]>>] /\ back[i] = i - 1
      BY <1>3, <2>2 DEF Defined
    <3> QED BY <1>4, <2>2, <3>1, <3>2
  <2> QED BY <2>1, <2>2
<1> DEFINE state == CHOOSE g : g = Body(g)
<1>6. state = Body(state)
  <2>1. f = Body(f)
    BY <1>1, <1>4, <1>5
  <2> QED BY <2>1
<1>7. Decode(data) = state[Len(data) + 1].read
  BY DEF Decode
<1> HIDE DEF state
<1>8. Obeys(state, States, Nat, Stop, first, step, back)
  <2>1. state = [i \in Nat |-> state[i]] /\ \A i \in Nat : i \in Stop => state[i] = first[i]
    BY <1>1, <1>6
  <2>2. ASSUME NEW i \in Nat \ Stop, state[back[i]] \in States
        PROVE  state[i] = step[<<i, state[back[i]]>>]
    <3>1. i # 0 /\ back[i] = i - 1 /\ state[i] = Round(state[i - 1])
      BY <1>6
    <3> QED BY <2>2, <3>1
  <2> HIDE DEF Stop, first, step, back
  <2> QED BY <2>1, <2>2 DEF Obeys
<1>9. state = f
  <2> HIDE DEF Stop, first, step, back
  <2> QED BY <1>2, <1>3, <1>8, OneRecursion
<1>10. ASSUME NEW i \in Nat PROVE f[i + 1] = Round(f[i])
  <2>1. i + 1 \in Nat /\ i + 1 # 0 /\ (i + 1) - 1 = i
    OBVIOUS
  <2> QED BY <1>5, <2>1
<1>11. f[0] = start
  BY <1>5
<1> QED BY <1>4, <1>7, <1>9, <1>10, <1>11 DEF start

(* A round reads the frame that its data begins with. *)
LEMMA RoundReads ==
  ASSUME NEW read \in Seq(Seq(Characters)), NEW text \in Seq(Characters), NEW rest \in Seq(Characters)
  PROVE  Round(State(read, EncodeOne(text) \o rest, FALSE)) =
           State(Append(read, text), rest, rest = <<>>)
<1> DEFINE number == Decimal[Len(text)]
           L == Len(number)
           data == EncodeOne(text) \o rest
           more == text \o rest
           framed == Frame \o more
           tail == number \o framed
<1>1. /\ number \in Seq(Characters) /\ L \in Nat /\ Frame \in Seq(Characters) /\ Len(Frame) = 3
      /\ Len(text) \in Nat /\ EncodeOne(text) \in Seq(Characters)
  BY EncodeOneFacts, FrameFacts
<1>2. \A i \in 1..L : IsFigure(number[i])
  BY <1>1, DecimalFacts
<1>3. ValueOf(number) = Len(text)
  BY <1>1, DecimalFacts
<1>4. EncodeOne(text) = Frame \o (number \o (Frame \o text))
  BY EncodeOneFacts
<1> HIDE DEF number
<1>5. /\ more \in Seq(Characters) /\ Frame \o text \in Seq(Characters)
      /\ framed \in Seq(Characters) /\ Len(framed) = Len(Frame) + Len(more)
      /\ Len(more) \in Nat
  BY <1>1, Joined
<1>6. /\ tail \in Seq(Characters) /\ Len(tail) = L + Len(framed)
      /\ \A i \in 1..L : tail[i] = number[i]
      /\ \A i \in 1..Len(framed) : tail[L + i] = framed[i]
  <2>1. number \in Seq(Characters) /\ framed \in Seq(Characters)
    BY <1>1, <1>5
  <2> HIDE DEF framed
  <2> QED BY <2>1, ConcatFacts
<1>7. data = Frame \o tail /\ data \in Seq(Characters)
  <2>1. number \o (Frame \o text) \in Seq(Characters)
    BY <1>1, <1>5, Joined
  <2>2. data = Frame \o ((number \o (Frame \o text)) \o rest)
    <3> DEFINE u == number \o (Frame \o text)
    <3> HIDE DEF u
    <3>1. (Frame \o u) \o rest = Frame \o (u \o rest)
      BY <1>1, <2>1, Joined DEF u
    <3> QED BY <1>4, <3>1 DEF u
  <2>3. (number \o (Frame \o text)) \o rest = number \o ((Frame \o text) \o rest)
    <3> DEFINE u == Frame \o text
    <3>1. u \in Seq(Characters)
      BY <1>5
    <3> HIDE DEF u
    <3>2. (number \o u) \o rest = number \o (u \o rest)
      BY <1>1, <3>1, Joined
    <3> QED BY <3>2 DEF u
  <2>4. (Frame \o text) \o rest = framed
    BY <1>1, Joined
  <2>5. data \in Seq(Characters)
    BY <1>1, Joined
  <2> QED BY <2>2, <2>3, <2>4, <2>5
<1>8. Upto(data, 3) = Frame /\ From(data, 3) = tail
  <2> HIDE DEF tail, data
  <2> QED BY <1>1, <1>6, <1>7, Apart
<1>9. LeadingDigits(tail) = L /\ L < Len(tail)
  <2>1. L \in 0..Len(tail) /\ L < Len(tail)
    BY <1>1, <1>5, <1>6
  <2>2. tail[L + 1] = Frame[1]
    <3>1. 1 \in 1..Len(framed) /\ 1 \in 1..Len(Frame)
      BY <1>1, <1>5
    <3>2. framed[1] = Frame[1]
      BY <1>1, <1>5, <3>1, ConcatFacts
    <3> QED BY <1>6, <3>1, <3>2
  <2>3. \A i \in 1..L : IsFigure(tail[i])
    BY <1>2, <1>6
  <2>4. ~IsFigure(tail[L + 1])
    BY <2>2, FrameFacts
  <2> HIDE DEF tail
  <2> QED BY <1>6, <2>1, <2>3, <2>4, LeadingIs
<1>10. Number(tail) = number
  BY <1>1, <1>5, <1>9, Apart DEF Number
<1>11. From(tail, L + 3) = more
  <2>1. number \o Frame \in Seq(Characters) /\ Len(number \o Frame) = L + Len(Frame)
    BY <1>1, Joined
  <2>2. tail = (number \o Frame) \o more
    <3>1. more \in Seq(Characters)
      BY <1>5
    <3> HIDE DEF more
    <3>2. (number \o Frame) \o more = number \o (Frame \o more)
      BY <1>1, <3>1, Joined
    <3> QED BY <3>2
  <2> DEFINE before == number \o Frame
  <2> HIDE DEF before, more
  <2>3. From(before \o more, Len(before)) = more
    BY <1>5, <2>1, Apart DEF before
  <2> QED BY <1>1, <2>1, <2>2, <2>3 DEF before
<1>12. DecodeRest(tail) = [length |-> Len(text), rest |-> more]
  <2>1. LeadingDigits(tail) # Len(tail)
    BY <1>1, <1>6, <1>9
  <2> HIDE DEF tail, more
  <2> QED BY <1>1, <1>3, <1>9, <1>10, <1>11, <2>1 DEF DecodeRest
<1>13. From(more, Len(text)) = rest /\ Upto(more, Len(text)) = text
  BY Apart
<1> DEFINE after == DecodeRest(From(data, 3))
<1>14. after.rest = more /\ after.length = Len(text)
  <2> HIDE DEF data, tail, more
  <2> QED BY <1>8, <1>12
<1> HIDE DEF data
<1>15. /\ Upto(data, 3) = Frame =>
            Round(State(read, data, FALSE)) =
              State(Append(read, Upto(after.rest, after.length)), From(after.rest, after.length),
                    From(after.rest, after.length) = <<>>)
  BY <1>7, RoundFacts
<1> HIDE DEF after, tail, more
<1> QED BY <1>8, <1>13, <1>14, <1>15 DEF data

(* What begins with a mark has three characters, the first of which is "~". *)
LEMMA MarkFacts ==
  ASSUME NEW s \in Seq(Characters), Upto(s, 3) = Frame
  PROVE  Len(s) >= 3 /\ s[1] = Frame[1]
<1>1. /\ Len(Upto(s, 3)) = IF 3 < Len(s) THEN 3 ELSE Len(s)
      /\ \A i \in 1..Len(Upto(s, 3)) : Upto(s, 3)[i] = s[i]
  BY UptoFacts
<1>2. Len(Upto(s, 3)) = 3
  BY FrameFacts
<1>3. Len(s) >= 3
  <2>1. Len(s) \in Nat
    OBVIOUS
  <2> QED BY <1>1, <1>2, <2>1
<1>4. Upto(s, 3)[1] = s[1]
  BY <1>1, <1>2
<1> QED BY <1>3, <1>4

(* A round reads at most one text of a frame that is cut short, and what it  *)
(* leaves is no frame.                                                       *)
LEMMA RoundCut ==
  ASSUME NEW read \in Seq(Seq(Characters)), NEW text \in Seq(Characters),
         NEW n \in 0..(Len(EncodeOne(text)) - 1)
  PROVE  LET cut == Upto(EncodeOne(text), n)
             next == Round(State(read, cut, FALSE))
         IN \/ next = State(read, cut, TRUE)
            \/ \E x, left \in Seq(Characters) :
                 next = State(Append(read, x), left, left = <<>>) /\ Upto(left, 3) # Frame
<1> DEFINE number == Decimal[Len(text)]
           L == Len(number)
           framed == Frame \o text
           tail == number \o framed
           whole == EncodeOne(text)
           cut == Upto(whole, n)
           behind == From(cut, 3)
           after == DecodeRest(behind)
           left == From(after.rest, after.length)
           x == Upto(after.rest, after.length)
<1>1. /\ number \in Seq(Characters) /\ L \in Nat /\ Len(text) \in Nat
      /\ whole \in Seq(Characters) /\ Len(whole) = 6 + L + Len(text)
      /\ whole = Frame \o tail
      /\ Frame \in Seq(Characters) /\ Len(Frame) = 3 /\ ~IsFigure(Frame[1])
  BY EncodeOneFacts, FrameFacts
<1>2. ValueOf(number) = Len(text) /\ \A i \in 1..L : IsFigure(number[i])
  BY <1>1, DecimalFacts
<1> HIDE DEF number, whole
<1>3. /\ framed \in Seq(Characters) /\ Len(framed) = 3 + Len(text) /\ framed[1] = Frame[1]
  <2>1. 1 \in 1..Len(Frame)
    BY <1>1
  <2>2. framed[1] = Frame[1]
    BY <1>1, <2>1, ConcatFacts
  <2> QED BY <1>1, <2>2, Joined
<1> HIDE DEF framed
<1>4. /\ tail \in Seq(Characters) /\ Len(tail) = L + 3 + Len(text)
      /\ \A i \in 1..L : tail[i] = number[i]
      /\ tail[L + 1] = Frame[1]
  <2>1. /\ tail \in Seq(Characters) /\ Len(tail) = L + Len(framed)
        /\ \A i \in 1..L : tail[i] = number[i]
        /\ \A i \in 1..Len(framed) : tail[L + i] = framed[i]
    <3>1. number \in Seq(Characters) /\ framed \in Seq(Characters)
      BY <1>1, <1>3
    <3> QED BY <3>1, ConcatFacts
  <2>2. 1 \in 1..Len(framed)
    BY <1>1, <1>3
  <2> QED BY <1>1, <1>3, <2>1, <2>2
<1> HIDE DEF tail
<1>5. /\ n \in Nat /\ n < Len(whole)
      /\ cut \in Seq(Characters) /\ Len(cut) = n
      /\ \A i \in 1..n : cut[i] = whole[i]
  <2>1. n \in Nat /\ n < Len(whole)
    BY <1>1 DEF whole
  <2> QED BY <1>1, <2>1, UptoFacts
<1> HIDE DEF cut
<1>6. /\ Upto(cut, 3) # Frame => Round(State(read, cut, FALSE)) = State(read, cut, TRUE)
      /\ Upto(cut, 3) = Frame =>
           Round(State(read, cut, FALSE)) = State(Append(read, x), left, left = <<>>)
      /\ left \in Seq(Characters) /\ x \in Seq(Characters)
  BY <1>5, RoundFacts
<1>7. CASE Upto(cut, 3) # Frame
  BY <1>6, <1>7 DEF cut, whole
<1>8. CASE Upto(cut, 3) = Frame
  <2>1. n >= 3
    <3>1. Len(cut) >= 3
      BY <1>5, <1>8, MarkFacts
    <3> QED BY <1>5, <3>1
  <2>2. /\ behind \in Seq(Characters) /\ Len(behind) = n - 3
        /\ \A i \in 1..(n - 3) : behind[i] = cut[3 + i]
    BY <1>5, <2>1, FromFacts
  <2> HIDE DEF behind
  <2>3. ASSUME NEW i \in 1..(n - 3) PROVE behind[i] = tail[i]
    <3>1. 3 + i \in 1..n /\ i \in 1..Len(tail)
      BY <1>1, <1>4, <1>5, <2>1
    <3>2. whole[3 + i] = tail[i]
      BY <1>1, <1>4, <3>1, ConcatFacts
    <3> QED BY <1>5, <2>2, <3>1, <3>2
  <2>4. CASE n - 3 <= L
    <3>1. \A i \in 1..(n - 3) : IsFigure(behind[i])
      <4>1. \A i \in 1..(n - 3) : i \in 1..L
        BY <1>1, <1>5, <2>4
      <4> QED BY <1>2, <1>4, <2>3, <4>1
    <3>2. LeadingDigits(behind) = Len(behind)
      <4>1. Len(behind) \in 0..Len(behind) /\ ~(Len(behind) < Len(behind))
        BY <1>5, <2>1, <2>2
      <4> QED BY <2>2, <3>1, <4>1, LeadingIs
    <3>3. after.rest = behind /\ after.length \in Nat
      BY <2>2, <3>2, RestFacts DEF DecodeRest
    <3> HIDE DEF after
    <3>4. ASSUME Upto(left, 3) = Frame PROVE FALSE
      <4>1. /\ Len(left) = IF after.length <= n - 3 THEN n - 3 - after.length ELSE 0
            /\ \A i \in 1..Len(left) : left[i] = behind[after.length + i]
        <5> DEFINE skipped == after.length
                   kept == From(behind, skipped)
        <5>1. skipped \in Nat
          BY <3>3
        <5> HIDE DEF skipped
        <5>2. /\ Len(kept) = IF skipped <= Len(behind) THEN Len(behind) - skipped ELSE 0
              /\ \A i \in 1..Len(kept) : kept[i] = behind[skipped + i]
          BY <2>2, <5>1, FromFacts
        <5> HIDE DEF kept
        <5>3. left = kept
          BY <3>3 DEF kept, skipped
        <5>4. /\ Len(kept) = IF skipped <= n - 3 THEN n - 3 - skipped ELSE 0
              /\ \A i \in 1..Len(kept) : kept[i] = behind[skipped + i]
          BY <2>2, <5>2
        <5> HIDE DEF left
        <5> QED BY <5>3, <5>4 DEF skipped
      <4>2. Len(left) >= 3 /\ left[1] = Frame[1]
        <5> HIDE DEF left
        <5> QED BY <1>6, <3>4, MarkFacts
      <4>3. 1 \in 1..Len(left) /\ after.length + 1 \in 1..(n - 3)
        <5> HIDE DEF left
        <5> QED BY <1>5, <2>1, <3>3, <4>1, <4>2
      <4>4. IsFigure(left[1])
        <5> HIDE DEF left
        <5> QED BY <3>1, <4>1, <4>3
      <4> QED BY <1>1, <4>2, <4>4
    <3> HIDE DEF left, x
    <3> QED BY <1>6, <1>8, <3>4 DEF cut, whole
  <2>5. CASE n - 3 > L
    <3>1. LeadingDigits(behind) = L /\ L < Len(behind)
      <4>1. L \in 0..Len(behind) /\ L < Len(behind) /\ L + 1 \in 1..(n - 3)
        BY <1>1, <1>5, <2>1, <2>2, <2>5
      <4>2. ~IsFigure(behind[L + 1])
        BY <1>1, <1>4, <2>3, <4>1
      <4>3. \A i \in 1..L : i \in 1..(n - 3)
        BY <4>1
      <4>4. \A i \in 1..L : IsFigure(behind[i])
        BY <1>2, <1>4, <2>3, <4>3
      <4> QED BY <2>2, <4>1, <4>2, <4>4, LeadingIs
    <3>2. Number(behind) = number
      <4>1. Number(behind) = Upto(behind, L)
        BY <3>1 DEF Number
      <4>2. /\ Upto(behind, L) \in Seq(Characters) /\ Len(Upto(behind, L)) = L
            /\ \A i \in 1..L : Upto(behind, L)[i] = behind[i]
        BY <1>1, <2>2, <3>1, UptoFacts
      <4>3. \A i \in 1..L : behind[i] = number[i]
        <5>1. \A i \in 1..L : i \in 1..(n - 3)
          BY <1>1, <1>5, <2>5
        <5> QED BY <1>4, <2>3, <5>1
      <4> QED BY <1>1, <4>1, <4>2, <4>3, SameElements
    <3>3. after.length = Len(text) /\ after.rest = From(behind, L + 3)
      <4>1. LeadingDigits(behind) # Len(behind)
        BY <1>1, <2>2, <3>1
      <4> QED BY <1>1, <1>2, <3>1, <3>2, <4>1 DEF DecodeRest
    <3>4. after.rest \in Seq(Characters) /\ Len(after.rest) <= Len(text)
      <4>1. L + 3 \in Nat
        BY <1>1
      <4>2. /\ From(behind, L + 3) \in Seq(Characters)
            /\ Len(From(behind, L + 3)) = IF L + 3 <= n - 3 THEN n - 3 - (L + 3) ELSE 0
        BY <2>2, <4>1, FromFacts
      <4>3. Len(From(behind, L + 3)) <= Len(text)
        BY <1>1, <1>5, <2>1, <4>2
      <4> QED BY <3>3, <4>2, <4>3
    <3> HIDE DEF after
    <3>5. left = <<>>
      BY <1>1, <3>3, <3>4, AllOrNothing
    <3>6. Upto(left, 3) # Frame
      <4>1. Len(left) = 0 /\ ~(0 >= 3)
        BY <3>5
      <4> HIDE DEF left
      <4>2. ASSUME Upto(left, 3) = Frame PROVE FALSE
        <5>1. Len(left) >= 3
          BY <1>6, <4>2, MarkFacts
        <5> QED BY <4>1, <5>1
      <4> QED BY <4>2
    <3> HIDE DEF left, x
    <3> QED BY <1>6, <1>8, <3>6 DEF cut, whole
  <2>6. n - 3 \in Int /\ L \in Int
    BY <1>1, <1>5
  <2>7. n - 3 <= L \/ n - 3 > L
    BY <2>6
  <2> QED BY <2>4, <2>5, <2>7
<1> QED BY <1>7, <1>8

(* The encoded messages are no shorter than they are many. *)
LEMMA NotShorter ==
  ASSUME NEW texts \in Seq(Seq(Characters)), NEW f \in [0..Len(texts) -> Seq(Characters)],
         f[0] = <<>>,
         \A i \in 1..Len(texts) : f[i] = f[i - 1] \o EncodeOne(texts[i])
  PROVE  \A k \in 0..Len(texts) : Len(f[k]) >= k
<1> DEFINE N == Len(texts)
<1>1. N \in Nat
  OBVIOUS
<1>2. ASSUME NEW i \in 1..N
      PROVE  texts[i] \in Seq(Characters) /\ EncodeOne(texts[i]) \in Seq(Characters)
             /\ Len(EncodeOne(texts[i])) \in Nat /\ Len(EncodeOne(texts[i])) >= 1
  <2>1. texts[i] \in Seq(Characters)
    OBVIOUS
  <2> DEFINE text == texts[i]
             L == Len(Decimal[Len(text)])
  <2> HIDE DEF text, L
  <2>2. /\ EncodeOne(text) \in Seq(Characters) /\ Len(EncodeOne(text)) \in Nat
        /\ Len(EncodeOne(text)) = 6 + L + Len(text) /\ L \in Nat /\ Len(text) \in Nat
    BY <2>1, EncodeOneFacts DEF text, L
  <2>3. Len(EncodeOne(text)) >= 1
    BY <2>2
  <2> QED BY <2>1, <2>2, <2>3 DEF text
<1>3. \A i \in 1..N : f[i] = f[i - 1] \o EncodeOne(texts[i])
  OBVIOUS
<1> HIDE DEF N
<1>4. ASSUME NEW k \in 0..N PROVE Len(f[k]) >= k
  <2> DEFINE T == {j \in 0..N : ~(Len(f[j]) >= j)}
  <2>1. ASSUME T # {} PROVE FALSE
    <3>1. PICK j \in T : \A l \in T : j <= l
      <4>1. T \subseteq Nat
        BY <1>1
      <4> HIDE DEF T
      <4> QED BY <2>1, <4>1, Least
    <3>2. j # 0
      <4>1. Len(f[0]) = 0
        OBVIOUS
      <4> QED BY <3>1, <4>1
    <3>3. j \in 1..N /\ j - 1 \in 0..N /\ j - 1 < j
      BY <1>1, <3>1, <3>2
    <3>4. Len(f[j - 1]) >= j - 1
      BY <3>1, <3>3
    <3>5. Len(f[j]) = Len(f[j - 1]) + Len(EncodeOne(texts[j])) /\ Len(f[j - 1]) \in Nat
      <4>1. f[j - 1] \in Seq(Characters)
        BY <3>3 DEF N
      <4> QED BY <1>2, <1>3, <3>3, <4>1, Joined
    <3>6. Len(f[j]) >= j
      <4>1. Len(EncodeOne(texts[j])) \in Nat /\ Len(EncodeOne(texts[j])) >= 1 /\ j \in Nat
        BY <1>1, <1>2, <3>3
      <4> DEFINE l == Len(f[j - 1])
                 e == Len(EncodeOne(texts[j]))
      <4> HIDE DEF l, e
      <4>2. l >= j - 1 /\ Len(f[j]) = l + e /\ l \in Nat /\ e \in Nat /\ e >= 1
        BY <3>4, <3>5, <4>1 DEF l, e
      <4> QED BY <4>1, <4>2
    <3> QED BY <3>1, <3>6
  <2> QED BY <2>1
<1> QED BY <1>4 DEF N

(* The beginning of a sequence of messages. *)
LEMMA FirstFacts ==
  ASSUME NEW C, NEW s \in Seq(C), NEW k \in 0..Len(s)
  PROVE  /\ SubSeq(s, 1, k) \in Seq(C) /\ Len(SubSeq(s, 1, k)) = k
         /\ \A i \in 1..k : SubSeq(s, 1, k)[i] = s[i]
<1>1. Len(s) \in Nat /\ k \in Nat /\ \A i \in 1..Len(s) : s[i] \in C
  OBVIOUS
<1>2. \A i \in 1..k : s[i] \in C
  BY <1>1
<1>3. /\ SubSeq(s, 1, k) \in Seq(C)
      /\ Len(SubSeq(s, 1, k)) = IF 1 <= k THEN k - 1 + 1 ELSE 0
      /\ \A i \in 1..(k - 1 + 1) : SubSeq(s, 1, k)[i] = s[1 + i - 1]
  BY <1>1, <1>2, SubSeqProperties
<1>4. Len(SubSeq(s, 1, k)) = k
  BY <1>1, <1>3
<1>5. ASSUME NEW i \in 1..k PROVE SubSeq(s, 1, k)[i] = s[i]
  <2>1. i \in 1..(k - 1 + 1) /\ 1 + i - 1 = i
    BY <1>1
  <2> QED BY <1>3, <2>1
<1> QED BY <1>3, <1>4, <1>5

(* ... with one message more. *)
LEMMA FirstAnd ==
  ASSUME NEW C, NEW s \in Seq(C), NEW k \in 0..(Len(s) - 1)
  PROVE  SubSeq(s, 1, k + 1) = Append(SubSeq(s, 1, k), s[k + 1])
<1> DEFINE a == SubSeq(s, 1, k)
           b == SubSeq(s, 1, k + 1)
           c == Append(a, s[k + 1])
<1>1. k \in 0..Len(s) /\ k + 1 \in 0..Len(s) /\ k \in Nat /\ s[k + 1] \in C
  OBVIOUS
<1>2. a \in Seq(C) /\ Len(a) = k /\ \A i \in 1..k : a[i] = s[i]
  BY <1>1, FirstFacts
<1>3. b \in Seq(C) /\ Len(b) = k + 1 /\ \A i \in 1..(k + 1) : b[i] = s[i]
  BY <1>1, FirstFacts
<1> HIDE DEF a, b
<1>4. /\ c \in Seq(C) /\ Len(c) = k + 1 /\ \A i \in 1..k : c[i] = a[i]
      /\ c[k + 1] = s[k + 1]
  BY <1>1, <1>2, AppendFacts
<1>5. ASSUME NEW i \in 1..(k + 1) PROVE b[i] = c[i]
  <2>1. i \in 1..k \/ i = k + 1
    BY <1>1
  <2> QED BY <1>2, <1>3, <1>4, <2>1
<1> HIDE DEF c
<1>6. b = c
  BY <1>3, <1>4, <1>5, SameElements
<1> QED BY <1>6 DEF a, b, c

(* The loop of _decode over data. *)
Loop(g, data) ==
  /\ g \in [Nat -> States] /\ g[0] = State(<<>>, data, FALSE)
  /\ \A i \in Nat : g[i + 1] = Round(g[i])

(* A frame is read in each round, for as long as there are some. *)
LEMMA ReadsFrames ==
  ASSUME NEW texts \in Seq(Seq(Characters)), NEW rest \in Seq(Characters),
         NEW g, Loop(g, Encode(texts) \o rest)
  PROVE  /\ g[Len(texts)] = State(texts, rest, Len(texts) > 0 /\ rest = <<>>)
         /\ Encode(texts) \in Seq(Characters) /\ Len(Encode(texts)) >= Len(texts)
<1> DEFINE N == Len(texts)
           data == Encode(texts) \o rest
<1>1. N \in Nat
  OBVIOUS
<1>2. PICK f \in [0..N -> Seq(Characters)] :
        /\ f[0] = <<>>
        /\ \A i \in 1..N : f[i] = f[i - 1] \o EncodeOne(texts[i])
        /\ Encode(texts) = f[N]
  BY EncodeFacts
<1>3. Encode(texts) \in Seq(Characters) /\ Len(Encode(texts)) >= N
  <2>1. N \in 0..N
    BY <1>1
  <2>2. \A k \in 0..N : Len(f[k]) >= k
    BY <1>2, NotShorter
  <2> QED BY <1>2, <2>1, <2>2
<1>4. \A i \in 1..N : texts[i] \in Seq(Characters)
  OBVIOUS
<1> DEFINE Left(k) == \A left \in Seq(Characters) :
             data = f[k] \o left => g[k] = State(SubSeq(texts, 1, k), left, k > 0 /\ left = <<>>)
           T == {k \in 0..N : ~Left(k)}
<1>5. data \in Seq(Characters)
  BY <1>3, Joined
<1>6. \A k \in 0..(N - 1) : SubSeq(texts, 1, k + 1) = Append(SubSeq(texts, 1, k), texts[k + 1])
  BY FirstAnd
<1>7. \A k \in 0..N : SubSeq(texts, 1, k) \in Seq(Seq(Characters)) /\ Len(SubSeq(texts, 1, k)) = k
  BY FirstFacts
<1>8. g[0] = State(<<>>, data, FALSE) /\ \A i \in Nat : g[i + 1] = Round(g[i])
  BY DEF Loop
<1>9. SubSeq(texts, 1, N) = texts
  <2>1. N \in 0..N
    BY <1>1
  <2>2. /\ SubSeq(texts, 1, N) \in Seq(Seq(Characters)) /\ Len(SubSeq(texts, 1, N)) = N
        /\ \A i \in 1..N : SubSeq(texts, 1, N)[i] = texts[i]
    BY <2>1, FirstFacts
  <2> QED BY <2>2, SameElements
<1> HIDE DEF N, data
<1>10. Left(0)
  <2> SUFFICES ASSUME NEW left \in Seq(Characters), data = f[0] \o left
               PROVE  g[0] = State(SubSeq(texts, 1, 0), left, 0 > 0 /\ left = <<>>)
    OBVIOUS
  <2>1. data = left
    BY <1>2
  <2>2. SubSeq(texts, 1, 0) = <<>>
    <3>1. 0 \in 0..N
      BY <1>1
    <3>2. SubSeq(texts, 1, 0) \in Seq(Seq(Characters)) /\ Len(SubSeq(texts, 1, 0)) = 0
      BY <1>7, <3>1
    <3> QED BY <3>2
  <2>3. (0 > 0 /\ left = <<>>) = FALSE
    OBVIOUS
  <2> QED BY <1>8, <2>1, <2>2, <2>3
<1>11. ASSUME T # {} PROVE FALSE
  <2> HIDE DEF Left
  <2>1. PICK j \in T : \A l \in T : j <= l
    <3>1. T \subseteq Nat
      BY <1>1
    <3> HIDE DEF T
    <3> QED BY <1>11, <3>1, Least
  <2>2. j # 0
    BY <1>10, <2>1
  <2> DEFINE k == j - 1
  <2>3. k \in 0..(N - 1) /\ k \in 0..N /\ k \in Nat /\ j = k + 1 /\ j \in 1..N /\ k < j
    BY <1>1, <2>1, <2>2
  <2>4. Left(k) /\ ~Left(j)
    BY <2>1, <2>3
  <2>5. f[j] = f[k] \o EncodeOne(texts[j])
    BY <1>2, <2>3
  <2> HIDE DEF k, T
  <2> DEFINE one == EncodeOne(texts[j])
             read == SubSeq(texts, 1, k)
             text == texts[j]
  <2>6. one \in Seq(Characters) /\ Len(one) \in Nat /\ Len(one) >= 1 /\ text \in Seq(Characters)
    <3>1. text \in Seq(Characters)
      BY <1>4, <2>3 DEF N
    <3> DEFINE L == Len(Decimal[Len(text)])
    <3> HIDE DEF text, L
    <3>2. /\ EncodeOne(text) \in Seq(Characters) /\ Len(EncodeOne(text)) \in Nat
          /\ Len(EncodeOne(text)) = 6 + L + Len(text) /\ L \in Nat /\ Len(text) \in Nat
      BY <3>1, EncodeOneFacts DEF L
    <3>3. Len(EncodeOne(text)) >= 1
      BY <3>2
    <3> QED BY <3>1, <3>2, <3>3 DEF text
  <2>7. read \in Seq(Seq(Characters))
    BY <1>7, <2>3
  <2>8. SubSeq(texts, 1, j) = Append(read, text)
    BY <1>6, <2>3
  <2> HIDE DEF read
  <2>9. ASSUME NEW left \in Seq(Characters), data = f[j] \o left
        PROVE  g[j] = State(SubSeq(texts, 1, j), left, j > 0 /\ left = <<>>)
    <3> DEFINE more == one \o left
    <3>1. data = f[k] \o more
      <4> DEFINE a == f[k]
      <4>1. a \in Seq(Characters)
        BY <1>2, <2>3
      <4> HIDE DEF a, one
      <4>2. (a \o one) \o left = a \o (one \o left)
        BY <2>6, <4>1, Joined
      <4> QED BY <2>5, <2>9, <4>2 DEF a, one
    <3> HIDE DEF one
    <3>2. more \in Seq(Characters) /\ more # <<>>
      <4>1. more \in Seq(Characters) /\ Len(more) = Len(one) + Len(left) /\ Len(left) \in Nat
        BY <2>6, Joined
      <4> HIDE DEF more
      <4>2. Len(more) # 0
        BY <2>6, <4>1
      <4> QED BY <4>1, <4>2
    <3> HIDE DEF more
    <3>3. g[k] = State(read, more, k > 0 /\ more = <<>>)
      BY <2>4, <3>1, <3>2 DEF Left, read
    <3>4. g[k] = State(read, more, FALSE)
      <4>1. (k > 0 /\ more = <<>>) = FALSE
        BY <3>2
      <4> QED BY <3>3, <4>1
    <3>5. g[j] = Round(State(read, more, FALSE))
      BY <1>8, <2>3, <3>4
    <3>6. Round(State(read, more, FALSE)) = State(Append(read, text), left, left = <<>>)
      BY <2>6, <2>7, RoundReads DEF more, one
    <3>7. (j > 0 /\ left = <<>>) = (left = <<>>)
      BY <1>1, <2>3
    <3> QED BY <2>8, <3>5, <3>6, <3>7
  <2> QED BY <2>4, <2>9 DEF Left
<1>12. Left(N)
  <2>1. N \in 0..N
    BY <1>1
  <2> HIDE DEF Left
  <2> QED BY <1>11, <2>1
<1>13. data = f[N] \o rest
  BY <1>2 DEF data
<1>14. g[N] = State(texts, rest, N > 0 /\ rest = <<>>)
  BY <1>9, <1>12, <1>13
<1> QED BY <1>3, <1>14 DEF N

(* The loop is over where there is no mark, or was before. *)
LEMMA StaysOver ==
  ASSUME NEW g, NEW whole, Loop(g, whole), NEW m \in Nat, NEW k \in Nat, m < k,
         g[m].over = TRUE \/ Upto(g[m].data, 3) # Frame
  PROVE  g[k].read = g[m].read
<1> DEFINE read == g[m].read
           data == g[m].data
           over == g[m].over
<1>1. \A i \in Nat : g[i + 1] = Round(g[i])
  BY DEF Loop
<1>2. g[m] \in States
  BY DEF Loop
<1>3. /\ read \in Seq(Seq(Characters)) /\ data \in Seq(Characters) /\ over \in BOOLEAN
      /\ g[m] = State(read, data, over)
      /\ over = TRUE \/ Upto(data, 3) # Frame
  BY <1>2 DEF States, State
<1> HIDE DEF read, data, over
<1>4. g[m + 1] = State(read, data, TRUE)
  <2>1. /\ Round(State(read, data, TRUE)) = State(read, data, TRUE)
        /\ Upto(data, 3) # Frame => Round(State(read, data, FALSE)) = State(read, data, TRUE)
    BY <1>3, RoundFacts
  <2>2. g[m + 1] = Round(State(read, data, over))
    BY <1>1, <1>3
  <2>3. CASE over = TRUE
    BY <2>1, <2>2, <2>3
  <2>4. CASE over = FALSE
    BY <1>3, <2>1, <2>2, <2>4
  <2> QED BY <1>3, <2>3, <2>4
<1> DEFINE T == {i \in Nat : m < i /\ g[i] # State(read, data, TRUE)}
<1>5. ASSUME T # {} PROVE FALSE
  <2>1. PICK i \in T : \A j \in T : i <= j
    <3>1. T \subseteq Nat
      OBVIOUS
    <3> HIDE DEF T
    <3> QED BY <1>5, <3>1, Least
  <2>2. i # m + 1
    BY <1>4, <2>1
  <2>3. i - 1 \in Nat /\ m < i - 1 /\ i - 1 < i /\ (i - 1) + 1 = i
    BY <2>1, <2>2
  <2>4. g[i - 1] = State(read, data, TRUE)
    <3>1. i - 1 \notin T
      <4> HIDE DEF T
      <4>1. i \in Nat /\ ~(i <= i - 1)
        BY <2>3
      <4> QED BY <2>1, <4>1
    <3> QED BY <2>3, <3>1
  <2>5. g[i] = Round(State(read, data, TRUE))
    BY <1>1, <2>3, <2>4
  <2>6. g[i] = State(read, data, TRUE)
    BY <1>3, <2>5, RoundFacts
  <2> QED BY <2>1, <2>6
<1>6. g[k] = State(read, data, TRUE)
  BY <1>5
<1> QED BY <1>6 DEF State, read

(* What is empty begins with no mark. *)
LEMMA NothingIsNoFrame ==
  <<>> \in Seq(Characters) /\ Upto(<<>>, 3) # Frame
<1>1. <<>> \in Seq(Characters) /\ Len(<<>>) = 0 /\ ~(0 >= 3)
  OBVIOUS
<1>2. ASSUME Upto(<<>>, 3) = Frame PROVE FALSE
  <2>1. Len(<<>>) >= 3
    BY <1>1, <1>2, MarkFacts
  <2> QED BY <1>1, <2>1
<1> QED BY <1>1, <1>2

(* Data that is whole gives all the messages back. *)
LEMMA RoundTrip ==
  ASSUME NEW texts \in Seq(Seq(Characters))
  PROVE  Decode(Encode(texts)) = texts
<1> DEFINE N == Len(texts)
           data == Encode(texts)
           over == N > 0 /\ <<>> = <<>>
<1>1. N \in Nat /\ <<>> \in Seq(Characters)
  OBVIOUS
<1>2. data \in Seq(Characters)
  BY EncodeTyped
<1>3. data \o <<>> = data
  <2> HIDE DEF data
  <2> QED BY <1>2
<1>4. PICK g \in [Nat -> States] :
        /\ g[0] = State(<<>>, data, FALSE)
        /\ \A i \in Nat : g[i + 1] = Round(g[i])
        /\ Decode(data) = g[Len(data) + 1].read
  BY <1>2, DecodeFacts
<1>5. Loop(g, data \o <<>>)
  BY <1>3, <1>4 DEF Loop
<1>6. g[N] = State(texts, <<>>, over) /\ Len(data) >= N
  BY <1>1, <1>5, ReadsFrames
<1>7. Len(data) + 1 \in Nat /\ N < Len(data) + 1
  <2>1. Len(data) \in Nat
    BY <1>2
  <2> HIDE DEF data, N
  <2> QED BY <1>1, <1>6, <2>1
<1> DEFINE k == Len(data) + 1
<1> HIDE DEF over, N, data, k
<1>9. k \in Nat /\ N < k
  BY <1>7 DEF k
<1>10. g[k].read = texts
  <2>1. g[N].read = texts /\ g[N].data = <<>>
    BY <1>6 DEF State
  <2>2. Upto(g[N].data, 3) # Frame
    BY <2>1, NothingIsNoFrame
  <2>3. g[k].read = g[N].read
    BY <1>1, <1>5, <1>9, <2>2, StaysOver
  <2> QED BY <2>1, <2>3
<1> QED BY <1>4, <1>10 DEF k, data

(* Data that is cut short gives the messages before and at most one more. *)
LEMMA CutShort ==
  ASSUME NEW texts \in Seq(Seq(Characters)), NEW text \in Seq(Characters),
         NEW n \in 0..(Len(EncodeOne(text)) - 1)
  PROVE  LET seen == Decode(Encode(texts) \o Upto(EncodeOne(text), n))
         IN seen = texts \/ \E x \in Seq(Characters) : seen = Append(texts, x)
<1> DEFINE M == Len(texts)
           cut == Upto(EncodeOne(text), n)
           data == Encode(texts) \o cut
           over == M > 0 /\ cut = <<>>
           next == Round(State(texts, cut, FALSE))
<1>1. M \in Nat /\ n \in Nat /\ EncodeOne(text) \in Seq(Characters)
  <2>1. EncodeOne(text) \in Seq(Characters) /\ Len(EncodeOne(text)) \in Nat
    BY EncodeOneFacts
  <2> QED BY <2>1
<1>2. cut \in Seq(Characters)
  BY <1>1, UptoFacts
<1>3. \/ next = State(texts, cut, TRUE)
      \/ \E x, left \in Seq(Characters) :
           next = State(Append(texts, x), left, left = <<>>) /\ Upto(left, 3) # Frame
  BY RoundCut
<1>4. Encode(texts) \in Seq(Characters)
  BY EncodeTyped
<1> HIDE DEF M, cut
<1>5. data \in Seq(Characters) /\ Len(data) = Len(Encode(texts)) + Len(cut)
  BY <1>2, <1>4, Joined
<1>6. PICK g \in [Nat -> States] :
        /\ g[0] = State(<<>>, data, FALSE)
        /\ \A i \in Nat : g[i + 1] = Round(g[i])
        /\ Decode(data) = g[Len(data) + 1].read
  <2> HIDE DEF data
  <2> QED BY <1>5, DecodeFacts
<1>7. Loop(g, Encode(texts) \o cut)
  BY <1>6 DEF Loop
<1>8. g[M] = State(texts, cut, over) /\ Len(Encode(texts)) >= M
  BY <1>2, <1>7, ReadsFrames DEF M
<1> DEFINE k == Len(data) + 1
<1>9. Len(data) \in Nat /\ Len(cut) \in Nat /\ Len(Encode(texts)) \in Nat
  BY <1>2, <1>4, <1>5
<1>10. k \in Nat /\ M < k /\ (cut # <<>> => M + 1 < k)
  <2>1. cut # <<>> => Len(cut) >= 1
    BY <1>2
  <2> DEFINE e == Len(Encode(texts))
             c == Len(cut)
             d == Len(data)
  <2>2. d = e + c /\ e >= M /\ e \in Nat /\ c \in Nat /\ d \in Nat
    BY <1>5, <1>8, <1>9
  <2> HIDE DEF e, c, d, data
  <2>3. c >= 1 => M + 1 < d + 1
    BY <1>1, <2>2
  <2>4. d + 1 \in Nat /\ M < d + 1
    BY <1>1, <2>2
  <2> QED BY <2>1, <2>3, <2>4 DEF c, d
<1>12. CASE cut = <<>>
  <2>1. Upto(cut, 3) # Frame
    BY <1>12, NothingIsNoFrame
  <2> HIDE DEF over, data, k
  <2>2. g[k].read = texts
    <3>1. g[M].read = texts /\ g[M].data = cut
      BY <1>8 DEF State
    <3>2. Upto(g[M].data, 3) # Frame
      BY <2>1, <3>1
    <3>3. g[k].read = g[M].read
      BY <1>1, <1>7, <1>10, <3>2, StaysOver
    <3> QED BY <3>1, <3>3
  <2> QED BY <1>6, <2>2 DEF k, data, cut
<1>13. CASE cut # <<>>
  <2>1. over = FALSE
    BY <1>13
  <2>2. g[M + 1] = next
    BY <1>1, <1>6, <1>8, <2>1
  <2>3. M + 1 \in Nat /\ M + 1 < k
    BY <1>1, <1>10, <1>13
  <2> HIDE DEF over, data, k, next
  <2>4. CASE next = State(texts, cut, TRUE)
    <3>1. g[k].read = texts
      <4>1. g[M + 1].read = texts /\ g[M + 1].over = TRUE
        BY <2>2, <2>4 DEF State
      <4>2. g[k].read = g[M + 1].read
        BY <1>7, <1>10, <2>3, <4>1, StaysOver
      <4> QED BY <4>1, <4>2
    <3> QED BY <1>6, <3>1 DEF k, data, cut
  <2>5. ASSUME NEW x \in Seq(Characters), NEW left \in Seq(Characters),
               next = State(Append(texts, x), left, left = <<>>), Upto(left, 3) # Frame
        PROVE  Decode(data) = Append(texts, x)
    <3>1. g[M + 1].read = Append(texts, x) /\ g[M + 1].data = left
      BY <2>2, <2>5 DEF State
    <3>2. Upto(g[M + 1].data, 3) # Frame
      BY <2>5, <3>1
    <3>3. g[k].read = g[M + 1].read
      BY <1>7, <1>10, <2>3, <3>2, StaysOver
    <3> QED BY <1>6, <3>1, <3>3 DEF k
  <2> QED BY <1>3, <2>4, <2>5 DEF data, cut
<1> QED BY <1>12, <1>13

(* What data says is what was put into it, whatever texts there are.         *)
LEMMA FramesTold == SomeMessages => FramesAreRead
<1> SUFFICES ASSUME SomeMessages PROVE FramesAreRead
  OBVIOUS
<1>1. PICK count \in 0..MaxMessages : messages \in [1..count -> Texts]
  BY DEF SomeMessages
<1>2. count \in Nat
  BY MaxMessagesAssumption
<1>3. messages \in Seq(Texts) /\ Len(messages) = count
  BY <1>1, <1>2, FunctionIsSeq
<1>4. \A i \in 1..count : messages[i] \in Seq(Characters)
  BY <1>1, TextsAssumption
<1>5. messages \in Seq(Seq(Characters)) /\ Len(messages) = count /\ DOMAIN messages = 1..count
  <2>1. messages \in [1..count -> Seq(Characters)]
    BY <1>1, <1>4
  <2> QED BY <1>1, <1>2, <2>1, FunctionIsSeq
<1>6. Decode(Encode(messages)) = messages
  BY <1>5, RoundTrip
<1>7. ASSUME NEW k \in DOMAIN messages, NEW n \in 0..(Len(EncodeOne(messages[k])) - 1)
      PROVE  LET before == SubSeq(messages, 1, k - 1)
                 seen == Decode(Encode(before) \o Upto(EncodeOne(messages[k]), n))
             IN IsPrefix(before, seen) /\ Len(seen) <= k
  <2> DEFINE before == SubSeq(messages, 1, k - 1)
             text == messages[k]
             seen == Decode(Encode(before) \o Upto(EncodeOne(text), n))
  <2>1. k - 1 \in 0..count /\ text \in Seq(Characters) /\ k \in Nat /\ k >= 1
    BY <1>2, <1>4, <1>5
  <2>2. before \in Seq(Seq(Characters)) /\ Len(before) = k - 1
    BY <1>5, <2>1, FirstFacts
  <2>3. n \in 0..(Len(EncodeOne(text)) - 1)
    OBVIOUS
  <2> HIDE DEF before, text
  <2>4. seen = before \/ \E x \in Seq(Characters) : seen = Append(before, x)
    BY <2>1, <2>2, <2>3, CutShort
  <2> HIDE DEF seen
  <2>5. ASSUME seen = before PROVE IsPrefix(before, seen) /\ Len(seen) <= k
    <3>1. Len(seen) = k - 1 /\ k - 1 <= k
      BY <2>1, <2>2, <2>5
    <3>2. IsPrefix(before, before)
      BY <2>1, <2>2 DEF IsPrefix
    <3> QED BY <2>5, <3>1, <3>2
  <2>6. ASSUME NEW x \in Seq(Characters), seen = Append(before, x)
        PROVE  IsPrefix(before, seen) /\ Len(seen) <= k
    <3>1. /\ seen \in Seq(Seq(Characters)) /\ Len(seen) = k
          /\ \A i \in 1..(k - 1) : seen[i] = before[i]
      BY <2>1, <2>2, <2>6, AppendFacts
    <3>2. /\ SubSeq(seen, 1, k - 1) \in Seq(Seq(Characters)) /\ Len(SubSeq(seen, 1, k - 1)) = k - 1
          /\ \A i \in 1..(k - 1) : SubSeq(seen, 1, k - 1)[i] = seen[i]
      <4>1. k - 1 \in 0..Len(seen)
        BY <2>1, <3>1
      <4> QED BY <3>1, <4>1, FirstFacts
    <3>3. /\ SubSeq(before, 1, k - 1) \in Seq(Seq(Characters)) /\ Len(SubSeq(before, 1, k - 1)) = k - 1
          /\ \A i \in 1..(k - 1) : SubSeq(before, 1, k - 1)[i] = before[i]
      <4>1. k - 1 \in 0..Len(before)
        BY <2>1, <2>2
      <4> QED BY <2>2, <4>1, FirstFacts
    <3>4. SubSeq(before, 1, k - 1) = SubSeq(seen, 1, k - 1)
      BY <3>1, <3>2, <3>3, SameElements
    <3> QED BY <2>1, <2>2, <3>1, <3>4 DEF IsPrefix
  <2> QED BY <2>4, <2>5, <2>6 DEF seen, before, text
<1> QED BY <1>6, <1>7 DEF FramesAreRead

(* Frames are read back for any characters, texts and number of messages: a  *)
(* whole piece of data to the last message, and one that is cut short up to  *)
(* the cut.  (transport.js:32-62.)                                           *)
THEOREM FramesRead == SomeMessages /\ [][UNCHANGED messages]_messages => []FramesAreRead
<1>1. SomeMessages /\ UNCHANGED messages => SomeMessages'
  BY DEF SomeMessages
<1> QED BY <1>1, FramesTold, PTL
=============================================================================
