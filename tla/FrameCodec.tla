------------------------------ MODULE FrameCodec ------------------------------
(***************************************************************************)
(* node/public/javascripts/lib/transport.js: the frames in which socket.io *)
(* messages travel, ~m~<length>~m~<message>, several in one piece of data. *)
(* A text is a sequence of characters, since a message may look like a     *)
(* frame, or start with a digit where the length ends.                     *)
(***************************************************************************)
EXTENDS Integers, Sequences, SequencesExt

CONSTANTS
  Characters,  \* what texts are made of
  Texts,       \* the messages that are put together
  MaxMessages  \* bound: messages in one piece of data

ASSUME TextsAssumption ==
  /\ Texts \subseteq Seq(Characters)
  /\ {"~", "m", "0", "1", "2", "3", "4", "5", "6", "7", "8", "9"} \subseteq Characters
ASSUME MaxMessagesAssumption == MaxMessages \in Nat

VARIABLE messages  \* what is put into one piece of data

(* Any messages, up to the bound. *)
SomeMessages == messages \in UNION {[1..count -> Texts] : count \in 0..MaxMessages}

Frame == <<"~", "m", "~">>
Figures == <<"0", "1", "2", "3", "4", "5", "6", "7", "8", "9">>
Figure(d) == Figures[d + 1]
IsFigure(c) == \E d \in 0..9 : Figure(d) = c
Digit(c) == CHOOSE d \in 0..9 : Figure(d) = c

(* A number as JavaScript writes it, and reads it. *)
Decimal[n \in Nat] ==
  IF n < 10 THEN <<Figure(n)>> ELSE Append(Decimal[n \div 10], Figure(n % 10))
ValueOf(digits) ==
  LET value[i \in 0..Len(digits)] == IF i = 0 THEN 0 ELSE 10 * value[i - 1] + Digit(digits[i])
  IN value[Len(digits)]

(* _encode: each message is put behind what ret has. *)
EncodeOne(text) == Frame \o Decimal[Len(text)] \o Frame \o text
Encode(texts) ==
  LET ret[i \in 0..Len(texts)] == IF i = 0 THEN <<>> ELSE ret[i - 1] \o EncodeOne(texts[i])
  IN ret[Len(texts)]

From(data, n) == SubSeq(data, n + 1, Len(data))
Upto(data, n) == SubSeq(data, 1, IF n < Len(data) THEN n ELSE Len(data))

(* How many digits data begins with: the loop that breaks at the first other *)
(* character.                                                                *)
LeadingDigits(data) ==
  CHOOSE n \in 0..Len(data) :
    /\ \A i \in 1..n : IsFigure(data[i])
    /\ n < Len(data) => ~IsFigure(data[n + 1])
Number(data) == Upto(data, LeadingDigits(data))

(* Mutant of DecodeRest: the second mark is looked for anywhere. *)
DecodeRestSearch(data) ==
  LET starts == {k \in 1..Len(data) : Upto(From(data, k - 1), 3) = Frame}
      k == CHOOSE k \in starts : \A l \in starts : l <= k
  IN IF starts = {} THEN [length |-> 0, rest |-> <<>>]
     ELSE [length |-> ValueOf(Number(data)), rest |-> From(data, k + 2)]

(* After the mark: the number, the second mark by its length alone.  Data    *)
(* that ends within the number keeps it as if it were the message.           *)
DecodeRest(data) ==
  [length |-> ValueOf(Number(data)),
   rest |-> IF LeadingDigits(data) = Len(data) THEN data
            ELSE From(data, LeadingDigits(data) + Len(Frame))]

(* One round of the loop of _decode; it is the last one when the mark is not *)
(* there or nothing is left.                                                 *)
Round(state) ==
  IF state.over THEN state
  ELSE IF Upto(state.data, 3) # Frame THEN [state EXCEPT !.over = TRUE]
  ELSE LET after == DecodeRest(From(state.data, 3))
           left == From(after.rest, after.length)
       IN [read |-> Append(state.read, Upto(after.rest, after.length)),
           data |-> left, over |-> left = <<>>]

(* _decode.  A round takes a mark off or is the last: the loop is over after *)
(* so many rounds.                                                           *)
Decode(data) ==
  LET state[i \in Nat] == IF i = 0 THEN [read |-> <<>>, data |-> data, over |-> FALSE]
                          ELSE Round(state[i - 1])
  IN state[Len(data) + 1].read

-----------------------------------------------------------------------------
(* Whatever messages are sent, empty ones and ones that look like a frame    *)
(* included, data that is whole gives all of them back, and data that is cut *)
(* short in the frame of the next gives those before and at most one more,   *)
(* which is what is there of it: the place is never lost.                    *)
(* (transport.js:32-62; xhr-multipart.js:23 decodes what has come so far.)   *)
FramesAreRead ==
  /\ Decode(Encode(messages)) = messages
  /\ \A k \in DOMAIN messages : \A n \in 0..(Len(EncodeOne(messages[k])) - 1) :
       LET before == SubSeq(messages, 1, k - 1)
           seen == Decode(Encode(before) \o Upto(EncodeOne(messages[k]), n))
       IN IsPrefix(before, seen) /\ Len(seen) <= k
=============================================================================
