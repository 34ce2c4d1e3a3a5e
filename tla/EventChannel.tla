----------------------------- MODULE EventChannel -----------------------------
(***************************************************************************)
(* What a stage of the event path promises: messages come out in the order *)
(* they went in, none twice and none that was not sent.  A stage that may  *)
(* lose messages leaves some out.  stomp.js, the web relay and the client  *)
(* of the build page are each shown to implement it.                       *)
(***************************************************************************)
EXTENDS Integers, Sequences, SequencesExt

VARIABLES
  lossy, \* whether a message may be lost
  sent,  \* everything that went in
  next,  \* the first message of sent whose fate is still open
  got    \* everything that came out

channel == <<sent, next, got>>

ChannelInit == sent = <<>> /\ next = 1 /\ got = <<>>

(* Messages join the end; several, when a stage takes up a burst. *)
Accept ==
  /\ Len(sent') >= Len(sent) /\ SubSeq(sent', 1, Len(sent)) = sent
  /\ UNCHANGED <<next, got>>

(* The messages up to one of them pass, but for those that are lost. *)
Pass ==
  /\ \E to \in next..Len(sent) :
       \E kept \in [1..(Len(got') - Len(got)) -> next..to] :
         /\ \A j, k \in DOMAIN kept : j < k => kept[j] < kept[k]
         /\ lossy \/ Len(kept) = to - next + 1
         /\ got' = got \o [j \in DOMAIN kept |-> sent[kept[j]]]
         /\ next' = to + 1
  /\ UNCHANGED sent

ChannelSpec == ChannelInit /\ [][Accept \/ Pass]_channel
=============================================================================
