---------------------------- MODULE FifoChannel ----------------------------
(***************************************************************************)
(* What a zlink pipe promises its two ends: a single-writer single-reader   *)
(* FIFO channel that publishes whole messages.  A message is a run of       *)
(* items whose last item is the only one with more = FALSE.                 *)
(*                                                                          *)
(*   sent   every item published so far, in order                           *)
(*   rcvd   every item delivered to the reader so far, in order             *)
(***************************************************************************)
EXTENDS Naturals, Sequences

CONSTANT Value          \* payloads, opaque to the channel

VARIABLES sent, rcvd

vars == <<sent, rcvd>>

Item == [val : Value, more : BOOLEAN]

Init == sent = <<>> /\ rcvd = <<>>

\* A batch of complete messages becomes visible in one step.
Publish ==
    /\ sent' \in Seq(Item)
    /\ Len(sent') > Len(sent)
    /\ SubSeq(sent', 1, Len(sent)) = sent
    /\ ~sent'[Len(sent')].more
    /\ rcvd' = rcvd

\* The oldest item not yet delivered is delivered.
Deliver ==
    /\ Len(rcvd) < Len(sent)
    /\ rcvd' = Append(rcvd, sent[Len(rcvd) + 1])
    /\ sent' = sent

Next == Publish \/ Deliver

Spec == Init /\ [][Next]_vars
=============================================================================
