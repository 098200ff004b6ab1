------------------------------- MODULE LossSet -------------------------------
(***************************************************************************)
(* What the receiver's loss list stands for: the set of numbers before     *)
(* RcvCurrSeqNo that have neither arrived nor been given up.               *)
(***************************************************************************)
EXTENDS SeqNo

CONSTANTS
  Span,       \* the numbers that may arrive, from the first missing one on
  MaxGiveUp   \* bound: the numbers that the sender gives up at once

VARIABLES lost, RcvCurrSeqNo

FirstMissing ==
  IF lost = {} THEN incseq(RcvCurrSeqNo)
  ELSE CHOOSE s \in lost : \A t \in lost : seqoff(s, t) >= 0

Init == lost = {} /\ RcvCurrSeqNo \in {isn - 1 : isn \in 0 .. MaxSeqNo}

\* A packet closes its gap, or leaves a new one before it.
Arrive(s) ==
  \/ /\ s \in lost
     /\ UNCHANGED RcvCurrSeqNo
     /\ lost' = lost \ {s}
  \/ /\ RcvCurrSeqNo' = s
     /\ seqcmp(s, RcvCurrSeqNo) > 0
     /\ seqoff(FirstMissing, s) < Span
     /\ lost' = lost \cup (Stretch(incseq(RcvCurrSeqNo), s) \ {s})

\* The sender gives up the numbers from first to last.
GiveUp(first, last) ==
  /\ lost' = lost \ Stretch(first, last)
  /\ RcvCurrSeqNo' = IF /\ seqcmp(first, incseq(RcvCurrSeqNo)) <= 0
                        /\ seqcmp(last, RcvCurrSeqNo) > 0
                       THEN last ELSE RcvCurrSeqNo

Next ==
  \/ \E s \in 0 .. MaxSeqNo : Arrive(s)
  \/ \E first, last \in 0 .. MaxSeqNo :
       seqlen(first, last) <= MaxGiveUp /\ GiveUp(first, last)

Spec == Init /\ [][Next]_<<lost, RcvCurrSeqNo>>
=============================================================================
