------------------------------ MODULE SndLossSet ------------------------------
(***************************************************************************)
(* What the sender's loss list stands for: the set of numbers to send      *)
(* again, a part of the unacknowledged ones from SndLastDataAck to         *)
(* SndCurrSeqNo.                                                           *)
(***************************************************************************)
EXTENDS SeqNo

CONSTANT Span   \* the numbers that may be unacknowledged

VARIABLES lost, SndLastDataAck, SndCurrSeqNo

vars == <<lost, SndLastDataAck, SndCurrSeqNo>>

\* How many numbers are unacknowledged.
InFlight == seqlen(SndLastDataAck, incseq(SndCurrSeqNo)) - 1

\* The k-th of them.
Nth(k) == Wrap(SndLastDataAck + k - 1)

Init ==
  /\ lost = {}
  /\ SndLastDataAck \in 0 .. MaxSeqNo
  /\ SndCurrSeqNo = SndLastDataAck - 1

Send ==
  /\ InFlight < Span
  /\ SndCurrSeqNo' = incseq(SndCurrSeqNo)
  /\ UNCHANGED <<lost, SndLastDataAck>>

Report(i, j) ==
  /\ UNCHANGED <<SndLastDataAck, SndCurrSeqNo>>
  /\ lost' = lost \cup Stretch(Nth(i), Nth(j))

\* All numbers up to the i-th are forgotten.
Forgotten(i) == lost \ Stretch(SndLastDataAck, Nth(i))

Forget(i) ==
  /\ UNCHANGED <<SndLastDataAck, SndCurrSeqNo>>
  /\ lost' = Forgotten(i)

Acknowledge(i) ==
  /\ SndLastDataAck' = Nth(i + 1)
  /\ UNCHANGED SndCurrSeqNo
  /\ lost' = Forgotten(i)

\* The first lost number is sent again.
Pick ==
  /\ UNCHANGED <<SndLastDataAck, SndCurrSeqNo>>
  /\ lost # {}
  /\ lost' = lost \ {s \in lost : \A t \in lost : seqoff(s, t) >= 0}

Next ==
  \/ Send \/ Pick
  \/ \E i \in 1 .. InFlight : Forget(i) \/ Acknowledge(i) \/ \E j \in i .. InFlight : Report(i, j)

Spec == Init /\ [][Next]_vars
=============================================================================
