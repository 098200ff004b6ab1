-------------------------------- MODULE SeqNo --------------------------------
(***************************************************************************)
(* Sequence number arithmetic (CSeqNo in common.h): 32-bit numbers that    *)
(* restart at 0 after MaxSeqNo, compared on the assumption that the two    *)
(* are less than SeqNoTH apart.  The code has SeqNoTH = 16^^3FFFFFFF.      *)
(***************************************************************************)
EXTENDS Integers

CONSTANT SeqNoTH   \* m_iSeqNoTH

ASSUME SeqNoAssumption == SeqNoTH \in Nat \ {0}

MaxSeqNo == 2 * SeqNoTH + 1

\* The number that the u-th packet carries.
Wrap(u) == u % (MaxSeqNo + 1)

Near(seq1, seq2) == -SeqNoTH < seq1 - seq2 /\ seq1 - seq2 < SeqNoTH

\* Mutant: numbers compared as if they never restarted.
seqcmpPlain(seq1, seq2) == seq1 - seq2

seqcmp(seq1, seq2) == IF Near(seq1, seq2) THEN seq1 - seq2 ELSE seq2 - seq1

seqlen(seq1, seq2) ==
  IF seq1 <= seq2 THEN seq2 - seq1 + 1 ELSE seq2 - seq1 + MaxSeqNo + 2

seqoff(seq1, seq2) ==
  IF Near(seq1, seq2) THEN seq2 - seq1
  ELSE IF seq1 < seq2 THEN seq2 - seq1 - MaxSeqNo - 1
                      ELSE seq2 - seq1 + MaxSeqNo + 1

incseq(seq) == IF seq = MaxSeqNo THEN 0 ELSE seq + 1

decseq(seq) == IF seq = 0 THEN MaxSeqNo ELSE seq - 1

\* The numbers from first to last around the circle.
Stretch(first, last) ==
  {Wrap(first + k) : k \in 0 .. seqlen(first, last) - 1}
=============================================================================
