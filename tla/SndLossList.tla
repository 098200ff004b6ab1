----------------------------- MODULE SndLossList -----------------------------
(***************************************************************************)
(* CSndLossList (list.cpp) as the sender uses it: a linked list of ranges  *)
(* of numbers to send again, kept in arrays.  NAKs insert in any order,    *)
(* acknowledgements remove everything up to a number, packData takes the   *)
(* first.  Each operation holds m_ListLock.                                *)
(*                                                                         *)
(* data1[i], data2[i] are the first and last number of the range at slot   *)
(* i; data1 is -1 when the slot is free and data2 is -1 when the range is  *)
(* one number.                                                             *)
(***************************************************************************)
EXTENDS SeqNo, FiniteSets

CONSTANTS
  Size,   \* m_iSize, twice the flow window
  Span    \* the numbers that may be unacknowledged (LossListSpan of UdtTransfer)

SndLossListAssumption ==
  /\ Size \in Nat \ {0}
  /\ Span \in 1 .. Size
  /\ Span < SeqNoTH

VARIABLES
  s,                \* the list
  SndLastDataAck,
  SndCurrSeqNo

vars == <<s, SndLastDataAck, SndCurrSeqNo>>

Slots == 0 .. Size - 1
None  == -1

TypeOK ==
  /\ s \in [data1 : [Slots -> None .. MaxSeqNo], data2 : [Slots -> None .. MaxSeqNo],
            next : [Slots -> None .. Size - 1], head : None .. Size - 1,
            lastInsertPos : None .. Size - 1, length : Nat]
  /\ SndLastDataAck \in 0 .. MaxSeqNo
  /\ SndCurrSeqNo \in None .. MaxSeqNo

EmptyList == [data1 |-> [i \in Slots |-> None], data2 |-> [i \in Slots |-> None],
              next |-> [i \in Slots |-> None], head |-> None, lastInsertPos |-> None,
              length |-> 0]

-----------------------------------------------------------------------------
(* insert                                                                   *)

Place(list, seq) == (list.head + seqoff(list.data1[list.head], seq)) % Size

\* The end is written only for a range of several numbers.
Fill(list, i, first, last) ==
  [list EXCEPT !.data1[i] = first, !.data2[i] = IF first # last THEN last ELSE @,
               !.length = @ + seqlen(first, last), !.lastInsertPos = i]

\* The range at slot i is made to end at last, if it does not reach that far.
Extend(list, i, first, last) ==
  LET end == list.data2[i] IN
    IF end = None /\ first # last
      THEN [list EXCEPT !.data2[i] = last, !.length = @ + seqlen(first, last) - 1]
    ELSE IF end # None /\ seqcmp(last, end) > 0
      THEN [list EXCEPT !.data2[i] = last, !.length = @ + seqlen(end, last) - 1]
    ELSE list

\* Mutant: the search does not begin anew before the last insertion.
StartAtLast(list, first) ==
  IF list.lastInsertPos # None THEN list.lastInsertPos ELSE list.head

StartOf(list, first) ==
  IF list.lastInsertPos # None /\ seqcmp(list.data1[list.lastInsertPos], first) < 0
    THEN list.lastInsertPos ELSE list.head

\* The last node from slot i on that starts before seq.
LastBefore(list, i, seq) ==
  LET walk[k \in 0 .. Size] ==
        IF k = 0 THEN i
        ELSE LET j == walk[k - 1] n == list.next[j]
             IN IF n # None /\ seqcmp(list.data1[n], seq) < 0 THEN n ELSE j
  IN walk[Size]

\* One turn of the loop that joins the node at slot i with the next one.
Joined(list, i) ==
  LET n     == list.next[i]
      first == list.data1[n]
      last  == IF list.data2[n] = None THEN first ELSE list.data2[n]
      end   == list.data2[i]
      gone  == [list EXCEPT !.data1[n] = None, !.data2[n] = None, !.next[i] = list.next[n]]
  IN IF seqcmp(last, end) > 0
       THEN [gone EXCEPT !.data2[i] = last,
                         !.length = IF seqcmp(end, first) >= 0 THEN @ - seqlen(first, end) ELSE @]
       ELSE [gone EXCEPT !.length = @ - seqlen(first, last)]

Joins(list, i) ==
  LET n == list.next[i] IN
    /\ n # None /\ list.data2[i] # None
    /\ seqcmp(list.data1[n], incseq(list.data2[i])) <= 0

\* Mutant: only one following node is joined.
CoalescedOnce(list, i) == IF Joins(list, i) THEN Joined(list, i) ELSE list

Coalesced(list, i) ==
  LET turn[k \in 0 .. Size] ==
        IF k = 0 THEN list
        ELSE LET t == turn[k - 1] IN IF Joins(t, i) THEN Joined(t, i) ELSE t
  IN turn[Size]

\* insert(first, last); the cases that return early leave nothing to coalesce.
Inserted(list, first, last) ==
  LET i      == Place(list, first)
      offset == seqoff(list.data1[list.head], first)
      before == LastBefore(list, StartOf(list, first), first)
      linked == [Fill(list, i, first, last) EXCEPT
                   !.next[i] = list.next[before], !.next[before] = i]
  IN IF list.length = 0
       THEN [Fill(list, 0, first, last) EXCEPT !.head = 0, !.next[0] = None]
     ELSE IF offset < 0
       THEN Coalesced([Fill(list, i, first, last) EXCEPT !.next[i] = list.head, !.head = i], i)
     ELSE IF list.data1[i] = first
       THEN Coalesced(Extend([list EXCEPT !.lastInsertPos = i], i, first, last), i)
     ELSE IF list.data2[before] = None \/ seqcmp(list.data2[before], first) < 0
       THEN Coalesced(linked, i)
     ELSE Coalesced(Extend([list EXCEPT !.lastInsertPos = before], before, first, last), before)

-----------------------------------------------------------------------------
(* remove, getLostSeq                                                       *)

Freed(list, i) ==
  [list EXCEPT !.data1[i] = None, !.data2[i] = None,
               !.lastInsertPos = IF @ = i THEN None ELSE @]

\* What follows seq in the range at slot i gets a node of its own, at slot j.
Rest(list, i, j, seq) ==
  LET first == incseq(seq)
  IN [list EXCEPT !.data1[j] = first,
                  !.data2[j] = IF seqcmp(list.data2[i], first) > 0 THEN list.data2[i] ELSE @,
                  !.next[j] = list.next[i]]

\* The head is left with one number less.
Beheaded(list) ==
  LET h    == list.head
      j    == (h + 1) % Size
      less == [list EXCEPT !.length = @ - 1]
  IN IF list.data2[h] = None
       THEN [Freed(less, h) EXCEPT !.head = list.next[h]]
       ELSE [Freed(Rest(less, h, j, list.data1[h]), h) EXCEPT !.head = j]

\* The nodes before the new head go.
CutTo(list, newHead) ==
  LET Gone(t) == IF t.data2[t.head] = None THEN 1
                 ELSE seqlen(t.data1[t.head], t.data2[t.head])
      turn[k \in 0 .. Size] ==
        IF k = 0 THEN list
        ELSE LET t == turn[k - 1]
             IN IF t.head = newHead THEN t
                ELSE [Freed(t, t.head) EXCEPT !.head = t.next[t.head], !.length = @ - Gone(t)]
  IN turn[Size]

\* remove(seq): everything up to seq.
Removed(list, seq) ==
  LET i      == Place(list, seq)
      j      == (i + 1) % Size
      offset == seqoff(list.data1[list.head], seq)
      before == LastBefore(list, list.head, seq)
      split  == [Rest(list, before, j, seq) EXCEPT !.data2[before] = seq, !.next[before] = j]
      first  == [Rest(list, i, j, seq) EXCEPT !.data2[i] = None, !.next[i] = j]
  IN IF list.length = 0 \/ offset < 0 THEN list
     ELSE IF offset = 0 THEN Beheaded(list)
     ELSE IF list.data1[i] = seq
       THEN IF list.data2[i] = None THEN CutTo(list, list.next[i]) ELSE CutTo(first, j)
     ELSE IF list.data2[before] # None /\ seqcmp(list.data2[before], seq) > 0
       THEN CutTo(split, j)
     ELSE CutTo(list, list.next[before])

-----------------------------------------------------------------------------
(* The sender                                                               *)

InFlight == seqlen(SndLastDataAck, incseq(SndCurrSeqNo)) - 1

\* The k-th unacknowledged number.
Nth(k) == Wrap(SndLastDataAck + k - 1)

Init ==
  /\ s = EmptyList
  /\ SndLastDataAck \in 0 .. MaxSeqNo
  /\ SndCurrSeqNo = SndLastDataAck - 1

\* packData sends a new block.
Send ==
  /\ InFlight < Span
  /\ SndCurrSeqNo' = incseq(SndCurrSeqNo)
  /\ UNCHANGED <<s, SndLastDataAck>>

\* A NAK, or the EXP timer, reports the i-th to the j-th.
Report(i, j) ==
  /\ s' = Inserted(s, Nth(i), Nth(j))
  /\ UNCHANGED <<SndLastDataAck, SndCurrSeqNo>>

\* A message whose time has run out is not sent again.
Forget(i) ==
  /\ s' = Removed(s, Nth(i))
  /\ UNCHANGED <<SndLastDataAck, SndCurrSeqNo>>

\* An acknowledgement releases the first i.
Acknowledge(i) ==
  /\ SndLastDataAck' = Nth(i + 1)
  /\ s' = Removed(s, decseq(SndLastDataAck'))
  /\ UNCHANGED SndCurrSeqNo

\* getLostSeq returns the number it removes.
Pick ==
  /\ s.length > 0
  /\ s' = Beheaded(s)
  /\ UNCHANGED <<SndLastDataAck, SndCurrSeqNo>>

Next ==
  \/ Send \/ Pick
  \/ \E i \in 1 .. InFlight : Forget(i) \/ Acknowledge(i) \/ \E j \in i .. InFlight : Report(i, j)

Spec == Init /\ [][Next]_vars

-----------------------------------------------------------------------------
(* Properties                                                               *)

\* The first k nodes, by the slot at which they begin.
Walk[k \in 0 .. Size] ==
  [i \in None .. Size - 1 |->
     IF i = None \/ k = 0 THEN {} ELSE {i} \cup Walk[k - 1][s.next[i]]]

Chain == IF s.length = 0 THEN {} ELSE Walk[Size][s.head]

LastOf(i) == IF s.data2[i] = None THEN s.data1[i] ELSE s.data2[i]

\* The numbers that a walk from the head meets.
Listed == UNION {Stretch(s.data1[i], LastOf(i)) : i \in Chain}

\* The list is the set of numbers to send again, in order, across the restart too:
\* overlapping reports in any order add what they name and nothing else, an
\* acknowledgement removes what it covers, and getLostSeq returns the first.
Abstract == INSTANCE SndLossSet WITH lost <- Listed

RefinesSndLossSet == Abstract!Spec

\* getLossLength, which keeps the EXP timer from reporting twice, counts the numbers.
LengthIsCount == s.length = Cardinality(Listed)

\* A slot that is not linked is free, with neither a start nor an end left behind
\* that a later range would take over.
FreeSlotsClean == \A i \in Slots \ Chain : s.data1[i] = None /\ s.data2[i] = None

\* A search that starts at the last insertion starts at a node of the list.
InsertPosIsLinked == s.lastInsertPos \in Chain \cup {None}

\* The arrays hold one chain of ranges and nothing else.
ArraysAgree == TypeOK /\ LengthIsCount /\ FreeSlotsClean /\ InsertPosIsLinked
=============================================================================
