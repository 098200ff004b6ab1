----------------------------- MODULE RcvLossList -----------------------------
(***************************************************************************)
(* CRcvLossList (list.cpp) as the receive worker uses it: a linked list of *)
(* ranges of lost numbers, kept in arrays so that a number's node is found *)
(* from its distance to the head.                                          *)
(*                                                                         *)
(* l.data1[i], l.data2[i] are the first and last number of the range at    *)
(* slot i; data1 is -1 when the slot is free and data2 is -1 when the      *)
(* range is one number.                                                    *)
(***************************************************************************)
EXTENDS SeqNo, FiniteSets, Sequences

CONSTANTS
  Size,        \* m_iSize, the flight flag size
  Span,        \* how far from the first missing number a packet may be
  MaxGiveUp,   \* bound: the numbers one message drop request names
  CrossDrops   \* BOOLEAN: may such a request reach or cross the restart?

ASSUME RcvLossListAssumption ==
  /\ Size \in Nat \ {0}
  /\ Span \in 1 .. Size
  /\ Span + MaxGiveUp < SeqNoTH
  /\ MaxGiveUp \in Nat
  /\ CrossDrops \in BOOLEAN

VARIABLES
  l,              \* the list
  RcvCurrSeqNo,
  hung,           \* remove(seqno1, seqno2) does not return
  givenUp         \* history, if CrossDrops: what the last step, a drop request, named

vars == <<l, RcvCurrSeqNo, hung, givenUp>>

Slots == 0 .. Size - 1
None  == -1

TypeOK ==
  /\ l \in [data1 : [Slots -> None .. MaxSeqNo], data2 : [Slots -> None .. MaxSeqNo],
            next : [Slots -> None .. Size - 1], prior : [Slots -> None .. Size - 1],
            head : None .. Size - 1, tail : None .. Size - 1, length : Nat]
  /\ RcvCurrSeqNo \in -1 .. MaxSeqNo
  /\ hung \in BOOLEAN
  /\ givenUp \subseteq 0 .. MaxSeqNo

EmptyList == [data1 |-> [i \in Slots |-> None], data2 |-> [i \in Slots |-> None],
              next |-> [i \in Slots |-> None], prior |-> [i \in Slots |-> None],
              head |-> None, tail |-> None, length |-> 0]

-----------------------------------------------------------------------------
(* insert                                                                   *)

Place(seq) == (l.head + seqoff(l.data1[l.head], seq)) % Size

\* The end is written only for a range of several numbers.
Fill(list, i, first, last) ==
  [list EXCEPT !.data1[i] = first, !.data2[i] = IF first # last THEN last ELSE @]

Inserted(first, last) ==
  LET longer == [l EXCEPT !.length = @ + seqlen(first, last)]
      i      == Place(first)
  IN IF l.length = 0
       THEN [Fill(longer, 0, first, last) EXCEPT
               !.head = 0, !.tail = 0, !.next[0] = None, !.prior[0] = None]
     ELSE IF l.data2[l.tail] # None /\ incseq(l.data2[l.tail]) = first
       THEN [longer EXCEPT !.data2[l.tail] = last]
     ELSE [Fill(longer, i, first, last) EXCEPT
             !.next[l.tail] = i, !.prior[i] = l.tail, !.next[i] = None, !.tail = i]

-----------------------------------------------------------------------------
(* remove                                                                   *)

\* The range of the one number at slot i goes.
Unlinked(list, i) ==
  LET after  == list.next[i]
      before == list.prior[i]
      out    == [list EXCEPT !.data1[i] = None]
  IN IF i = list.head
       THEN IF after = None THEN [out EXCEPT !.head = None]
            ELSE [out EXCEPT !.head = after, !.prior[after] = None]
     ELSE IF after = None THEN [out EXCEPT !.next[before] = None, !.tail = before]
     ELSE [out EXCEPT !.next[before] = after, !.prior[after] = before]

\* Links of the node that replaces i at j.
Relinked(list, i, j) ==
  LET at  == [list EXCEPT !.next[j] = list.next[i], !.prior[j] = list.prior[i]]
      hd  == IF i = at.head THEN [at EXCEPT !.head = j]
                            ELSE [at EXCEPT !.next[at.prior[j]] = j]
  IN IF i = hd.tail THEN [hd EXCEPT !.tail = j]
                    ELSE [hd EXCEPT !.prior[hd.next[j]] = j]

\* Mutant: the end stays behind in the freed slot.
AdvancedUnclean(list, i) ==
  LET j     == (i + 1) % Size
      first == incseq(list.data1[i])
      last  == list.data2[i]
      moved == [list EXCEPT !.data1[j] = first,
                            !.data2[j] = IF seqcmp(last, first) > 0 THEN last ELSE @,
                            !.data1[i] = None]
  IN Relinked(moved, i, j)

\* The range at slot i loses its first number and moves to the next slot.
Advanced(list, i) ==
  LET j     == (i + 1) % Size
      first == incseq(list.data1[i])
      last  == list.data2[i]
      moved == [list EXCEPT !.data1[j] = first,
                            !.data2[j] = IF seqcmp(last, first) > 0 THEN last ELSE @,
                            !.data1[i] = None, !.data2[i] = None]
  IN Relinked(moved, i, j)

\* Mutant: a range of one number keeps an end.
CutBeforeKept(list, i, seq) == [list EXCEPT !.data2[i] = decseq(seq)]

\* The range at slot i ends before seq.
CutBefore(list, i, seq) ==
  [list EXCEPT !.data2[i] = IF seq = incseq(list.data1[i]) THEN None ELSE decseq(seq)]

\* The numbers after seq get a node of their own, at slot j.
Split(list, i, j, seq) ==
  LET first == incseq(seq)
      last  == list.data2[i]
      fresh == [list EXCEPT !.data1[j] = first,
                            !.data2[j] = IF seqcmp(last, first) > 0 THEN last ELSE @]
      cut   == [CutBefore(fresh, i, seq) EXCEPT
                  !.next[j] = list.next[i], !.next[i] = j, !.prior[j] = i]
  IN IF i = list.tail THEN [cut EXCEPT !.tail = j]
                      ELSE [cut EXCEPT !.prior[cut.next[j]] = j]

\* The nearest occupied slot before i.
NodeBefore(list, i) ==
  LET d == CHOOSE d \in 1 .. Size :
             /\ list.data1[(i - d) % Size] # None
             /\ \A e \in 1 .. d - 1 : list.data1[(i - e) % Size] = None
  IN (i - d) % Size

Shorter(list) == [list EXCEPT !.length = @ - 1]

\* remove(seqno)
Removed(list, seq) ==
  IF list.length = 0 \/ seqoff(list.data1[list.head], seq) < 0 THEN list
  ELSE LET i == (list.head + seqoff(list.data1[list.head], seq)) % Size
           p == NodeBefore(list, i)
       IN IF list.data1[i] = seq
            THEN Shorter(IF list.data2[i] = None THEN Unlinked(list, i)
                                                 ELSE Advanced(list, i))
          ELSE IF list.data2[p] = None \/ seqcmp(seq, list.data2[p]) > 0 THEN list
          ELSE Shorter(IF seq = list.data2[p] THEN CutBefore(list, p, seq)
                       ELSE Split(list, p, (i + 1) % Size, seq))

\* The numbers that remove(seqno1, seqno2) goes through.
Through(first, last) ==
  IF first <= last THEN [k \in 1 .. last - first + 1 |-> first + k - 1]
  ELSE [k \in 1 .. MaxSeqNo - first |-> first + k - 1] \o [k \in 1 .. last + 1 |-> k - 1]

RangeRemoved(first, last) ==
  LET q == Through(first, last)
      turn[k \in 0 .. Len(q)] == IF k = 0 THEN l ELSE Removed(turn[k - 1], q[k])
  IN turn[Len(q)]

\* "i <= seqno2" always holds for the largest number.
NeverEnds(first, last) == first <= last /\ last = MaxSeqNo

-----------------------------------------------------------------------------
(* The receive worker                                                       *)

getFirstLostSeq == IF l.length = 0 THEN None ELSE l.data1[l.head]

\* The first number that is missing (sendCtrl).
FirstMissing == IF l.length = 0 THEN incseq(RcvCurrSeqNo) ELSE getFirstLostSeq

\* The number k steps around the circle, forth or back.
Step(seq, k) == (seq + k) % (MaxSeqNo + 1)

Init ==
  /\ l = EmptyList
  /\ RcvCurrSeqNo \in {isn - 1 : isn \in 0 .. MaxSeqNo}
  /\ hung = FALSE
  /\ givenUp = {}

\* The first packet of the buffer's free space that comes after a gap ...
Gap(seq) ==
  /\ ~ hung
  /\ seqcmp(seq, incseq(RcvCurrSeqNo)) > 0
  /\ l' = Inserted(incseq(RcvCurrSeqNo), decseq(seq))
  /\ RcvCurrSeqNo' = seq
  /\ givenUp' = {}
  /\ UNCHANGED hung

\* ... or just follows ...
Follow(seq) ==
  /\ ~ hung
  /\ seq = incseq(RcvCurrSeqNo)
  /\ RcvCurrSeqNo' = seq
  /\ givenUp' = {}
  /\ UNCHANGED <<l, hung>>

\* ... or closes a gap; addData refuses what has arrived before.
Retransmitted(seq) ==
  /\ ~ hung
  /\ seqcmp(seq, RcvCurrSeqNo) <= 0
  /\ Removed(l, seq) # l
  /\ l' = Removed(l, seq)
  /\ givenUp' = {}
  /\ UNCHANGED <<RcvCurrSeqNo, hung>>

\* Message drop request.
Drop(first, last) ==
  /\ ~ hung
  /\ CrossDrops \/ (first <= last /\ last < MaxSeqNo)
  /\ l' = RangeRemoved(first, last)
  /\ hung' = NeverEnds(first, last)
  /\ givenUp' = IF CrossDrops THEN Stretch(first, last) ELSE {}
  /\ RcvCurrSeqNo' = IF /\ seqcmp(first, incseq(RcvCurrSeqNo)) <= 0
                        /\ seqcmp(last, RcvCurrSeqNo) > 0
                       THEN last ELSE RcvCurrSeqNo

\* The ranges a drop request may name: first and last number.
GivenUp == {r \in (-1 .. Span - 1) \X (-1 .. Span - 1) :
              r[1] <= r[2] /\ r[2] - r[1] < MaxGiveUp}

Next ==
  \/ \E k \in 0 .. Span - 1 :
       LET seq == Step(FirstMissing, k) IN
         Gap(seq) \/ Follow(seq) \/ Retransmitted(seq)
  \/ \E r \in GivenUp : Drop(Step(FirstMissing, r[1]), Step(FirstMissing, r[2]))

Spec == Init /\ [][Next]_vars

-----------------------------------------------------------------------------
(* Properties                                                               *)

\* The first k nodes, by the slot at which they begin.
Walk[k \in 0 .. Size] ==
  [i \in None .. Size - 1 |->
     IF i = None \/ k = 0 THEN {} ELSE {i} \cup Walk[k - 1][l.next[i]]]

Chain == IF l.length = 0 THEN {} ELSE Walk[Size][l.head]

LastOf(i) == IF l.data2[i] = None THEN l.data1[i] ELSE l.data2[i]

\* The numbers that a walk from the head meets, as getLossArray does.
Listed == UNION {Stretch(l.data1[i], LastOf(i)) : i \in Chain}

\* The list is the set of lost numbers, across the restart as well: processData and
\* the drop request add and remove exactly what they name.
Abstract == INSTANCE LossSet WITH lost <- Listed

RefinesLossSet == Abstract!Spec

\* getLossLength, on which sendCtrl decides between the two forms of the ACK number.
LengthIsCount == l.length = Cardinality(Listed)

\* A free slot keeps no end and no start: insert writes the end of a range only if
\* it has one, and would else take over the old one.
FreeSlotsClean == \A i \in Slots \ Chain : l.data1[i] = None /\ l.data2[i] = None

\* The links back agree with the links forth, and a node's slot with its distance
\* from the head, on which the search of remove relies.
LinksAgree ==
  l.length > 0 =>
    /\ l.next[l.tail] = None /\ l.prior[l.head] = None
    /\ \A i \in Chain : /\ l.next[i] # None => l.prior[l.next[i]] = i
                        /\ i = Place(l.data1[i])

\* The arrays hold one chain of ranges and nothing else.
ArraysAgree == TypeOK /\ LengthIsCount /\ FreeSlotsClean /\ LinksAgree

\* "Remove all packets between seqno1 and seqno2" (list.h), once the call returns.
RemovesAllBetween == hung \/ Listed \cap givenUp = {}
=============================================================================
