------------------------------ MODULE AckWindow ------------------------------
(***************************************************************************)
(* CACKWindow (window.cpp): the ring in which the receiver keeps, for each *)
(* ACK it sent, its number and the data acknowledged, until the ACK2 with  *)
(* that number tells that it has arrived.  ACK2s come late, twice or not   *)
(* at all.                                                                 *)
(*                                                                         *)
(* Abstracted: the data acknowledged and the time are the place of the ACK *)
(* in the order of all ACKs.                                               *)
(***************************************************************************)
EXTENDS Integers, Sequences

CONSTANTS
  WindowSize,   \* m_iSize, 1024
  AckTH,        \* CAckNo::m_iMaxAckSeqNo: the largest number
  MaxStored     \* bound: ACKs sent

AckWindowAssumption ==
  /\ {WindowSize, AckTH, MaxStored} \subseteq Nat /\ WindowSize >= 2
  /\ AckTH >= WindowSize

VARIABLES
  ring,      \* seq: m_piACKSeqNo; ack: m_piACK
  head,      \* m_iHead
  tail,      \* m_iTail
  stored,    \* ghost: how many have been stored
  heard      \* what the last ACK2 has brought, 0 for nothing

ackVars == <<ring, head, tail, stored, heard>>

Places == 0 .. WindowSize - 1

Nowhere == [seq |-> -1, ack |-> 0]

\* CAckNo::incack
AckNo(n) == n % (AckTH + 1)

Init ==
  /\ ring = [i \in Places |-> Nowhere]
  /\ head = 0 /\ tail = 0 /\ stored = 0 /\ heard = 0

\* Mutant: the oldest is not given up.
TailKept(h) == tail

\* The oldest ACK is overwritten.
TailAfter(h) == IF h = tail THEN (tail + 1) % WindowSize ELSE tail

store ==
  /\ stored < MaxStored
  /\ stored' = stored + 1
  /\ ring' = [ring EXCEPT ![head] = [seq |-> AckNo(stored + 1), ack |-> stored + 1]]
  /\ head' = (head + 1) % WindowSize
  /\ tail' = TailAfter(head')
  /\ UNCHANGED heard

\* The places from the tail up to the head, which may be past the end of the ring.
Held == tail .. (IF head >= tail THEN head ELSE head + WindowSize) - 1

Matches(seq) == {j \in Held : ring[j % WindowSize].seq = seq}

First(S) == CHOOSE j \in S : \A k \in S : j <= k

\* In the branch of a wrapped ring the test j == m_iHead never holds: the tail meets the head.
Behind(j) == IF head >= tail /\ j + 1 = head THEN 0 ELSE (j + 1) % WindowSize

acknowledge(seq) ==
  /\ IF Matches(seq) = {}
     THEN heard' = 0 /\ UNCHANGED <<ring, head, tail>>
     ELSE LET j == First(Matches(seq))
              resets == head >= tail /\ j + 1 = head
          IN  /\ heard' = ring[j % WindowSize].ack
              /\ tail' = Behind(j)
              /\ head' = IF resets THEN 0 ELSE head
              /\ ring' = IF resets THEN [ring EXCEPT ![0].seq = -1] ELSE ring
  /\ UNCHANGED stored

Next == store \/ \E seq \in 0 .. AckTH : acknowledge(seq)

Spec == Init /\ [][Next]_ackVars

-----------------------------------------------------------------------------
(* What it promises: a memory of the last WindowSize - 1 ACKs, in which one *)
(* that is heard of takes all before it along.                              *)

Remembered == (head - tail + WindowSize) % WindowSize

Memory == [i \in 1 .. Remembered |-> ring[(tail + i - 1) % WindowSize].ack]

TypeOK ==
  /\ ring \in [Places -> [seq : -1 .. AckTH, ack : Nat]]
  /\ head \in Places /\ tail \in Places
  /\ stored \in Nat /\ heard \in Nat

\* From the tail on the ring holds the last ACKs stored, in their order.
HoldsTheLast ==
  /\ Remembered <= stored
  /\ \A k \in 0 .. Remembered - 1 :
       ring[(tail + k) % WindowSize] = [seq |-> AckNo(stored - Remembered + 1 + k), ack |-> stored - Remembered + 1 + k]

IInv == TypeOK /\ HoldsTheLast

\* A store keeps all but the oldest of WindowSize, an ACK2 finds what is remembered under
\* its number and forgets all up to it, and finds nothing else: neither an ACK that was
\* given up nor the slot of one that was heard of (window.cpp:70, 83).
IsAMemory ==
  [][ \/ /\ stored' = stored + 1
         /\ Memory' = Append(IF Len(Memory) < WindowSize - 1 THEN Memory ELSE Tail(Memory), stored')
      \/ \E seq \in 0 .. AckTH :
           \/ /\ \A i \in DOMAIN Memory : AckNo(Memory[i]) # seq
              /\ heard' = 0 /\ Memory' = Memory
           \/ \E i \in DOMAIN Memory :
                /\ AckNo(Memory[i]) = seq /\ heard' = Memory[i]
                /\ Memory' = SubSeq(Memory, i + 1, Len(Memory)) ]_ackVars
=============================================================================
