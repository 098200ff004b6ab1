---------------------------- MODULE MessagesProofs ----------------------------
(***************************************************************************)
(* Proofs about message mode, for every value of the constants.  First the *)
(* types; then, while no message has been given up, that there is a        *)
(* sequence B of all the blocks ever written of which the sender holds the *)
(* end, each packet is a block with its number, each slot of the           *)
(* receiver's ring holds the block of its number or nothing, and what has  *)
(* been read are whole messages of it (Carried).                           *)
(***************************************************************************)
EXTENDS Messages, SequenceTheorems, WellFoundedInduction, TLAPS

\* A set of naturals has a least element.
LEMMA LeastOf ==
  ASSUME NEW S \in SUBSET Nat, S # {}
  PROVE  \E n \in S : \A m \in S : n <= m
<1>1. IsWellFoundedOn(OpToRel(<, Nat), Nat)
  BY NatLessThanWellFounded
<1>2. PICK n \in S : \A m \in S : ~ (<<m, n>> \in OpToRel(<, Nat))
  BY <1>1, WFMin
<1>3. \A m \in S : ~ (m < n)
  BY <1>2 DEF OpToRel
<1> QED
  BY <1>3

\* What Least and Greatest choose is there.
LEMMA LeastIsIn ==
  ASSUME NEW S \in SUBSET Nat, S # {}
  PROVE  Least(S) \in S /\ \A o \in S : Least(S) <= o
BY LeastOf DEF Least

LEMMA GreatestIsIn ==
  ASSUME NEW a \in Int, NEW b \in Int, NEW S \in SUBSET (a .. b), S # {}
  PROVE  Greatest(S) \in S /\ \A o \in S : o <= Greatest(S)
<1> DEFINE D == {b - o : o \in S}
<1>1. D \in SUBSET Nat /\ D # {}
  OBVIOUS
<1>2. PICK d \in D : \A e \in D : d <= e
  <2> HIDE DEF D
  <2> QED
    BY <1>1, LeastOf
<1>3. PICK g \in S : d = b - g
  BY <1>2
<1>4. \A o \in S : o <= g
  <2> TAKE o \in S
  <2>1. b - g <= b - o
    BY <1>2, <1>3
  <2> QED
    BY <2>1
<1> QED
  BY <1>4 DEF Greatest

\* The remainder, kept closed: its arithmetic is Modulo.
Rest(a, n) == a % n

\* The k-th slot of a ring from its start, which is Pos(k) for the present one.
At(r, k) == Rest(r.start + k, RcvSize)

\* The ring has three slots or more.
LEMMA Sizes == MessagesAssumption => RcvSize \in Nat /\ RcvSize > 2 /\ Slots = 0 .. RcvSize - 1
BY DEF MessagesAssumption, Slots

\* Once around at most.
LEMMA Modulo ==
  ASSUME NEW n \in Nat \ {0}, NEW a \in 0 .. n + n - 1
  PROVE  Rest(a, n) = IF a < n THEN a ELSE a - n
<1>1. CASE a < n
  BY <1>1 DEF Rest
<1>2. CASE a >= n
  <2>1. a - n \in 0 .. n - 1 /\ a = n * 1 + (a - n)
    BY <1>2
  <2> QED
    BY <1>2, <2>1 DEF Rest
<1> QED
  BY <1>1, <1>2

\* The slots from the start on are slots.
LEMMA AtIs ==
  ASSUME MessagesAssumption, NEW r, r.start \in Slots
  PROVE  \A k \in Slots : At(r, k) \in Slots /\ At(r, k) = IF r.start + k < RcvSize THEN r.start + k ELSE r.start + k - RcvSize
<1> TAKE k \in Slots
<1>1. PICK a \in 0 .. RcvSize - 1 : a = r.start
  BY Sizes
<1>2. k \in 0 .. RcvSize - 1 /\ RcvSize \in Nat \ {0}
  BY Sizes
<1>3. a + k \in 0 .. RcvSize + RcvSize - 1
  BY <1>2
<1>4. At(r, k) = IF a + k < RcvSize THEN a + k ELSE a + k - RcvSize
  <2>1. PICK v \in 0 .. RcvSize + RcvSize - 1 : v = a + k
    BY <1>3
  <2>2. Rest(v, RcvSize) = IF v < RcvSize THEN v ELSE v - RcvSize
    BY <1>2, Modulo
  <2>3. At(r, k) = Rest(v, RcvSize)
    BY <1>1, <2>1, Zenon DEF At
  <2> QED
    BY <1>2, <2>1, <2>2, <2>3
<1>5. (IF a + k < RcvSize THEN a + k ELSE a + k - RcvSize) \in 0 .. RcvSize - 1
  BY <1>2
<1> QED
  BY <1>1, <1>4, <1>5, Sizes

\* Every slot is one of these, once.
LEMMA AtIsOneToOne ==
  ASSUME MessagesAssumption, NEW r, r.start \in Slots
  PROVE  /\ \A k, o \in Slots : At(r, k) = At(r, o) => k = o
         /\ \A i \in Slots : \E k \in Slots : At(r, k) = i /\ k = Rest(i - r.start + RcvSize, RcvSize)
<1>1. PICK a \in 0 .. RcvSize - 1 : a = r.start
  BY Sizes
<1>2. RcvSize \in Nat \ {0} /\ Slots = 0 .. RcvSize - 1
  BY Sizes
<1>3. \A k \in 0 .. RcvSize - 1 : At(r, k) = IF a + k < RcvSize THEN a + k ELSE a + k - RcvSize
  BY <1>1, <1>2, AtIs
<1>4. ASSUME NEW k \in 0 .. RcvSize - 1, NEW o \in 0 .. RcvSize - 1, At(r, k) = At(r, o)
      PROVE  k = o
  <2>1. (IF a + k < RcvSize THEN a + k ELSE a + k - RcvSize) = (IF a + o < RcvSize THEN a + o ELSE a + o - RcvSize)
    BY <1>3, <1>4
  <2> QED
    BY <1>2, <2>1
<1>5. ASSUME NEW i \in 0 .. RcvSize - 1
      PROVE  \E k \in 0 .. RcvSize - 1 : At(r, k) = i /\ k = Rest(i - r.start + RcvSize, RcvSize)
  <2>1. i - a + RcvSize \in 0 .. RcvSize + RcvSize - 1
    BY <1>2
  <2>2. Rest(i - a + RcvSize, RcvSize) = IF i - a + RcvSize < RcvSize THEN i - a + RcvSize ELSE i - a + RcvSize - RcvSize
    <3>1. PICK v \in 0 .. RcvSize + RcvSize - 1 : v = i - a + RcvSize
      BY <2>1
    <3>2. Rest(v, RcvSize) = IF v < RcvSize THEN v ELSE v - RcvSize
      BY <1>2, Modulo
    <3>3. Rest(i - a + RcvSize, RcvSize) = Rest(v, RcvSize)
      BY <3>1, Zenon
    <3> QED
      BY <1>2, <3>1, <3>2, <3>3
  <2>3. PICK k : k = Rest(i - a + RcvSize, RcvSize)
    OBVIOUS
  <2>4. k \in 0 .. RcvSize - 1 /\ k = IF i < a THEN i - a + RcvSize ELSE i - a
    BY <1>2, <2>2, <2>3
  <2>5. At(r, k) = i
    <3>1. At(r, k) = IF a + k < RcvSize THEN a + k ELSE a + k - RcvSize
      BY <1>3, <2>4
    <3> QED
      BY <1>2, <2>4, <3>1
  <2> QED
    BY <1>1, <2>3, <2>4, <2>5
<1> QED
  BY <1>2, <1>4, <1>5

\* m_iLastAckPos is as many slots from the start as getRcvDataSize says.
LEMMA DataSizeIs ==
  ASSUME MessagesAssumption, NEW r, r.start \in Slots, r.ackPos \in Slots
  PROVE  /\ DataSize(r) \in Slots /\ At(r, DataSize(r)) = r.ackPos
         /\ DataSize(r) = IF r.ackPos < r.start THEN r.ackPos - r.start + RcvSize ELSE r.ackPos - r.start
<1>1. PICK k \in Slots : At(r, k) = r.ackPos /\ k = DataSize(r)
  BY AtIsOneToOne DEF DataSize, Rest
<1>2. PICK a \in 0 .. RcvSize - 1, c \in 0 .. RcvSize - 1 : a = r.start /\ c = r.ackPos
  BY Sizes
<1>3. RcvSize \in Nat \ {0}
  BY Sizes
<1>4. c - a + RcvSize \in 0 .. RcvSize + RcvSize - 1
  BY <1>3
<1>5. Rest(c - a + RcvSize, RcvSize) = IF c < a THEN c - a + RcvSize ELSE c - a
  <2>1. Rest(c - a + RcvSize, RcvSize) = IF c - a + RcvSize < RcvSize THEN c - a + RcvSize ELSE c - a + RcvSize - RcvSize
    <3>1. PICK v \in 0 .. RcvSize + RcvSize - 1 : v = c - a + RcvSize
      BY <1>4
    <3>2. Rest(v, RcvSize) = IF v < RcvSize THEN v ELSE v - RcvSize
      BY <1>3, Modulo
    <3>3. Rest(c - a + RcvSize, RcvSize) = Rest(v, RcvSize)
      BY <3>1, Zenon
    <3> QED
      BY <1>3, <3>1, <3>2, <3>3
  <2> QED
    BY <1>3, <2>1
<1> QED
  BY <1>1, <1>2, <1>5 DEF DataSize, Rest

\* The start moves on by d slots.
LEMMA Onward ==
  ASSUME MessagesAssumption, NEW r, NEW z, NEW d \in Slots, r.start \in Slots, r.ackPos \in Slots,
         z.start = At(r, d), z.ackPos = r.ackPos, d <= DataSize(r)
  PROVE  /\ z.start \in Slots /\ DataSize(z) = DataSize(r) - d
         /\ \A k \in Slots : At(z, k) = IF k + d < RcvSize THEN At(r, k + d) ELSE At(r, k + d - RcvSize)
<1>1. PICK a \in 0 .. RcvSize - 1, c \in 0 .. RcvSize - 1 : a = r.start /\ c = r.ackPos
  BY Sizes
<1>2. RcvSize \in Nat \ {0} /\ Slots = 0 .. RcvSize - 1
  BY Sizes
<1>3. \A k \in 0 .. RcvSize - 1 : At(r, k) = IF a + k < RcvSize THEN a + k ELSE a + k - RcvSize
  BY <1>1, <1>2, AtIs
<1>4. PICK s \in 0 .. RcvSize - 1 : s = z.start /\ s = IF a + d < RcvSize THEN a + d ELSE a + d - RcvSize
  <2>1. At(r, d) = IF a + d < RcvSize THEN a + d ELSE a + d - RcvSize
    BY <1>2, <1>3
  <2>2. At(r, d) \in 0 .. RcvSize - 1
    BY <1>2, AtIs
  <2> QED
    BY <2>1, <2>2
<1>5. \A k \in 0 .. RcvSize - 1 : At(z, k) = IF s + k < RcvSize THEN s + k ELSE s + k - RcvSize
  BY <1>2, <1>4, AtIs
<1>6. ASSUME NEW k \in 0 .. RcvSize - 1
      PROVE  At(z, k) = IF k + d < RcvSize THEN At(r, k + d) ELSE At(r, k + d - RcvSize)
  <2>1. At(z, k) = IF s + k < RcvSize THEN s + k ELSE s + k - RcvSize
    BY <1>5
  <2>2. d \in 0 .. RcvSize - 1
    BY <1>2
  <2>3. CASE k + d < RcvSize
    <3>1. k + d \in 0 .. RcvSize - 1
      BY <1>2, <2>2, <2>3
    <3>2. At(r, k + d) = IF a + (k + d) < RcvSize THEN a + (k + d) ELSE a + (k + d) - RcvSize
      BY <1>3, <3>1
    <3> QED
      BY <1>2, <1>4, <2>1, <2>2, <2>3, <3>2
  <2>4. CASE k + d >= RcvSize
    <3>1. k + d - RcvSize \in 0 .. RcvSize - 1
      BY <1>2, <2>2, <2>4
    <3>2. At(r, k + d - RcvSize) = IF a + (k + d - RcvSize) < RcvSize THEN a + (k + d - RcvSize) ELSE a + (k + d - RcvSize) - RcvSize
      BY <1>3, <3>1
    <3> QED
      BY <1>2, <1>4, <2>1, <2>2, <2>4, <3>2
  <2> QED
    BY <1>2, <2>2, <2>3, <2>4
<1>7. DataSize(z) = DataSize(r) - d
  <2>1. DataSize(r) = IF c < a THEN c - a + RcvSize ELSE c - a
    BY <1>1, DataSizeIs
  <2>2. DataSize(z) = IF c < s THEN c - s + RcvSize ELSE c - s
    BY <1>1, <1>2, <1>4, DataSizeIs
  <2>3. d \in 0 .. RcvSize - 1
    BY <1>2
  <2> QED
    BY <1>2, <1>4, <2>1, <2>2, <2>3
<1> QED
  BY <1>2, <1>4, <1>6, <1>7

-----------------------------------------------------------------------------
(* Types, which no drop breaks.                                             *)

\* The sender: a block is followed by the rest of its message.
SndOK(x) ==
  /\ x \in [blocks : Seq(Blocks), curr : Nat, nextMsg : Nat \ {0}, ack : Nat \ {0}, seq : Nat, loss : SUBSET Nat]
  /\ x.curr <= Len(x.blocks) /\ 0 \notin x.loss /\ \A o \in x.loss : o <= x.seq
  /\ x.nextMsg <= x.ack + Len(x.blocks) /\ x.ack + Len(x.blocks) <= MaxPackets + 1
  /\ \A i \in 1 .. Len(x.blocks) :
       x.blocks[i].part <= x.blocks[i].of /\ i + x.blocks[i].of - x.blocks[i].part <= Len(x.blocks)

\* The receiver: what is acknowledged and what is ahead of it fit into the ring.
RcvOK(r) ==
  /\ r \in [unit : [Slots -> {NULL} \cup [flag : 1 .. 3, block : Blocks]], start : Slots, ackPos : Slots,
            maxPos : Nat, ack : Nat \ {0}, seq : Nat, loss : SUBSET Nat]
  /\ DataSize(r) + r.maxPos <= RcvSize - 1

\* What can be on its way.
Sent ==
  [kind : {"data"}, seq : Nat, block : Blocks] \cup [kind : {"ack"}, seq : Nat]
  \cup [kind : {"drop"}, msg : Nat, from : Nat, to : Nat]

TIInv == SndOK(snd) /\ RcvOK(rcv) /\ net \subseteq Sent /\ read \in Seq(Seq(Blocks)) /\ dropped \in BOOLEAN

\* TIInv of the next state.
LEMMA Primed ==
  ASSUME SndOK(snd'), RcvOK(rcv'), net' \subseteq Sent, read' \in Seq(Seq(Blocks)), dropped' \in BOOLEAN
  PROVE  TIInv'
BY DEF TIInv

\* The fields of a block are numbers from 1 on.
LEMMA BlocksAre ==
  ASSUME MessagesAssumption, NEW b \in Blocks
  PROVE  /\ b.msg \in Nat \ {0} /\ b.part \in Nat \ {0} /\ b.of \in Nat \ {0} /\ b.order \in BOOLEAN
         /\ b.msg <= MaxPackets /\ b.part <= MaxSize /\ b.of <= MaxSize
BY DEF Blocks, MessagesAssumption

\* A slot that is not empty.
LEMMA UnitIs ==
  ASSUME NEW x \in {NULL} \cup [flag : 1 .. 3, block : Blocks], x # NULL
  PROVE  x.flag \in 1 .. 3 /\ x.block \in Blocks /\ x = [flag |-> x.flag, block |-> x.block]
OBVIOUS

LEMMA NullIsNot == \A n \in Nat : \A b : [flag |-> n, block |-> b] # NULL
BY DEF NULL

\* The types hold at the beginning,
LEMMA TypesInit ==
  ASSUME MessagesAssumption, Init
  PROVE  TIInv
<1>1. snd = [blocks |-> <<>>, curr |-> 0, nextMsg |-> 1, ack |-> 1, seq |-> 0, loss |-> {}]
  BY DEF Init
<1>2. SndOK(snd)
  <2>1. <<>> \in Seq(Blocks) /\ Len(<<>>) = 0
    OBVIOUS
  <2> QED
    BY <1>1, <2>1 DEF SndOK, MessagesAssumption
<1>3. PICK f : f = [i \in Slots |-> NULL]
  OBVIOUS
<1>4. rcv = [unit |-> f, start |-> RcvSize - 2, ackPos |-> RcvSize - 2, maxPos |-> 0, ack |-> 1, seq |-> 0, loss |-> {}]
  BY <1>3 DEF Init
<1>5. RcvSize - 2 \in Slots /\ RcvSize \in Nat /\ RcvSize > 2
  BY Sizes
<1>6. DataSize(rcv) = 0
  <2>1. rcv.start \in Slots /\ rcv.ackPos \in Slots /\ rcv.ackPos - rcv.start = 0 /\ ~ (rcv.ackPos < rcv.start)
    BY <1>4, <1>5
  <2> QED
    BY <2>1, DataSizeIs
<1>7. RcvOK(rcv)
  <2>1. f \in [Slots -> {NULL} \cup [flag : 1 .. 3, block : Blocks]]
    BY <1>3
  <2> QED
    BY <1>4, <1>5, <1>6, <2>1 DEF RcvOK
<1>8. net \subseteq Sent /\ read \in Seq(Seq(Blocks))
  <2>1. net = {} /\ read = <<>>
    BY DEF Init
  <2> QED
    BY <2>1
<1>9. dropped \in BOOLEAN
  BY DEF Init
<1> QED
  BY <1>2, <1>7, <1>8, <1>9 DEF TIInv

\* Members of SndOK, for facts that cite it.
LEMMA SndFields ==
  ASSUME SndOK(snd)
  PROVE  /\ snd.blocks \in Seq(Blocks) /\ snd.curr \in Nat /\ snd.nextMsg \in Nat \ {0} /\ snd.ack \in Nat \ {0}
         /\ snd.seq \in Nat /\ snd.loss \in SUBSET Nat /\ Len(snd.blocks) \in Nat
         /\ \A i \in 1 .. Len(snd.blocks) : snd.blocks[i] \in Blocks
  <1>1. snd.blocks \in Seq(Blocks)
    BY DEF SndOK
  <1>2. \A i \in 1 .. Len(snd.blocks) : snd.blocks[i] \in Blocks
    BY <1>1, ElementOfSeq
  <1> QED
    BY <1>1, <1>2 DEF SndOK

\* and after every step.
LEMMA SndmsgTyped ==
  ASSUME MessagesAssumption, TIInv, NEW n \in 1 .. MaxSize, NEW o \in BOOLEAN, sendmsg(n, o)
  PROVE  TIInv'
<1>1. SndOK(snd)
  BY DEF TIInv
<1>2. PICK z : z = Added(n, o)
  OBVIOUS
<1>3. PICK a \in Seq(Blocks), c \in Nat, m \in Nat \ {0}, k \in Nat \ {0}, q \in Nat, l \in SUBSET Nat :
        snd = [blocks |-> a, curr |-> c, nextMsg |-> m, ack |-> k, seq |-> q, loss |-> l]
  BY <1>1 DEF SndOK
<1>4. /\ k + Len(a) + n <= MaxPackets + 1 /\ UNCHANGED <<dropped, rcv, net, read>>
      /\ snd' = [blocks |-> a \o z, curr |-> c, nextMsg |-> m + 1, ack |-> k, seq |-> q, loss |-> l]
  BY <1>2, <1>3 DEF sendmsg
<1>5. /\ c <= Len(a) /\ 0 \notin l /\ \A i \in l : i <= q
      /\ m <= k + Len(a)
      /\ \A i \in 1 .. Len(a) : a[i].part <= a[i].of /\ i + a[i].of - a[i].part <= Len(a)
  BY <1>1, <1>3 DEF SndOK
<1>6. Len(a) \in Nat /\ n \in Nat \ {0} /\ MaxPackets \in Nat /\ MaxSize \in Nat /\ n <= MaxSize
  BY DEF MessagesAssumption
<1>7. z \in Seq(Blocks) /\ Len(z) = n /\ \A i \in 1 .. n : z[i] = [msg |-> m, part |-> i, of |-> n, order |-> o]
  <2>1. z = [i \in 1 .. n |-> [msg |-> m, part |-> i, of |-> n, order |-> o]]
    BY <1>2, <1>3 DEF Added
  <2>2. m \in 1 .. MaxPackets
    BY <1>4, <1>5, <1>6
  <2>3. \A i \in 1 .. n : [msg |-> m, part |-> i, of |-> n, order |-> o] \in Blocks
    BY <1>6, <2>2 DEF Blocks
  <2>4. z \in [1 .. n -> Blocks]
    BY <2>1, <2>3
  <2>5. z \in Seq(Blocks) /\ Len(z) = n
    BY <1>6, <2>4
  <2> QED
    BY <2>1, <2>5
<1>8. PICK y : y = a \o z
  OBVIOUS
<1>9. /\ y \in Seq(Blocks) /\ Len(y) = Len(a) + n
      /\ \A i \in 1 .. Len(a) + n : y[i] = IF i <= Len(a) THEN a[i] ELSE z[i - Len(a)]
  <2>1. /\ a \o z \in Seq(Blocks) /\ Len(a \o z) = Len(a) + Len(z)
        /\ \A i \in 1 .. Len(a) + Len(z) : (a \o z)[i] = IF i <= Len(a) THEN a[i] ELSE z[i - Len(a)]
    BY <1>7, ConcatProperties
  <2> QED
    BY <1>7, <1>8, <2>1
<1>10. ASSUME NEW i \in 1 .. Len(a) + n
      PROVE  y[i].part <= y[i].of /\ i + y[i].of - y[i].part <= Len(a) + n
  <2>1. CASE i <= Len(a)
    <3>1. i \in 1 .. Len(a) /\ y[i] = a[i]
      BY <1>6, <1>9, <2>1
    <3>2. a[i].part \in Nat /\ a[i].of \in Nat
      BY <3>1, ElementOfSeq, BlocksAre
    <3> QED
      BY <1>5, <1>6, <3>1, <3>2, SMTT(40)
  <2>2. CASE i > Len(a)
    <3>1. i - Len(a) \in 1 .. n
      BY <1>6, <2>2
    <3>2. y[i] = [msg |-> m, part |-> i - Len(a), of |-> n, order |-> o]
      BY <1>6, <1>7, <1>9, <2>2, <3>1
    <3>3. y[i].part = i - Len(a) /\ y[i].of = n
      BY <3>2
    <3> QED
      BY <1>6, <3>1, <3>3
  <2> QED
    BY <1>6, <2>1, <2>2
<1>11. SndOK(snd')
  <2>1. /\ y \in Seq(Blocks) /\ Len(y) = Len(a) + n
        /\ \A i \in 1 .. Len(a) + n : y[i].part <= y[i].of /\ i + y[i].of - y[i].part <= Len(a) + n
    BY <1>9, <1>10
  <2>2. snd' = [blocks |-> y, curr |-> c, nextMsg |-> m + 1, ack |-> k, seq |-> q, loss |-> l]
    BY <1>4, <1>8
  <2>3. c <= Len(y) /\ m + 1 <= k + Len(y) /\ k + Len(y) <= MaxPackets + 1 /\ m + 1 \in Nat \ {0}
    BY <1>4, <1>5, <1>6, <2>1
  <2> QED
    BY <1>5, <2>1, <2>2, <2>3 DEF SndOK
<1> QED
  BY <1>4, <1>11, Primed DEF TIInv

\* What stays in front of, and behind, a place in the blocks.
BlocksOK(a) ==
  \A i \in 1 .. Len(a) : a[i] \in Blocks /\ a[i].part <= a[i].of /\ i + a[i].of - a[i].part <= Len(a)

\* SndOK of a record whose fields are known.
LEMMA SndMade ==
  ASSUME NEW a \in Seq(Blocks), NEW c \in Nat, NEW m \in Nat \ {0}, NEW k \in Nat \ {0}, NEW q \in Nat, NEW l \in SUBSET Nat
  PROVE  SndOK([blocks |-> a, curr |-> c, nextMsg |-> m, ack |-> k, seq |-> q, loss |-> l]) <=>
           /\ c <= Len(a) /\ 0 \notin l /\ \A i \in l : i <= q
           /\ m <= k + Len(a) /\ k + Len(a) <= MaxPackets + 1 /\ BlocksOK(a)
<1>1. \A i \in 1 .. Len(a) : a[i] \in Blocks
  BY ElementOfSeq
<1>2. PICK x : x = [blocks |-> a, curr |-> c, nextMsg |-> m, ack |-> k, seq |-> q, loss |-> l]
  OBVIOUS
<1>3. x \in [blocks : Seq(Blocks), curr : Nat, nextMsg : Nat \ {0}, ack : Nat \ {0}, seq : Nat, loss : SUBSET Nat]
  BY <1>2
<1>4. x.blocks = a /\ x.curr = c /\ x.nextMsg = m /\ x.ack = k /\ x.seq = q /\ x.loss = l
  BY <1>2
<1>5. SndOK(x) <=> /\ c <= Len(a) /\ 0 \notin l /\ \A i \in l : i <= q
                   /\ m <= k + Len(a) /\ k + Len(a) <= MaxPackets + 1 /\ BlocksOK(a)
  BY <1>1, <1>3, <1>4 DEF SndOK, BlocksOK
<1> QED
  BY <1>2, <1>5

LEMMA PackNewTyped ==
  ASSUME MessagesAssumption, TIInv, packNew
  PROVE  TIInv'
<1>1. PICK a \in Seq(Blocks), c \in Nat, m \in Nat \ {0}, k \in Nat \ {0}, q \in Nat, l \in SUBSET Nat :
        snd = [blocks |-> a, curr |-> c, nextMsg |-> m, ack |-> k, seq |-> q, loss |-> l]
  BY DEF TIInv, SndOK
<1>2. /\ c <= Len(a) /\ m <= k + Len(a) /\ k + Len(a) <= MaxPackets + 1 /\ BlocksOK(a)
  BY <1>1, SndMade DEF TIInv
<1>3. /\ l = {} /\ c < Len(a) /\ UNCHANGED <<dropped, rcv, read>>
      /\ snd' = [blocks |-> a, curr |-> c + 1, nextMsg |-> m, ack |-> k, seq |-> q + 1, loss |-> l]
      /\ net' = net \cup {[kind |-> "data", seq |-> q + 1, block |-> a[c + 1]]}
  BY <1>1 DEF packNew, Data
<1>4. SndOK(snd')
  <2>1. c + 1 <= Len(a) /\ c + 1 \in Nat /\ q + 1 \in Nat
    BY <1>3
  <2> QED
    BY <1>2, <1>3, <2>1, SndMade
<1>5. net' \subseteq Sent
  <2>1. c + 1 \in 1 .. Len(a)
    BY <1>3
  <2>2. a[c + 1] \in Blocks /\ q + 1 \in Nat
    BY <2>1, ElementOfSeq
  <2>3. [kind |-> "data", seq |-> q + 1, block |-> a[c + 1]] \in Sent
    BY <2>2 DEF Sent
  <2> QED
    BY <1>3, <2>3 DEF TIInv
<1> QED
  BY <1>3, <1>4, <1>5, Primed DEF TIInv

\* The block of the first lost number, if there is one.
LEMMA LostBlockIs ==
  ASSUME SndOK(snd), snd.loss # {}
  PROVE  /\ Least(snd.loss) \in snd.loss /\ Least(snd.loss) \in Nat \ {0} /\ LostOffset = Least(snd.loss) - snd.ack
         /\ \A o \in snd.loss : Least(snd.loss) <= o
         /\ LostOffset \in 0 .. Len(snd.blocks) - 1 =>
              /\ LostOffset + 1 \in 1 .. Len(snd.blocks) /\ LostBlock = snd.blocks[LostOffset + 1] /\ LostBlock \in Blocks
              /\ LostBlock.part <= LostBlock.of
              /\ LostOffset + 1 + LostBlock.of - LostBlock.part <= Len(snd.blocks)
<1>1. /\ snd.loss \in SUBSET Nat /\ 0 \notin snd.loss /\ snd.blocks \in Seq(Blocks) /\ snd.ack \in Nat
      /\ \A i \in 1 .. Len(snd.blocks) : /\ snd.blocks[i].part <= snd.blocks[i].of
                                         /\ i + snd.blocks[i].of - snd.blocks[i].part <= Len(snd.blocks)
  BY DEF SndOK
<1>2. Least(snd.loss) \in snd.loss /\ \A o \in snd.loss : Least(snd.loss) <= o
  BY <1>1, LeastIsIn
<1>3. ASSUME LostOffset \in 0 .. Len(snd.blocks) - 1
      PROVE  LostOffset + 1 \in 1 .. Len(snd.blocks) /\ snd.blocks[LostOffset + 1] \in Blocks
  <2>1. LostOffset + 1 \in 1 .. Len(snd.blocks)
    BY <1>1, <1>3
  <2> QED
    BY <1>1, <2>1, ElementOfSeq
<1> QED
  BY <1>1, <1>2, <1>3 DEF LostOffset, LostBlock

LEMMA PackLostTyped ==
  ASSUME MessagesAssumption, TIInv, packLost
  PROVE  TIInv'
<1>1. PICK a \in Seq(Blocks), c \in Nat, m \in Nat \ {0}, k \in Nat \ {0}, q \in Nat, l \in SUBSET Nat :
        snd = [blocks |-> a, curr |-> c, nextMsg |-> m, ack |-> k, seq |-> q, loss |-> l]
  BY DEF TIInv, SndOK
<1>2. /\ c <= Len(a) /\ m <= k + Len(a) /\ k + Len(a) <= MaxPackets + 1 /\ BlocksOK(a)
      /\ 0 \notin l /\ \A i \in l : i <= q
  BY <1>1, SndMade DEF TIInv
<1>3. /\ l # {} /\ LostOffset < Len(a) /\ UNCHANGED <<dropped, rcv, read>>
      /\ snd' = [blocks |-> a, curr |-> c, nextMsg |-> m, ack |-> k, seq |-> q, loss |-> l \ {Least(l)}]
      /\ net' = IF LostOffset < 0 THEN net ELSE net \cup {[kind |-> "data", seq |-> Least(l), block |-> LostBlock]}
  BY <1>1 DEF packLost, Data
<1>4. /\ Least(l) \in Nat \ {0} /\ LostOffset = Least(l) - k
      /\ LostOffset \in 0 .. Len(a) - 1 => LostBlock \in Blocks
  BY <1>1, <1>3, LostBlockIs DEF TIInv
<1>5. SndOK(snd')
  <2>1. l \ {Least(l)} \in SUBSET Nat
    OBVIOUS
  <2> QED
    BY <1>2, <1>3, <2>1, SndMade
<1>6. net' \subseteq Sent
  <2>1. CASE LostOffset < 0
    BY <1>3, <2>1 DEF TIInv
  <2>2. CASE LostOffset >= 0
    <3>1. LostOffset \in 0 .. Len(a) - 1
      BY <1>3, <1>4, <2>2
    <3>2. [kind |-> "data", seq |-> Least(l), block |-> LostBlock] \in Sent
      BY <1>4, <3>1 DEF Sent
    <3>3. ~ (LostOffset < 0)
      BY <3>1
    <3> QED
      BY <1>3, <3>2, <3>3 DEF TIInv
  <2> QED
    BY <1>4, <2>1, <2>2
<1> QED
  BY <1>3, <1>5, <1>6, Primed DEF TIInv

LEMMA PackDropTyped ==
  ASSUME MessagesAssumption, TIInv, packDrop
  PROVE  TIInv'
<1>1. PICK a \in Seq(Blocks), c \in Nat, m \in Nat \ {0}, k \in Nat \ {0}, q \in Nat, l \in SUBSET Nat :
        snd = [blocks |-> a, curr |-> c, nextMsg |-> m, ack |-> k, seq |-> q, loss |-> l]
  BY DEF TIInv, SndOK
<1>2. /\ c <= Len(a) /\ m <= k + Len(a) /\ k + Len(a) <= MaxPackets + 1 /\ BlocksOK(a)
      /\ 0 \notin l /\ \A i \in l : i <= q
  BY <1>1, SndMade DEF TIInv
<1>3. PICK to, c1, q1 : to = DropTo /\ c1 = CurrBehind /\ q1 = IF q < DropTo + 1 THEN DropTo + 1 ELSE q
  OBVIOUS
<1>4. /\ l # {} /\ LostOffset \in 0 .. Len(a) - 1 /\ UNCHANGED <<rcv, read>> /\ dropped' = TRUE
      /\ snd' = [blocks |-> a, curr |-> c1, nextMsg |-> m, ack |-> k, seq |-> q1, loss |-> {o \in l : o > to}]
      /\ net' = net \cup {[kind |-> "drop", msg |-> LostBlock.msg, from |-> Least(l), to |-> to]}
  BY <1>1, <1>3 DEF packDrop, DropRequest
<1>5. /\ Least(l) \in Nat \ {0} /\ LostOffset = Least(l) - k
      /\ LostBlock \in Blocks /\ LostBlock.part <= LostBlock.of
      /\ LostOffset + 1 + LostBlock.of - LostBlock.part <= Len(a)
  BY <1>1, <1>4, LostBlockIs DEF TIInv
<1>6. LostBlock.msg \in Nat /\ LostBlock.part \in Nat /\ LostBlock.of \in Nat /\ LostOffset \in Nat /\ Len(a) \in Nat
  BY <1>4, <1>5, BlocksAre, SMTT(40)
<1>7. Remaining \in Nat \ {0} /\ LostOffset + Remaining <= Len(a)
  BY <1>5, <1>6, SMTT(40) DEF Remaining
<1>8. to \in Nat /\ c1 \in Nat /\ c1 <= Len(a) /\ q1 \in Nat /\ q <= q1
  <2>1. to \in Nat /\ to = Least(l) + Remaining
    BY <1>1, <1>3, <1>5, <1>7, SMTT(40) DEF DropTo
  <2>2. c1 = IF c \in LostOffset + 1 .. LostOffset + Remaining - 1 THEN LostOffset + Remaining ELSE c
    BY <1>1, <1>3 DEF CurrBehind
  <2>3. c1 \in Nat /\ c1 <= Len(a)
    BY <1>2, <1>6, <1>7, <2>2
  <2>4. q1 \in Nat /\ q <= q1
    BY <1>3, <2>1
  <2> QED
    BY <2>1, <2>3, <2>4
<1>9. SndOK(snd')
  <2>1. {o \in l : o > to} \in SUBSET Nat
    OBVIOUS
  <2>2. \A o \in {o \in l : o > to} : o <= q1
    BY <1>2, <1>8
  <2>3. 0 \notin {o \in l : o > to}
    BY <1>2
  <2> QED
    BY <1>2, <1>4, <1>8, <2>1, <2>2, <2>3, SndMade
<1>10. net' \subseteq Sent
  <2>1. [kind |-> "drop", msg |-> LostBlock.msg, from |-> Least(l), to |-> to] \in Sent
    BY <1>5, <1>6, <1>8 DEF Sent
  <2> QED
    BY <1>4, <2>1 DEF TIInv
<1> QED
  BY <1>4, <1>9, <1>10, Primed DEF TIInv

LEMMA ProcessAckTyped ==
  ASSUME MessagesAssumption, TIInv, NEW p \in net, processAck(p)
  PROVE  TIInv'
<1>1. PICK a \in Seq(Blocks), c \in Nat, m \in Nat \ {0}, k \in Nat \ {0}, q \in Nat, l \in SUBSET Nat :
        snd = [blocks |-> a, curr |-> c, nextMsg |-> m, ack |-> k, seq |-> q, loss |-> l]
  BY DEF TIInv, SndOK
<1>2. /\ c <= Len(a) /\ m <= k + Len(a) /\ k + Len(a) <= MaxPackets + 1 /\ BlocksOK(a)
      /\ 0 \notin l /\ \A i \in l : i <= q
  BY <1>1, SndMade DEF TIInv
<1>3. PICK d \in 1 .. c : d = p.seq - k
  BY <1>1 DEF processAck
<1>4. p.seq \in Nat /\ p.seq = k + d
  <2>1. p \in Sent /\ p.kind = "ack"
    BY DEF TIInv, processAck
  <2>2. p.seq \in Nat
    BY <2>1 DEF Sent
  <2> QED
    BY <1>3, <2>2
<1>5. PICK y : y = SubSeq(a, d + 1, Len(a))
  OBVIOUS
<1>6. /\ UNCHANGED <<dropped, rcv, net, read>>
      /\ snd' = [blocks |-> y, curr |-> c - d, nextMsg |-> m, ack |-> k + d, seq |-> q, loss |-> {o \in l : o >= k + d}]
  BY <1>1, <1>3, <1>4, <1>5 DEF processAck
<1>7. y \in Seq(Blocks) /\ Len(y) = Len(a) - d /\ \A i \in 1 .. Len(a) - d : y[i] = a[d + i]
  <2>1. \A i \in d + 1 .. Len(a) : a[i] \in Blocks
    BY ElementOfSeq
  <2>2. \A i \in 1 .. Len(a) - d : (d + 1) + i - 1 = d + i
    OBVIOUS
  <2> QED
    BY <1>2, <1>5, <2>1, <2>2, SubSeqProperties
<1>8. BlocksOK(y)
  <2> SUFFICES ASSUME NEW i \in 1 .. Len(a) - d
               PROVE  y[i] \in Blocks /\ y[i].part <= y[i].of /\ i + y[i].of - y[i].part <= Len(a) - d
    BY <1>7 DEF BlocksOK
  <2>1. d + i \in 1 .. Len(a)
    OBVIOUS
  <2>2. y[i] = a[d + i] /\ a[d + i] \in Blocks
    BY <1>7, <2>1, ElementOfSeq
  <2>3. a[d + i].part <= a[d + i].of /\ (d + i) + a[d + i].of - a[d + i].part <= Len(a)
    BY <1>2, <2>1 DEF BlocksOK
  <2>4. a[d + i].part \in Nat /\ a[d + i].of \in Nat
    BY <2>2, BlocksAre
  <2> QED
    BY <2>2, <2>3, <2>4
<1>9. SndOK(snd')
  <2>0. PICK l1 : l1 = {o \in l : o >= k + d}
    OBVIOUS
  <2>1. l1 \in SUBSET Nat /\ 0 \notin l1 /\ \A o \in l1 : o <= q
    BY <1>2, <2>0
  <2>2. c - d \in Nat
    OBVIOUS
  <2>3. k + d \in Nat \ {0}
    OBVIOUS
  <2>4. c - d <= Len(y) /\ m <= (k + d) + Len(y) /\ (k + d) + Len(y) <= MaxPackets + 1
    <3>1. MaxPackets \in Nat /\ Len(a) \in Nat
      BY DEF MessagesAssumption
    <3> QED
      BY <1>2, <1>7, <3>1
  <2>5. PICK c1 \in Nat, k1 \in Nat \ {0} : c1 = c - d /\ k1 = k + d
    BY <2>2, <2>3
  <2>6. snd' = [blocks |-> y, curr |-> c1, nextMsg |-> m, ack |-> k1, seq |-> q, loss |-> l1]
    BY <1>6, <2>0, <2>5
  <2> QED
    BY <1>7, <1>8, <2>1, <2>4, <2>5, <2>6, SndMade
<1> QED
  BY <1>6, <1>9, Primed DEF TIInv

LEMMA LossTyped ==
  ASSUME MessagesAssumption, TIInv, processNak \/ checkTimers \/ \E p \in 1 .. MaxPackets : timePasses(p)
  PROVE  TIInv'
<1>1. PICK a \in Seq(Blocks), c \in Nat, m \in Nat \ {0}, k \in Nat \ {0}, q \in Nat, l \in SUBSET Nat :
        snd = [blocks |-> a, curr |-> c, nextMsg |-> m, ack |-> k, seq |-> q, loss |-> l]
  BY DEF TIInv, SndOK
<1>2. /\ c <= Len(a) /\ m <= k + Len(a) /\ k + Len(a) <= MaxPackets + 1 /\ BlocksOK(a)
      /\ 0 \notin l /\ \A i \in l : i <= q
  BY <1>1, SndMade DEF TIInv
<1>3. UNCHANGED <<dropped, rcv, net, read>>
  BY DEF processNak, checkTimers, timePasses
<1>4. PICK l1 : /\ snd' = [blocks |-> a, curr |-> c, nextMsg |-> m, ack |-> k, seq |-> q, loss |-> l1]
                /\ l1 = l \cup (rcv.loss \cap (k .. q)) \/ l1 = k .. q \/ l1 = l
  <2>1. CASE processNak
    BY <1>1, <2>1 DEF processNak
  <2>2. CASE checkTimers
    BY <1>1, <2>2 DEF checkTimers
  <2>3. CASE \E p \in 1 .. MaxPackets : timePasses(p)
    BY <1>1, <2>3 DEF timePasses
  <2> QED
    BY <2>1, <2>2, <2>3
<1>5. \A o \in l1 : o \in Nat \ {0} /\ o <= q
  <2> TAKE o \in l1
  <2>1. CASE o \in l
    BY <1>2, <2>1
  <2>2. CASE o \in k .. q
    BY <2>2
  <2> QED
    BY <1>4, <2>1, <2>2
<1>6. SndOK(snd')
  <2>1. l1 \in SUBSET Nat /\ 0 \notin l1 /\ \A o \in l1 : o <= q
    BY <1>5
  <2> QED
    BY <1>2, <1>4, <2>1, SndMade
<1> QED
  BY <1>3, <1>6, Primed DEF TIInv

-----------------------------------------------------------------------------

\* From the end of the acknowledged packets on.
LEMMA Further ==
  ASSUME MessagesAssumption, NEW r, r.start \in Slots, r.ackPos \in Slots, NEW j \in Nat, DataSize(r) + j \in Slots
  PROVE  Rest(r.ackPos + j, RcvSize) = At(r, DataSize(r) + j)
<1>1. PICK a \in 0 .. RcvSize - 1, c \in 0 .. RcvSize - 1, d \in 0 .. RcvSize - 1 :
        /\ a = r.start /\ c = r.ackPos /\ d = DataSize(r)
        /\ d = IF c < a THEN c - a + RcvSize ELSE c - a
  BY Sizes, DataSizeIs
<1>2. RcvSize \in Nat \ {0} /\ d + j \in 0 .. RcvSize - 1
  BY <1>1, Sizes
<1>3. PICK v \in 0 .. RcvSize + RcvSize - 1 : v = c + j
  BY <1>2
<1>4. Rest(v, RcvSize) = IF v < RcvSize THEN v ELSE v - RcvSize
  BY <1>2, Modulo
<1>5. At(r, DataSize(r) + j) = IF a + (d + j) < RcvSize THEN a + (d + j) ELSE a + (d + j) - RcvSize
  BY <1>1, AtIs
<1>6. Rest(r.ackPos + j, RcvSize) = Rest(v, RcvSize)
  BY <1>1, <1>3, Zenon
<1> QED
  BY <1>1, <1>2, <1>3, <1>4, <1>5, <1>6

\* The size after an acknowledgement that moves m_iLastAckPos to the k-th slot.
LEMMA SizeFollows ==
  ASSUME MessagesAssumption, NEW r, NEW z, r.start \in Slots, z.start = r.start, NEW k \in Slots, z.ackPos = At(r, k)
  PROVE  DataSize(z) = k /\ z.ackPos \in Slots
<1>1. z.ackPos \in Slots /\ At(z, k) = At(r, k)
  BY AtIs DEF At
<1>2. DataSize(z) \in Slots /\ At(z, DataSize(z)) = z.ackPos
  BY <1>1, DataSizeIs
<1> QED
  BY <1>1, <1>2, AtIsOneToOne

\* Only the two ends of the ring say where its slots are.
LEMMA OnlyEnds ==
  ASSUME NEW r, NEW z, z.start = r.start, z.ackPos = r.ackPos
  PROVE  DataSize(z) = DataSize(r) /\ \A k : At(z, k) = At(r, k)
BY DEF DataSize, At

\* Members of RcvOK, for facts that cite it.
LEMMA RcvFields ==
  ASSUME MessagesAssumption, RcvOK(rcv)
  PROVE  /\ rcv.unit \in [Slots -> {NULL} \cup [flag : 1 .. 3, block : Blocks]]
         /\ rcv.start \in Slots /\ rcv.ackPos \in Slots /\ rcv.maxPos \in Nat /\ rcv.ack \in Nat \ {0} /\ rcv.seq \in Nat
         /\ rcv.loss \in SUBSET Nat /\ DataSize(rcv) \in Slots /\ DataSize(rcv) \in Nat /\ DataSize(rcv) + rcv.maxPos <= RcvSize - 1
<1>1. rcv.start \in Slots /\ rcv.ackPos \in Slots
  BY DEF RcvOK
<1>2. DataSize(rcv) \in Slots
  BY <1>1, DataSizeIs
<1>3. DataSize(rcv) \in Nat
  BY <1>2, Sizes
<1> QED
  BY <1>2, <1>3 DEF RcvOK

LEMMA PosIs == Pos(0) = At(rcv, 0) /\ \A k : Pos(k) = At(rcv, k)
BY DEF Pos, At, Rest

\* A slot.
Unit == {NULL} \cup [flag : 1 .. 3, block : Blocks]

\* RcvOK of a record whose fields are known, and the fields of one.
LEMMA RcvMade ==
  ASSUME NEW u \in [Slots -> Unit], NEW e \in Slots, NEW c \in Slots, NEW m \in Nat,
         NEW k \in Nat \ {0}, NEW q \in Nat, NEW l \in SUBSET Nat,
         NEW r, r = [unit |-> u, start |-> e, ackPos |-> c, maxPos |-> m, ack |-> k, seq |-> q, loss |-> l],
         DataSize(r) + m <= RcvSize - 1
  PROVE  RcvOK(r)
BY DEF RcvOK, Unit

LEMMA RcvPicked ==
  ASSUME RcvOK(rcv)
  PROVE  \E u \in [Slots -> Unit], e \in Slots, c \in Slots, m \in Nat, k \in Nat \ {0}, q \in Nat, l \in SUBSET Nat :
           rcv = [unit |-> u, start |-> e, ackPos |-> c, maxPos |-> m, ack |-> k, seq |-> q, loss |-> l]
BY DEF RcvOK, Unit

LEMMA SendAckTyped ==
  ASSUME MessagesAssumption, TIInv, sendAck
  PROVE  TIInv'
<1>0. RcvOK(rcv)
  BY DEF TIInv
<1>1. PICK u \in [Slots -> Unit], e \in Slots, c \in Slots, m \in Nat, k \in Nat \ {0}, q \in Nat, l \in SUBSET Nat :
        rcv = [unit |-> u, start |-> e, ackPos |-> c, maxPos |-> m, ack |-> k, seq |-> q, loss |-> l]
  BY <1>0, RcvPicked
<1>2. AckNumber \in Nat
  <2>1. CASE l = {}
    BY <1>1, <2>1 DEF AckNumber
  <2>2. CASE l # {}
    <3>1. Least(l) \in l
      BY <2>2, LeastIsIn
    <3> QED
      BY <1>1, <2>2, <3>1 DEF AckNumber
  <2> QED
    BY <2>1, <2>2
<1>3. PICK n \in Nat \ {0}, b \in Nat : b = AckNumber /\ n = b - k
  BY <1>1, <1>2 DEF sendAck
<1>4. PICK c1, m1 : c1 = Rest(c + n, RcvSize) /\ m1 = IF m > n THEN m - n ELSE 0
  OBVIOUS
<1>5. /\ UNCHANGED <<snd, dropped, read>> /\ net' = net \cup {[kind |-> "ack", seq |-> b]}
      /\ rcv' = [unit |-> u, start |-> e, ackPos |-> c1, maxPos |-> m1, ack |-> b, seq |-> q, loss |-> l]
  <2>1. rcv.ackPos + AckNumber - rcv.ack = c + n
    <3>1. c \in Int
      BY Sizes
    <3> QED
      BY <1>1, <1>3, <3>1
  <2>2. MaxPosAfter(AckNumber - rcv.ack) = m1
    BY <1>1, <1>3, <1>4 DEF MaxPosAfter
  <2>3. c1 = (rcv.ackPos + AckNumber - rcv.ack) % RcvSize
    BY <1>4, <2>1 DEF Rest
  <2> QED
    BY <1>1, <1>3, <2>2, <2>3 DEF sendAck
<1>6. RcvSize \in Nat \ {0} /\ Slots = 0 .. RcvSize - 1
  BY Sizes
<1>7. PICK d \in 0 .. RcvSize - 1 : d = DataSize(rcv) /\ d + m <= RcvSize - 1
  BY <1>0, <1>1, <1>6, RcvFields
<1>8. c1 \in Slots /\ m1 \in Nat
  <2>1. PICK v \in Nat : v = c + n
    BY <1>6
  <2>2. v % RcvSize \in 0 .. RcvSize - 1
    BY <1>6
  <2>3. c1 = v % RcvSize
    BY <1>4, <2>1 DEF Rest
  <2>4. m1 \in Nat
    BY <1>4
  <2> QED
    BY <1>6, <2>2, <2>3, <2>4
<1>9. DataSize(rcv') + m1 <= RcvSize - 1
  <2>1. CASE m > n
    <3>1. d + n \in 0 .. RcvSize - 1 /\ m1 = m - n
      BY <1>4, <1>6, <1>7, <2>1
    <3>2. c1 = At(rcv, d + n)
      BY <1>1, <1>4, <1>6, <1>7, <3>1, Further
    <3>3. DataSize(rcv') = d + n
      BY <1>1, <1>5, <1>6, <3>1, <3>2, SizeFollows
    <3> QED
      BY <1>6, <1>7, <3>1, <3>3
  <2>2. CASE ~ (m > n)
    <3>1. DataSize(rcv') \in 0 .. RcvSize - 1
      BY <1>5, <1>6, <1>8, DataSizeIs
    <3> QED
      BY <1>4, <1>6, <2>2, <3>1
  <2> QED
    BY <2>1, <2>2
<1>10. RcvOK(rcv')
  <2>1. b \in Nat \ {0}
    BY <1>3
  <2> QED
    BY <1>5, <1>8, <1>9, <2>1, RcvMade
<1>11. net' \subseteq Sent
  BY <1>5 DEF TIInv, Sent
<1> QED
  BY <1>5, <1>10, <1>11, Primed DEF TIInv

\* What processData does to the receiver: j is the slot, counted from the start.
TakesIn(p, j, m, u, l, q) ==
  /\ p.kind = "data" /\ p.seq \in Nat /\ p.block \in Blocks
  /\ p.seq >= rcv.ack /\ j = DataSize(rcv) + (p.seq - rcv.ack) /\ j \in Slots /\ j + 2 <= RcvSize
  /\ rcv.maxPos <= m /\ p.seq - rcv.ack <= m /\ DataSize(rcv) + m <= RcvSize - 1
  /\ rcv' = [unit |-> u, start |-> rcv.start, ackPos |-> rcv.ackPos, maxPos |-> m, ack |-> rcv.ack,
             seq |-> q, loss |-> l]
  /\ rcv.unit[At(rcv, j)] # NULL => u = rcv.unit /\ l = rcv.loss /\ q = rcv.seq
  /\ rcv.unit[At(rcv, j)] = NULL =>
       /\ u = [rcv.unit EXCEPT ![At(rcv, j)] = [flag |-> 1, block |-> p.block]]
       /\ l = (rcv.loss \cup (rcv.seq + 1 .. p.seq - 1)) \ {p.seq}
       /\ q = IF p.seq > rcv.seq THEN p.seq ELSE rcv.seq

LEMMA DataStep ==
  ASSUME MessagesAssumption, RcvOK(rcv), NEW p \in Sent, processData(p)
  PROVE  \E j \in Nat, m \in Nat : \E u, l, q : TakesIn(p, j, m, u, l, q)
<1>1. PICK u \in [Slots -> Unit], e \in Slots, c \in Slots, m \in Nat, k \in Nat \ {0}, q \in Nat, l \in SUBSET Nat :
        rcv = [unit |-> u, start |-> e, ackPos |-> c, maxPos |-> m, ack |-> k, seq |-> q, loss |-> l]
  BY RcvPicked
<1>2. p.kind = "data" /\ p.seq \in Nat /\ p.block \in Blocks
  <2>1. p.kind = "data"
    BY DEF processData
  <2> QED
    BY <2>1 DEF Sent
<1>3. PICK s \in Nat, b \in Blocks : s = p.seq /\ b = p.block
  BY <1>2
<1>4. RcvSize \in Nat \ {0} /\ Slots = 0 .. RcvSize - 1
  BY Sizes
<1>5. PICK d \in 0 .. RcvSize - 1 : d = DataSize(rcv) /\ d + m <= RcvSize - 1
  BY <1>1, <1>4, RcvFields
<1>6. AvailBufSize(rcv) - 1 = RcvSize - d - 2
  BY <1>4, <1>5 DEF AvailBufSize
<1>7. PICK o : o = s - k
  OBVIOUS
<1>8. o \in 0 .. RcvSize - d - 2
  <2>1. p.seq - rcv.ack \in 0 .. AvailBufSize(rcv) - 1
    BY DEF processData
  <2> QED
    BY <1>1, <1>3, <1>6, <1>7, <2>1
<1>9. PICK j \in Nat : j = d + o
  BY <1>4, <1>8
<1>10. j \in Slots /\ j + 2 <= RcvSize
  BY <1>4, <1>8, <1>9
<1>11. (rcv.ackPos + (p.seq - rcv.ack)) % RcvSize = At(rcv, j)
  <2>1. Rest(rcv.ackPos + o, RcvSize) = At(rcv, DataSize(rcv) + o)
    <3>1. o \in Nat /\ DataSize(rcv) + o \in Slots /\ rcv.start \in Slots /\ rcv.ackPos \in Slots
      BY <1>1, <1>4, <1>5, <1>8, <1>9, <1>10
    <3> QED
      BY <3>1, Further
  <2> QED
    BY <1>1, <1>3, <1>5, <1>7, <1>9, <2>1 DEF Rest
<1>12. PICK m1 \in Nat : m1 = IF o > m THEN o ELSE m
  BY <1>4, <1>8
<1>13. PICK i : i = At(rcv, j)
  OBVIOUS
<1>14. PICK r : r = [unit |-> u, start |-> e, ackPos |-> c, maxPos |-> m1, ack |-> k, seq |-> q, loss |-> l]
  OBVIOUS
<1>15. r = [rcv EXCEPT !.maxPos = IF o > @ THEN o ELSE @]
  BY <1>1, <1>12, <1>14
<1>16. rcv' = IF r.unit[i] # NULL THEN r
              ELSE [r EXCEPT !.unit[i] = [flag |-> 1, block |-> p.block],
                             !.loss = (@ \cup (rcv.seq + 1 .. p.seq - 1)) \ {p.seq},
                             !.seq = IF p.seq > @ THEN p.seq ELSE @]
  BY <1>1, <1>3, <1>7, <1>11, <1>13, <1>15 DEF processData
<1>17. m <= m1 /\ o <= m1 /\ d + m1 <= RcvSize - 1
  BY <1>4, <1>5, <1>8, <1>12
<1>18. CASE u[i] # NULL
  <2>1. rcv' = r
    BY <1>14, <1>16, <1>18
  <2>2. rcv' = [unit |-> u, start |-> e, ackPos |-> c, maxPos |-> m1, ack |-> k, seq |-> q, loss |-> l]
    BY <1>14, <2>1
  <2>4. /\ rcv.unit[At(rcv, j)] # NULL /\ rcv.unit = u /\ rcv.start = e /\ rcv.ackPos = c /\ rcv.ack = k
        /\ rcv.seq = q /\ rcv.loss = l /\ rcv.maxPos = m
    BY <1>1, <1>13, <1>18
  <2>5. p.seq >= k /\ j = d + (p.seq - k) /\ p.seq - k <= m1
    BY <1>3, <1>4, <1>7, <1>8, <1>9, <1>17
  <2>6. TakesIn(p, j, m1, u, l, q)
    BY <1>2, <1>5, <1>10, <1>13, <1>17, <2>2, <2>4, <2>5 DEF TakesIn
  <2> QED
    BY <2>6
<1>19. CASE u[i] = NULL
  <2>1. rcv' = [unit |-> [u EXCEPT ![i] = [flag |-> 1, block |-> p.block]], start |-> e, ackPos |-> c, maxPos |-> m1,
                ack |-> k, seq |-> IF p.seq > q THEN p.seq ELSE q,
                loss |-> (l \cup (q + 1 .. p.seq - 1)) \ {p.seq}]
    <3>1. r.unit[i] = NULL /\ rcv.seq = q /\ r.seq = q /\ r.loss = l /\ r.unit = u
      BY <1>1, <1>14, <1>19
    <3> QED
      BY <1>14, <1>16, <3>1
  <2>2. PICK u1, l1, q1 : /\ u1 = [u EXCEPT ![i] = [flag |-> 1, block |-> p.block]]
                          /\ l1 = (l \cup (q + 1 .. p.seq - 1)) \ {p.seq}
                          /\ q1 = IF p.seq > q THEN p.seq ELSE q
    OBVIOUS
  <2>3. rcv' = [unit |-> u1, start |-> e, ackPos |-> c, maxPos |-> m1, ack |-> k, seq |-> q1, loss |-> l1]
    BY <2>1, <2>2
  <2>4. /\ rcv.unit[At(rcv, j)] = NULL /\ rcv.unit = u /\ rcv.start = e /\ rcv.ackPos = c /\ rcv.ack = k
        /\ rcv.seq = q /\ rcv.loss = l /\ rcv.maxPos = m
    BY <1>1, <1>13, <1>19
  <2>5. p.seq >= k /\ j = d + (p.seq - k) /\ p.seq - k <= m1
    BY <1>3, <1>4, <1>7, <1>8, <1>9, <1>17
  <2>6. TakesIn(p, j, m1, u1, l1, q1)
    BY <1>2, <1>5, <1>10, <1>13, <1>17, <2>2, <2>3, <2>4, <2>5 DEF TakesIn
  <2> QED
    BY <2>6
<1> QED
  BY <1>18, <1>19

LEMMA ProcessDataTyped ==
  ASSUME MessagesAssumption, TIInv, NEW p \in net, processData(p)
  PROVE  TIInv'
<1>0. RcvOK(rcv) /\ p \in Sent
  BY DEF TIInv
<1>1. PICK j \in Nat, m \in Nat : \E u, l, q : TakesIn(p, j, m, u, l, q)
  BY <1>0, DataStep
<1>2. PICK u, l, q : TakesIn(p, j, m, u, l, q)
  BY <1>1
<1>3.      /\ p.kind = "data" /\ p.seq \in Nat /\ p.block \in Blocks
           /\ p.seq >= rcv.ack /\ j = DataSize(rcv) + (p.seq - rcv.ack) /\ j \in Slots /\ j + 2 <= RcvSize
           /\ rcv.maxPos <= m /\ p.seq - rcv.ack <= m /\ DataSize(rcv) + m <= RcvSize - 1
           /\ rcv' = [unit |-> u, start |-> rcv.start, ackPos |-> rcv.ackPos, maxPos |-> m, ack |-> rcv.ack,
                      seq |-> q, loss |-> l]
           /\ rcv.unit[At(rcv, j)] # NULL => u = rcv.unit /\ l = rcv.loss /\ q = rcv.seq
           /\ rcv.unit[At(rcv, j)] = NULL =>
                /\ u = [rcv.unit EXCEPT ![At(rcv, j)] = [flag |-> 1, block |-> p.block]]
                /\ l = (rcv.loss \cup (rcv.seq + 1 .. p.seq - 1)) \ {p.seq}
                /\ q = IF p.seq > rcv.seq THEN p.seq ELSE rcv.seq
  BY <1>2 DEF TakesIn
<1>4. rcv.unit \in [Slots -> Unit] /\ rcv.start \in Slots /\ rcv.ackPos \in Slots /\ rcv.ack \in Nat \ {0}
      /\ rcv.seq \in Nat /\ rcv.loss \in SUBSET Nat
  BY <1>0, RcvFields DEF Unit
<1>5. u \in [Slots -> Unit]
  <2>1. [flag |-> 1, block |-> p.block] \in Unit
    BY <1>3 DEF Unit
  <2> QED
    BY <1>3, <1>4, <2>1
<1>6. q \in Nat
  BY <1>3, <1>4
<1>7. l \in SUBSET Nat
  BY <1>3, <1>4
<1>8. DataSize(rcv') = DataSize(rcv)
  BY <1>3, OnlyEnds
<1>9. RcvOK(rcv')
  BY <1>3, <1>4, <1>5, <1>6, <1>7, <1>8, RcvMade
<1>10. UNCHANGED <<snd, dropped, net, read>>
  BY DEF processData
<1> QED
  BY <1>9, <1>10, Primed DEF TIInv

LEMMA ProcessDropTyped ==
  ASSUME MessagesAssumption, TIInv, NEW p \in net, processDrop(p)
  PROVE  TIInv'
<1>0. RcvOK(rcv)
  BY DEF TIInv
<1>1. PICK u \in [Slots -> Unit], e \in Slots, c \in Slots, m \in Nat, k \in Nat \ {0}, q \in Nat, l \in SUBSET Nat :
        rcv = [unit |-> u, start |-> e, ackPos |-> c, maxPos |-> m, ack |-> k, seq |-> q, loss |-> l]
  BY <1>0, RcvPicked
<1>2. p.msg \in Nat /\ p.from \in Nat /\ p.to \in Nat
  <2>1. p.kind = "drop" /\ p \in Sent
    BY DEF processDrop, TIInv
  <2> QED
    BY <2>1 DEF Sent
<1>3. PICK M : M = Marked(p.msg)
  OBVIOUS
<1>4. PICK u1, q1 : /\ u1 = [i \in Slots |-> IF i \in M THEN [u[i] EXCEPT !.flag = 3] ELSE u[i]]
                    /\ q1 = IF p.from <= q + 1 /\ p.to > q THEN p.to ELSE q
  OBVIOUS
<1>5. /\ UNCHANGED <<snd, dropped, net, read>>
      /\ rcv' = [unit |-> u1, start |-> e, ackPos |-> c, maxPos |-> m, ack |-> k, seq |-> q1, loss |-> l \ (p.from .. p.to)]
  BY <1>1, <1>3, <1>4 DEF processDrop
<1>6. \A i \in M : u[i] # NULL
  BY <1>1, <1>3, PosIs DEF Marked
<1>7. u1 \in [Slots -> Unit]
  <2>1. ASSUME NEW i \in Slots, i \in M
        PROVE  [u[i] EXCEPT !.flag = 3] \in Unit
    <3>1. u[i] \in [flag : 1 .. 3, block : Blocks]
      BY <1>6, <2>1 DEF Unit
    <3>2. [u[i] EXCEPT !.flag = 3] \in [flag : 1 .. 3, block : Blocks]
      BY <3>1
    <3> QED
      BY <3>2 DEF Unit
  <2>2. \A i \in Slots : u[i] \in Unit
    OBVIOUS
  <2>3. \A i \in Slots : (IF i \in M THEN [u[i] EXCEPT !.flag = 3] ELSE u[i]) \in Unit
    BY <2>1, <2>2
  <2> QED
    BY <1>4, <2>3
<1>8. DataSize(rcv') + m <= RcvSize - 1
  <2>1. DataSize(rcv') = DataSize(rcv)
    BY <1>1, <1>5, OnlyEnds
  <2>2. DataSize(rcv) + m <= RcvSize - 1
    BY <1>0, <1>1, RcvFields
  <2> QED
    BY <2>1, <2>2
<1>9. RcvOK(rcv')
  <2>1. q1 \in Nat
    BY <1>2, <1>4
  <2>2. l \ (p.from .. p.to) \in SUBSET Nat
    OBVIOUS
  <2> QED
    BY <1>5, <1>7, <1>8, <2>1, <2>2, RcvMade
<1> QED
  BY <1>5, <1>9, Primed DEF TIInv

-----------------------------------------------------------------------------
(* What recvmsg finds.                                                       *)

\* Where the skipping of scanMsg ends.
LEMMA SkippedIs ==
  ASSUME MessagesAssumption, RcvOK(rcv)
  PROVE  /\ Skipped \in 0 .. DataSize(rcv) /\ (Skipped = DataSize(rcv) \/ Good(Skipped, DataSize(rcv)))
         /\ \A k \in 0 .. DataSize(rcv) : k < Skipped => ~ Good(k, DataSize(rcv))
<1>1. PICK d \in Nat : d = DataSize(rcv)
  BY RcvFields
<1>2. PICK S : S = {k \in 0 .. d : k = d \/ Good(k, d)}
  OBVIOUS
<1>3. S \in SUBSET Nat /\ d \in S
  BY <1>2
<1>4. Skipped = Least(S)
  BY <1>1, <1>2 DEF Skipped
<1>5. Least(S) \in S /\ \A o \in S : Least(S) <= o
  BY <1>3, LeastIsIn
<1>6. PICK m : m = Least(S)
  OBVIOUS
<1>7. m \in S /\ \A o \in S : m <= o
  BY <1>5, <1>6
<1>8. m \in 0 .. d /\ (m = d \/ Good(m, d))
  BY <1>2, <1>7
<1>9. \A k \in 0 .. d : k < m => ~ Good(k, d)
  <2> SUFFICES ASSUME NEW k \in 0 .. d, k < m, Good(k, d)
               PROVE  FALSE
    OBVIOUS
  <2>1. k \in S
    BY <1>2
  <2>2. m <= k
    BY <1>7, <2>1
  <2> QED
    BY <1>8, <2>2
<1> QED
  BY <1>1, <1>4, <1>6, <1>8, <1>9

\* The message that is returned is in the slots p to q.
Found(p, q) ==
  /\ q \in Slots /\ p \in Slots /\ Skipped <= p /\ p <= q
  /\ Tails(Block(q)) /\ Takeable(q) /\ Block(p).part = 1
  /\ \A i \in p .. q : i \in Slots /\ Readable(i)
  /\ \A h \in Skipped .. q : Block(h).part = 1 /\ (\A i \in h .. q : Readable(i)) => h <= p
  /\ \A k \in Skipped .. q - 1 :
       k \in Slots /\ ~ (Readable(k) /\ Tails(Block(k)) /\ Takeable(k) /\ Heads(k) # {})

\* What scanMsg finds first.
LEMMA FirstIsFound ==
  ASSUME MessagesAssumption, RcvOK(rcv), Complete # {}
  PROVE  Found(Greatest(Heads(Least(Complete))), Least(Complete))
<1>1. PICK d \in 0 .. RcvSize - 1, m \in Nat : d = DataSize(rcv) /\ m = rcv.maxPos /\ d + m <= RcvSize - 1
  BY Sizes, RcvFields
<1>2. RcvSize \in Nat /\ Slots = 0 .. RcvSize - 1
  BY Sizes
<1>3. PICK e \in 0 .. d : e = Skipped
  BY <1>1, SkippedIs
<1>4. PICK C : C = Complete
  OBVIOUS
<1>5. C = {k \in e .. d + m : Readable(k) /\ Tails(Block(k)) /\ Takeable(k) /\ Heads(k) # {}}
  BY <1>1, <1>3, <1>4 DEF Complete
<1>6. C \in SUBSET Nat
  BY <1>2, <1>5
<1>7. Least(C) \in C /\ \A o \in C : Least(C) <= o
  BY <1>4, <1>6, LeastIsIn
<1>8. PICK q \in C : q = Least(C) /\ \A o \in C : q <= o
  BY <1>7
<1>9. q \in e .. d + m /\ Readable(q) /\ Tails(Block(q)) /\ Takeable(q) /\ Heads(q) # {}
  BY <1>5, <1>8
<1>10. q \in Nat /\ q \in Slots /\ \A i \in e .. q : i \in Slots
  BY <1>1, <1>2, <1>9
<1>11. PICK H : H = Heads(q)
  OBVIOUS
<1>12. H = {h \in e .. q : (\A i \in h .. q : Readable(i)) /\ Block(h).part = 1}
  BY <1>3, <1>11 DEF Heads
<1>13. H \in SUBSET (e .. q) /\ H # {}
  BY <1>9, <1>11, <1>12
<1>14. Greatest(H) \in H /\ \A o \in H : o <= Greatest(H)
  <2>1. e \in Int /\ q \in Int
    BY <1>10
  <2> QED
    BY <1>13, <2>1, GreatestIsIn
<1>15. PICK p \in H : p = Greatest(H) /\ \A o \in H : o <= p
  BY <1>14
<1>16. p \in e .. q /\ (\A i \in p .. q : Readable(i)) /\ Block(p).part = 1
  BY <1>12, <1>15
<1>17. \A h \in e .. q : Block(h).part = 1 /\ (\A i \in h .. q : Readable(i)) => h <= p
  BY <1>12, <1>15
<1>18. \A k \in e .. q - 1 : k \in Slots /\ ~ (Readable(k) /\ Tails(Block(k)) /\ Takeable(k) /\ Heads(k) # {})
  <2> SUFFICES ASSUME NEW k \in e .. q - 1
               PROVE  k \in Slots /\ ~ (Readable(k) /\ Tails(Block(k)) /\ Takeable(k) /\ Heads(k) # {})
    OBVIOUS
  <2>1. k \in e .. q /\ k \in e .. d + m /\ ~ (q <= k)
    BY <1>1, <1>9, <1>10
  <2>2. k \notin C
    BY <1>8, <2>1
  <2> QED
    BY <1>5, <1>10, <2>1, <2>2
<1>19. p \in Slots /\ e <= p /\ p <= q /\ \A i \in p .. q : i \in Slots
  BY <1>10, <1>16
<1>20. Found(p, q)
  BY <1>3, <1>9, <1>10, <1>16, <1>17, <1>18, <1>19 DEF Found
<1> QED
  BY <1>4, <1>8, <1>11, <1>15, <1>20

\* Slots given back and slots marked, counted from the start.
LEMMA EmptiedIs ==
  ASSUME MessagesAssumption, rcv.start \in Slots, NEW u \in [Slots -> Unit], NEW K \in SUBSET Slots
  PROVE  /\ Emptied(u, K) \in [Slots -> Unit]
         /\ \A k \in Slots : Emptied(u, K)[At(rcv, k)] = IF k \in K THEN NULL ELSE u[At(rcv, k)]
<1>1. PICK v : v = Emptied(u, K)
  OBVIOUS
<1>2. v = [i \in Slots |-> IF \E k \in K : i = At(rcv, k) THEN NULL ELSE u[i]]
  BY <1>1, PosIs DEF Emptied
<1>3. v \in [Slots -> Unit]
  BY <1>2 DEF Unit
<1>4. ASSUME NEW k \in Slots
      PROVE  v[At(rcv, k)] = IF k \in K THEN NULL ELSE u[At(rcv, k)]
  <2>1. At(rcv, k) \in Slots
    BY AtIs
  <2>2. (\E o \in K : At(rcv, k) = At(rcv, o)) <=> k \in K
    BY AtIsOneToOne
  <2> QED
    BY <1>2, <2>1, <2>2
<1> QED
  BY <1>1, <1>3, <1>4

LEMMA AheadIs ==
  ASSUME MessagesAssumption, rcv.start \in Slots, NEW u \in [Slots -> Unit], NEW K \in SUBSET Slots,
         \A k \in K : u[At(rcv, k)] # NULL
  PROVE  /\ Ahead(u, K) \in [Slots -> Unit]
         /\ \A k \in Slots : Ahead(u, K)[At(rcv, k)] = IF k \in K THEN [flag |-> 2, block |-> u[At(rcv, k)].block]
                                                       ELSE u[At(rcv, k)]
<1>1. PICK v : v = Ahead(u, K)
  OBVIOUS
<1>2. v = [i \in Slots |-> IF \E k \in K : i = At(rcv, k) THEN [u[i] EXCEPT !.flag = 2] ELSE u[i]]
  BY <1>1, PosIs DEF Ahead
<1>3. ASSUME NEW k \in Slots
      PROVE  /\ v[At(rcv, k)] = IF k \in K THEN [flag |-> 2, block |-> u[At(rcv, k)].block] ELSE u[At(rcv, k)]
             /\ v[At(rcv, k)] \in Unit
  <2>1. At(rcv, k) \in Slots
    BY AtIs
  <2>2. (\E o \in K : At(rcv, k) = At(rcv, o)) <=> k \in K
    BY AtIsOneToOne
  <2>3. u[At(rcv, k)] \in Unit
    BY <2>1
  <2>4. CASE k \in K
    <3>1. PICK w \in [flag : 1 .. 3, block : Blocks] : w = u[At(rcv, k)]
      BY <2>3, <2>4 DEF Unit
    <3>2. [w EXCEPT !.flag = 2] = [flag |-> 2, block |-> w.block] /\ [flag |-> 2, block |-> w.block] \in Unit
      BY DEF Unit
    <3>3. v[At(rcv, k)] = [u[At(rcv, k)] EXCEPT !.flag = 2]
      BY <1>2, <2>1, <2>2, <2>4
    <3> QED
      BY <2>4, <3>1, <3>2, <3>3
  <2>5. CASE k \notin K
    BY <1>2, <2>1, <2>2, <2>3, <2>5
  <2> QED
    BY <2>4, <2>5
<1>4. \A i \in Slots : v[i] \in Unit
  BY <1>3, AtIsOneToOne
<1>5. v \in [Slots -> Unit]
  BY <1>2, <1>4
<1> QED
  BY <1>1, <1>3, <1>5

\* The three outcomes of recvmsg.  d slots are given back to the ring, u is what is left.
GivesBack(d, u) ==
  /\ d = Skipped /\ UNCHANGED read
  /\ \A k \in Slots : u[At(rcv, k)] = IF k < d THEN NULL ELSE rcv.unit[At(rcv, k)]

\* The slots p to q are returned: taken out, or marked as read.
Returns(p, q) == Found(p, q) /\ read' = Append(read, [i \in 1 .. q - p + 1 |-> Block(p + i - 1)])

TakesOut(d, u, p, q) ==
  /\ q < DataSize(rcv) /\ d = q + 1
  /\ \A k \in Slots : u[At(rcv, k)] = IF k < Skipped \/ k \in p .. q THEN NULL ELSE rcv.unit[At(rcv, k)]

Marks(d, u, p, q) ==
  /\ q >= DataSize(rcv) /\ d = Skipped
  /\ \A k \in Slots : u[At(rcv, k)] =
       IF k < d THEN NULL
       ELSE IF k \in p .. q THEN [flag |-> 2, block |-> rcv.unit[At(rcv, k)].block]
       ELSE rcv.unit[At(rcv, k)]

\* What recvmsg does to the receiver.
LEMMA RecvStep ==
  ASSUME MessagesAssumption, RcvOK(rcv), recvmsg
  PROVE  \E d \in Slots, u \in [Slots -> Unit] :
           /\ d <= DataSize(rcv)
           /\ rcv' = [unit |-> u, start |-> At(rcv, d), ackPos |-> rcv.ackPos, maxPos |-> rcv.maxPos,
                      ack |-> rcv.ack, seq |-> rcv.seq, loss |-> rcv.loss]
           /\ \/ GivesBack(d, u)
              \/ \E p, q \in Slots : Returns(p, q) /\ (TakesOut(d, u, p, q) \/ Marks(d, u, p, q))
<1>1. PICK u \in [Slots -> Unit], e \in Slots, c \in Slots, m \in Nat, k \in Nat \ {0}, n \in Nat, l \in SUBSET Nat :
        rcv = [unit |-> u, start |-> e, ackPos |-> c, maxPos |-> m, ack |-> k, seq |-> n, loss |-> l]
  BY RcvPicked
<1>2. RcvSize \in Nat /\ Slots = 0 .. RcvSize - 1
  BY Sizes
<1>3. PICK z \in 0 .. RcvSize - 1, s \in 0 .. RcvSize - 1 : z = DataSize(rcv) /\ s = Skipped /\ s <= z
  BY <1>2, RcvFields, SkippedIs
<1>4. PICK v : v = Emptied(u, 0 .. s - 1)
  OBVIOUS
<1>5. 0 .. s - 1 \in SUBSET Slots /\ \A j \in Slots : j \in 0 .. s - 1 <=> j < s
  BY <1>2, <1>3
<1>6. v \in [Slots -> Unit] /\ \A j \in Slots : v[At(rcv, j)] = IF j < s THEN NULL ELSE u[At(rcv, j)]
  BY <1>1, <1>4, <1>5, EmptiedIs
<1>7. PICK q, p : q = Least(Complete) /\ p = Greatest(Heads(q))
  OBVIOUS
<1>8. Complete # {} => Found(p, q)
  BY <1>7, FirstIsFound
<1>9. /\ Complete = {} => /\ UNCHANGED read
                          /\ rcv' = [rcv EXCEPT !.unit = v, !.start = At(rcv, s)]
      /\ Complete # {} =>
           /\ rcv' = IF q < z THEN [rcv EXCEPT !.unit = Emptied(v, p .. q), !.start = At(rcv, q + 1)]
                     ELSE [rcv EXCEPT !.unit = Ahead(v, p .. q), !.start = At(rcv, s)]
           /\ read' = Append(read, [i \in 1 .. q - p + 1 |-> Block(p + i - 1)])
  BY <1>1, <1>3, <1>4, <1>7, PosIs DEF recvmsg
<1>10. CASE Complete = {}
  <2>1. rcv' = [unit |-> v, start |-> At(rcv, s), ackPos |-> c, maxPos |-> m, ack |-> k, seq |-> n, loss |-> l]
    BY <1>1, <1>9, <1>10
  <2>2. s \in Slots /\ s <= DataSize(rcv) /\ s = Skipped /\ UNCHANGED read
    BY <1>2, <1>3, <1>9, <1>10
  <2>3. \A j \in Slots : v[At(rcv, j)] = IF j < s THEN NULL ELSE rcv.unit[At(rcv, j)]
    BY <1>1, <1>6
  <2>4. /\ rcv.ackPos = c /\ rcv.ack = k /\ rcv.seq = n /\ rcv.loss = l /\ rcv.maxPos = m
    BY <1>1
  <2>5. GivesBack(s, v)
    BY <2>2, <2>3 DEF GivesBack
  <2> QED
    BY <1>6, <2>1, <2>2, <2>4, <2>5
<1>11. CASE Complete # {} /\ q < z
  <2>1. PICK y : y = Emptied(v, p .. q)
    OBVIOUS
  <2>2. rcv' = [unit |-> y, start |-> At(rcv, q + 1), ackPos |-> c, maxPos |-> m, ack |-> k, seq |-> n, loss |-> l]
    BY <1>1, <1>9, <1>11, <2>1
  <2>3. Found(p, q) /\ p .. q \in SUBSET Slots /\ p \in Slots /\ q \in Slots
    BY <1>8, <1>11 DEF Found
  <2>4. /\ y \in [Slots -> Unit]
        /\ \A j \in Slots : y[At(rcv, j)] = IF j \in p .. q THEN NULL ELSE v[At(rcv, j)]
    <3>1. PICK K \in SUBSET Slots : K = p .. q
      BY <2>3
    <3>2. rcv.start \in Slots /\ y = Emptied(v, K)
      BY <1>1, <2>1, <3>1
    <3>3. /\ y \in [Slots -> Unit]
          /\ \A j \in Slots : y[At(rcv, j)] = IF j \in K THEN NULL ELSE v[At(rcv, j)]
      BY <1>6, <3>2, EmptiedIs
    <3> QED
      BY <3>1, <3>3
  <2>5. \A j \in Slots : y[At(rcv, j)] = IF j < Skipped \/ j \in p .. q THEN NULL ELSE rcv.unit[At(rcv, j)]
    BY <1>1, <1>3, <1>6, <2>4
  <2>6. PICK d \in Slots : d = q + 1 /\ d <= DataSize(rcv) /\ q < DataSize(rcv)
    BY <1>2, <1>3, <1>11, <2>3
  <2>7. rcv.ackPos = c /\ rcv.ack = k /\ rcv.seq = n /\ rcv.loss = l /\ rcv.maxPos = m
    BY <1>1
  <2>8. read' = Append(read, [i \in 1 .. q - p + 1 |-> Block(p + i - 1)])
    BY <1>9, <1>11
  <2>9. /\ d \in Slots /\ y \in [Slots -> Unit] /\ d <= DataSize(rcv)
        /\ rcv' = [unit |-> y, start |-> At(rcv, d), ackPos |-> rcv.ackPos, maxPos |-> rcv.maxPos,
                      ack |-> rcv.ack, seq |-> rcv.seq, loss |-> rcv.loss]
    BY <2>2, <2>4, <2>6, <2>7
  <2>10. Returns(p, q) /\ TakesOut(d, y, p, q)
    BY <2>3, <2>5, <2>6, <2>8 DEF Returns, TakesOut
  <2> QED
    BY <2>3, <2>9, <2>10
<1>12. CASE Complete # {} /\ ~ (q < z)
  <2>1. PICK y : y = Ahead(v, p .. q)
    OBVIOUS
  <2>2. rcv' = [unit |-> y, start |-> At(rcv, s), ackPos |-> c, maxPos |-> m, ack |-> k, seq |-> n, loss |-> l]
    BY <1>1, <1>9, <1>12, <2>1
  <2>3. Found(p, q) /\ p .. q \in SUBSET Slots /\ p \in Slots /\ q \in Slots /\ s <= p
    BY <1>3, <1>8, <1>12 DEF Found
  <2>4. ASSUME NEW j \in p .. q
        PROVE  j \in Slots /\ u[At(rcv, j)] # NULL /\ v[At(rcv, j)] # NULL
    <3>1. j \in Slots /\ Readable(j)
      BY <2>3 DEF Found
    <3>2. u[At(rcv, j)] # NULL
      BY <1>1, <3>1, PosIs DEF Readable
    <3>3. ~ (j < s)
      BY <1>2, <1>3, <2>3, <3>1
    <3> QED
      BY <1>6, <3>1, <3>2, <3>3
  <2>5. /\ y \in [Slots -> Unit]
        /\ \A j \in Slots : y[At(rcv, j)] = IF j \in p .. q THEN [flag |-> 2, block |-> v[At(rcv, j)].block]
                                            ELSE v[At(rcv, j)]
    <3>1. PICK K \in SUBSET Slots : K = p .. q
      BY <2>3
    <3>2. rcv.start \in Slots /\ (\A j \in K : v[At(rcv, j)] # NULL) /\ y = Ahead(v, K)
      BY <1>1, <2>1, <2>4, <3>1
    <3>3. /\ y \in [Slots -> Unit]
          /\ \A j \in Slots : y[At(rcv, j)] = IF j \in K THEN [flag |-> 2, block |-> v[At(rcv, j)].block]
                                              ELSE v[At(rcv, j)]
      BY <1>6, <3>2, AheadIs
    <3> QED
      BY <3>1, <3>3
  <2>6. ASSUME NEW j \in Slots
        PROVE  y[At(rcv, j)] = IF j < s THEN NULL ELSE IF j \in p .. q
                               THEN [flag |-> 2, block |-> rcv.unit[At(rcv, j)].block] ELSE rcv.unit[At(rcv, j)]
    <3>1. j < s => j \notin p .. q
      BY <1>2, <1>3, <2>3
    <3>2. rcv.unit = u
      BY <1>1
    <3> QED
      BY <1>6, <2>5, <3>1, <3>2
  <2>7. s \in Slots /\ s <= DataSize(rcv) /\ s = Skipped /\ q >= DataSize(rcv)
    BY <1>2, <1>3, <1>12, <2>3
  <2>8. rcv.ackPos = c /\ rcv.ack = k /\ rcv.seq = n /\ rcv.loss = l /\ rcv.maxPos = m
    BY <1>1
  <2>9. read' = Append(read, [i \in 1 .. q - p + 1 |-> Block(p + i - 1)])
    BY <1>9, <1>12
  <2>10. /\ rcv' = [unit |-> y, start |-> At(rcv, s), ackPos |-> rcv.ackPos, maxPos |-> rcv.maxPos,
                      ack |-> rcv.ack, seq |-> rcv.seq, loss |-> rcv.loss]
    BY <2>2, <2>8
  <2>11. PICK d \in Slots : d = s
    BY <2>7
  <2>12. /\ q >= DataSize(rcv) /\ d = Skipped
         /\ \A j \in Slots : y[At(rcv, j)] = IF j < d THEN NULL
                                             ELSE IF j \in p .. q
                                             THEN [flag |-> 2, block |-> rcv.unit[At(rcv, j)].block]
                                             ELSE rcv.unit[At(rcv, j)]
    BY <2>6, <2>7, <2>11
  <2>13. /\ d \in Slots /\ y \in [Slots -> Unit] /\ d <= DataSize(rcv)
         /\ rcv' = [unit |-> y, start |-> At(rcv, d), ackPos |-> rcv.ackPos, maxPos |-> rcv.maxPos,
                      ack |-> rcv.ack, seq |-> rcv.seq, loss |-> rcv.loss]
    BY <2>5, <2>7, <2>10, <2>11
  <2>14. Returns(p, q) /\ Marks(d, y, p, q)
    BY <2>3, <2>9, <2>12 DEF Returns, Marks
  <2> QED
    BY <2>3, <2>13, <2>14
<1> QED
  BY <1>10, <1>11, <1>12

LEMMA RecvmsgTyped ==
  ASSUME MessagesAssumption, TIInv, recvmsg
  PROVE  TIInv'
<1>0. RcvOK(rcv)
  BY DEF TIInv
<1>1. PICK d \in Slots, u \in [Slots -> Unit] :
           /\ d <= DataSize(rcv)
           /\ rcv' = [unit |-> u, start |-> At(rcv, d), ackPos |-> rcv.ackPos, maxPos |-> rcv.maxPos,
                      ack |-> rcv.ack, seq |-> rcv.seq, loss |-> rcv.loss]
           /\ \/ UNCHANGED read
              \/ \E p, q \in Slots : /\ Found(p, q)
                                     /\ read' = Append(read, [i \in 1 .. q - p + 1 |-> Block(p + i - 1)])
  BY <1>0, RecvStep DEF GivesBack, Returns
<1>2. RcvOK(rcv')
  <2>1. DataSize(rcv') = DataSize(rcv) - d
    BY <1>0, <1>1, RcvFields, Onward
  <2>2. DataSize(rcv') + rcv.maxPos <= RcvSize - 1
    <3>1. PICK z \in Nat, b \in Nat, m \in Nat : z = DataSize(rcv) /\ b = d /\ m = rcv.maxPos /\ z + m <= RcvSize - 1
      BY <1>0, RcvFields, Sizes
    <3>2. RcvSize \in Nat
      BY Sizes
    <3> QED
      BY <2>1, <3>1, <3>2
  <2>3. At(rcv, d) \in Slots
    BY <1>0, RcvFields, AtIs
  <2> QED
    BY <1>0, <1>1, <2>2, <2>3, RcvFields, RcvMade
<1>3. read' \in Seq(Seq(Blocks))
  <2>1. CASE UNCHANGED read
    BY <2>1 DEF TIInv
  <2>2. ASSUME NEW p \in Slots, NEW q \in Slots, Found(p, q),
               read' = Append(read, [i \in 1 .. q - p + 1 |-> Block(p + i - 1)])
        PROVE  read' \in Seq(Seq(Blocks))
    <3>1. PICK f : f = [i \in 1 .. q - p + 1 |-> Block(p + i - 1)]
      OBVIOUS
    <3>2. PICK a \in Nat, b \in Nat : a = p /\ b = q /\ a <= b
      BY <2>2, Sizes DEF Found
    <3>3. \A i \in 1 .. b - a + 1 : Block(a + i - 1) \in Blocks
      <4> SUFFICES ASSUME NEW i \in 1 .. b - a + 1
                   PROVE  Block(a + i - 1) \in Blocks
        OBVIOUS
      <4>1. a + i - 1 \in a .. b
        BY <3>2
      <4>2. PICK j \in a .. b : j = a + i - 1
        BY <4>1
      <4>3. j \in Slots /\ Readable(j)
        BY <2>2, <3>2 DEF Found
      <4>4. rcv.unit[At(rcv, j)] # NULL /\ At(rcv, j) \in Slots
        BY <1>0, <4>3, PosIs, AtIs, RcvFields DEF Readable
      <4>5. rcv.unit[At(rcv, j)].block \in Blocks
        BY <1>0, <4>4, RcvFields, UnitIs
      <4> QED
        BY <4>2, <4>5, PosIs DEF Block
    <3>4. f \in [1 .. b - a + 1 -> Blocks] /\ b - a + 1 \in Nat
      <4>1. f = [i \in 1 .. b - a + 1 |-> Block(a + i - 1)]
        BY <3>1, <3>2
      <4>2. f \in [1 .. b - a + 1 -> Blocks]
        BY <3>3, <4>1
      <4> QED
        BY <3>2, <4>2
    <3>5. f \in Seq(Blocks)
      BY <3>4
    <3> QED
      BY <2>2, <3>1, <3>5 DEF TIInv
  <2> QED
    BY <1>1, <2>1, <2>2
<1>4. UNCHANGED <<snd, dropped, net>>
  BY DEF recvmsg
<1> QED
  BY <1>2, <1>3, <1>4, Primed DEF TIInv

\* The types are an invariant.
LEMMA TypesInvariance ==
  ASSUME MessagesAssumption
  PROVE  Spec => []TIInv
<1>1. Init => TIInv
  BY TypesInit
<1>2. TIInv /\ [Next]_msgVars => TIInv'
  <2> SUFFICES ASSUME TIInv, [Next]_msgVars
               PROVE  TIInv'
    OBVIOUS
  <2>1. ASSUME NEW n \in 1 .. MaxSize, NEW o \in BOOLEAN, sendmsg(n, o)
        PROVE  TIInv'
    BY <2>1, SndmsgTyped
  <2>2. CASE packNew
    BY <2>2, PackNewTyped
  <2>3. CASE packLost
    BY <2>3, PackLostTyped
  <2>4. CASE packDrop
    BY <2>4, PackDropTyped
  <2>5. CASE processNak \/ checkTimers \/ \E p \in 1 .. MaxPackets : timePasses(p)
    BY <2>5, LossTyped
  <2>6. ASSUME NEW m \in net, processAck(m)
        PROVE  TIInv'
    BY <2>6, ProcessAckTyped
  <2>7. ASSUME NEW m \in net, processData(m)
        PROVE  TIInv'
    BY <2>7, ProcessDataTyped
  <2>8. ASSUME NEW m \in net, processDrop(m)
        PROVE  TIInv'
    BY <2>8, ProcessDropTyped
  <2>9. CASE sendAck
    BY <2>9, SendAckTyped
  <2>10. CASE recvmsg
    BY <2>10, RecvmsgTyped
  <2>11. CASE UNCHANGED msgVars
    BY <2>11, Primed DEF msgVars, TIInv
  <2> QED
    BY <2>1, <2>2, <2>3, <2>4, <2>5, <2>6, <2>7, <2>8, <2>9, <2>10, <2>11 DEF Next
<1> QED
  BY <1>1, <1>2, PTL DEF Spec

-----------------------------------------------------------------------------
(* While nothing has been dropped.  B is all that has been written: the block *)
(* with number s is B[s].                                                     *)

\* The number of the last block.
Last(x) == x.ack + Len(x.blocks) - 1

\* Messages are whole, are numbered, and come one behind the other.
Whole(B, n) ==
  \A s \in 1 .. n :
    /\ B[s] \in Blocks /\ B[s].part <= B[s].of /\ B[s].part <= s /\ s + B[s].of - B[s].part <= n
    /\ \A p \in 1 .. B[s].of : B[s - B[s].part + p] = [B[s] EXCEPT !.part = p]
    /\ \A t \in 1 .. n : /\ s <= t => B[s].msg <= B[t].msg
                         /\ B[s].msg = B[t].msg => s - B[s].part = t - B[t].part

\* What the sender holds is the end of it.
HoldsEnd(B, x) ==
  /\ \A s \in 1 .. Last(x) : B[s].msg < x.nextMsg
  /\ \A i \in 1 .. Len(x.blocks) : x.blocks[i] = B[x.ack + i - 1]
  /\ x.seq = x.ack + x.curr - 1
  /\ \A o \in x.loss : x.ack <= o

\* A packet is the block with its number.
Carries(B, x, N) ==
  \A m \in N : m.kind = "ack" \/ (m.kind = "data" /\ m.seq \in 1 .. x.seq /\ m.block = B[m.seq])

\* The number of the packet at m_iStartPos.
Base(r) == r.ack - DataSize(r)

\* The counters of the receiver.
Counts(x, r) ==
  /\ Base(r) >= 1 /\ r.ack <= r.seq + 1 /\ r.seq <= x.seq
  /\ \A o \in r.loss : r.ack <= o /\ o <= r.seq
  /\ r.seq - r.ack <= r.maxPos /\ r.seq - Base(r) + 2 <= RcvSize

\* The messages of which R holds the blocks.
MsgsOf(R) == {R[i][1].msg : i \in DOMAIN R}

\* What the slot for a number holds.
Content(B, r, R, s) ==
  IF s <= r.seq /\ s \notin r.loss
  THEN [flag |-> IF B[s].msg \in MsgsOf(R) THEN 2 ELSE 1, block |-> B[s]]
  ELSE NULL

RingIs(B, r, R) == \A k \in Slots : r.unit[At(r, k)] = Content(B, r, R, Base(r) + k)

\* The message that begins with number s.
IsMessage(B, s, w) == B[s].part = 1 /\ w = [j \in 1 .. B[s].of |-> B[s + j - 1]]

\* What has been read are messages,
ReadOf(B, q, R) == \A i \in DOMAIN R : \E s \in 1 .. q : IsMessage(B, s, R[i])

\* all before the ring,
FrontRead(B, b, R) == \A s \in 1 .. b - 1 : B[s].msg \in MsgsOf(R)

\* and in it some that have come and need not be in order,
ReadAhead(B, b, n, r, R) ==
  \A s \in b .. n : B[s].msg \in MsgsOf(R) => s <= r.seq /\ s \notin r.loss /\ ~ B[s].order

\* each once,
Once(R) == \A i, j \in DOMAIN R : R[i][1].msg = R[j][1].msg => i = j

\* in order.
InOrder(R) ==
  \A i, j \in DOMAIN R : i < j /\ R[j][1].order => R[i][1].msg < R[j][1].msg \/ ~ R[i][1].order

\* What has been read is as it was written.
HasRead(B, x, r, R) ==
  /\ ReadOf(B, r.seq, R) /\ FrontRead(B, Base(r), R) /\ ReadAhead(B, Base(r), Last(x), r, R)
  /\ Once(R) /\ InOrder(R)

\* B explains the sender x, the receiver r, the network N and what has been read, R.
Carried(B, x, r, N, R) ==
  /\ Whole(B, Last(x)) /\ HoldsEnd(B, x) /\ Carries(B, x, N)
  /\ Counts(x, r) /\ RingIs(B, r, R) /\ HasRead(B, x, r, R)

\* Such a B exists.
MInv == ~ dropped => \E B : Carried(B, snd, rcv, net, read)

\* Steps of the sender that keep Last.
LEMMA SenderSteps ==
  ASSUME NEW B, NEW x, NEW y, NEW r, NEW N, NEW M, NEW R, Carried(B, x, r, N, R),
         Last(y) = Last(x), x.seq \in Nat, y.seq \in Nat, r.seq \in Nat, x.seq <= y.seq, HoldsEnd(B, y), Carries(B, y, M)
  PROVE  Carried(B, y, r, M, R)
<1>1. Whole(B, Last(y)) /\ RingIs(B, r, R) /\ HasRead(B, y, r, R)
  BY DEF Carried, HasRead
<1>2. Counts(y, r)
  BY DEF Carried, Counts
<1> QED
  BY <1>1, <1>2 DEF Carried

\* Parts of HoldsEnd, by themselves.
EndIs(B, a, k) == \A i \in 1 .. Len(a) : a[i] = B[k + i - 1]
\* The messages of the first n blocks are before m.
Named(B, n, m) == \A s \in 1 .. n : B[s].msg < m
NotBefore(l, k) == \A i \in l : k <= i

\* What Carried says of the sender.
LEMMA SenderIs ==
  ASSUME SndOK(snd), NEW B, HoldsEnd(B, snd)
  PROVE  \E a \in Seq(Blocks), c \in Nat, m \in Nat \ {0}, k \in Nat \ {0}, q \in Nat, l \in SUBSET Nat, n \in Nat :
           /\ snd = [blocks |-> a, curr |-> c, nextMsg |-> m, ack |-> k, seq |-> q, loss |-> l]
           /\ n = Last(snd) /\ n = k + Len(a) - 1 /\ q = k + c - 1 /\ c <= Len(a) /\ q <= n
           /\ \A i \in l : k <= i /\ i <= q
           /\ EndIs(B, a, k)
           /\ Named(B, n, m)
<1>1. PICK a \in Seq(Blocks), c \in Nat, m \in Nat \ {0}, k \in Nat \ {0}, q \in Nat, l \in SUBSET Nat :
        snd = [blocks |-> a, curr |-> c, nextMsg |-> m, ack |-> k, seq |-> q, loss |-> l]
  BY DEF SndOK
<1>2. /\ c <= Len(a) /\ \A i \in l : i <= q
  BY <1>1 DEF SndOK
<1>3. PICK n \in Nat : n = k + Len(a) - 1
  <2>1. PICK w \in Nat : w = Len(a)
    OBVIOUS
  <2>2. k + w - 1 \in Nat
    OBVIOUS
  <2> QED
    BY <2>1, <2>2
<1>4. n = Last(snd)
  BY <1>1, <1>3 DEF Last
<1>5. /\ Named(B, n, m)
      /\ EndIs(B, a, k)
      /\ q = k + c - 1
      /\ \A o \in l : k <= o
  BY <1>1, <1>4 DEF HoldsEnd, EndIs, Named
<1>6. q <= n
  BY <1>2, <1>3, <1>5
<1> QED
  BY <1>1, <1>2, <1>3, <1>4, <1>5, <1>6

\* and the other way round
LEMMA SenderMade ==
  ASSUME NEW B, NEW a \in Seq(Blocks), NEW c \in Nat, NEW m \in Nat \ {0}, NEW k \in Nat \ {0}, NEW q \in Nat,
         NEW l \in SUBSET Nat, NEW n \in Nat,
         NEW y, y = [blocks |-> a, curr |-> c, nextMsg |-> m, ack |-> k, seq |-> q, loss |-> l],
         n = k + Len(a) - 1, q = k + c - 1, NotBefore(l, k),
         EndIs(B, a, k),
         Named(B, n, m)
  PROVE  Last(y) = n /\ HoldsEnd(B, y)
<1>1. Last(y) = n
  BY DEF Last
<1> QED
  BY <1>1 DEF HoldsEnd, EndIs, Named, NotBefore

\* What the steps of the sender keep.
LEMMA PackNewCarries ==
  ASSUME MessagesAssumption, TIInv, NEW B, Carried(B, snd, rcv, net, read), packNew
  PROVE  Carried(B, snd', rcv', net', read')
<1>1. SndOK(snd) /\ HoldsEnd(B, snd) /\ Carries(B, snd, net) /\ rcv.seq \in Nat
  BY RcvFields DEF TIInv, Carried
<1>2. PICK a \in Seq(Blocks), c \in Nat, m \in Nat \ {0}, k \in Nat \ {0}, q \in Nat, l \in SUBSET Nat, n \in Nat :
           /\ snd = [blocks |-> a, curr |-> c, nextMsg |-> m, ack |-> k, seq |-> q, loss |-> l]
           /\ n = Last(snd) /\ n = k + Len(a) - 1 /\ q = k + c - 1 /\ c <= Len(a) /\ q <= n
           /\ \A i \in l : k <= i /\ i <= q
           /\ EndIs(B, a, k)
           /\ Named(B, n, m)
  BY <1>1, SenderIs
<1>3. /\ l = {} /\ c < Len(a) /\ UNCHANGED <<dropped, rcv, read>>
      /\ snd' = [blocks |-> a, curr |-> c + 1, nextMsg |-> m, ack |-> k, seq |-> q + 1, loss |-> l]
      /\ net' = net \cup {[kind |-> "data", seq |-> q + 1, block |-> a[c + 1]]}
  BY <1>2 DEF packNew, Data
<1>4. PICK c1 \in Nat, q1 \in Nat : c1 = c + 1 /\ q1 = q + 1 /\ q1 = k + c1 - 1
  BY <1>2
<1>5. Last(snd') = n /\ HoldsEnd(B, snd')
  <2>1. snd' = [blocks |-> a, curr |-> c1, nextMsg |-> m, ack |-> k, seq |-> q1, loss |-> l]
    BY <1>3, <1>4
  <2>2. NotBefore(l, k)
    BY <1>2 DEF NotBefore
  <2> QED
    BY <1>2, <1>4, <2>1, <2>2, SenderMade
<1>6. Carries(B, snd', net')
  <2>1. a[c + 1] = B[q1]
    <3>1. c + 1 \in 1 .. Len(a) /\ k + (c + 1) - 1 = q1
      BY <1>2, <1>3, <1>4
    <3> QED
      BY <1>2, <3>1 DEF EndIs
  <2>2. snd'.seq = q1 /\ q1 \in 1 .. q1
    BY <1>2, <1>3, <1>4
  <2>3. \A i \in 1 .. q : i \in 1 .. q1
    BY <1>4
  <2>4. snd.seq = q
    BY <1>2
  <2> QED
    BY <1>1, <1>3, <1>4, <2>1, <2>2, <2>3, <2>4 DEF Carries
<1>7. snd'.seq = q1 /\ snd.seq = q /\ q <= q1
  BY <1>2, <1>3, <1>4
<1> QED
  BY <1>1, <1>2, <1>3, <1>5, <1>6, <1>7, SenderSteps, SMTT(40)

LEMMA PackLostCarries ==
  ASSUME MessagesAssumption, TIInv, NEW B, Carried(B, snd, rcv, net, read), packLost
  PROVE  Carried(B, snd', rcv', net', read')
<1>1. SndOK(snd) /\ HoldsEnd(B, snd) /\ Carries(B, snd, net) /\ rcv.seq \in Nat
  BY RcvFields DEF TIInv, Carried
<1>2. PICK a \in Seq(Blocks), c \in Nat, m \in Nat \ {0}, k \in Nat \ {0}, q \in Nat, l \in SUBSET Nat, n \in Nat :
           /\ snd = [blocks |-> a, curr |-> c, nextMsg |-> m, ack |-> k, seq |-> q, loss |-> l]
           /\ n = Last(snd) /\ n = k + Len(a) - 1 /\ q = k + c - 1 /\ c <= Len(a) /\ q <= n
           /\ \A i \in l : k <= i /\ i <= q
           /\ EndIs(B, a, k)
           /\ Named(B, n, m)
  BY <1>1, SenderIs
<1>3. PICK o : o = Least(l)
  OBVIOUS
<1>4. /\ l # {} /\ LostOffset < Len(a) /\ UNCHANGED <<dropped, rcv, read>>
      /\ snd' = [blocks |-> a, curr |-> c, nextMsg |-> m, ack |-> k, seq |-> q, loss |-> l \ {o}]
      /\ net' = IF LostOffset < 0 THEN net ELSE net \cup {[kind |-> "data", seq |-> o, block |-> LostBlock]}
  BY <1>2, <1>3 DEF packLost, Data
<1>5. o \in l /\ o \in Nat \ {0} /\ LostOffset = o - k
  BY <1>1, <1>2, <1>3, <1>4, LostBlockIs
<1>6. o - k \in 0 .. Len(a) - 1 /\ o \in 1 .. q
  BY <1>2, <1>4, <1>5
<1>7. LostBlock = B[o]
  <2>1. LostOffset + 1 \in 1 .. Len(a) /\ k + (LostOffset + 1) - 1 = o
    BY <1>5, <1>6
  <2>2. LostBlock = a[LostOffset + 1]
    BY <1>2 DEF LostBlock
  <2> QED
    BY <1>2, <2>1, <2>2 DEF EndIs
<1>8. Last(snd') = n /\ HoldsEnd(B, snd')
  <2>1. l \ {o} \in SUBSET Nat /\ NotBefore(l \ {o}, k)
    BY <1>2 DEF NotBefore
  <2> QED
    BY <1>2, <1>4, <2>1, SenderMade
<1>9. Carries(B, snd', net')
  <2>1. ~ (LostOffset < 0)
    BY <1>5, <1>6
  <2>2. net' = net \cup {[kind |-> "data", seq |-> o, block |-> B[o]]}
    BY <1>4, <1>7, <2>1
  <2>3. snd'.seq = q /\ snd.seq = q
    BY <1>2, <1>4
  <2> QED
    BY <1>1, <1>6, <2>2, <2>3 DEF Carries
<1>10. snd'.seq = q /\ snd.seq = q /\ q <= q
  BY <1>2, <1>4
<1> QED
  BY <1>1, <1>2, <1>4, <1>8, <1>9, <1>10, SenderSteps

LEMMA ProcessAckCarries ==
  ASSUME MessagesAssumption, TIInv, NEW B, Carried(B, snd, rcv, net, read), NEW p \in net, processAck(p)
  PROVE  Carried(B, snd', rcv', net', read')
<1>1. SndOK(snd) /\ HoldsEnd(B, snd) /\ Carries(B, snd, net) /\ rcv.seq \in Nat
  BY RcvFields DEF TIInv, Carried
<1>2. PICK a \in Seq(Blocks), c \in Nat, m \in Nat \ {0}, k \in Nat \ {0}, q \in Nat, l \in SUBSET Nat, n \in Nat :
           /\ snd = [blocks |-> a, curr |-> c, nextMsg |-> m, ack |-> k, seq |-> q, loss |-> l]
           /\ n = Last(snd) /\ n = k + Len(a) - 1 /\ q = k + c - 1 /\ c <= Len(a) /\ q <= n
           /\ \A i \in l : k <= i /\ i <= q
           /\ EndIs(B, a, k)
           /\ Named(B, n, m)
  BY <1>1, SenderIs
<1>3. PICK d \in 1 .. c : d = p.seq - k
  BY <1>2 DEF processAck
<1>4. p.seq = k + d
  <2>1. p \in Sent /\ p.kind = "ack"
    BY DEF TIInv, processAck
  <2>2. p.seq \in Nat
    BY <2>1 DEF Sent
  <2> QED
    BY <1>3, <2>2
<1>5. PICK c1 \in Nat, k1 \in Nat \ {0}, l1 \in SUBSET l :
        l1 = {o \in l : o >= k1} /\ c1 = c - d /\ k1 = k + d
  <2>1. c - d \in Nat
    OBVIOUS
  <2>2. k + d \in Nat \ {0}
    OBVIOUS
  <2> QED
    BY <2>1, <2>2
<1>6. PICK y : y = SubSeq(a, d + 1, Len(a))
  OBVIOUS
<1>7. /\ UNCHANGED <<dropped, rcv, net, read>>
      /\ snd' = [blocks |-> y, curr |-> c1, nextMsg |-> m, ack |-> k1, seq |-> q, loss |-> l1]
  BY <1>2, <1>3, <1>4, <1>5, <1>6, ZenonT(60) DEF processAck
<1>8. y \in Seq(Blocks) /\ Len(y) = Len(a) - d /\ \A i \in 1 .. Len(a) - d : y[i] = a[d + i]
  <2>1. \A i \in d + 1 .. Len(a) : a[i] \in Blocks
    BY ElementOfSeq
  <2>2. \A i \in 1 .. Len(a) - d : (d + 1) + i - 1 = d + i
    OBVIOUS
  <2> QED
    BY <1>2, <1>6, <2>1, <2>2, SubSeqProperties, SMTT(40)
<1>9. EndIs(B, y, k1)
  <2> SUFFICES ASSUME NEW i \in 1 .. Len(a) - d
               PROVE  y[i] = B[k1 + i - 1]
    BY <1>8 DEF EndIs
  <2>1. d + i \in 1 .. Len(a) /\ k + (d + i) - 1 = k1 + i - 1
    BY <1>5
  <2> QED
    BY <1>2, <1>8, <2>1 DEF EndIs
<1>10. Last(snd') = n /\ HoldsEnd(B, snd')
  <2>1. l1 \in SUBSET Nat /\ NotBefore(l1, k1)
    BY <1>5 DEF NotBefore
  <2>2. n = k1 + Len(y) - 1 /\ q = k1 + c1 - 1
    <3>1. PICK w \in Nat : w = Len(a)
      OBVIOUS
    <3>2. n = k + w - 1 /\ q = k + c - 1 /\ c1 = c - d /\ k1 = k + d
      BY <1>2, <1>5, <3>1
    <3>3. Len(y) = w - d
      BY <1>8, <3>1
    <3> QED
      BY <3>2, <3>3
  <2>3. /\ snd' = [blocks |-> y, curr |-> c1, nextMsg |-> m, ack |-> k1, seq |-> q, loss |-> l1]
        /\ y \in Seq(Blocks) /\ Named(B, n, m)
    BY <1>2, <1>7, <1>8
  <2> QED
    BY <1>9, <2>1, <2>2, <2>3, SenderMade
<1>11. snd'.seq = q /\ snd.seq = q /\ q <= q
  BY <1>2, <1>7
<1>12. Carries(B, snd', net')
  BY <1>1, <1>7, <1>11 DEF Carries
<1> QED
  BY <1>1, <1>2, <1>7, <1>10, <1>11, <1>12, SenderSteps

LEMMA LossCarries ==
  ASSUME MessagesAssumption, TIInv, NEW B, Carried(B, snd, rcv, net, read),
         processNak \/ checkTimers \/ \E p \in 1 .. MaxPackets : timePasses(p)
  PROVE  Carried(B, snd', rcv', net', read')
<1>1. SndOK(snd) /\ HoldsEnd(B, snd) /\ Carries(B, snd, net) /\ rcv.seq \in Nat
  BY RcvFields DEF TIInv, Carried
<1>2. PICK a \in Seq(Blocks), c \in Nat, m \in Nat \ {0}, k \in Nat \ {0}, q \in Nat, l \in SUBSET Nat, n \in Nat :
           /\ snd = [blocks |-> a, curr |-> c, nextMsg |-> m, ack |-> k, seq |-> q, loss |-> l]
           /\ n = Last(snd) /\ n = k + Len(a) - 1 /\ q = k + c - 1 /\ c <= Len(a) /\ q <= n
           /\ \A i \in l : k <= i /\ i <= q
           /\ EndIs(B, a, k)
           /\ Named(B, n, m)
  BY <1>1, SenderIs
<1>3. UNCHANGED <<dropped, rcv, net, read>>
  BY DEF processNak, checkTimers, timePasses
<1>4. PICK l1 : /\ snd' = [blocks |-> a, curr |-> c, nextMsg |-> m, ack |-> k, seq |-> q, loss |-> l1]
                /\ l1 = l \cup (rcv.loss \cap (k .. q)) \/ l1 = k .. q \/ l1 = l
  <2>1. CASE processNak
    BY <1>2, <2>1 DEF processNak
  <2>2. CASE checkTimers
    BY <1>2, <2>2 DEF checkTimers
  <2>3. CASE \E p \in 1 .. MaxPackets : timePasses(p)
    BY <1>2, <2>3 DEF timePasses
  <2> QED
    BY <2>1, <2>2, <2>3
<1>5. \A o \in l1 : o \in Nat /\ k <= o
  <2> TAKE o \in l1
  <2>1. CASE o \in l
    BY <1>2, <2>1
  <2>2. CASE o \in k .. q
    BY <2>2
  <2> QED
    BY <1>4, <2>1, <2>2
<1>6. Last(snd') = n /\ HoldsEnd(B, snd')
  <2>1. l1 \in SUBSET Nat /\ \A i \in l1 : k <= i
    BY <1>5
  <2>2. PICK l2 \in SUBSET Nat : l2 = l1 /\ NotBefore(l2, k)
    BY <2>1 DEF NotBefore
  <2>3. n = k + Len(a) - 1 /\ q = k + c - 1 /\ (EndIs(B, a, k))
        /\ Named(B, n, m)
    BY <1>2
  <2>4. snd' = [blocks |-> a, curr |-> c, nextMsg |-> m, ack |-> k, seq |-> q, loss |-> l2]
    BY <1>4, <2>2
  <2> QED
    BY <2>2, <2>3, <2>4, SenderMade
<1>7. snd'.seq = q /\ snd.seq = q /\ q <= q
  BY <1>2, <1>4
<1>8. Carries(B, snd', net')
  BY <1>1, <1>3, <1>7 DEF Carries
<1> QED
  BY <1>1, <1>2, <1>3, <1>6, <1>7, <1>8, SenderSteps

-----------------------------------------------------------------------------
(* Messages                                                                  *)

\* One message further.
Longer(B, n, m, size, o) ==
  [s \in Nat |-> IF s <= n THEN B[s] ELSE [msg |-> m, part |-> s - n, of |-> size, order |-> o]]

Extends(C, B, n, m, size, o) ==
  /\ \A s \in 1 .. n : C[s] = B[s]
  /\ \A s \in n + 1 .. n + size : C[s] = [msg |-> m, part |-> s - n, of |-> size, order |-> o]

\* Longer extends.
LEMMA LongerIs ==
  ASSUME NEW B, NEW n \in Nat, NEW m, NEW size \in Nat, NEW o
  PROVE  Extends(Longer(B, n, m, size, o), B, n, m, size, o)
<1>1. \A s \in 1 .. n : s \in Nat /\ s <= n
  OBVIOUS
<1>2. \A s \in n + 1 .. n + size : s \in Nat /\ ~ (s <= n)
  OBVIOUS
<1> QED
  BY <1>1, <1>2 DEF Longer, Extends

\* What Whole says of one block.
Piece(B, n, s) ==
  /\ B[s] \in Blocks /\ B[s].part <= B[s].of /\ B[s].part <= s /\ s + B[s].of - B[s].part <= n
  /\ \A p \in 1 .. B[s].of : B[s - B[s].part + p] = [B[s] EXCEPT !.part = p]

Pair(B, s, t) ==
  /\ s <= t => B[s].msg <= B[t].msg
  /\ B[s].msg = B[t].msg => s - B[s].part = t - B[t].part

\* Whole, block by block.
LEMMA WholeIs ==
  ASSUME NEW B, NEW n
  PROVE  Whole(B, n) <=> (\A s \in 1 .. n : Piece(B, n, s)) /\ \A s, t \in 1 .. n : Pair(B, s, t)
BY DEF Whole, Piece, Pair

\* A message more is whole as well.
LEMMA WholeExtends ==
  ASSUME MessagesAssumption, NEW B, NEW n \in Nat, Whole(B, n), NEW m \in 1 .. MaxPackets, Named(B, n, m),
         NEW size \in 1 .. MaxSize, NEW o \in BOOLEAN
  PROVE  Whole(Longer(B, n, m, size, o), n + size) /\ Named(Longer(B, n, m, size, o), n + size, m + 1)
<1>0. MaxPackets \in Nat /\ MaxSize \in Nat
  BY DEF MessagesAssumption
<1>1. PICK C : C = Longer(B, n, m, size, o)
  OBVIOUS
<1>2. size \in Nat
  BY <1>0
<1>3. Extends(C, B, n, m, size, o)
  BY <1>1, <1>2, LongerIs
<1>4. \A s \in 1 .. n : C[s] = B[s]
  BY <1>3 DEF Extends
<1>5. \A s \in n + 1 .. n + size : C[s] = [msg |-> m, part |-> s - n, of |-> size, order |-> o]
  BY <1>3, Zenon DEF Extends
<1>6. ASSUME NEW s \in n + 1 .. n + size
       PROVE  C[s].msg = m /\ C[s].part = s - n
  <2>1. C[s] = [msg |-> m, part |-> s - n, of |-> size, order |-> o]
    BY <1>5
  <2> QED
    BY <2>1
<1>7. \A s \in 1 .. n : Piece(B, n, s) /\ B[s].msg < m /\ B[s] \in Blocks
  BY WholeIs DEF Named, Piece
<1>8. ASSUME NEW s \in 1 .. n
      PROVE  Piece(C, n + size, s)
  <2>1. PICK b \in Blocks : b = B[s] /\ b = C[s]
    BY <1>4, <1>7
  <2>2. b.part \in Nat /\ b.of \in Nat
    BY BlocksAre
  <2>3. b.part <= b.of /\ b.part <= s /\ s + b.of - b.part <= n
    BY <1>7, <2>1 DEF Piece
  <2>4. s + b.of - b.part <= n + size
    BY <1>0, <2>2, <2>3
  <2>5. ASSUME NEW p \in 1 .. b.of
        PROVE  C[s - b.part + p] = [b EXCEPT !.part = p]
    <3>1. s - b.part + p \in 1 .. n
      BY <2>2, <2>3
    <3>2. B[s - b.part + p] = [b EXCEPT !.part = p]
      BY <1>7, <2>1 DEF Piece
    <3> QED
      BY <1>4, <3>1, <3>2
  <2> QED
    BY <2>1, <2>3, <2>4, <2>5 DEF Piece
<1>9. ASSUME NEW s \in n + 1 .. n + size
      PROVE  Piece(C, n + size, s)
  <2>1. PICK d \in 1 .. size : d = s - n
    BY <1>0
  <2>2. PICK b : b = [msg |-> m, part |-> d, of |-> size, order |-> o]
    OBVIOUS
  <2>3. C[s] = b /\ b.part = d /\ b.of = size
    BY <1>5, <2>1, <2>2
  <2>4. b \in Blocks
    BY <1>0, <2>1, <2>2 DEF Blocks
  <2>5. d <= size /\ d <= s /\ s + size - d <= n + size
    BY <1>0, <2>1
  <2>6. ASSUME NEW p \in 1 .. size
        PROVE  C[s - d + p] = [b EXCEPT !.part = p]
    <3>1. s - d + p = n + p /\ n + p \in n + 1 .. n + size /\ n + p - n = p
      BY <1>0, <2>1
    <3>2. C[n + p] = [msg |-> m, part |-> p, of |-> size, order |-> o]
      BY <1>5, <3>1
    <3> QED
      BY <2>2, <3>1, <3>2
  <2> QED
    BY <2>3, <2>4, <2>5, <2>6 DEF Piece
<1>10. ASSUME NEW s \in 1 .. n + size
      PROVE  Piece(C, n + size, s)
  <2>1. s \in 1 .. n \/ s \in n + 1 .. n + size
    BY <1>0
  <2> QED
    BY <1>8, <1>9, <2>1
<1>11. ASSUME NEW s \in 1 .. n + size, NEW t \in 1 .. n + size
      PROVE  Pair(C, s, t)
  <2>1. CASE s \in 1 .. n /\ t \in 1 .. n
    <3>1. Pair(B, s, t)
      BY <2>1, WholeIs
    <3> QED
      BY <1>4, <2>1, <3>1 DEF Pair
  <2>2. CASE s \in 1 .. n /\ t \in n + 1 .. n + size
    <3>1. C[s] = B[s] /\ B[s].msg < m /\ C[t].msg = m
      BY <1>4, <1>7, <1>6, <2>2
    <3>2. B[s].msg \in Nat
      BY <1>7, <2>2, BlocksAre
    <3> QED
      BY <3>1, <3>2 DEF Pair
  <2>3. CASE s \in n + 1 .. n + size /\ t \in 1 .. n
    <3>1. C[t] = B[t] /\ B[t].msg < m /\ C[s].msg = m
      BY <1>4, <1>7, <1>6, <2>3
    <3>2. B[t].msg \in Nat
      BY <1>7, <2>3, BlocksAre
    <3> QED
      BY <2>3, <3>1, <3>2 DEF Pair
  <2>4. CASE s \in n + 1 .. n + size /\ t \in n + 1 .. n + size
    <3>1. C[s].msg = m /\ C[s].part = s - n /\ C[t].msg = m /\ C[t].part = t - n
      BY <1>6, <2>4
    <3> QED
      BY <2>4, <3>1 DEF Pair
  <2>5. (s \in 1 .. n \/ s \in n + 1 .. n + size) /\ (t \in 1 .. n \/ t \in n + 1 .. n + size)
    BY <1>0
  <2> QED
    BY <2>1, <2>2, <2>3, <2>4, <2>5
<1>12. Named(C, n + size, m + 1)
  <2> SUFFICES ASSUME NEW s \in 1 .. n + size
               PROVE  C[s].msg < m + 1
    BY DEF Named
  <2>1. CASE s \in 1 .. n
    <3>1. C[s].msg < m /\ C[s].msg \in Nat
      BY <1>4, <1>7, <2>1, BlocksAre
    <3> QED
      BY <3>1
  <2>2. CASE s \in n + 1 .. n + size
    <3>1. C[s].msg = m
      BY <1>6, <2>2
    <3> QED
      BY <3>1
  <2> QED
    BY <1>0, <2>1, <2>2
<1> QED
  BY <1>1, <1>10, <1>11, <1>12, WholeIs

\* Where the blocks agree, the receiver holds and has read the same.
LEMMA ReadMsgsAre ==
  ASSUME MessagesAssumption, NEW B, NEW n \in Nat, NEW q \in Nat, q <= n, Whole(B, n), NEW R, ReadOf(B, q, R)
  PROVE  \A i \in DOMAIN R : \E s \in 1 .. q :
           /\ IsMessage(B, s, R[i]) /\ B[s] \in Blocks /\ B[s].part = 1 /\ s + B[s].of - 1 <= n
           /\ R[i][1] = B[s] /\ R[i] = [j \in 1 .. B[s].of |-> B[s + j - 1]] /\ B[s].of \in Nat \ {0}
<1> TAKE i \in DOMAIN R
<1>1. PICK s \in 1 .. q : IsMessage(B, s, R[i])
  BY DEF ReadOf
<1>2. s \in 1 .. n
  OBVIOUS
<1>3. Piece(B, n, s)
  BY <1>2, WholeIs
<1>4. PICK b \in Blocks : b = B[s] /\ b.part = 1 /\ R[i] = [j \in 1 .. b.of |-> B[s + j - 1]]
  BY <1>1, <1>3 DEF Piece, IsMessage
<1>5. b.of \in Nat \ {0}
  BY BlocksAre
<1>6. s + b.of - 1 <= n
  BY <1>3, <1>4 DEF Piece
<1>7. R[i][1] = B[s]
  <2>1. 1 \in 1 .. b.of /\ s + 1 - 1 = s
    BY <1>5
  <2>2. R[i][1] = B[s + 1 - 1]
    BY <1>4, <2>1
  <2> QED
    BY <2>1, <2>2
<1> QED
  BY <1>1, <1>4, <1>5, <1>6, <1>7

\* The messages that have been read.
LEMMA MsgsOfIs ==
  ASSUME NEW R
  PROVE  (\A i \in DOMAIN R : R[i][1].msg \in MsgsOf(R)) /\ \A m \in MsgsOf(R) : \E i \in DOMAIN R : m = R[i][1].msg
BY DEF MsgsOf

LEMMA Agreeing ==
  ASSUME MessagesAssumption, NEW B, NEW C, NEW n \in Nat, NEW v \in Nat, n <= v, Whole(B, n), NEW x, NEW y, NEW r, NEW R,
         \A s \in 1 .. n : C[s] = B[s], Last(x) = n, Last(y) = v,
         RcvOK(r), Counts(x, r), x.seq \in Nat, x.seq <= n, RingIs(B, r, R), HasRead(B, x, r, R),
         \A s \in n + 1 .. v : C[s].msg \notin MsgsOf(R)
  PROVE  RingIs(C, r, R) /\ HasRead(C, y, r, R)
<1>1. r.seq \in Nat /\ r.loss \in SUBSET Nat /\ r.ack \in Nat /\ r.start \in Slots /\ r.ackPos \in Slots
  BY DEF RcvOK
<1>2. PICK b : b = Base(r)
  OBVIOUS
<1>3. b \in Nat \ {0} /\ b <= r.seq + 1 /\ r.seq <= n /\ Slots = 0 .. RcvSize - 1 /\ RcvSize \in Nat
  <2>1. DataSize(r) \in 0 .. RcvSize - 1 /\ RcvSize \in Nat
    BY <1>1, Sizes, DataSizeIs
  <2>2. r.ack <= r.seq + 1 /\ r.seq <= x.seq /\ b >= 1 /\ b = r.ack - DataSize(r)
    BY <1>2 DEF Counts, Base
  <2> QED
    <3>1. r.seq \in Nat /\ r.ack \in Nat /\ DataSize(r) \in Nat
      BY <1>1, <2>1
    <3>2. b \in Nat \ {0} /\ b <= r.seq + 1
      BY <2>2, <3>1
    <3>3. r.seq <= n
      BY <2>2, <3>1
    <3> QED
      BY <2>1, <3>2, <3>3, Sizes
<1>4. RingIs(C, r, R)
  <2> SUFFICES ASSUME NEW k \in 0 .. RcvSize - 1
               PROVE  r.unit[At(r, k)] = Content(C, r, R, b + k)
    BY <1>2, <1>3 DEF RingIs
  <2>1. r.unit[At(r, k)] = Content(B, r, R, b + k)
    BY <1>2, <1>3 DEF RingIs
  <2>2. b + k <= r.seq => b + k \in 1 .. n
    BY <1>1, <1>3
  <2> QED
    BY <2>1, <2>2 DEF Content
<1>5. ReadOf(C, r.seq, R)
  <2> SUFFICES ASSUME NEW i \in DOMAIN R
               PROVE  \E s \in 1 .. r.seq : IsMessage(C, s, R[i])
    BY DEF ReadOf
  <2>1. PICK s \in 1 .. r.seq :
           /\ IsMessage(B, s, R[i]) /\ B[s] \in Blocks /\ B[s].part = 1 /\ s + B[s].of - 1 <= n
           /\ R[i][1] = B[s] /\ R[i] = [j \in 1 .. B[s].of |-> B[s + j - 1]] /\ B[s].of \in Nat \ {0}
    BY <1>1, <1>3, ReadMsgsAre DEF HasRead
  <2>2. s \in 1 .. n
    BY <1>1, <1>3
  <2>3. PICK w \in Nat \ {0} : w = B[s].of /\ w = C[s].of /\ C[s].part = 1 /\ s + w - 1 <= n
    BY <2>1, <2>2
  <2>4. \A j \in 1 .. w : C[s + j - 1] = B[s + j - 1]
    <3> TAKE j \in 1 .. w
    <3>1. s + j - 1 \in 1 .. n
      BY <2>2, <2>3
    <3> QED
      BY <3>1
  <2>5. [j \in 1 .. w |-> B[s + j - 1]] = [j \in 1 .. w |-> C[s + j - 1]]
    BY <2>4
  <2> QED
    BY <2>1, <2>3, <2>5 DEF IsMessage
<1>6. FrontRead(C, b, R)
  <2> SUFFICES ASSUME NEW s \in 1 .. b - 1
               PROVE  C[s].msg \in MsgsOf(R)
    BY DEF FrontRead
  <2>1. s \in 1 .. n
    BY <1>1, <1>3
  <2>2. B[s].msg \in MsgsOf(R)
    BY <1>2 DEF HasRead, FrontRead
  <2> QED
    BY <2>1, <2>2
<1>7. ReadAhead(C, b, v, r, R)
  <2> SUFFICES ASSUME NEW s \in b .. v, C[s].msg \in MsgsOf(R)
               PROVE  s <= r.seq /\ s \notin r.loss /\ ~ C[s].order
    BY DEF ReadAhead
  <2>1. s \notin n + 1 .. v
    OBVIOUS
  <2>2. s \in b .. n /\ s \in 1 .. n
    BY <1>3, <2>1
  <2>3. ReadAhead(B, b, n, r, R)
    BY <1>2 DEF HasRead
  <2> QED
    BY <2>2, <2>3 DEF ReadAhead
<1> QED
  BY <1>2, <1>4, <1>5, <1>6, <1>7 DEF HasRead

\* sendmsg extends the blocks.
LEMMA SendmsgCarries ==
  ASSUME MessagesAssumption, TIInv, NEW B, Carried(B, snd, rcv, net, read), NEW w \in 1 .. MaxSize, NEW o \in BOOLEAN,
         sendmsg(w, o)
  PROVE  \E C : Carried(C, snd', rcv', net', read')
<1>1. SndOK(snd) /\ RcvOK(rcv) /\ HoldsEnd(B, snd) /\ Carries(B, snd, net) /\ Whole(B, Last(snd))
      /\ Counts(snd, rcv) /\ RingIs(B, rcv, read) /\ HasRead(B, snd, rcv, read)
  BY DEF TIInv, Carried
<1>2. PICK a \in Seq(Blocks), c \in Nat, m \in Nat \ {0}, k \in Nat \ {0}, q \in Nat, l \in SUBSET Nat, n \in Nat :
           /\ snd = [blocks |-> a, curr |-> c, nextMsg |-> m, ack |-> k, seq |-> q, loss |-> l]
           /\ n = Last(snd) /\ n = k + Len(a) - 1 /\ q = k + c - 1 /\ c <= Len(a) /\ q <= n
           /\ \A i \in l : k <= i /\ i <= q
           /\ EndIs(B, a, k)
           /\ Named(B, n, m)
  BY <1>1, SenderIs
<1>3. PICK z : z = Added(w, o)
  OBVIOUS
<1>4. PICK y : y = a \o z
  OBVIOUS
<1>5. /\ k + Len(a) + w <= MaxPackets + 1 /\ UNCHANGED <<dropped, rcv, net, read>>
      /\ snd' = [blocks |-> y, curr |-> c, nextMsg |-> m + 1, ack |-> k, seq |-> q, loss |-> l]
  BY <1>2, <1>3, <1>4 DEF sendmsg
<1>6. PICK e \in Nat : e = Len(a)
  OBVIOUS
<1>7. MaxPackets \in Nat /\ MaxSize \in Nat /\ w \in Nat \ {0} /\ w <= MaxSize
  BY DEF MessagesAssumption
<1>8. m \in 1 .. MaxPackets /\ n = k + e - 1
  <2>1. m <= k + e
    BY <1>1, <1>2, <1>6 DEF SndOK
  <2> QED
    BY <1>2, <1>5, <1>6, <1>7, <2>1
<1>9. z \in Seq(Blocks) /\ Len(z) = w /\ \A i \in 1 .. w : z[i] = [msg |-> m, part |-> i, of |-> w, order |-> o]
  <2>1. z = [i \in 1 .. w |-> [msg |-> m, part |-> i, of |-> w, order |-> o]]
    BY <1>2, <1>3 DEF Added
  <2>2. \A i \in 1 .. w : [msg |-> m, part |-> i, of |-> w, order |-> o] \in Blocks
    BY <1>7, <1>8 DEF Blocks
  <2>3. z \in [1 .. w -> Blocks]
    BY <2>1, <2>2
  <2>4. z \in Seq(Blocks) /\ Len(z) = w
    BY <1>7, <2>3
  <2> QED
    BY <2>1, <2>4
<1>10. /\ y \in Seq(Blocks) /\ Len(y) = e + w
       /\ \A i \in 1 .. e + w : y[i] = IF i <= e THEN a[i] ELSE z[i - e]
  <2>1. /\ a \o z \in Seq(Blocks) /\ Len(a \o z) = Len(a) + Len(z)
        /\ \A i \in 1 .. Len(a) + Len(z) : (a \o z)[i] = IF i <= Len(a) THEN a[i] ELSE z[i - Len(a)]
    BY <1>9, ConcatProperties
  <2> QED
    BY <1>4, <1>6, <1>9, <2>1
<1>11. PICK C : C = Longer(B, n, m, w, o)
  OBVIOUS
<1>12. /\ \A s \in 1 .. n : C[s] = B[s]
       /\ \A s \in n + 1 .. n + w : C[s] = [msg |-> m, part |-> s - n, of |-> w, order |-> o]
  <2>1. w \in Nat
    BY <1>7
  <2>2. Extends(C, B, n, m, w, o)
    BY <1>11, <2>1, LongerIs
  <2> QED
    BY <2>2, Zenon DEF Extends
<1>13. PICK v \in Nat : v = n + w
  BY <1>7
<1>14. Whole(C, v) /\ Named(C, v, m + 1)
  BY <1>1, <1>2, <1>8, <1>11, <1>13, WholeExtends
<1>15. EndIs(C, y, k)
  <2> SUFFICES ASSUME NEW i \in 1 .. e + w
               PROVE  y[i] = C[k + i - 1]
    BY <1>10 DEF EndIs
  <2>1. CASE i <= e
    <3>1. k + i - 1 \in 1 .. n /\ i \in 1 .. e
      BY <1>8, <2>1
    <3>2. a[i] = B[k + i - 1]
      BY <1>2, <1>6, <3>1 DEF EndIs
    <3> QED
      BY <1>10, <1>12, <2>1, <3>1, <3>2
  <2>2. CASE i > e
    <3>1. i - e \in 1 .. w /\ k + i - 1 \in n + 1 .. n + w /\ k + i - 1 - n = i - e
      BY <1>7, <1>8, <2>2
    <3>2. y[i] = z[i - e]
      BY <1>10, <2>2
    <3>3. z[i - e] = [msg |-> m, part |-> i - e, of |-> w, order |-> o]
      BY <1>9, <3>1
    <3>4. C[k + i - 1] = [msg |-> m, part |-> k + i - 1 - n, of |-> w, order |-> o]
      BY <1>12, <3>1
    <3> QED
      BY <3>1, <3>2, <3>3, <3>4
  <2> QED
    BY <1>7, <2>1, <2>2
<1>16. Last(snd') = v /\ HoldsEnd(C, snd')
  <2>1. v = k + Len(y) - 1
    BY <1>7, <1>8, <1>10, <1>13
  <2>2. NotBefore(l, k)
    BY <1>2 DEF NotBefore
  <2>3. PICK m1 \in Nat \ {0} : m1 = m + 1
    OBVIOUS
  <2>4. snd' = [blocks |-> y, curr |-> c, nextMsg |-> m1, ack |-> k, seq |-> q, loss |-> l] /\ Named(C, v, m1)
        /\ y \in Seq(Blocks) /\ q = k + c - 1
    BY <1>2, <1>5, <1>10, <1>14, <2>3
  <2> QED
    BY <1>15, <2>1, <2>2, <2>4, SenderMade
<1>17. snd.seq = q /\ snd'.seq = q /\ Last(snd) = n /\ n <= v
  BY <1>2, <1>5, <1>7, <1>13
<1>18. Carries(C, snd', net')
  <2>1. \A i \in 1 .. q : C[i] = B[i]
    <3>1. \A i \in 1 .. q : i \in 1 .. n
      BY <1>2
    <3> QED
      BY <1>12, <3>1
  <2> QED
    BY <1>1, <1>5, <1>17, <2>1 DEF Carries
<1>19. Counts(snd', rcv)
  BY <1>1, <1>17 DEF Counts
<1>20. RingIs(C, rcv, read) /\ HasRead(C, snd', rcv, read)
  <2>1. \A s \in n + 1 .. v : C[s].msg \notin MsgsOf(read)
    <3> SUFFICES ASSUME NEW s \in n + 1 .. v, C[s].msg \in MsgsOf(read)
                 PROVE  FALSE
      OBVIOUS
    <3>1. C[s].msg = m
      <4>1. C[s] = [msg |-> m, part |-> s - n, of |-> w, order |-> o]
        BY <1>12, <1>13
      <4> QED
        BY <4>1
    <3>2. PICK i \in DOMAIN read : m = read[i][1].msg
      BY <3>1, MsgsOfIs
    <3>3. rcv.seq \in Nat /\ rcv.seq <= n
      <4>1. rcv.seq \in Nat /\ rcv.seq <= q
        BY <1>1, <1>17, RcvFields DEF Counts
      <4> QED
        BY <1>2, <4>1
    <3>4. PICK t \in 1 .. rcv.seq : read[i][1] = B[t] /\ B[t] \in Blocks
      <4>1. Whole(B, n) /\ ReadOf(B, rcv.seq, read)
        BY <1>1, <1>2 DEF HasRead
      <4> QED
        BY <3>3, <4>1, ReadMsgsAre
    <3>5. B[t].msg < m /\ B[t].msg \in Nat
      <4>1. t \in 1 .. n
        BY <3>3
      <4> QED
        BY <1>2, <3>4, <4>1, BlocksAre DEF Named
    <3> QED
      BY <3>2, <3>4, <3>5
  <2>2. snd.seq \in Nat /\ snd.seq <= n
    BY <1>2, <1>17
  <2> QED
    BY <1>1, <1>12, <1>13, <1>16, <1>17, <2>1, <2>2, Agreeing, SMTT(40)
<1> QED
  BY <1>5, <1>14, <1>16, <1>18, <1>19, <1>20 DEF Carried

-----------------------------------------------------------------------------
(* Packets and acknowledgements                                              *)

\* The counters of the receiver, as numbers.
LEMMA CountsAre ==
  ASSUME MessagesAssumption, NEW x, NEW r, x.seq \in Nat, RcvOK(r), Counts(x, r)
  PROVE  \E b \in Nat \ {0}, d \in Nat, k \in Nat \ {0}, q \in Nat, m \in Nat :
           /\ b = Base(r) /\ d = DataSize(r) /\ k = r.ack /\ q = r.seq /\ m = r.maxPos
           /\ b + d = k /\ k <= q + 1 /\ q <= x.seq /\ q - k <= m /\ q - b + 2 <= RcvSize /\ d + m <= RcvSize - 1
           /\ \A o \in r.loss : o \in Nat /\ k <= o /\ o <= q
<1>1. /\ r.seq \in Nat /\ r.loss \in SUBSET Nat /\ r.ack \in Nat \ {0} /\ r.start \in Slots /\ r.ackPos \in Slots
      /\ r.maxPos \in Nat /\ DataSize(r) + r.maxPos <= RcvSize - 1
  BY DEF RcvOK
<1>2. PICK d \in Nat : d = DataSize(r)
  BY <1>1, Sizes, DataSizeIs
<1>3. PICK k \in Nat \ {0}, q \in Nat, m \in Nat : k = r.ack /\ q = r.seq /\ m = r.maxPos
  BY <1>1
<1>4. /\ Base(r) = k - d /\ Base(r) >= 1 /\ k <= q + 1 /\ q <= x.seq /\ q - k <= m /\ q - Base(r) + 2 <= RcvSize
      /\ \A o \in r.loss : o \in Nat /\ k <= o /\ o <= q
  BY <1>1, <1>2, <1>3 DEF Counts, Base
<1>5. PICK b \in Nat \ {0} : b = Base(r) /\ b + d = k
  BY <1>4
<1> QED
  BY <1>1, <1>2, <1>3, <1>4, <1>5

\* A slot is empty if its packet has not come.
LEMMA ContentIs ==
  ASSUME NEW B, NEW r, NEW R, NEW s
  PROVE  (Content(B, r, R, s) # NULL) <=> (s <= r.seq /\ s \notin r.loss)
<1>1. \A n, b : [flag |-> n, block |-> b] # NULL
  BY DEF NULL
<1> QED
  BY <1>1 DEF Content

\* A packet that comes goes into the slot of its number,
LEMMA ProcessDataCarries ==
  ASSUME MessagesAssumption, TIInv, NEW B, Carried(B, snd, rcv, net, read), NEW p \in net, processData(p)
  PROVE  Carried(B, snd', rcv', net', read')
<1>1. SndOK(snd) /\ RcvOK(rcv) /\ HoldsEnd(B, snd) /\ Carries(B, snd, net) /\ Whole(B, Last(snd))
      /\ Counts(snd, rcv) /\ RingIs(B, rcv, read) /\ HasRead(B, snd, rcv, read) /\ p \in Sent
  BY DEF TIInv, Carried
<1>2. UNCHANGED <<snd, dropped, net, read>>
  BY DEF processData
<1>3. PICK n \in Nat, v \in Nat : n = Last(snd) /\ v = snd.seq /\ v <= n
  BY <1>1, SenderIs
<1>4. PICK b \in Nat \ {0}, d \in Nat, k \in Nat \ {0}, q \in Nat, m \in Nat :
           /\ b = Base(rcv) /\ d = DataSize(rcv) /\ k = rcv.ack /\ q = rcv.seq /\ m = rcv.maxPos
           /\ b + d = k /\ k <= q + 1 /\ q <= snd.seq /\ q - k <= m /\ q - b + 2 <= RcvSize /\ d + m <= RcvSize - 1
           /\ \A o \in rcv.loss : o \in Nat /\ k <= o /\ o <= q
  BY <1>1, <1>3, CountsAre
<1>5. PICK j \in Nat, m1 \in Nat : \E u, l1, q1 : TakesIn(p, j, m1, u, l1, q1)
  BY <1>1, DataStep
<1>6. PICK u, l1, q1 : TakesIn(p, j, m1, u, l1, q1)
  BY <1>5
<1>7.      /\ p.kind = "data" /\ p.seq \in Nat /\ p.block \in Blocks
           /\ p.seq >= rcv.ack /\ j = DataSize(rcv) + (p.seq - rcv.ack) /\ j \in Slots /\ j + 2 <= RcvSize
           /\ rcv.maxPos <= m1 /\ p.seq - rcv.ack <= m1 /\ DataSize(rcv) + m1 <= RcvSize - 1
           /\ rcv' = [unit |-> u, start |-> rcv.start, ackPos |-> rcv.ackPos, maxPos |-> m1, ack |-> rcv.ack,
                      seq |-> q1, loss |-> l1]
           /\ rcv.unit[At(rcv, j)] # NULL => u = rcv.unit /\ l1 = rcv.loss /\ q1 = rcv.seq
           /\ rcv.unit[At(rcv, j)] = NULL =>
                /\ u = [rcv.unit EXCEPT ![At(rcv, j)] = [flag |-> 1, block |-> p.block]]
                /\ l1 = (rcv.loss \cup (rcv.seq + 1 .. p.seq - 1)) \ {p.seq}
                /\ q1 = IF p.seq > rcv.seq THEN p.seq ELSE rcv.seq
  BY <1>6 DEF TakesIn
<1>8. PICK s \in Nat : s = p.seq /\ s \in 1 .. v /\ p.block = B[s]
  BY <1>1, <1>3, <1>7 DEF Carries
<1>9. s >= k /\ j = d + (s - k) /\ b + j = s
  BY <1>4, <1>7, <1>8
<1>10. PICK z : z = rcv'
  OBVIOUS
<1>11. /\ z.unit = u /\ z.start = rcv.start /\ z.ackPos = rcv.ackPos /\ z.maxPos = m1 /\ z.ack = k /\ z.seq = q1 /\ z.loss = l1
  BY <1>4, <1>7, <1>10
<1>12. DataSize(z) = d /\ Base(z) = b /\ \A i : At(z, i) = At(rcv, i)
  BY <1>4, <1>11, OnlyEnds DEF Base
<1>13. CASE rcv.unit[At(rcv, j)] # NULL
  <2>1. u = rcv.unit /\ l1 = rcv.loss /\ q1 = q
    BY <1>4, <1>7, <1>13
  <2>2. Counts(snd, z)
    BY <1>1, <1>4, <1>7, <1>11, <1>12, <2>1 DEF Counts
  <2>3. \A t : Content(B, z, read, t) = Content(B, rcv, read, t)
    BY <1>4, <1>11, <2>1 DEF Content
  <2>4. RingIs(B, z, read)
    BY <1>1, <1>4, <1>11, <1>12, <2>1, <2>3 DEF RingIs
  <2>5. HasRead(B, snd, z, read)
    BY <1>1, <1>4, <1>11, <1>12, <2>1 DEF HasRead, ReadAhead
  <2> QED
    BY <1>1, <1>2, <1>10, <2>2, <2>4, <2>5 DEF Carried
<1>14. CASE rcv.unit[At(rcv, j)] = NULL
  <2>1. /\ u = [rcv.unit EXCEPT ![At(rcv, j)] = [flag |-> 1, block |-> B[s]]]
        /\ l1 = (rcv.loss \cup (q + 1 .. s - 1)) \ {s}
        /\ q1 = IF s > q THEN s ELSE q
    BY <1>4, <1>7, <1>8, <1>14
  <2>2. ~ (s <= q /\ s \notin rcv.loss)
    <3>1. rcv.unit[At(rcv, j)] = Content(B, rcv, read, b + j)
      BY <1>1, <1>4, <1>7 DEF RingIs
    <3> QED
      BY <1>4, <1>9, <1>14, <3>1, ContentIs
  <2>3. q1 \in Nat /\ q <= q1 /\ s <= q1 /\ q1 <= v
    BY <1>3, <1>4, <1>8, <2>1
  <2>4. \A o \in l1 : k <= o /\ o <= q1
    <3> TAKE o \in l1
    <3>1. CASE o \in rcv.loss
      BY <1>4, <2>3, <3>1
    <3>2. CASE o \in q + 1 .. s - 1
      BY <1>4, <2>3, <3>2
    <3> QED
      BY <2>1, <3>1, <3>2
  <2>5. q1 - k <= m1 /\ q1 - b + 2 <= RcvSize
    <3>0. RcvSize \in Nat
      BY Sizes
    <3>2. j + 2 <= RcvSize
      BY <1>7
    <3>3. s - k <= m1 /\ m <= m1
      BY <1>4, <1>7, <1>8
    <3>1. RcvSize \in Nat /\ s - b + 2 <= RcvSize /\ s - k <= m1 /\ m <= m1
      BY <1>9, <3>0, <3>2, <3>3
    <3> QED
      BY <1>4, <2>1, <3>1
  <2>6. Counts(snd, z)
    BY <1>3, <1>4, <1>11, <1>12, <2>3, <2>4, <2>5 DEF Counts
  <2>7. B[s].msg \notin MsgsOf(read)
    <3>1. ReadAhead(B, b, n, rcv, read)
      BY <1>1, <1>3, <1>4 DEF HasRead
    <3>2. s \in b .. n
      BY <1>3, <1>4, <1>8, <1>9
    <3> QED
      BY <1>4, <2>2, <3>1, <3>2 DEF ReadAhead
  <2>8. ASSUME NEW t \in Nat, t # s
        PROVE  (t <= q1 /\ t \notin l1) <=> (t <= q /\ t \notin rcv.loss)
    <3>1. t \in l1 <=> t \in rcv.loss \/ t \in q + 1 .. s - 1
      BY <2>1, <2>8
    <3>2. t \in rcv.loss => t <= q
      BY <1>4
    <3>3. CASE t <= q
      BY <2>1, <3>1, <3>3
    <3>4. CASE t > q
      BY <1>8, <2>1, <2>8, <3>1, <3>2, <3>4
    <3> QED
      BY <3>3, <3>4
  <2>9. RingIs(B, z, read)
    <3> SUFFICES ASSUME NEW i \in Slots
                 PROVE  u[At(rcv, i)] = Content(B, z, read, b + i)
      BY <1>11, <1>12 DEF RingIs
    <3>1. i \in Nat /\ At(rcv, i) \in Slots /\ At(rcv, j) \in Slots /\ rcv.unit \in [Slots -> Unit]
      <4>1. i \in Nat
        BY Sizes
      <4>2. At(rcv, i) \in Slots /\ At(rcv, j) \in Slots
        BY <1>1, <1>7, AtIs, RcvFields
      <4>3. rcv.unit \in [Slots -> Unit]
        BY <1>1, RcvFields DEF Unit
      <4> QED
        BY <4>1, <4>2, <4>3
    <3>2. CASE i = j
      <4>1. u[At(rcv, i)] = [flag |-> 1, block |-> B[s]]
        BY <2>1, <3>1, <3>2
      <4>2. s <= z.seq /\ s \notin z.loss
        BY <1>11, <2>1, <2>3
      <4>3. Content(B, z, read, s) = [flag |-> 1, block |-> B[s]]
        BY <2>7, <4>2 DEF Content
      <4> QED
        BY <1>9, <3>2, <4>1, <4>3
    <3>3. CASE i # j
      <4>1. At(rcv, i) # At(rcv, j)
        BY <1>1, <1>7, <3>3, AtIsOneToOne, RcvFields
      <4>2. u[At(rcv, i)] = rcv.unit[At(rcv, i)]
        BY <2>1, <3>1, <4>1
      <4>3. rcv.unit[At(rcv, i)] = Content(B, rcv, read, b + i)
        BY <1>1, <1>4 DEF RingIs
      <4>4. b + i \in Nat /\ b + i # s
        BY <1>9, <3>1, <3>3
      <4>5. Content(B, z, read, b + i) = Content(B, rcv, read, b + i)
        BY <1>4, <1>11, <2>8, <4>4 DEF Content
      <4> QED
        BY <4>2, <4>3, <4>5
    <3> QED
      BY <3>2, <3>3
  <2>10. HasRead(B, snd, z, read)
    <3>1. ReadOf(B, q1, read)
      <4>1. \A i \in 1 .. q : i \in 1 .. q1
        BY <2>3
      <4>2. ReadOf(B, q, read)
        BY <1>1, <1>4 DEF HasRead
      <4> QED
        BY <4>1, <4>2 DEF ReadOf
    <3>2. ReadAhead(B, b, n, z, read)
      <4> SUFFICES ASSUME NEW t \in b .. n, B[t].msg \in MsgsOf(read)
                   PROVE  t <= q1 /\ t \notin l1 /\ ~ B[t].order
        BY <1>11 DEF ReadAhead
      <4>1. ReadAhead(B, b, n, rcv, read)
        BY <1>1, <1>3, <1>4 DEF HasRead
      <4>2. t <= q /\ t \notin rcv.loss /\ ~ B[t].order
        BY <1>4, <4>1 DEF ReadAhead
      <4>3. t \in Nat /\ t # s
        BY <2>7
      <4> QED
        BY <2>8, <4>2, <4>3
    <3> QED
      BY <1>1, <1>3, <1>4, <1>11, <1>12, <3>1, <3>2 DEF HasRead
  <2> QED
    BY <1>1, <1>2, <1>10, <2>6, <2>9, <2>10 DEF Carried
<1> QED
  BY <1>13, <1>14

\* and an acknowledgement moves the numbers and the slots alike.
LEMMA SendAckCarries ==
  ASSUME MessagesAssumption, TIInv, NEW B, Carried(B, snd, rcv, net, read), sendAck
  PROVE  Carried(B, snd', rcv', net', read')
<1>1. SndOK(snd) /\ RcvOK(rcv) /\ HoldsEnd(B, snd) /\ Carries(B, snd, net) /\ Whole(B, Last(snd))
      /\ Counts(snd, rcv) /\ RingIs(B, rcv, read) /\ HasRead(B, snd, rcv, read)
  BY DEF TIInv, Carried
<1>2. PICK v \in Nat : v = snd.seq
  BY <1>1, SenderIs
<1>3. PICK b \in Nat \ {0}, d \in Nat, k \in Nat \ {0}, q \in Nat, m \in Nat :
           /\ b = Base(rcv) /\ d = DataSize(rcv) /\ k = rcv.ack /\ q = rcv.seq /\ m = rcv.maxPos
           /\ b + d = k /\ k <= q + 1 /\ q <= snd.seq /\ q - k <= m /\ q - b + 2 <= RcvSize /\ d + m <= RcvSize - 1
           /\ \A o \in rcv.loss : o \in Nat /\ k <= o /\ o <= q
  BY <1>1, <1>2, CountsAre
<1>4. PICK a \in Nat : a = AckNumber /\ a <= q + 1 /\ k < a /\ \A o \in rcv.loss : a <= o
  <2>1. k < AckNumber
    BY <1>3 DEF sendAck
  <2>2. CASE rcv.loss = {}
    BY <1>3, <2>1, <2>2 DEF AckNumber
  <2>3. CASE rcv.loss # {}
    <3>1. rcv.loss \in SUBSET Nat
      BY <1>1, RcvFields
    <3>2. Least(rcv.loss) \in rcv.loss /\ \A o \in rcv.loss : Least(rcv.loss) <= o
      BY <2>3, <3>1, LeastIsIn
    <3>3. AckNumber = Least(rcv.loss)
      BY <2>3 DEF AckNumber
    <3>4. Least(rcv.loss) \in Nat /\ Least(rcv.loss) <= q
      BY <1>3, <3>2
    <3> QED
      BY <2>1, <3>2, <3>3, <3>4
  <2> QED
    BY <2>2, <2>3
<1>5. PICK e \in Nat : e = a - k /\ a - k > 0 /\ d + e = a - b
  BY <1>3, <1>4
<1>6. d + e \in Slots
  <2>1. RcvSize \in Nat /\ Slots = 0 .. RcvSize - 1
    BY Sizes
  <2>2. q - b + 2 <= RcvSize /\ a <= q + 1 /\ k < a /\ b + d = k
    BY <1>3, <1>4
  <2>3. d + e = a - b
    BY <1>5
  <2>4. d + e <= RcvSize - 1
    BY <2>1, <2>2, <2>3
  <2> QED
    BY <2>1, <2>4
<1>7. PICK m1 : m1 = MaxPosAfter(e) /\ m1 = IF m > e THEN m - e ELSE 0
  BY <1>3 DEF MaxPosAfter
<1>8. rcv.start \in Slots /\ rcv.ackPos \in Slots
  BY <1>1, RcvFields
<1>9. (rcv.ackPos + a - k) % RcvSize = At(rcv, d + e)
  <2>1. rcv.ackPos + a - k = rcv.ackPos + e
    <3>1. PICK g \in Nat : g = rcv.ackPos
      BY <1>8, Sizes
    <3> QED
      BY <1>5, <3>1
  <2>2. Rest(rcv.ackPos + e, RcvSize) = At(rcv, d + e)
    BY <1>3, <1>6, <1>8, Further
  <2> QED
    BY <2>1, <2>2 DEF Rest
<1>10. /\ UNCHANGED <<snd, dropped, read>>
       /\ net' = net \cup {[kind |-> "ack", seq |-> a]}
       /\ rcv' = [rcv EXCEPT !.ackPos = At(rcv, d + e), !.ack = a, !.maxPos = m1]
  BY <1>3, <1>4, <1>5, <1>7, <1>9 DEF sendAck
<1>11. PICK z : z = rcv'
  OBVIOUS
<1>12. /\ z.unit = rcv.unit /\ z.start = rcv.start /\ z.ackPos = At(rcv, d + e) /\ z.ack = a /\ z.maxPos = m1
       /\ z.seq = q /\ z.loss = rcv.loss
  <2>1. rcv \in [unit : [Slots -> {NULL} \cup [flag : 1 .. 3, block : Blocks]], start : Slots, ackPos : Slots,
            maxPos : Nat, ack : Nat \ {0}, seq : Nat, loss : SUBSET Nat]
    BY <1>1 DEF RcvOK
  <2> QED
    BY <1>3, <1>10, <1>11, <2>1
<1>13. DataSize(z) = d + e /\ Base(z) = b /\ \A i : At(z, i) = At(rcv, i)
  <2>1. DataSize(z) = d + e
    BY <1>6, <1>8, <1>12, SizeFollows
  <2>2. Base(z) = b
    BY <1>3, <1>4, <1>5, <1>12, <2>1 DEF Base
  <2> QED
    BY <1>12, <2>1, <2>2 DEF At
<1>14. Counts(snd, z)
  <2>1. q - a <= m1
    BY <1>3, <1>4, <1>5, <1>7
  <2>2. \A o \in rcv.loss : a <= o /\ o <= q
    BY <1>3, <1>4
  <2> QED
    BY <1>3, <1>4, <1>12, <1>13, <2>1, <2>2 DEF Counts
<1>15. RingIs(B, z, read)
  <2>1. \A t : Content(B, z, read, t) = Content(B, rcv, read, t)
    BY <1>3, <1>12 DEF Content
  <2> QED
    BY <1>1, <1>3, <1>12, <1>13, <2>1 DEF RingIs
<1>16. HasRead(B, snd, z, read)
  BY <1>1, <1>3, <1>12, <1>13 DEF HasRead, ReadAhead
<1>17. Carries(B, snd, net')
  BY <1>1, <1>10 DEF Carries
<1> QED
  BY <1>1, <1>10, <1>11, <1>14, <1>15, <1>16, <1>17 DEF Carried

-----------------------------------------------------------------------------
(* Reading                                                                   *)

\* What has come and has not been read.
Unread(B, r, R, s) == s <= r.seq /\ s \notin r.loss /\ B[s].msg \notin MsgsOf(R)

\* recvmsg sees what has come and has not been read.
LEMMA Seen ==
  ASSUME MessagesAssumption, RcvOK(rcv), NEW B, NEW b \in Nat \ {0}, b = Base(rcv), RingIs(B, rcv, read)
  PROVE  \A i \in Slots : /\ Readable(i) <=> Unread(B, rcv, read, b + i)
                          /\ Readable(i) => Block(i) = B[b + i] /\ rcv.unit[At(rcv, i)].block = B[b + i]
                          /\ rcv.unit[At(rcv, i)] = Content(B, rcv, read, b + i)
<1> TAKE i \in Slots
<1>1. rcv.unit[At(rcv, i)] = Content(B, rcv, read, b + i)
  BY DEF RingIs
<1>2. Readable(i) <=> (rcv.unit[At(rcv, i)] # NULL /\ rcv.unit[At(rcv, i)].flag = 1)
  BY PosIs DEF Readable
<1>3. Block(i) = rcv.unit[At(rcv, i)].block
  BY PosIs DEF Block
<1>4. CASE b + i <= rcv.seq /\ b + i \notin rcv.loss
  <2>1. rcv.unit[At(rcv, i)] # NULL
    BY <1>1, <1>4, ContentIs
  <2>2. Content(B, rcv, read, b + i) = [flag |-> IF B[b + i].msg \in MsgsOf(read) THEN 2 ELSE 1, block |-> B[b + i]]
    BY <1>4 DEF Content
  <2> QED
    BY <1>1, <1>2, <1>3, <1>4, <2>1, <2>2 DEF Unread
<1>5. CASE ~ (b + i <= rcv.seq /\ b + i \notin rcv.loss)
  <2>1. rcv.unit[At(rcv, i)] = NULL
    BY <1>1, <1>5, ContentIs
  <2> QED
    BY <1>1, <1>2, <1>5, <2>1 DEF Unread
<1> QED
  BY <1>4, <1>5

\* Blocks h to h + w - 1 are the parts of one message, that of block c.
Message(B, n, c, h, w) ==
  \A t \in h .. h + w - 1 :
    t \in 1 .. n /\ B[t].part = t - h + 1 /\ B[t].of = w /\ B[t].msg = c.msg /\ B[t].order = c.order

\* The parts of the message that block s belongs to.
LEMMA PartsAre ==
  ASSUME MessagesAssumption, NEW B, NEW n \in Nat, Whole(B, n), NEW s \in 1 .. n
  PROVE  \E h \in 1 .. s, w \in Nat \ {0}, p \in Nat \ {0} :
           /\ p <= w /\ B[s] \in Blocks /\ B[s].part = p /\ B[s].of = w /\ h = s - p + 1 /\ h + w - 1 <= n
           /\ Message(B, n, B[s], h, w)
<1>1. Piece(B, n, s)
  BY WholeIs
<1>2. PICK c \in Blocks : c = B[s]
  BY <1>1 DEF Piece
<1>3. c.part \in Nat \ {0} /\ c.of \in Nat \ {0} /\ c.part <= c.of /\ c.part <= s /\ s + c.of - c.part <= n
  BY <1>1, <1>2, BlocksAre DEF Piece
<1>4. PICK w \in Nat \ {0}, p \in Nat \ {0} : w = c.of /\ p = c.part /\ p <= w
  BY <1>3
<1>5. PICK h \in 1 .. s : h = s - p + 1 /\ h + w - 1 <= n
  BY <1>3, <1>4
<1>6. ASSUME NEW t \in h .. h + w - 1
      PROVE  t \in 1 .. n /\ B[t].part = t - h + 1 /\ B[t].of = w /\ B[t].msg = c.msg /\ B[t].order = c.order
  <2>1. PICK g \in 1 .. w : g = t - h + 1
    OBVIOUS
  <2>2. s - p + g = t
    BY <1>5, <2>1
  <2>3. B[s - p + g] = [c EXCEPT !.part = g]
    BY <1>1, <1>2, <1>4 DEF Piece
  <2>4. B[t] = [c EXCEPT !.part = g]
    BY <2>2, <2>3
  <2>5. c = [msg |-> c.msg, part |-> c.part, of |-> c.of, order |-> c.order]
    BY DEF Blocks
  <2>6. B[t].part = g /\ B[t].of = c.of /\ B[t].msg = c.msg /\ B[t].order = c.order
    BY <2>4, <2>5
  <2>7. t \in 1 .. n
    BY <1>5
  <2> QED
    BY <1>4, <2>1, <2>6, <2>7
<1>7. Message(B, n, B[s], h, w)
  BY <1>2, <1>6 DEF Message
<1> QED
  BY <1>2, <1>4, <1>5, <1>7

\* What scanMsg skips has been read: otherwise its message, or what is acknowledged
\* of it, could be read.
LEMMA SkippedIsRead ==
  ASSUME MessagesAssumption, RcvOK(rcv), NEW B, NEW b \in Nat \ {0}, b = Base(rcv), NEW n \in Nat, Whole(B, n),
         RingIs(B, rcv, read), FrontRead(B, b, read),
         NEW d \in Nat, d = DataSize(rcv), NEW q \in Nat, q = rcv.seq, q <= n, b + d <= q + 1,
         \A o \in rcv.loss : b + d <= o
  PROVE  \A i \in 0 .. Skipped - 1 : B[b + i].msg \in MsgsOf(read)
<1>1. PICK e \in 0 .. d : e = Skipped /\ \A i \in 0 .. d : i < e => ~ Good(i, d)
  BY SkippedIs
<1>2. d \in Slots /\ RcvSize \in Nat /\ Slots = 0 .. RcvSize - 1
  BY Sizes, RcvFields
<1> SUFFICES ASSUME NEW i \in 0 .. e - 1, B[b + i].msg \notin MsgsOf(read)
             PROVE  FALSE
  BY <1>1
<1>3. PICK s \in 1 .. n : s = b + i
  OBVIOUS
<1>4. PICK h \in 1 .. s, w \in Nat \ {0}, p \in Nat \ {0} :
           /\ p <= w /\ B[s] \in Blocks /\ B[s].part = p /\ B[s].of = w /\ h = s - p + 1 /\ h + w - 1 <= n
           /\ Message(B, n, B[s], h, w)
  BY PartsAre
<1>5. h >= b
  <2> SUFFICES ASSUME h < b
               PROVE  FALSE
    BY <1>4
  <2>1. h \in 1 .. b - 1 /\ h \in h .. h + w - 1
    BY <1>4
  <2>2. B[h].msg \in MsgsOf(read)
    BY <2>1 DEF FrontRead
  <2>3. B[h].msg = B[s].msg
    BY <1>4, <2>1 DEF Message
  <2> QED
    BY <1>3, <2>2, <2>3
<1>6. PICK c \in 0 .. i : b + c = h
  <2>1. h - b \in 0 .. i /\ b + (h - b) = h
    BY <1>3, <1>5
  <2> QED
    BY <2>1
<1>7. PICK f \in c .. d - 1 : /\ f = IF c + w - 1 < d THEN c + w - 1 ELSE d - 1
                            /\ f <= c + w - 1
  <2>1. c <= d - 1 /\ c \in Nat
    OBVIOUS
  <2> QED
    BY <2>1
<1>8. ASSUME NEW g \in c .. f
      PROVE  g \in Slots /\ Readable(g) /\ Block(g) = B[b + g] /\ b + g \in h .. h + w - 1
  <2>0. g <= f /\ c <= g /\ g \in Nat /\ f <= d - 1
    BY <1>7
  <2>6. g \in Slots
    BY <1>2, <2>0
  <2>7. b + g \in h .. h + w - 1
    BY <1>6, <1>7, <2>0
  <2>1. g \in Slots /\ b + g \in h .. h + w - 1
    BY <2>6, <2>7
  <2>2. b + g < b + d
    BY <1>7
  <2>3. b + g <= rcv.seq /\ b + g \notin rcv.loss
    BY <2>2
  <2>4. B[b + g].msg \notin MsgsOf(read)
    BY <1>3, <1>4, <2>1 DEF Message
  <2>5. Unread(B, rcv, read, b + g)
    BY <2>3, <2>4 DEF Unread
  <2> QED
    BY <2>1, <2>5, Seen
<1>9. Readable(c) /\ Block(c).part = 1
  <2>1. c \in c .. f /\ b + c \in h .. h + w - 1 /\ b + c - h + 1 = 1
    BY <1>6, <1>7
  <2>2. B[b + c].part = b + c - h + 1
    BY <1>4, <2>1 DEF Message
  <2>3. Readable(c) /\ Block(c) = B[b + c]
    BY <1>8, <2>1
  <2> QED
    BY <2>1, <2>2, <2>3
<1>10. Tails(Block(f)) \/ f = d - 1
  <2> SUFFICES ASSUME c + w - 1 < d
               PROVE  Tails(Block(f))
    BY <1>1, <1>7
  <2>1. f \in c .. f /\ b + f \in h .. h + w - 1 /\ b + f - h + 1 = w
    BY <1>6, <1>7
  <2>2. Block(f) = B[b + f] /\ B[b + f].part = w /\ B[b + f].of = w
    <3>1. B[b + f].part = b + f - h + 1 /\ B[b + f].of = w
      BY <1>4, <2>1 DEF Message
    <3> QED
      BY <1>8, <2>1, <3>1
  <2> QED
    BY <2>2 DEF Tails
<1>11. Good(c, d)
  BY <1>8, <1>9, <1>10 DEF Good
<1> QED
  BY <1>1, <1>11

\* The blocks s to s + w - 1, and what recvmsg returns.
Parts(B, s, w) == [j \in 1 .. w |-> B[s + j - 1]]

Got(p, q) == [i \in 1 .. q - p + 1 |-> Block(p + i - 1)]

\* The slots p to q hold one message of w blocks.
IsOne(B, b, n, p, q, w) ==
  /\ w \in Nat \ {0} /\ q = p + w - 1 /\ b + p \in 1 .. n
  /\ B[b + p] \in Blocks /\ B[b + p].part = 1 /\ B[b + p].of = w
  /\ Message(B, n, B[b + p], b + p, w) /\ Got(p, q) = Parts(B, b + p, w)

\* What is returned is one message, and all of it.
LEMMA FoundIs ==
  ASSUME MessagesAssumption, RcvOK(rcv), NEW B, NEW b \in Nat \ {0}, b = Base(rcv), NEW n \in Nat, Whole(B, n),
         RingIs(B, rcv, read), rcv.seq <= n, NEW p \in Nat, NEW q \in Nat, Found(p, q)
  PROVE  \E w : IsOne(B, b, n, p, q, w)
<1>1. PICK y \in Nat : y = rcv.seq
  BY RcvFields
<1>2. /\ p <= q /\ Tails(Block(q)) /\ Block(p).part = 1 /\ \A i \in p .. q : i \in Slots /\ Readable(i)
      /\ Skipped <= p /\ \A h \in Skipped .. q : Block(h).part = 1 /\ (\A i \in h .. q : Readable(i)) => h <= p
  BY DEF Found
<1>3. ASSUME NEW i \in p .. q
      PROVE  Readable(i) /\ Block(i) = B[b + i] /\ b + i \in 1 .. n
  <2>1. Readable(i) /\ i \in Slots
    BY <1>2
  <2>2. Unread(B, rcv, read, b + i) /\ Block(i) = B[b + i]
    BY <2>1, Seen
  <2>3. b + i <= y
    BY <1>1, <2>2 DEF Unread
  <2> QED
    BY <1>1, <2>1, <2>2, <2>3
<1>4. PICK t \in 1 .. n : t = b + q /\ B[t] = Block(q)
  BY <1>2, <1>3
<1>5. PICK h \in 1 .. t, w \in Nat \ {0}, g \in Nat \ {0} :
           /\ g <= w /\ B[t] \in Blocks /\ B[t].part = g /\ B[t].of = w /\ h = t - g + 1 /\ h + w - 1 <= n
           /\ Message(B, n, B[t], h, w)
  BY PartsAre
<1>6. g = w /\ h + w - 1 = t
  <2>1. B[t].part = B[t].of
    BY <1>2, <1>4 DEF Tails
  <2> QED
    BY <1>5, <2>1
<1>7. PICK s \in 1 .. n : s = b + p /\ s <= t /\ B[s] = Block(p) /\ B[s].part = 1
  <2>1. p \in p .. q
    BY <1>2
  <2>2. B[b + p] = Block(p) /\ b + p \in 1 .. n
    BY <1>3, <2>1
  <2> QED
    BY <1>2, <1>4, <2>2
<1>8. ~ (h < s)
  <2> SUFFICES ASSUME h < s
               PROVE  FALSE
    OBVIOUS
  <2>1. s \in h .. h + w - 1 /\ s - h + 1 # 1
    BY <1>6, <1>7
  <2>2. B[s].part = s - h + 1
    BY <1>5, <2>1 DEF Message
  <2> QED
    BY <1>7, <2>1, <2>2
<1>9. ~ (h > s)
  <2> SUFFICES ASSUME h > s
               PROVE  FALSE
    OBVIOUS
  <2>1. PICK e \in p + 1 .. q : b + e = h
    <3>1. h - b \in p + 1 .. q /\ b + (h - b) = h
      BY <1>4, <1>5, <1>7
    <3> QED
      BY <3>1
  <2>2. Skipped \in Nat
    BY SkippedIs, RcvFields
  <2>3. e \in Skipped .. q /\ ~ (e <= p) /\ e \in p .. q
    BY <1>2, <2>2
  <2>4. \A i \in e .. q : i \in p .. q
    BY <2>3
  <2>5. Block(e) = B[h] /\ \A i \in e .. q : Readable(i)
    BY <1>3, <2>1, <2>3, <2>4
  <2>6. B[h].part = 1
    <3>1. h \in h .. h + w - 1 /\ h - h + 1 = 1
      BY <1>5
    <3>2. B[h].part = h - h + 1
      BY <1>5, <3>1 DEF Message
    <3> QED
      BY <3>1, <3>2
  <2> QED
    BY <1>2, <2>3, <2>5, <2>6
<1>10. h = s
  BY <1>7, <1>8, <1>9
<1>11. q = p + w - 1
  BY <1>4, <1>6, <1>7, <1>10
<1>12. B[s].of = w /\ B[s].msg = B[t].msg /\ B[s].order = B[t].order
  <2>1. s \in h .. h + w - 1
    BY <1>6, <1>7, <1>10
  <2> QED
    BY <1>5, <2>1 DEF Message
<1>13. Message(B, n, B[s], s, w)
  BY <1>5, <1>10, <1>12 DEF Message
<1>14. B[s] \in Blocks
  BY WholeIs DEF Piece
<1>15. Got(p, q) = Parts(B, s, w)
  <2>1. q - p + 1 = w
    BY <1>11
  <2>2. ASSUME NEW i \in 1 .. w
        PROVE  Block(p + i - 1) = B[s + i - 1]
    <3>1. p + i - 1 \in p .. q /\ b + (p + i - 1) = s + i - 1
      BY <1>7, <1>11
    <3>2. Block(p + i - 1) = B[b + (p + i - 1)]
      BY <1>3, <3>1
    <3> QED
      BY <3>1, <3>2
  <2> QED
    BY <2>1, <2>2 DEF Got, Parts
<1> QED
  BY <1>7, <1>11, <1>12, <1>13, <1>14, <1>15 DEF IsOne

\* An acknowledged message that is returned is the first that can be.
LEMMA FrontIsTaken ==
  ASSUME MessagesAssumption, RcvOK(rcv), NEW B, NEW b \in Nat \ {0}, b = Base(rcv), NEW n \in Nat, Whole(B, n),
         RingIs(B, rcv, read),
         NEW d \in Nat, d = DataSize(rcv), NEW y \in Nat, y = rcv.seq, y <= n, b + d <= y + 1,
         \A o \in rcv.loss : b + d <= o,
         NEW p \in Nat, NEW q \in Nat, Found(p, q), q < d
  PROVE  p = Skipped
<1>1. PICK e \in 0 .. d : e = Skipped /\ (e = d \/ Good(e, d))
  BY SkippedIs
<1>2. d \in Slots /\ RcvSize \in Nat /\ Slots = 0 .. RcvSize - 1
  BY Sizes, RcvFields
<1>3. /\ e <= p /\ p <= q /\ Block(p).part = 1 /\ \A i \in p .. q : i \in Slots /\ Readable(i)
      /\ \A i \in e .. q - 1 : ~ (Readable(i) /\ Tails(Block(i)) /\ Takeable(i) /\ Heads(i) # {})
  BY <1>1 DEF Found
<1> SUFFICES ASSUME e < p
             PROVE  FALSE
  BY <1>1, <1>3
<1>4. Readable(e) /\ Block(e).part = 1 /\ e \in Slots
  BY <1>1, <1>2, <1>3 DEF Good
<1>5. PICK s \in 1 .. n : s = b + e /\ Block(e) = B[s] /\ B[s].msg \notin MsgsOf(read) /\ B[s].part = 1
  <2>1. Unread(B, rcv, read, b + e) /\ Block(e) = B[b + e]
    BY <1>4, Seen
  <2>2. b + e \in 1 .. n
    BY <1>3
  <2> QED
    BY <1>4, <2>1, <2>2 DEF Unread
<1>6. PICK h \in 1 .. s, w \in Nat \ {0}, g \in Nat \ {0} :
           /\ g <= w /\ B[s] \in Blocks /\ B[s].part = g /\ B[s].of = w /\ h = s - g + 1 /\ h + w - 1 <= n
           /\ Message(B, n, B[s], h, w)
  BY PartsAre
<1>7. h = s
  BY <1>5, <1>6
<1>8. PICK f \in Nat : f = e + w - 1 /\ b + f = h + w - 1 /\ e <= f
  <2>1. e + w - 1 \in Nat
    OBVIOUS
  <2> QED
    BY <1>5, <1>7, <2>1
<1>9. CASE p <= f
  <2>1. b + p \in h .. h + w - 1 /\ b + p - h + 1 # 1
    BY <1>5, <1>7, <1>8, <1>9
  <2>2. B[b + p].part = b + p - h + 1
    BY <1>6, <2>1 DEF Message
  <2>3. Block(p) = B[b + p]
    <3>1. p \in p .. q
      BY <1>3
    <3>2. p \in Slots /\ Readable(p)
      BY <1>3, <3>1
    <3> QED
      BY <3>2, Seen
  <2> QED
    BY <1>3, <2>1, <2>2, <2>3
<1>10. CASE f < p
  <2>1. f \in e .. q - 1 /\ f < d
    BY <1>3, <1>8, <1>10
  <2>2. ASSUME NEW i \in e .. f
        PROVE  Readable(i) /\ Block(i) = B[b + i] /\ b + i \in h .. h + w - 1
    <3>1. b + i \in h .. h + w - 1 /\ b + i < b + d
      BY <1>5, <1>7, <1>8, <2>1
    <3>2. i \in Slots
      BY <1>2, <2>1
    <3>3. b + i <= rcv.seq /\ b + i \notin rcv.loss
      BY <3>1
    <3>4. B[b + i].msg \notin MsgsOf(read)
      BY <1>5, <1>6, <3>1 DEF Message
    <3>5. Unread(B, rcv, read, b + i)
      BY <3>3, <3>4 DEF Unread
    <3> QED
      BY <3>1, <3>2, <3>5, Seen
  <2>3. Tails(Block(f))
    <3>1. f \in e .. f /\ b + f - h + 1 = w
      BY <1>8
    <3>2. Block(f) = B[b + f] /\ b + f \in h .. h + w - 1
      BY <2>2, <3>1
    <3>3. B[b + f].part = b + f - h + 1 /\ B[b + f].of = w
      BY <1>6, <3>2 DEF Message
    <3> QED
      BY <3>1, <3>2, <3>3 DEF Tails
  <2>4. Takeable(f)
    BY <2>1 DEF Takeable
  <2>5. e \in Heads(f)
    <3>1. e \in Skipped .. f
      BY <1>1, <1>8
    <3>2. \A i \in e .. f : Readable(i)
      BY <2>2
    <3> QED
      BY <1>4, <3>1, <3>2 DEF Heads
  <2>6. Readable(f)
    <3>1. f \in e .. f
      BY <1>8
    <3> QED
      BY <2>2, <3>1
  <2> QED
    BY <1>3, <2>1, <2>3, <2>4, <2>5, <2>6
<1> QED
  BY <1>9, <1>10

\* The blocks of a message are those from its first on.
LEMMA SameMessage ==
  ASSUME MessagesAssumption, NEW B, NEW n \in Nat, Whole(B, n), NEW s \in 1 .. n, NEW w \in Nat \ {0},
         B[s].part = 1, B[s].of = w, Message(B, n, B[s], s, w)
  PROVE  \A t \in 1 .. n : B[t].msg = B[s].msg <=> t \in s .. s + w - 1
<1> TAKE t \in 1 .. n
<1>1. Piece(B, n, t) /\ Piece(B, n, s) /\ Pair(B, s, t)
  BY WholeIs
<1>2. ASSUME B[t].msg = B[s].msg
      PROVE  t \in s .. s + w - 1
  <2>1. PICK c \in Blocks : c = B[t]
    BY <1>1 DEF Piece
  <2>2. PICK g \in Nat \ {0}, v \in Nat \ {0} : g = c.part /\ v = c.of /\ g <= v
    BY <1>1, <2>1, BlocksAre DEF Piece
  <2>3. s - 1 = t - g
    BY <1>1, <1>2, <2>1, <2>2 DEF Pair
  <2>4. 1 \in 1 .. v /\ t - g + 1 = s
    BY <2>2, <2>3
  <2>5. B[t - g + 1] = [c EXCEPT !.part = 1]
    BY <1>1, <2>1, <2>2, <2>4 DEF Piece
  <2>6. c = [msg |-> c.msg, part |-> c.part, of |-> c.of, order |-> c.order]
    BY DEF Blocks
  <2>7. B[s].of = c.of
    BY <2>4, <2>5, <2>6
  <2> QED
    BY <2>2, <2>3, <2>7
<1>3. ASSUME t \in s .. s + w - 1
      PROVE  B[t].msg = B[s].msg
  BY <1>3 DEF Message
<1> QED
  BY <1>2, <1>3

\* The first block of a message that has been read.
LEMMA FirstRead ==
  ASSUME MessagesAssumption, NEW B, NEW n \in Nat, NEW q \in Nat, q <= n, Whole(B, n), NEW R, ReadOf(B, q, R)
  PROVE  \A i \in DOMAIN R : \E t \in 1 .. q : R[i][1] = B[t] /\ B[t] \in Blocks
BY ReadMsgsAre

\* Q is R and f behind it.
Behind(Q, R, m, f) ==
  /\ DOMAIN R = 1 .. m /\ DOMAIN Q = 1 .. m + 1 /\ (\A i \in 1 .. m : Q[i] = R[i]) /\ Q[m + 1] = f

\* Append puts one behind.
LEMMA AppendIs ==
  ASSUME NEW R \in Seq(Seq(Blocks)), NEW f, NEW Q, Q = Append(R, f)
  PROVE  \E m \in Nat : Behind(Q, R, m, f)
<1>1. PICK m \in Nat : m = Len(R)
  OBVIOUS
<1>2. DOMAIN R = 1 .. m /\ DOMAIN Q = 1 .. m + 1 /\ (\A i \in 1 .. m : Q[i] = R[i]) /\ Q[m + 1] = f
  BY <1>1
<1> QED
  BY <1>2 DEF Behind

\* One message more has been read.
LEMMA OneMore ==
  ASSUME MessagesAssumption, NEW B, NEW n \in Nat, Whole(B, n), NEW y \in Nat, y <= n, NEW b \in Nat \ {0}, NEW r,
         NEW R, ReadOf(B, y, R), ReadAhead(B, b, n, r, R), Once(R), InOrder(R),
         NEW s \in 1 .. y, b <= s, NEW w \in Nat \ {0}, B[s].part = 1, B[s].of = w, B[s].msg \notin MsgsOf(R),
         NEW Q, NEW m \in Nat, Behind(Q, R, m, Parts(B, s, w))
  PROVE  ReadOf(B, y, Q) /\ Once(Q) /\ InOrder(Q) /\ MsgsOf(Q) = MsgsOf(R) \cup {B[s].msg}
<1>1. PICK f : f = Parts(B, s, w)
  OBVIOUS
<1>2. DOMAIN R = 1 .. m /\ DOMAIN Q = 1 .. m + 1 /\ (\A i \in 1 .. m : Q[i] = R[i]) /\ Q[m + 1] = f
  BY <1>1 DEF Behind
<1>3. \A i \in 1 .. m + 1 : i \in 1 .. m \/ i = m + 1
  OBVIOUS
<1>4. \A i \in 1 .. m : i \in 1 .. m + 1
  OBVIOUS
<1>5. m + 1 \in 1 .. m + 1
  OBVIOUS
<1>6. f[1] = B[s]
  <2>1. 1 \in 1 .. w /\ s + 1 - 1 = s
    OBVIOUS
  <2>2. f[1] = B[s + 1 - 1]
    BY <1>1, <2>1 DEF Parts
  <2> QED
    BY <2>1, <2>2
<1>7. IsMessage(B, s, f)
  BY <1>1 DEF IsMessage, Parts
<1>8. ReadOf(B, y, Q)
  <2>1. \A i \in 1 .. m : \E t \in 1 .. y : IsMessage(B, t, R[i])
    BY <1>2 DEF ReadOf
  <2>2. \A i \in 1 .. m + 1 : \E t \in 1 .. y : IsMessage(B, t, Q[i])
    BY <1>2, <1>3, <1>7, <2>1
  <2> QED
    BY <1>2, <2>2 DEF ReadOf
<1>9. MsgsOf(Q) = MsgsOf(R) \cup {B[s].msg}
  <2>1. \A g : g \in MsgsOf(R) <=> \E i \in 1 .. m : g = R[i][1].msg
    BY <1>2 DEF MsgsOf
  <2>2. \A g : g \in MsgsOf(Q) <=> \E i \in 1 .. m + 1 : g = Q[i][1].msg
    BY <1>2 DEF MsgsOf
  <2>3. \A g : g \in MsgsOf(Q) => g \in MsgsOf(R) \/ g = B[s].msg
    BY <1>2, <1>3, <1>6, <2>1, <2>2
  <2>4. \A g : g \in MsgsOf(R) => g \in MsgsOf(Q)
    <3> TAKE g
    <3> HAVE g \in MsgsOf(R)
    <3>1. PICK i \in 1 .. m : g = R[i][1].msg
      BY <2>1
    <3>2. i \in 1 .. m + 1 /\ Q[i] = R[i]
      BY <1>2
    <3> QED
      BY <2>2, <3>1, <3>2
  <2>5. B[s].msg \in MsgsOf(Q)
    BY <1>2, <1>5, <1>6, <2>2
  <2> QED
    BY <2>3, <2>4, <2>5
<1>10. \A i \in 1 .. m : R[i][1].msg # B[s].msg
  BY <1>2, MsgsOfIs
<1>11. Once(Q)
  <2> SUFFICES ASSUME NEW i \in 1 .. m + 1, NEW j \in 1 .. m + 1, Q[i][1].msg = Q[j][1].msg
               PROVE  i = j
    BY <1>2 DEF Once
  <2>1. CASE i \in 1 .. m /\ j \in 1 .. m
    BY <1>2, <2>1 DEF Once
  <2>2. CASE i \in 1 .. m /\ j = m + 1
    BY <1>2, <1>6, <1>10, <2>2
  <2>3. CASE i = m + 1 /\ j \in 1 .. m
    BY <1>2, <1>6, <1>10, <2>3
  <2> QED
    BY <1>3, <2>1, <2>2, <2>3
<1>12. InOrder(Q)
  <2> SUFFICES ASSUME NEW i \in 1 .. m + 1, NEW j \in 1 .. m + 1, i < j, Q[j][1].order
               PROVE  Q[i][1].msg < Q[j][1].msg \/ ~ Q[i][1].order
    BY <1>2, Zenon DEF InOrder
  <2>1. i \in 1 .. m
    OBVIOUS
  <2>2. CASE j \in 1 .. m
    BY <1>2, <2>1, <2>2 DEF InOrder
  <2>3. CASE j = m + 1
    <3> SUFFICES ASSUME R[i][1].order
                 PROVE  R[i][1].msg < B[s].msg
      BY <1>2, <1>6, <2>1, <2>3
    <3>1. PICK t \in 1 .. y : R[i][1] = B[t] /\ B[t] \in Blocks
      <4>1. i \in DOMAIN R
        BY <1>2, <2>1
      <4>2. \E t \in 1 .. y : R[i][1] = B[t] /\ B[t] \in Blocks
        BY <4>1, FirstRead
      <4> QED
        BY <4>2
    <3>2. B[t].msg \in MsgsOf(R)
      BY <1>2, <2>1, <3>1, MsgsOfIs
    <3>3. ~ (t \in b .. n)
      BY <3>1, <3>2 DEF ReadAhead
    <3>4. t \in 1 .. n /\ s \in 1 .. n /\ t <= s
      BY <3>3
    <3>5. Pair(B, t, s) /\ Piece(B, n, s)
      BY <3>4, WholeIs
    <3>6. B[t].msg <= B[s].msg /\ B[t].msg # B[s].msg
      BY <1>10, <2>1, <3>1, <3>4, <3>5 DEF Pair
    <3>7. PICK g \in Nat, h \in Nat : g = B[t].msg /\ h = B[s].msg
      BY <3>1, <3>5, BlocksAre DEF Piece
    <3>8. g < h
      BY <3>6, <3>7
    <3> QED
      BY <3>1, <3>7, <3>8
  <2> QED
    BY <1>3, <2>2, <2>3
<1> QED
  BY <1>8, <1>9, <1>11, <1>12

\* The ring, its start d slots further.
LEMMA RingTurns ==
  ASSUME MessagesAssumption, NEW B, NEW x, x.seq \in Nat, NEW r, RcvOK(r), Counts(x, r), NEW z, NEW R,
         NEW d \in Slots, d <= DataSize(r), z.start = At(r, d), z.ackPos = r.ackPos, z.maxPos = r.maxPos,
         z.ack = r.ack, z.seq = r.seq, z.loss = r.loss,
         \A k \in Slots : z.unit[At(r, k)] = IF k < d THEN NULL ELSE Content(B, z, R, Base(r) + k)
  PROVE  Base(z) = Base(r) + d /\ Counts(x, z) /\ RingIs(B, z, R)
<1>1. PICK b \in Nat \ {0}, e \in Nat, k \in Nat \ {0}, q \in Nat, m \in Nat :
           /\ b = Base(r) /\ e = DataSize(r) /\ k = r.ack /\ q = r.seq /\ m = r.maxPos
           /\ b + e = k /\ k <= q + 1 /\ q <= x.seq /\ q - k <= m /\ q - b + 2 <= RcvSize /\ e + m <= RcvSize - 1
           /\ \A o \in r.loss : o \in Nat /\ k <= o /\ o <= q
  BY CountsAre
<1>2. r.start \in Slots /\ r.ackPos \in Slots
  BY DEF RcvOK
<1>3. /\ z.start \in Slots /\ DataSize(z) = e - d
      /\ \A i \in Slots : At(z, i) = IF i + d < RcvSize THEN At(r, i + d) ELSE At(r, i + d - RcvSize)
  BY <1>1, <1>2, Onward
<1>4. RcvSize \in Nat /\ Slots = 0 .. RcvSize - 1 /\ d \in Nat
  BY Sizes
<1>5. PICK b1 \in Nat \ {0} : b1 = b + d /\ b1 = Base(z)
  <2>1. Base(z) = k - (e - d)
    BY <1>1, <1>3 DEF Base
  <2>2. d \in Nat /\ b + e = k
    BY <1>1, <1>4
  <2>3. k - (e - d) = b + d /\ b + d \in Nat \ {0}
    BY <2>2
  <2> QED
    BY <2>1, <2>3
<1>6. q - b1 + 2 <= RcvSize /\ ~ (b1 + RcvSize - d <= q)
  <2>1. q - b + 2 <= RcvSize /\ RcvSize \in Nat /\ d \in Nat
    BY <1>1, <1>4
  <2>2. b1 = b + d
    BY <1>5
  <2> QED
    BY <2>1, <2>2
<1>7. Counts(x, z)
  <2>1. Base(z) >= 1
    BY <1>5
  <2> QED
    BY <1>1, <1>5, <1>6, <2>1 DEF Counts
<1>8. RingIs(B, z, R)
  <2> SUFFICES ASSUME NEW i \in Slots
               PROVE  z.unit[At(z, i)] = Content(B, z, R, b1 + i)
    BY <1>5 DEF RingIs
  <2>1. i \in Nat /\ i <= RcvSize - 1
    BY <1>4
  <2>2. CASE i + d < RcvSize
    <3>1. i + d \in Slots /\ ~ (i + d < d) /\ b + (i + d) = b1 + i
      BY <1>4, <1>5, <2>1, <2>2
    <3>2. At(z, i) = At(r, i + d)
      BY <1>3, <2>2
    <3> QED
      BY <1>1, <3>1, <3>2
  <2>3. CASE ~ (i + d < RcvSize)
    <3>1. i + d - RcvSize \in Slots /\ i + d - RcvSize < d
      BY <1>4, <2>1, <2>3
    <3>2. At(z, i) = At(r, i + d - RcvSize)
      BY <1>3, <2>3
    <3>3. z.unit[At(z, i)] = NULL
      BY <3>1, <3>2
    <3>4. ~ (b1 + i <= q)
      <4>1. RcvSize \in Nat /\ d \in Nat
        BY <1>4
      <4> QED
        BY <1>6, <2>1, <2>3, <4>1
    <3>5. Content(B, z, R, b1 + i) = NULL
      BY <1>1, <3>4 DEF Content
    <3> QED
      BY <3>3, <3>5
  <2> QED
    BY <2>2, <2>3
<1> QED
  BY <1>1, <1>5, <1>7, <1>8

\* What lies before the start has been read when the start has moved.
LEMMA FrontMoves ==
  ASSUME NEW B, NEW b \in Nat \ {0}, NEW d \in Nat, NEW R, NEW Q, FrontRead(B, b, R), MsgsOf(R) \subseteq MsgsOf(Q),
         \A i \in 0 .. d - 1 : B[b + i].msg \in MsgsOf(Q)
  PROVE  FrontRead(B, b + d, Q)
<1> SUFFICES ASSUME NEW s \in 1 .. b + d - 1
             PROVE  B[s].msg \in MsgsOf(Q)
  BY DEF FrontRead
<1>1. CASE s <= b - 1
  <2>1. s \in 1 .. b - 1
    BY <1>1
  <2> QED
    BY <2>1 DEF FrontRead
<1>2. CASE s > b - 1
  <2>1. s - b \in 0 .. d - 1 /\ b + (s - b) = s
    BY <1>2
  <2> QED
    BY <2>1
<1> QED
  BY <1>1, <1>2

\* The message that is returned and what is left.
LEMMA ReturnedIs ==
  ASSUME MessagesAssumption, TIInv, NEW B, Carried(B, snd, rcv, net, read), NEW p \in Slots, NEW q \in Slots, Returns(p, q),
         NEW b \in Nat \ {0}, b = Base(rcv), NEW n \in Nat, n = Last(snd), NEW y \in Nat, y = rcv.seq, y <= n
  PROVE  /\ ReadOf(B, y, read') /\ Once(read') /\ InOrder(read') /\ MsgsOf(read) \subseteq MsgsOf(read')
         /\ p <= q
         /\ \A t \in 1 .. n : B[t].msg \in MsgsOf(read') <=> B[t].msg \in MsgsOf(read) \/ t \in b + p .. b + q
         /\ \A i \in p .. q : /\ i \in Slots /\ b + i \in 1 .. n /\ B[b + i].order = B[b + q].order
                              /\ Readable(i) /\ Unread(B, rcv, read, b + i) /\ Block(i) = B[b + i]
<1>1. RcvOK(rcv) /\ read \in Seq(Seq(Blocks)) /\ Whole(B, n) /\ RingIs(B, rcv, read)
      /\ ReadOf(B, y, read) /\ ReadAhead(B, b, n, rcv, read) /\ Once(read) /\ InOrder(read)
  BY DEF TIInv, Carried, HasRead
<1>2. PICK f : f = Got(p, q)
  OBVIOUS
<1>3. read' = Append(read, f) /\ Found(p, q)
  BY <1>2 DEF Returns, Got
<1>4. p \in Nat /\ q \in Nat
  BY Sizes
<1>5. PICK w \in Nat \ {0} : IsOne(B, b, n, p, q, w) /\ f = Parts(B, b + p, w)
  <2>1. RcvOK(rcv) /\ b = Base(rcv) /\ Whole(B, n) /\ RingIs(B, rcv, read) /\ rcv.seq <= n /\ p \in Nat /\ q \in Nat
        /\ Found(p, q)
    BY <1>1, <1>3, <1>4
  <2>2. \E w : IsOne(B, b, n, p, q, w)
    BY <2>1, FoundIs
  <2> QED
    BY <1>2, <1>4, <2>2 DEF IsOne
<1>6. /\ w \in Nat \ {0} /\ q = p + w - 1 /\ b + p \in 1 .. n
      /\ B[b + p] \in Blocks /\ B[b + p].part = 1 /\ B[b + p].of = w
      /\ Message(B, n, B[b + p], b + p, w) /\ f = Parts(B, b + p, w)
  BY <1>5 DEF IsOne
<1>7. PICK s \in 1 .. n : s = b + p
  BY <1>6
<1>8. p <= q /\ s + w - 1 = b + q
  BY <1>4, <1>6, <1>7
<1>9. ASSUME NEW i \in p .. q
      PROVE  i \in Slots /\ Readable(i) /\ Unread(B, rcv, read, b + i) /\ Block(i) = B[b + i]
  <2>1. i \in Slots /\ Readable(i)
    BY <1>3 DEF Found
  <2> QED
    BY <1>1, <2>1, Seen
<1>10. ASSUME NEW i \in p .. q
      PROVE  b + i \in 1 .. n /\ b + i \in s .. s + w - 1 /\ B[b + i].order = B[s].order
  <2>1. b + i \in s .. s + w - 1
    BY <1>4, <1>7, <1>8
  <2> QED
    BY <1>6, <1>7, <2>1 DEF Message
<1>11. s <= y /\ B[s].msg \notin MsgsOf(read)
  <2>1. p \in p .. q
    BY <1>4, <1>8
  <2> QED
    BY <1>7, <1>9, <2>1 DEF Unread
<1>12. PICK m \in Nat : Behind(read', read, m, f)
  BY <1>1, <1>3, AppendIs
<1>13. PICK R, Q : R = read /\ Q = read'
  OBVIOUS
<1>14. ReadOf(B, y, Q) /\ Once(Q) /\ InOrder(Q) /\ MsgsOf(Q) = MsgsOf(R) \cup {B[s].msg}
  <2>1. s \in 1 .. y /\ b <= s
    BY <1>4, <1>7, <1>11
  <2>2. ReadOf(B, y, R) /\ ReadAhead(B, b, n, rcv, R) /\ Once(R) /\ InOrder(R) /\ Whole(B, n)
        /\ B[s].msg \notin MsgsOf(R)
    BY <1>1, <1>11, <1>12, <1>13
  <2>3. B[s].part = 1 /\ B[s].of = w /\ f = Parts(B, s, w)
    BY <1>6, <1>7
  <2>5. Behind(Q, R, m, Parts(B, s, w))
    BY <1>12, <1>13, <2>3
  <2>4. \A r0 : ReadAhead(B, b, n, r0, R) => ReadOf(B, y, Q) /\ Once(Q) /\ InOrder(Q) /\ MsgsOf(Q) = MsgsOf(R) \cup {B[s].msg}
    BY <2>1, <2>2, <2>3, <2>5, OneMore
  <2> QED
    BY <2>2, <2>4
<1>15. \A t \in 1 .. n : B[t].msg = B[s].msg <=> t \in s .. s + w - 1
  <2>1. B[s].part = 1 /\ B[s].of = w /\ Message(B, n, B[s], s, w)
    BY <1>6, <1>7
  <2> QED
    BY <1>1, <2>1, SameMessage
<1>16. \A t \in 1 .. n : B[t].msg \in MsgsOf(Q) <=> B[t].msg \in MsgsOf(R) \/ t \in b + p .. b + q
  BY <1>7, <1>8, <1>14, <1>15
<1>17. \A i \in p .. q : B[b + i].order = B[b + q].order
  <2>1. q \in p .. q
    BY <1>4, <1>8
  <2> QED
    BY <1>10, <2>1
<1>18. MsgsOf(R) \subseteq MsgsOf(Q)
  BY <1>14
<1> QED
  BY <1>8, <1>9, <1>10, <1>13, <1>14, <1>16, <1>17, <1>18

\* z is r with its start d slots further, and what it holds is what has come.
Turned(B, r, z, d, b, Q) ==
  /\ d <= DataSize(r) /\ b = Base(r) /\ z.start = At(r, d) /\ z.ackPos = r.ackPos /\ z.maxPos = r.maxPos
  /\ z.ack = r.ack /\ z.seq = r.seq /\ z.loss = r.loss
  /\ \A k \in Slots : z.unit[At(r, k)] = IF k < d THEN NULL ELSE Content(B, z, Q, b + k)

\* Q is R or one message more.
MoreRead(B, r, d, b, n, R, Q) ==
  /\ ReadOf(B, r.seq, Q) /\ Once(Q) /\ InOrder(Q) /\ MsgsOf(R) \subseteq MsgsOf(Q)
  /\ \A i \in 0 .. d - 1 : B[b + i].msg \in MsgsOf(Q)
  /\ \A t \in b + d .. n : B[t].msg \in MsgsOf(Q) =>
       B[t].msg \in MsgsOf(R) \/ (t <= r.seq /\ t \notin r.loss /\ ~ B[t].order)

\* A step of recvmsg keeps what Carried says, whatever it returned.
LEMMA TurnCarries ==
  ASSUME MessagesAssumption, NEW B, NEW x, x.seq \in Nat, NEW r, RcvOK(r), NEW N, NEW R, Carried(B, x, r, N, R), NEW z, NEW Q,
         NEW n \in Nat, n = Last(x), NEW b \in Nat \ {0}, NEW d \in Slots, d \in Nat,
         Turned(B, r, z, d, b, Q), MoreRead(B, r, d, b, n, R, Q)
  PROVE  Carried(B, x, z, N, Q)
<1>0. b = Base(r)
  BY DEF Turned
<1>1. Whole(B, n) /\ HoldsEnd(B, x) /\ Carries(B, x, N) /\ Counts(x, r) /\ FrontRead(B, b, R) /\ ReadAhead(B, b, n, r, R)
  BY <1>0 DEF Carried, HasRead
<1>2. Base(z) = b + d /\ Counts(x, z) /\ RingIs(B, z, Q)
  BY <1>1, RingTurns DEF Turned
<1>3. FrontRead(B, b + d, Q)
  BY <1>1, FrontMoves DEF MoreRead
<1>4. ReadAhead(B, b + d, n, z, Q)
  <2> SUFFICES ASSUME NEW t \in b + d .. n, B[t].msg \in MsgsOf(Q)
               PROVE  t <= r.seq /\ t \notin r.loss /\ ~ B[t].order
    BY DEF ReadAhead, Turned
  <2>1. t \in b .. n
    OBVIOUS
  <2> QED
    BY <1>1, <2>1 DEF ReadAhead, MoreRead
<1>5. HasRead(B, x, z, Q)
  BY <1>2, <1>3, <1>4 DEF HasRead, Turned, MoreRead
<1> QED
  BY <1>1, <1>2, <1>5 DEF Carried

\* What recvmsg keeps.
LEMMA RecvmsgCarries ==
  ASSUME MessagesAssumption, TIInv, NEW B, Carried(B, snd, rcv, net, read), recvmsg
  PROVE  Carried(B, snd', rcv', net', read')
<1>1. /\ SndOK(snd) /\ RcvOK(rcv) /\ HoldsEnd(B, snd) /\ Counts(snd, rcv) /\ Whole(B, Last(snd)) /\ RingIs(B, rcv, read)
      /\ HasRead(B, snd, rcv, read)
  BY DEF TIInv, Carried
<1>2. UNCHANGED <<snd, net>>
  BY DEF recvmsg
<1>3. PICK n \in Nat, v \in Nat : n = Last(snd) /\ v = snd.seq /\ v <= n
  BY <1>1, SenderIs
<1>4. PICK b \in Nat \ {0}, e \in Nat, k \in Nat \ {0}, y \in Nat, m \in Nat :
           /\ b = Base(rcv) /\ e = DataSize(rcv) /\ k = rcv.ack /\ y = rcv.seq /\ m = rcv.maxPos
           /\ b + e = k /\ k <= y + 1 /\ y <= snd.seq /\ y - k <= m /\ y - b + 2 <= RcvSize /\ e + m <= RcvSize - 1
           /\ \A o \in rcv.loss : o \in Nat /\ k <= o /\ o <= y
  BY <1>1, <1>3, CountsAre
<1>5. PICK d \in Slots, u \in [Slots -> Unit] :
           /\ d <= DataSize(rcv)
           /\ rcv' = [unit |-> u, start |-> At(rcv, d), ackPos |-> rcv.ackPos, maxPos |-> rcv.maxPos,
                      ack |-> rcv.ack, seq |-> rcv.seq, loss |-> rcv.loss]
           /\ \/ GivesBack(d, u)
              \/ \E p, q \in Slots : Returns(p, q) /\ (TakesOut(d, u, p, q) \/ Marks(d, u, p, q))
  BY <1>1, RecvStep
<1>6. PICK z : z = rcv'
  OBVIOUS
<1>7. /\ z.unit = u /\ z.start = At(rcv, d) /\ z.ackPos = rcv.ackPos /\ z.maxPos = rcv.maxPos
      /\ z.ack = rcv.ack /\ z.seq = rcv.seq /\ z.loss = rcv.loss
  BY <1>5, <1>6
<1>8. y <= n /\ d \in Nat /\ d <= e /\ RcvSize \in Nat /\ Slots = 0 .. RcvSize - 1
  <2>1. RcvSize \in Nat /\ Slots = 0 .. RcvSize - 1
    BY Sizes
  <2>2. d \in Nat /\ d <= e
    BY <1>4, <1>5, <2>1
  <2>3. y <= n
    BY <1>3, <1>4
  <2> QED
    BY <2>1, <2>2, <2>3
<1>9. /\ ReadOf(B, y, read) /\ FrontRead(B, b, read) /\ ReadAhead(B, b, n, rcv, read) /\ Once(read) /\ InOrder(read)
      /\ Whole(B, n)
  BY <1>1, <1>3, <1>4 DEF HasRead
<1>10. PICK c \in 0 .. e : c = Skipped
  BY <1>1, <1>4, SkippedIs
<1>11. \A i \in 0 .. c - 1 : B[b + i].msg \in MsgsOf(read)
  <2>1. b + e <= y + 1 /\ \A o \in rcv.loss : b + e <= o
    BY <1>4
  <2>2. RcvOK(rcv) /\ b = Base(rcv) /\ Whole(B, n) /\ RingIs(B, rcv, read) /\ FrontRead(B, b, read) /\ e = DataSize(rcv)
        /\ y = rcv.seq /\ y <= n
    BY <1>1, <1>4, <1>8, <1>9
  <2>3. \A i \in 0 .. Skipped - 1 : B[b + i].msg \in MsgsOf(read)
    BY <2>1, <2>2, SkippedIsRead
  <2> QED
    BY <1>10, <2>3
<1>12. \A i \in Slots : /\ rcv.unit[At(rcv, i)] = Content(B, rcv, read, b + i)
                        /\ Readable(i) => rcv.unit[At(rcv, i)].block = B[b + i]
  BY <1>1, <1>4, Seen
<1>13. ASSUME NEW Q, Q = read', ReadOf(B, y, Q), Once(Q), InOrder(Q), MsgsOf(read) \subseteq MsgsOf(Q),
              \A i \in 0 .. d - 1 : B[b + i].msg \in MsgsOf(Q),
              \A i \in Slots : u[At(rcv, i)] = IF i < d THEN NULL ELSE Content(B, z, Q, b + i),
              \A t \in b + d .. n : B[t].msg \in MsgsOf(Q) =>
                B[t].msg \in MsgsOf(read) \/ (t <= y /\ t \notin rcv.loss /\ ~ B[t].order)
       PROVE  Carried(B, snd', rcv', net', read')
  <2>1. PICK x, r, N, R : x = snd /\ r = rcv /\ N = net /\ R = read
    OBVIOUS
  <2>2. x.seq \in Nat /\ RcvOK(r) /\ Carried(B, x, r, N, R) /\ n = Last(x) /\ d \in Nat
    BY <1>1, <1>3, <1>8, <2>1
  <2>3. Turned(B, r, z, d, b, Q)
    BY <1>4, <1>5, <1>7, <1>13, <2>1 DEF Turned
  <2>4. MoreRead(B, r, d, b, n, R, Q)
    BY <1>4, <1>13, <2>1 DEF MoreRead
  <2>7. Carried(B, x, z, N, Q)
    BY <2>2, <2>3, <2>4, TurnCarries
  <2> QED
    BY <1>2, <1>6, <1>13, <2>1, <2>7
<1>14. CASE GivesBack(d, u)
  <2>1. d = c /\ read' = read /\ \A i \in Slots : u[At(rcv, i)] = IF i < d THEN NULL ELSE rcv.unit[At(rcv, i)]
    BY <1>10, <1>14 DEF GivesBack
  <2>2. \A s : Content(B, z, read, s) = Content(B, rcv, read, s)
    BY <1>7 DEF Content
  <2>3. \A i \in Slots : u[At(rcv, i)] = IF i < d THEN NULL ELSE Content(B, z, read, b + i)
    BY <1>12, <2>1, <2>2
  <2>4. \A i \in 0 .. d - 1 : B[b + i].msg \in MsgsOf(read)
    BY <1>11, <2>1
  <2> QED
    BY <1>9, <1>13, <2>1, <2>3, <2>4
<1>15. ASSUME NEW p \in Slots, NEW q \in Slots, Returns(p, q), TakesOut(d, u, p, q) \/ Marks(d, u, p, q)
       PROVE  Carried(B, snd', rcv', net', read')
  <2>1. PICK Q, R : Q = read' /\ R = read
    OBVIOUS
  <2>2. /\ ReadOf(B, y, Q) /\ Once(Q) /\ InOrder(Q) /\ MsgsOf(R) \subseteq MsgsOf(Q)
        /\ p <= q
        /\ \A t \in 1 .. n : B[t].msg \in MsgsOf(Q) <=> B[t].msg \in MsgsOf(R) \/ t \in b + p .. b + q
        /\ \A i \in p .. q : /\ i \in Slots /\ b + i \in 1 .. n /\ B[b + i].order = B[b + q].order
                             /\ Readable(i) /\ Unread(B, rcv, read, b + i) /\ Block(i) = B[b + i]
    <3>1. Returns(p, q) /\ b = Base(rcv) /\ n = Last(snd) /\ y = rcv.seq /\ y <= n
      BY <1>3, <1>4, <1>8, <1>15
    <3>2. /\ ReadOf(B, y, read') /\ Once(read') /\ InOrder(read') /\ MsgsOf(read) \subseteq MsgsOf(read')
          /\ p <= q
          /\ \A t \in 1 .. n : B[t].msg \in MsgsOf(read') <=> B[t].msg \in MsgsOf(read) \/ t \in b + p .. b + q
          /\ \A i \in p .. q : /\ i \in Slots /\ b + i \in 1 .. n /\ B[b + i].order = B[b + q].order
                               /\ Readable(i) /\ Unread(B, rcv, read, b + i) /\ Block(i) = B[b + i]
      BY <3>1, ReturnedIs
    <3> QED
      BY <2>1, <3>2
  <2>3. p \in Nat /\ q \in Nat /\ c <= p /\ Found(p, q)
    <3>1. Found(p, q)
      BY <1>15 DEF Returns
    <3> QED
      BY <1>8, <1>10, <3>1 DEF Found
  <2>4. ASSUME NEW i \in p .. q
        PROVE  /\ b + i <= y /\ b + i \notin rcv.loss /\ B[b + i].msg \in MsgsOf(Q)
               /\ Content(B, z, Q, b + i) = [flag |-> 2, block |-> B[b + i]]
               /\ rcv.unit[At(rcv, i)].block = B[b + i]
    <3>1. i \in Slots /\ b + i \in 1 .. n /\ Unread(B, rcv, read, b + i) /\ Readable(i)
      BY <2>2
    <3>2. b + i \in b + p .. b + q
      BY <2>3
    <3>3. B[b + i].msg \in MsgsOf(Q)
      BY <2>2, <3>1, <3>2
    <3>4. b + i <= y /\ b + i \notin rcv.loss
      BY <1>4, <3>1 DEF Unread
    <3>5. Content(B, z, Q, b + i) = [flag |-> 2, block |-> B[b + i]]
      BY <1>4, <1>7, <3>3, <3>4 DEF Content
    <3> QED
      BY <1>12, <3>1, <3>3, <3>4, <3>5
  <2>5. ASSUME NEW i \in Slots, i \notin p .. q
        PROVE  Content(B, z, Q, b + i) = rcv.unit[At(rcv, i)]
    <3>1. rcv.unit[At(rcv, i)] = Content(B, rcv, R, b + i)
      BY <1>12, <2>1
    <3>2. CASE b + i <= y /\ b + i \notin rcv.loss
      <4>1. i \in Nat
        BY <1>8
      <4>2. b + i \in 1 .. n /\ b + i \notin b + p .. b + q
        BY <1>8, <2>3, <2>5, <3>2, <4>1
      <4>3. B[b + i].msg \in MsgsOf(Q) <=> B[b + i].msg \in MsgsOf(R)
        BY <2>2, <4>2
      <4> QED
        BY <1>4, <1>7, <3>1, <4>3 DEF Content
    <3>3. CASE ~ (b + i <= y /\ b + i \notin rcv.loss)
      BY <1>4, <1>7, <3>1, <3>3 DEF Content
    <3> QED
      BY <3>2, <3>3
  <2>6. \A i \in 0 .. c - 1 : B[b + i].msg \in MsgsOf(Q)
    BY <1>11, <2>1, <2>2
  <2>7. CASE TakesOut(d, u, p, q)
    <3>1. /\ q < e /\ d = q + 1
          /\ \A i \in Slots : u[At(rcv, i)] = IF i < c \/ i \in p .. q THEN NULL ELSE rcv.unit[At(rcv, i)]
      BY <1>4, <1>10, <2>7 DEF TakesOut
    <3>2. p = c
      <4>1. \A o \in rcv.loss : b + e <= o
        BY <1>4
      <4>2. b + e <= y + 1
        BY <1>4
      <4> QED
        <5>1. RcvOK(rcv) /\ b = Base(rcv) /\ Whole(B, n) /\ RingIs(B, rcv, read) /\ e = DataSize(rcv) /\ y = rcv.seq /\ y <= n
          BY <1>1, <1>4, <1>8, <1>9
        <5>2. p \in Nat /\ q \in Nat /\ Found(p, q) /\ q < e
          BY <2>3, <3>1
        <5>3. p = Skipped
          BY <4>1, <4>2, <5>1, <5>2, FrontIsTaken
        <5> QED
          BY <1>10, <5>3
    <3>3. \A i \in Slots : i < d <=> i < c \/ i \in p .. q
      BY <1>8, <2>2, <2>3, <3>1, <3>2
    <3>4. \A i \in Slots : u[At(rcv, i)] = IF i < d THEN NULL ELSE Content(B, z, Q, b + i)
      BY <2>5, <3>1, <3>3
    <3>5. \A i \in 0 .. d - 1 : B[b + i].msg \in MsgsOf(Q)
      <4> TAKE i \in 0 .. d - 1
      <4>1. i \in 0 .. c - 1 \/ i \in p .. q
        BY <2>3, <3>1, <3>2
      <4> QED
        BY <2>4, <2>6, <4>1
    <3>6. \A t \in b + d .. n : B[t].msg \in MsgsOf(Q) => B[t].msg \in MsgsOf(R)
      <4> TAKE t \in b + d .. n
      <4>1. t \in 1 .. n /\ t \notin b + p .. b + q
        BY <2>3, <3>1
      <4> QED
        BY <2>2, <4>1
    <3> QED
      BY <1>13, <2>1, <2>2, <3>4, <3>5, <3>6
  <2>8. CASE Marks(d, u, p, q)
    <3>1. /\ q >= e /\ d = c
          /\ \A i \in Slots : u[At(rcv, i)] =
               IF i < d THEN NULL
               ELSE IF i \in p .. q THEN [flag |-> 2, block |-> rcv.unit[At(rcv, i)].block]
               ELSE rcv.unit[At(rcv, i)]
      BY <1>4, <1>10, <2>8 DEF Marks
    <3>2. \A i \in Slots : u[At(rcv, i)] = IF i < d THEN NULL ELSE Content(B, z, Q, b + i)
      BY <2>4, <2>5, <3>1
    <3>3. ~ B[b + q].order
      <4>1. q \in p .. q
        BY <2>2, <2>3
      <4>2. Block(q) = B[b + q]
        BY <2>2, <4>1
      <4>3. ~ (q < e)
        BY <2>3, <3>1
      <4>4. Takeable(q)
        BY <2>3 DEF Found
      <4> QED
        BY <1>4, <4>2, <4>3, <4>4 DEF Takeable
    <3>4. \A t \in b + d .. n : B[t].msg \in MsgsOf(Q) =>
            B[t].msg \in MsgsOf(R) \/ (t <= y /\ t \notin rcv.loss /\ ~ B[t].order)
      <4> SUFFICES ASSUME NEW t \in b + d .. n, B[t].msg \in MsgsOf(Q), B[t].msg \notin MsgsOf(R)
                   PROVE  t <= y /\ t \notin rcv.loss /\ ~ B[t].order
        OBVIOUS
      <4>1. t \in 1 .. n
        BY <1>8
      <4>2. t \in b + p .. b + q
        BY <2>2, <4>1
      <4>3. PICK i \in p .. q : b + i = t
        <5>1. t - b \in p .. q /\ b + (t - b) = t
          BY <2>3, <4>2
        <5> QED
          BY <5>1
      <4>4. B[b + i].order = B[b + q].order
        BY <2>2
      <4> QED
        BY <2>4, <3>3, <4>3, <4>4
    <3>5. \A i \in 0 .. d - 1 : B[b + i].msg \in MsgsOf(Q)
      BY <2>6, <3>1
    <3> QED
      BY <1>13, <2>1, <2>2, <3>2, <3>4, <3>5
  <2> QED
    BY <1>15, <2>7, <2>8
<1> QED
  BY <1>5, <1>14, <1>15

-----------------------------------------------------------------------------
(* The invariant                                                             *)

\* Nothing has been written.
LEMMA CarriedInit ==
  ASSUME MessagesAssumption, Init, NEW B
  PROVE  Carried(B, snd, rcv, net, read)
<1>1. /\ snd = [blocks |-> <<>>, curr |-> 0, nextMsg |-> 1, ack |-> 1, seq |-> 0, loss |-> {}]
      /\ rcv = [unit |-> [i \in Slots |-> NULL], start |-> RcvSize - 2, ackPos |-> RcvSize - 2, maxPos |-> 0,
                ack |-> 1, seq |-> 0, loss |-> {}]
      /\ net = {} /\ read = <<>>
  BY DEF Init
<1>2. RcvSize \in Nat /\ RcvSize > 2 /\ Slots = 0 .. RcvSize - 1
  BY Sizes
<1>3. rcv.start = RcvSize - 2 /\ rcv.ackPos = RcvSize - 2 /\ rcv.ack = 1 /\ rcv.seq = 0 /\ rcv.loss = {} /\ rcv.maxPos = 0
      /\ rcv.unit = [i \in Slots |-> NULL]
  BY <1>1
<1>4. snd.blocks = <<>> /\ snd.curr = 0 /\ snd.ack = 1 /\ snd.seq = 0 /\ snd.loss = {}
  BY <1>1
<1>5. Last(snd) = 0
  BY <1>4 DEF Last
<1>6. rcv.start \in Slots /\ rcv.ackPos \in Slots
  BY <1>2, <1>3
<1>7. DataSize(rcv) = 0
  BY <1>2, <1>3, <1>6, DataSizeIs
<1>8. Base(rcv) = 1
  BY <1>3, <1>7 DEF Base
<1>9. Whole(B, Last(snd)) /\ HoldsEnd(B, snd) /\ Carries(B, snd, net)
  <2>1. \A s \in 1 .. 0 : FALSE
    OBVIOUS
  <2>2. Len(snd.blocks) = 0
    BY <1>4
  <2>3. Whole(B, 0)
    BY <2>1 DEF Whole
  <2>4. HoldsEnd(B, snd)
    BY <1>4, <1>5, <2>1, <2>2 DEF HoldsEnd
  <2> QED
    BY <1>1, <1>5, <2>3, <2>4 DEF Carries
<1>10. Counts(snd, rcv)
  BY <1>2, <1>3, <1>4, <1>8 DEF Counts
<1>11. RingIs(B, rcv, read)
  <2> SUFFICES ASSUME NEW k \in Slots
               PROVE  rcv.unit[At(rcv, k)] = Content(B, rcv, read, 1 + k)
    BY <1>8 DEF RingIs
  <2>1. At(rcv, k) \in Slots
    BY <1>6, AtIs
  <2>2. ~ (1 + k <= 0)
    BY <1>2
  <2>3. Content(B, rcv, read, 1 + k) = NULL
    BY <1>3, <2>2 DEF Content
  <2> QED
    BY <1>3, <2>1, <2>3
<1>12. HasRead(B, snd, rcv, read)
  <2>1. \A i \in DOMAIN read : FALSE
    BY <1>1
  <2>2. ReadOf(B, rcv.seq, read) /\ Once(read) /\ InOrder(read)
    BY <2>1 DEF ReadOf, Once, InOrder
  <2>3. FrontRead(B, 1, read) /\ ReadAhead(B, 1, 0, rcv, read)
    BY DEF FrontRead, ReadAhead
  <2> QED
    BY <1>5, <1>8, <2>2, <2>3 DEF HasRead
<1> QED
  BY <1>9, <1>10, <1>11, <1>12 DEF Carried

\* The invariant holds at the beginning,
LEMMA MInvInit ==
  ASSUME MessagesAssumption, Init
  PROVE  MInv
BY CarriedInit DEF MInv

\* and after every step.
LEMMA MInvStep ==
  ASSUME MessagesAssumption, TIInv, MInv, [Next]_msgVars
  PROVE  MInv'
<1> SUFFICES ASSUME ~ dropped'
             PROVE  \E C : Carried(C, snd', rcv', net', read')
  BY DEF MInv
<1>1. ~ packDrop
  BY DEF packDrop
<1>2. ~ dropped
  <2>1. ~ packDrop => UNCHANGED dropped
    BY DEF Next, sendmsg, packNew, packLost, timePasses, processAck, processNak, checkTimers,
           processData, sendAck, processDrop, recvmsg, msgVars
  <2> QED
    BY <1>1, <2>1
<1>3. PICK B : Carried(B, snd, rcv, net, read)
  BY <1>2 DEF MInv
<1>4. ASSUME NEW n \in 1 .. MaxSize, NEW o \in BOOLEAN, sendmsg(n, o)
      PROVE  \E C : Carried(C, snd', rcv', net', read')
  BY <1>3, <1>4, SendmsgCarries
<1>5. CASE packNew
  BY <1>3, <1>5, PackNewCarries
<1>6. CASE packLost
  BY <1>3, <1>6, PackLostCarries
<1>7. CASE processNak \/ checkTimers \/ \E p \in 1 .. MaxPackets : timePasses(p)
  BY <1>3, <1>7, LossCarries
<1>8. ASSUME NEW m \in net, processAck(m)
      PROVE  \E C : Carried(C, snd', rcv', net', read')
  BY <1>3, <1>8, ProcessAckCarries
<1>9. ASSUME NEW m \in net, processData(m)
      PROVE  \E C : Carried(C, snd', rcv', net', read')
  BY <1>3, <1>9, ProcessDataCarries
<1>10. ASSUME NEW m \in net, processDrop(m)
       PROVE  FALSE
  <2>1. m.kind = "drop"
    BY <1>10 DEF processDrop
  <2>2. Carries(B, snd, net)
    BY <1>3 DEF Carried
  <2> QED
    BY <2>1, <2>2 DEF Carries
<1>11. CASE sendAck
  BY <1>3, <1>11, SendAckCarries
<1>12. CASE recvmsg
  BY <1>3, <1>12, RecvmsgCarries
<1>13. CASE UNCHANGED msgVars
  BY <1>3, <1>13 DEF msgVars
<1> QED
  BY <1>1, <1>4, <1>5, <1>6, <1>7, <1>8, <1>9, <1>10, <1>11, <1>12, <1>13 DEF Next

-----------------------------------------------------------------------------
(* What follows from it                                                      *)

\* What the invariant says of what has been read,
LEMMA AllAsSent ==
  ASSUME MessagesAssumption, TIInv, MInv
  PROVE  ReadAsSent
<1>1. ASSUME dropped
      PROVE  ReadAsSent
  BY <1>1 DEF ReadAsSent, ReadIsWhole, ReadOnce, OrderKept
<1>2. ASSUME NEW B, Carried(B, snd, rcv, net, read)
      PROVE  ReadAsSent
  <2>1. /\ SndOK(snd) /\ RcvOK(rcv) /\ HoldsEnd(B, snd) /\ Counts(snd, rcv) /\ Whole(B, Last(snd))
        /\ ReadOf(B, rcv.seq, read) /\ Once(read) /\ InOrder(read) /\ read \in Seq(Seq(Blocks))
    BY <1>2 DEF TIInv, Carried, HasRead
  <2>2. PICK n \in Nat, y \in Nat : n = Last(snd) /\ y = rcv.seq /\ y <= n
    <3>1. PICK n \in Nat, v \in Nat : n = Last(snd) /\ v = snd.seq /\ v <= n
      BY <2>1, SenderIs
    <3>2. rcv.seq \in Nat /\ rcv.seq <= v
      BY <2>1, <3>1, RcvFields DEF Counts
    <3>3. PICK y \in Nat : y = rcv.seq /\ y <= v
      BY <3>2
    <3>4. y <= n
      BY <3>1, <3>3
    <3> QED
      BY <3>1, <3>3, <3>4
  <2>3. ASSUME NEW i \in DOMAIN read
        PROVE  Len(read[i]) = read[i][1].of /\ \A j \in DOMAIN read[i] : read[i][j] = [read[i][1] EXCEPT !.part = j]
    <3>1. PICK s \in 1 .. y :
             /\ IsMessage(B, s, read[i]) /\ B[s] \in Blocks /\ B[s].part = 1 /\ s + B[s].of - 1 <= n
             /\ read[i][1] = B[s] /\ read[i] = [j \in 1 .. B[s].of |-> B[s + j - 1]] /\ B[s].of \in Nat \ {0}
      BY <2>1, <2>2, ReadMsgsAre
    <3>2. PICK w \in Nat \ {0}, f \in Seq(Blocks) : w = B[s].of /\ f = read[i] /\ f = [j \in 1 .. w |-> B[s + j - 1]]
      <4>1. read[i] \in Seq(Blocks)
        BY <2>1, ElementOfSeq
      <4> QED
        BY <3>1, <4>1
    <3>3. DOMAIN f = 1 .. w /\ Len(f) = w
      <4>1. DOMAIN f = 1 .. w /\ DOMAIN f = 1 .. Len(f) /\ Len(f) \in Nat
        BY <3>2
      <4> QED
        BY <4>1
    <3>4. s \in 1 .. n /\ Piece(B, n, s)
      BY <2>1, <2>2, WholeIs
    <3>5. \A j \in 1 .. w : f[j] = [B[s] EXCEPT !.part = j]
      <4> TAKE j \in 1 .. w
      <4>1. s - 1 + j = s + j - 1
        OBVIOUS
      <4>2. B[s - 1 + j] = [B[s] EXCEPT !.part = j]
        BY <3>1, <3>2, <3>4 DEF Piece
      <4>3. f[j] = B[s + j - 1]
        BY <3>2
      <4> QED
        BY <4>1, <4>2, <4>3
    <3> QED
      BY <3>1, <3>2, <3>3, <3>5
  <2>4. ReadIsWhole
    BY <2>3 DEF ReadIsWhole
  <2>5. ReadOnce
    BY <2>1 DEF ReadOnce, Once
  <2>6. OrderKept
    BY <2>1 DEF OrderKept, InOrder
  <2> QED
    BY <2>4, <2>5, <2>6 DEF ReadAsSent
<1> QED
  BY <1>1, <1>2 DEF MInv

\* of the types,
LEMMA TypesFollow ==
  ASSUME MessagesAssumption, TIInv
  PROVE  TypeOK
<1>1. SndOK(snd) /\ RcvOK(rcv)
  BY DEF TIInv
<1>2. PICK a \in Seq(Blocks), c \in Nat, m \in Nat \ {0}, k \in Nat \ {0}, q \in Nat, l \in SUBSET Nat :
        snd = [blocks |-> a, curr |-> c, nextMsg |-> m, ack |-> k, seq |-> q, loss |-> l]
  BY <1>1 DEF SndOK
<1>3. c <= Len(a) /\ 0 \notin l /\ \A i \in l : i <= q
  BY <1>1, <1>2, SndMade
<1>4. \A i \in DOMAIN a : a[i] \in Blocks
  BY ElementOfSeq
<1>5. l \subseteq 1 .. q /\ c \in 0 .. Len(a)
  BY <1>3
<1>6. \A i \in Units : rcv.unit[i].flag \in 1 .. 3 /\ rcv.unit[i].block \in Blocks
  <2> TAKE i \in Units
  <2>1. i \in Slots /\ rcv.unit[i] # NULL
    BY DEF Units
  <2>2. rcv.unit[i] \in {NULL} \cup [flag : 1 .. 3, block : Blocks]
    BY <1>1, <2>1, RcvFields
  <2> QED
    BY <2>1, <2>2, UnitIs
<1>7. rcv.maxPos \in 0 .. RcvSize
  <2>1. rcv.maxPos \in Nat /\ DataSize(rcv) \in Nat /\ DataSize(rcv) + rcv.maxPos <= RcvSize - 1 /\ RcvSize \in Nat
    BY <1>1, RcvFields, Sizes
  <2> QED
    BY <2>1
<1>8. rcv.start \in Slots /\ rcv.ackPos \in Slots
  BY <1>1, RcvFields
<1> QED
  BY <1>2, <1>4, <1>5, <1>6, <1>7, <1>8 DEF TypeOK

\* and of the ring.
LEMMA AllIsReached ==
  ASSUME MessagesAssumption, TIInv, MInv
  PROVE  NothingStranded
<1>0. TypeOK
  BY TypesFollow
<1>1. ASSUME dropped
      PROVE  NothingStranded
  BY <1>0, <1>1 DEF NothingStranded, NothingSkipped, NothingLeaks
<1>2. ASSUME NEW B, Carried(B, snd, rcv, net, read)
      PROVE  NothingStranded
  <2>1. /\ SndOK(snd) /\ RcvOK(rcv) /\ HoldsEnd(B, snd) /\ Counts(snd, rcv) /\ Carries(B, snd, net)
        /\ RingIs(B, rcv, read) /\ HasRead(B, snd, rcv, read)
    BY <1>2 DEF TIInv, Carried
  <2>2. PICK v \in Nat : v = snd.seq
    BY <2>1, SenderIs
  <2>3. PICK b \in Nat \ {0}, d \in Nat, k \in Nat \ {0}, q \in Nat, m \in Nat :
           /\ b = Base(rcv) /\ d = DataSize(rcv) /\ k = rcv.ack /\ q = rcv.seq /\ m = rcv.maxPos
           /\ b + d = k /\ k <= q + 1 /\ q <= snd.seq /\ q - k <= m /\ q - b + 2 <= RcvSize /\ d + m <= RcvSize - 1
           /\ \A o \in rcv.loss : o \in Nat /\ k <= o /\ o <= q
    BY <2>1, <2>2, CountsAre
  <2>4. FrontRead(B, b, read)
    BY <2>1, <2>3 DEF HasRead
  <2>5. RcvSize \in Nat /\ Slots = 0 .. RcvSize - 1 /\ rcv.start \in Slots
    BY <2>1, Sizes, RcvFields
  <2>6. \A i \in Slots : rcv.unit[At(rcv, i)] = Content(B, rcv, read, b + i)
    BY <2>1, <2>3 DEF RingIs
  <2>7. ASSUME NEW p \in net, p.kind = "data", p.seq < rcv.ack
        PROVE  \/ \E i \in DOMAIN read : read[i][1].msg = p.block.msg
               \/ \E i \in Units : rcv.unit[i].flag = 1 /\ rcv.unit[i].block = p.block
    <3>1. PICK s \in 1 .. v : s = p.seq /\ p.block = B[s] /\ s < k
      BY <2>1, <2>2, <2>3, <2>7 DEF Carries
    <3>2. CASE B[s].msg \in MsgsOf(read)
      BY <3>1, <3>2, MsgsOfIs
    <3>3. CASE B[s].msg \notin MsgsOf(read)
      <4>1. ~ (s \in 1 .. b - 1)
        BY <2>4, <3>3 DEF FrontRead
      <4>2. PICK i \in 0 .. d - 1 : b + i = s
        <5>1. s - b \in 0 .. d - 1 /\ b + (s - b) = s
          BY <2>3, <3>1, <4>1
        <5> QED
          BY <5>1
      <4>3. i \in Slots
        <5>1. d + m <= RcvSize - 1
          BY <2>3
        <5> QED
          BY <2>5, <5>1
      <4>4. s <= q /\ s \notin rcv.loss
        BY <2>3, <3>1
      <4>5. Content(B, rcv, read, s) = [flag |-> 1, block |-> B[s]]
        BY <2>3, <3>3, <4>4 DEF Content
      <4>6. rcv.unit[At(rcv, i)] = [flag |-> 1, block |-> B[s]]
        BY <2>6, <4>2, <4>3, <4>5
      <4>7. At(rcv, i) \in Units
        <5>1. At(rcv, i) \in Slots
          BY <2>5, <4>3, AtIs
        <5> QED
          BY <4>6, <5>1, NullIsNot DEF Units
      <4> QED
        BY <3>1, <4>6, <4>7
    <3> QED
      BY <3>2, <3>3
  <2>8. ASSUME NEW i \in Units
        PROVE  (i - rcv.start + RcvSize) % RcvSize <= DataSize(rcv) + rcv.maxPos
    <3>1. i \in Slots /\ rcv.unit[i] # NULL
      BY DEF Units
    <3>2. PICK j \in Slots : At(rcv, j) = i /\ j = Rest(i - rcv.start + RcvSize, RcvSize)
      BY <2>5, <3>1, AtIsOneToOne
    <3>3. Content(B, rcv, read, b + j) # NULL
      BY <2>6, <3>1, <3>2
    <3>4. b + j <= q
      BY <2>3, <3>3, ContentIs
    <3>5. j \in Nat
      BY <2>5
    <3>6. j <= d + m
      <4>1. b + d = k /\ q - k <= m
        BY <2>3
      <4> QED
        BY <3>4, <3>5, <4>1
    <3> QED
      BY <2>3, <3>2, <3>6 DEF Rest
  <2>9. NothingSkipped
    BY <2>7 DEF NothingSkipped
  <2>10. NothingLeaks
    BY <2>8 DEF NothingLeaks
  <2> QED
    BY <1>0, <2>9, <2>10 DEF NothingStranded
<1> QED
  BY <1>1, <1>2 DEF MInv

-----------------------------------------------------------------------------
(* The theorems                                                              *)

\* Both are invariants.
LEMMA Invariance ==
  ASSUME MessagesAssumption
  PROVE  Spec => [](TIInv /\ MInv)
<1>1. Spec => []TIInv
  BY TypesInvariance
<1>2. Init => MInv
  BY MInvInit
<1>3. TIInv /\ MInv /\ [Next]_msgVars => MInv'
  BY MInvStep
<1> QED
  BY <1>1, <1>2, <1>3, PTL DEF Spec

\* ReadAsSent: however packets are lost, repeated and overtake each other, and
\* however the reads fall between them, recvmsg returns what sendmsg was given, each
\* message whole, once, and in order where order was asked for, until a message is
\* given up (core.cpp, buffer.cpp: readMsg, scanMsg, addData, ackData).
THEOREM MessagesArriveWhole ==
  ASSUME MessagesAssumption
  PROVE  Spec => []ReadAsSent
<1>1. TIInv /\ MInv => ReadAsSent
  BY AllAsSent
<1> QED
  BY <1>1, Invariance, PTL

\* NothingStranded: what has been acknowledged has been read or can still be, and no
\* unit is left in the ring where neither scanMsg nor addData comes by.
THEOREM NothingIsStranded ==
  ASSUME MessagesAssumption
  PROVE  Spec => []NothingStranded
<1>1. TIInv /\ MInv => NothingStranded
  BY AllIsReached
<1> QED
  BY <1>1, Invariance, PTL
=============================================================================
