------------------------------- MODULE Messages -------------------------------
(***************************************************************************)
(* Message mode: sendmsg cuts a message into blocks, the sender gives up a *)
(* message whose time to live is over and asks the receiver to drop it,    *)
(* and recvmsg takes whole messages out of the receiver's ring, those that *)
(* need not be in order also ahead of what has been acknowledged           *)
(* (core.cpp, buffer.cpp).                                                 *)
(*                                                                         *)
(* Abstracted: sequence numbers are integers (SeqNo has their restart), a  *)
(* packet once sent may arrive at any later time, again and in any order,  *)
(* light ACKs and ACK2 are left out (UdtTransfer), messages are smaller    *)
(* than the receive buffer.                                                *)
(***************************************************************************)
EXTENDS Integers, Sequences, FiniteSets

CONSTANTS
  MaxPackets,   \* bound: packets in all messages together
  MaxSize,      \* bound: packets of a message
  RcvSize,      \* m_iRcvBufSize: slots of the ring
  Window,       \* m_iFlowWindowSize
  Mortal        \* bound: the messages that have a time to live

MessagesAssumption ==
  /\ MaxPackets \in Nat \ {0} /\ MaxSize \in Nat \ {0} /\ Window \in Nat \ {0}
  /\ RcvSize \in Nat /\ RcvSize >= MaxSize + 2
  /\ Mortal \subseteq 1 .. MaxPackets

VARIABLES
  snd,      \* the sender: CSndBuffer, CSndLossList and sequence numbers
  expired,  \* the messages whose time to live is over
  dropped,  \* ghost: the sender has asked for a drop
  rcv,      \* the receiver: CRcvBuffer, CRcvLossList and sequence numbers
  net,      \* all that has been sent
  read      \* ghost: what recvmsg has returned, as sequences of packets

msgVars == <<snd, expired, dropped, rcv, net, read>>

\* A block and the packet made of it: part 1 has the first bit of the boundary,
\* the last part the second.
Blocks == [msg : 1 .. MaxPackets, part : 1 .. MaxSize, of : 1 .. MaxSize, order : BOOLEAN]

Tails(b) == b.part = b.of

\* A slot of the ring.  flag: 1 received, 2 read out of order, 3 dropped; 0 for NULL.
NULL == [flag |-> 0]

Slots == 0 .. RcvSize - 1

Least(S) == CHOOSE x \in S : \A y \in S : x <= y

\* The ring has been used before, so that it wraps soon.
Init ==
  /\ snd = [blocks |-> <<>>, curr |-> 0, nextMsg |-> 1, ack |-> 1, seq |-> 0, loss |-> {}]
  /\ expired = {} /\ dropped = FALSE
  /\ rcv = [unit |-> [i \in Slots |-> NULL], start |-> RcvSize - 2, ackPos |-> RcvSize - 2, maxPos |-> 0,
            ack |-> 1, seq |-> 0, loss |-> {}]
  /\ net = {} /\ read = <<>>

-----------------------------------------------------------------------------
(* The sender                                                               *)

Added(size, order) ==
  [i \in 1 .. size |-> [msg |-> snd.nextMsg, part |-> i, of |-> size, order |-> order]]

sendmsg(size, order) ==
  /\ snd.ack + Len(snd.blocks) + size <= MaxPackets + 1
  /\ snd' = [snd EXCEPT !.blocks = @ \o Added(size, order), !.nextMsg = @ + 1]
  /\ UNCHANGED <<expired, dropped, rcv, net, read>>

Data(seq, b) == [kind |-> "data", seq |-> seq, block |-> b]

\* packData with an empty loss list: the block at m_pCurrBlock.
packNew ==
  /\ snd.loss = {} /\ snd.curr < Len(snd.blocks)
  /\ Window >= snd.seq + 2 - snd.ack
  /\ snd' = [snd EXCEPT !.seq = @ + 1, !.curr = @ + 1]
  /\ net' = net \cup {Data(snd.seq + 1, snd.blocks[snd.curr + 1])}
  /\ UNCHANGED <<expired, dropped, rcv, read>>

\* The offset of the first lost number, and whether there is such a block.  (What
\* readData finds past the last block is not modelled.)
LostOffset == Least(snd.loss) - snd.ack

LostBlock == snd.blocks[LostOffset + 1]

packLost ==
  /\ snd.loss # {} /\ LostOffset < Len(snd.blocks)
  /\ LostOffset >= 0 => LostBlock.msg \notin expired
  /\ snd' = [snd EXCEPT !.loss = @ \ {Least(@)}]
  /\ net' = IF LostOffset < 0 THEN net ELSE net \cup {Data(Least(snd.loss), LostBlock)}
  /\ UNCHANGED <<expired, dropped, rcv, read>>

\* readData: the blocks of the expired message from the lost one on.
Remaining == LostBlock.of - LostBlock.part + 1

\* m_pCurrBlock is moved behind the message if it is in it.
CurrBehind ==
  IF snd.curr \in LostOffset + 1 .. LostOffset + Remaining - 1 THEN LostOffset + Remaining ELSE snd.curr

\* The second number of the drop request is one past the message.
DropTo == Least(snd.loss) + Remaining

DropRequest == [kind |-> "drop", msg |-> LostBlock.msg, from |-> Least(snd.loss), to |-> DropTo]

\* packData for a lost packet whose message's time is over.
packDrop ==
  /\ snd.loss # {} /\ LostOffset \in 0 .. Len(snd.blocks) - 1
  /\ LostBlock.msg \in expired
  /\ net' = net \cup {DropRequest}
  /\ dropped' = TRUE
  /\ snd' = [snd EXCEPT !.loss = {s \in @ : s > DropTo},
                        !.curr = CurrBehind,
                        !.seq = IF @ < DropTo + 1 THEN DropTo + 1 ELSE @]
  /\ UNCHANGED <<expired, rcv, read>>

timePasses(msg) ==
  /\ \E i \in DOMAIN snd.blocks : snd.blocks[i].msg = msg
  /\ msg \in Mortal \ expired
  /\ expired' = expired \cup {msg}
  /\ UNCHANGED <<snd, dropped, rcv, net, read>>

\* processCtrl for an ACK: the acknowledged blocks are released.
processAck(m) ==
  /\ m \in net /\ m.kind = "ack" /\ m.seq - snd.ack \in 1 .. snd.curr
  /\ snd' = [snd EXCEPT !.blocks = SubSeq(@, m.seq - snd.ack + 1, Len(@)), !.curr = @ - (m.seq - snd.ack),
                        !.ack = m.seq, !.loss = {s \in @ : s >= m.seq}]
  /\ UNCHANGED <<expired, dropped, rcv, net, read>>

\* processCtrl for a NAK, which is taken to arrive at once.
processNak ==
  /\ \E s \in rcv.loss : s \in (snd.ack .. snd.seq) \ snd.loss
  /\ snd' = [snd EXCEPT !.loss = @ \cup (rcv.loss \cap (snd.ack .. snd.seq))]
  /\ UNCHANGED <<expired, dropped, rcv, net, read>>

\* The EXP timer: nothing has been heard of what was sent.
checkTimers ==
  /\ snd.loss = {} /\ snd.seq >= snd.ack
  /\ snd' = [snd EXCEPT !.loss = snd.ack .. snd.seq]
  /\ UNCHANGED <<expired, dropped, rcv, net, read>>

-----------------------------------------------------------------------------
(* The receiver                                                             *)

Pos(k) == (rcv.start + k) % RcvSize

\* getRcvDataSize, getAvailBufSize
DataSize(r) == (r.ackPos - r.start + RcvSize) % RcvSize
AvailBufSize(r) == RcvSize - DataSize(r) - 1

\* addData; the slot is that of the offset from the last ACK.
processData(m) ==
  /\ m \in net /\ m.kind = "data"
  /\ LET offset == m.seq - rcv.ack
         slot == (rcv.ackPos + offset) % RcvSize
         r == [rcv EXCEPT !.maxPos = IF offset > @ THEN offset ELSE @]
     IN /\ offset \in 0 .. AvailBufSize(rcv) - 1
        /\ rcv' = IF r.unit[slot] # NULL THEN r
                  ELSE [r EXCEPT !.unit[slot] = [flag |-> 1, block |-> m.block],
                                 !.loss = (@ \cup (rcv.seq + 1 .. m.seq - 1)) \ {m.seq},
                                 !.seq = IF m.seq > @ THEN m.seq ELSE @]
  /\ UNCHANGED <<snd, expired, dropped, net, read>>

\* sendCtrl for an ACK, with ackData.
AckNumber == IF rcv.loss = {} THEN rcv.seq + 1 ELSE Least(rcv.loss)

\* ackData
MaxPosAfter(len) == IF rcv.maxPos > len THEN rcv.maxPos - len ELSE 0

sendAck ==
  /\ AckNumber > rcv.ack
  /\ rcv' = [rcv EXCEPT !.ackPos = (@ + AckNumber - rcv.ack) % RcvSize, !.ack = AckNumber,
                        !.maxPos = MaxPosAfter(AckNumber - rcv.ack)]
  /\ net' = net \cup {[kind |-> "ack", seq |-> AckNumber]}
  /\ UNCHANGED <<snd, expired, dropped, read>>

\* dropMsg compares the number with that of the header, which for the first and the
\* last part and for an ordered message has other bits set.
Marked(msg) ==
  {Pos(k) : k \in {k \in 0 .. RcvSize - 1 :
     /\ k < (DataSize(rcv) + rcv.maxPos) % RcvSize
     /\ rcv.unit[Pos(k)] # NULL
     /\ LET b == rcv.unit[Pos(k)].block IN b.msg = msg /\ b.part # 1 /\ ~ Tails(b) /\ ~ b.order}}

processDrop(m) ==
  /\ m \in net /\ m.kind = "drop"
  /\ rcv' = [rcv EXCEPT !.unit = [i \in Slots |-> IF i \in Marked(m.msg) THEN [@[i] EXCEPT !.flag = 3] ELSE @[i]],
                        !.loss = @ \ (m.from .. m.to),
                        !.seq = IF m.from <= @ + 1 /\ m.to > @ THEN m.to ELSE @]
  /\ UNCHANGED <<snd, expired, dropped, net, read>>

\* The k-th slot from m_iStartPos holds a packet that may be read.
Readable(k) == rcv.unit[Pos(k)] # NULL /\ rcv.unit[Pos(k)].flag = 1
Block(k) == rcv.unit[Pos(k)].block

\* Mutant: all of the message has to be acknowledged.
GoodWhole(k, size) ==
  /\ Readable(k) /\ Block(k).part = 1
  /\ \E e \in k .. size - 1 : (\A i \in k .. e : Readable(i)) /\ Tails(Block(e))

\* A message begins here, of which all that is acknowledged has been received.
Good(k, size) ==
  /\ Readable(k) /\ Block(k).part = 1
  /\ \E e \in k .. size - 1 :
       /\ \A i \in k .. e : Readable(i)
       /\ Tails(Block(e)) \/ e = size - 1

\* scanMsg skips what is bad at the beginning.
Skipped == Least({k \in 0 .. DataSize(rcv) : k = DataSize(rcv) \/ Good(k, DataSize(rcv))})

\* Acknowledged, or it need not be in order.
Takeable(k) == k < DataSize(rcv) \/ ~ Block(k).order

\* The heads of what ends with the k-th slot: nothing is missing in between.
Heads(k) ==
  {h \in Skipped .. k : (\A i \in h .. k : Readable(i)) /\ Block(h).part = 1}

\* scanMsg finds the first slot that completes a message.
Complete ==
  IF rcv.start = rcv.ackPos /\ rcv.maxPos = 0 THEN {}
  ELSE {k \in Skipped .. DataSize(rcv) + rcv.maxPos :
          Readable(k) /\ Tails(Block(k)) /\ Takeable(k) /\ Heads(k) # {}}

Greatest(S) == CHOOSE x \in S : \A y \in S : y <= x

Emptied(unit, K) == [i \in Slots |-> IF \E k \in K : i = Pos(k) THEN NULL ELSE unit[i]]

\* Mutant: a message read ahead of the acknowledgement is not marked.
AheadUnmarked(unit, K) == unit

Ahead(unit, K) ==
  [i \in Slots |-> IF \E k \in K : i = Pos(k) THEN [unit[i] EXCEPT !.flag = 2] ELSE unit[i]]

\* readMsg
recvmsg ==
  LET rest == Emptied(rcv.unit, 0 .. Skipped - 1)
      q == Least(Complete)
      p == Greatest(Heads(q))
  IN /\ IF Complete = {}
           THEN /\ Skipped > 0
                /\ rcv' = [rcv EXCEPT !.unit = rest, !.start = Pos(Skipped)]
                /\ UNCHANGED read
         ELSE /\ rcv' = IF q < DataSize(rcv)
                 THEN [rcv EXCEPT !.unit = Emptied(rest, p .. q), !.start = Pos(q + 1)]
                 ELSE [rcv EXCEPT !.unit = Ahead(rest, p .. q), !.start = Pos(Skipped)]
              /\ read' = Append(read, [i \in 1 .. q - p + 1 |-> Block(p + i - 1)])
     /\ UNCHANGED <<snd, expired, dropped, net>>

Next ==
  \/ \E size \in 1 .. MaxSize, order \in BOOLEAN : sendmsg(size, order)
  \/ packNew \/ packLost \/ packDrop \/ processNak \/ checkTimers
  \/ \E msg \in 1 .. MaxPackets : timePasses(msg)
  \/ \E m \in net : processAck(m) \/ processData(m) \/ processDrop(m)
  \/ sendAck \/ recvmsg

Spec == Init /\ [][Next]_msgVars

-----------------------------------------------------------------------------
(* Properties                                                               *)

Units == {i \in Slots : rcv.unit[i] # NULL}

TypeOK ==
  /\ \A i \in DOMAIN snd.blocks : snd.blocks[i] \in Blocks
  /\ snd.curr \in 0 .. Len(snd.blocks) /\ snd.loss \subseteq 1 .. snd.seq
  /\ \A i \in Units : rcv.unit[i].flag \in 1 .. 3 /\ rcv.unit[i].block \in Blocks
  /\ rcv.start \in Slots /\ rcv.ackPos \in Slots /\ rcv.maxPos \in 0 .. RcvSize

\* What recvmsg returns is a message that was sent, all of it and nothing else.
ReadIsWhole ==
  ~ dropped => \A i \in DOMAIN read :
    /\ Len(read[i]) = read[i][1].of
    /\ \A j \in DOMAIN read[i] : read[i][j] = [read[i][1] EXCEPT !.part = j]

\* A message that was read ahead of the acknowledgement is not read again after it.
ReadOnce ==
  ~ dropped => \A i, j \in DOMAIN read : read[i][1].msg = read[j][1].msg => i = j

\* Messages that are to be in order are.
OrderKept ==
  ~ dropped => \A i, j \in DOMAIN read :
    i < j /\ read[j][1].order => read[i][1].msg < read[j][1].msg \/ ~ read[i][1].order

\* What scanMsg skips as bad has been read: no acknowledged message disappears, so
\* that what is acknowledged has been read or still can be.
NothingSkipped ==
  ~ dropped => \A m \in net :
    m.kind = "data" /\ m.seq < rcv.ack =>
      \/ \E i \in DOMAIN read : read[i][1].msg = m.block.msg
      \/ \E i \in Units : rcv.unit[i].flag = 1 /\ rcv.unit[i].block = m.block

\* No unit stays in the ring outside of what will be read or skipped.
NothingLeaks ==
  ~ dropped => \A i \in Units : (i - rcv.start + RcvSize) % RcvSize <= DataSize(rcv) + rcv.maxPos

\* recvmsg returns what was sent: whole messages, each once, in order where order counts.
ReadAsSent == ReadIsWhole /\ ReadOnce /\ OrderKept

\* No message and no unit is left where nothing reaches it any more.
NothingStranded == TypeOK /\ NothingSkipped /\ NothingLeaks

\* "skip all dropped packets" (packData): the sequence numbers skipped are those of the
\* blocks skipped, so that a number finds its block again.
SkipsTheDropped ==
  [][dropped' # dropped => snd'.seq - snd.seq = snd'.curr - snd.curr]_msgVars
=============================================================================
