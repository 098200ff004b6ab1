----------------------------- MODULE UdtTransfer -----------------------------
(***************************************************************************)
(* One direction of an established UDT stream connection (core.cpp): the   *)
(* sending CUDT, the receiving CUDT and the UDP network between them.      *)
(*                                                                         *)
(* Threads.  At the sender three threads interleave: the application       *)
(* (CUDT::send), the send worker (CSndUList::pop calling packData) and the *)
(* receive worker (processCtrl, checkTimers).  packData and the ACK        *)
(* handler are split at every point where they touch shared fields outside *)
(* a lock.  At the receiver the receive worker (processData, sendCtrl) and *)
(* the application (CUDT::recv) interleave.                                *)
(*                                                                         *)
(* Sequence numbers are the unwrapped counters: SeqNo proves that the      *)
(* circular comparisons of the code agree with the integer ones as long as *)
(* two numbers are less than m_iSeqNoTH apart, and WindowBound below keeps *)
(* the numbers of one connection that close.                               *)
(*                                                                         *)
(* A block is one packet of payload; the n-th block the application sends  *)
(* is the number n.                                                        *)
(***************************************************************************)
EXTENDS Integers, Sequences, FiniteSets

CONSTANTS
  ISN,          \* initial sequence number of this direction
  SndBufSize,   \* m_iSndBufSize, in blocks
  RcvBufSize,   \* m_iRcvBufSize of the receiver = first flow window of the sender
  CWndSizes,    \* the values m_dCongestionWindow may take
  MaxBlocks,    \* bound: blocks the application sends
  MaxNet,       \* bound: packets of each kind in flight
  Duplicates,   \* BOOLEAN: may the network deliver a packet twice?
  PeerMayDie    \* BOOLEAN: may the EXP timer give the connection up?

Kinds == {"data", "ack", "lite", "ack2", "nak"}

ASSUME TransferAssumption ==
  /\ ISN \in Nat \ {0}
  /\ SndBufSize \in Nat \ {0}
  /\ RcvBufSize \in Nat \ {0, 1}
  /\ CWndSizes \subseteq Nat \ {0}
  /\ CWndSizes # {}
  /\ MaxBlocks \in Nat
  /\ MaxNet \in [Kinds -> Nat]
  /\ Duplicates \in BOOLEAN
  /\ PeerMayDie \in BOOLEAN

VARIABLES
  \* sender
  nSent,           \* blocks the application has handed to send()
  sndBuf,          \* CSndBuffer, from m_pFirstBlock to m_pLastBlock
  currBlock,       \* blocks of sndBuf before m_pCurrBlock: sent at least once
  SndCurrSeqNo,
  SndLastAck,
  SndLastDataAck,
  FlowWindowSize,
  sndLoss,         \* CSndLossList as a set
  inList,          \* the socket is in CSndUList
  sndWorker,       \* what packData has read so far
  rcvWorker,       \* how far the sender's ACK handler has come
  toSchedule,      \* threads about to call CSndUList::update
  status,          \* "ok", "timedOut" (EXP), "insane" (an ACK or NAK was refused)
  \* receiver
  RcvCurrSeqNo,
  RcvLastAck,
  RcvLastAckAck,
  rcvLoss,         \* CRcvLossList as a set
  rcvBuf,          \* CRcvBuffer: the occupied units
  readPos,         \* m_iStartPos, as the sequence number it holds
  delivered,       \* what recv() has returned
  \* network
  netData, netAck, netLite, netAck2, netNak

sender   == <<nSent, sndBuf, currBlock, SndCurrSeqNo, SndLastAck, SndLastDataAck,
              FlowWindowSize, sndLoss, inList, sndWorker, rcvWorker, toSchedule,
              status>>
receiver == <<RcvCurrSeqNo, RcvLastAck, RcvLastAckAck, rcvLoss, rcvBuf, readPos,
              delivered>>
net      == <<netData, netAck, netLite, netAck2, netNak>>
vars     == <<sender, receiver, net>>

Idle == [pc |-> "idle", arg |-> 0]

Data   == [seq : Nat, block : Nat]
Ack    == [ack : Nat, wnd : Nat \ {0, 1}]
Nak    == [first : Nat, last : Nat]

TypeOK ==
  /\ nSent \in Nat
  /\ sndBuf \in Seq(Nat)
  /\ currBlock \in Int
  /\ SndCurrSeqNo \in Nat
  /\ SndLastAck \in Nat
  /\ SndLastDataAck \in Nat
  /\ FlowWindowSize \in Int
  /\ sndLoss \subseteq Nat
  /\ inList \in BOOLEAN
  /\ sndWorker \in [pc : {"idle", "lost", "window"}, arg : Int]
  /\ rcvWorker \in [pc : {"idle", "seq", "lite", "data"}, arg : Nat]
  /\ toSchedule \subseteq {"app", "rcv"}
  /\ status \in {"ok", "timedOut", "insane"}
  /\ RcvCurrSeqNo \in Nat
  /\ RcvLastAck \in Nat
  /\ RcvLastAckAck \in Nat
  /\ rcvLoss \subseteq Nat
  /\ rcvBuf \subseteq Data
  /\ readPos \in Nat
  /\ delivered \in Seq(Nat)
  /\ netData \subseteq Data
  /\ netAck \subseteq Ack
  /\ netLite \subseteq Nat
  /\ netAck2 \subseteq Nat
  /\ netNak \subseteq Nak

Init ==
  /\ nSent = 0
  /\ sndBuf = <<>>
  /\ currBlock = 0
  /\ SndCurrSeqNo = ISN - 1
  /\ SndLastAck = ISN
  /\ SndLastDataAck = ISN
  /\ FlowWindowSize = RcvBufSize
  /\ sndLoss = {}
  /\ inList = FALSE
  /\ sndWorker = Idle
  /\ rcvWorker = Idle
  /\ toSchedule = {}
  /\ status = "ok"
  /\ RcvCurrSeqNo = ISN - 1
  /\ RcvLastAck = ISN
  /\ RcvLastAckAck = ISN
  /\ rcvLoss = {}
  /\ rcvBuf = {}
  /\ readPos = ISN
  /\ delivered = <<>>
  /\ netData = {} /\ netAck = {} /\ netLite = {} /\ netAck2 = {} /\ netNak = {}

-----------------------------------------------------------------------------
(***************************************************************************)
(* The UDP network: an unordered set of packets that may be lost at any    *)
(* time and, when Duplicates holds, received and left in place.            *)
(***************************************************************************)
Room(kind, packets) == Cardinality(packets) < MaxNet[kind]

\* A reply of a handler that finds no room is lost; other senders wait for room.
Reply(kind, packets, packet) ==
  IF Room(kind, packets) THEN packets \cup {packet} ELSE packets

\* keep: a copy of the packet just received stays in the network
Keeps == IF Duplicates THEN BOOLEAN ELSE {FALSE}

After(packets, packet, keep) == IF keep THEN packets ELSE packets \ {packet}

Lose ==
  /\ \/ /\ \E p \in netData : netData' = netData \ {p}
        /\ UNCHANGED <<netAck, netLite, netAck2, netNak>>
     \/ /\ \E a \in netAck : netAck' = netAck \ {a}
        /\ UNCHANGED <<netData, netLite, netAck2, netNak>>
     \/ /\ \E a \in netLite : netLite' = netLite \ {a}
        /\ UNCHANGED <<netData, netAck, netAck2, netNak>>
     \/ /\ \E a \in netAck2 : netAck2' = netAck2 \ {a}
        /\ UNCHANGED <<netData, netAck, netLite, netNak>>
     \/ /\ \E n \in netNak : netNak' = netNak \ {n}
        /\ UNCHANGED <<netData, netAck, netLite, netAck2>>
  /\ UNCHANGED <<sender, receiver>>

-----------------------------------------------------------------------------
(* Sender: the application thread and CSndUList::update                     *)

\* Mutant: skip the update when the socket seems to be in the list.
WakeUnlocked(thread) ==
  IF inList THEN toSchedule ELSE toSchedule \cup {thread}

\* CSndUList::update is called next, whether or not the socket is in the list.
Wake(thread) == toSchedule \cup {thread}

\* CUDT::send puts a block into the send buffer (one step per block).
AppSend ==
  /\ status = "ok"
  /\ nSent < MaxBlocks
  /\ Len(sndBuf) < SndBufSize
  /\ nSent' = nSent + 1
  /\ sndBuf' = Append(sndBuf, nSent + 1)
  /\ toSchedule' = Wake("app")
  /\ UNCHANGED <<currBlock, SndCurrSeqNo, SndLastAck, SndLastDataAck,
                 FlowWindowSize, sndLoss, inList, sndWorker, rcvWorker, status,
                 receiver, net>>

\* CSndUList::update takes m_ListLock, which the send worker holds in packData.
Schedule(thread) ==
  /\ thread \in toSchedule
  /\ sndWorker = Idle
  /\ toSchedule' = toSchedule \ {thread}
  /\ inList' = TRUE
  /\ UNCHANGED <<nSent, sndBuf, currBlock, SndCurrSeqNo, SndLastAck,
                 SndLastDataAck, FlowWindowSize, sndLoss, sndWorker, rcvWorker,
                 status, receiver, net>>

-----------------------------------------------------------------------------
(* Sender: the send worker, CSndUList::pop and CUDT::packData               *)

\* getLostSeq() removes the first lost number before m_AckLock is taken.
PickLost ==
  /\ status = "ok" /\ inList /\ sndWorker = Idle
  /\ \E s \in sndLoss :
       /\ \A t \in sndLoss : s <= t
       /\ sndLoss' = sndLoss \ {s}
       /\ sndWorker' = [pc |-> "lost", arg |-> s]
  /\ UNCHANGED <<nSent, sndBuf, currBlock, SndCurrSeqNo, SndLastAck,
                 SndLastDataAck, FlowWindowSize, inList, rcvWorker, toSchedule,
                 status, receiver, net>>

\* Mutant: count from m_iSndLastAck, which lite ACKs move without releasing.
OffsetFromLastAck(seq) == seq - SndLastAck

\* The place of a sequence number in the send buffer.
LossOffset(seq) == seq - SndLastDataAck

\* Under m_AckLock: drop a number acknowledged meanwhile (the socket then
\* leaves the list), else send its block again.
Retransmit ==
  /\ sndWorker.pc = "lost"
  /\ LET offset == LossOffset(sndWorker.arg) IN
       \/ /\ offset < 0
          /\ inList' = FALSE
          /\ UNCHANGED netData
       \/ /\ offset + 1 \in DOMAIN sndBuf
          /\ Room("data", netData)
          /\ netData' = netData \cup
                          {[seq |-> sndWorker.arg, block |-> sndBuf[offset + 1]]}
          /\ UNCHANGED inList
  /\ sndWorker' = Idle
  /\ UNCHANGED <<nSent, sndBuf, currBlock, SndCurrSeqNo, SndLastAck,
                 SndLastDataAck, FlowWindowSize, sndLoss, rcvWorker, toSchedule,
                 status, receiver, netAck, netLite, netAck2, netNak>>

\* The smaller of the two windows is read without a lock ...
ReadWindow ==
  /\ status = "ok" /\ inList /\ sndWorker = Idle
  /\ sndLoss = {}
  /\ \E cwnd \in CWndSizes :
       sndWorker' = [pc  |-> "window",
                     arg |-> IF FlowWindowSize < cwnd THEN FlowWindowSize ELSE cwnd]
  /\ UNCHANGED <<nSent, sndBuf, currBlock, SndCurrSeqNo, SndLastAck,
                 SndLastDataAck, FlowWindowSize, sndLoss, inList, rcvWorker,
                 toSchedule, status, receiver, net>>

\* seqlen(m_iSndLastAck, incseq(m_iSndCurrSeqNo)) <= window
Allowed(window) == SndCurrSeqNo + 1 - SndLastAck + 1 <= window

\* ... and m_iSndLastAck later, when the window is compared and a new block sent.
PackNew ==
  /\ sndWorker.pc = "window"
  /\ \/ /\ Allowed(sndWorker.arg)
        /\ currBlock + 1 \in DOMAIN sndBuf
        /\ Room("data", netData)
        /\ SndCurrSeqNo' = SndCurrSeqNo + 1
        /\ currBlock' = currBlock + 1
        /\ netData' = netData \cup
                        {[seq |-> SndCurrSeqNo + 1, block |-> sndBuf[currBlock + 1]]}
        /\ UNCHANGED inList
     \/ /\ ~ (Allowed(sndWorker.arg) /\ currBlock + 1 \in DOMAIN sndBuf)
        /\ inList' = FALSE
        /\ UNCHANGED <<SndCurrSeqNo, currBlock, netData>>
  /\ sndWorker' = Idle
  /\ UNCHANGED <<nSent, sndBuf, SndLastAck, SndLastDataAck, FlowWindowSize,
                 sndLoss, rcvWorker, toSchedule, status, receiver,
                 netAck, netLite, netAck2, netNak>>

-----------------------------------------------------------------------------
(* Sender: the receive worker, CUDT::processCtrl and CUDT::checkTimers      *)

RcvWorkerFree == status = "ok" /\ rcvWorker = Idle /\ "rcv" \notin toSchedule

\* Mutant: the comparison with m_iSndCurrSeqNo itself.
RefusedTooMuch(ack) == ack > SndCurrSeqNo

\* "this should not happen: attack or bug"
Refused(ack) == ack > SndCurrSeqNo + 1

\* Mutant: every ACK taken for the newest.
AdvancesAlways(ack) == TRUE

Advances(ack) == ack >= SndLastAck

\* Full ACK, up to the write of m_iFlowWindowSize.  The ACK is answered by an
\* ACK2 when the SYN interval is over.
RecvAck(a, keep, answer) ==
  /\ RcvWorkerFree
  /\ a \in netAck /\ keep \in Keeps
  /\ netAck' = After(netAck, a, keep)
  /\ netAck2' = IF answer THEN Reply("ack2", netAck2, a.ack) ELSE netAck2
  /\ \/ /\ Refused(a.ack)
        /\ status' = "insane"
        /\ UNCHANGED <<FlowWindowSize, rcvWorker>>
     \/ /\ ~ Refused(a.ack) /\ Advances(a.ack)
        /\ FlowWindowSize' = a.wnd
        /\ rcvWorker' = [pc |-> "seq", arg |-> a.ack]
        /\ UNCHANGED status
     \/ /\ ~ Refused(a.ack) /\ ~ Advances(a.ack)
        /\ rcvWorker' = [pc |-> "data", arg |-> a.ack]
        /\ UNCHANGED <<FlowWindowSize, status>>
  /\ UNCHANGED <<nSent, sndBuf, currBlock, SndCurrSeqNo, SndLastAck,
                 SndLastDataAck, sndLoss, inList, sndWorker, toSchedule,
                 receiver, netData, netLite, netNak>>

\* Mutant: the window is not given up.
LiteWindowKept(ack) == FlowWindowSize

LiteWindow(ack) == FlowWindowSize - (ack - SndLastAck)

\* Lite ACK: it only moves m_iSndLastAck, and gives up that part of the window.
RecvLiteAck(ack, keep) ==
  /\ RcvWorkerFree
  /\ ack \in netLite /\ keep \in Keeps
  /\ netLite' = After(netLite, ack, keep)
  /\ IF Advances(ack)
       THEN /\ FlowWindowSize' = LiteWindow(ack)
            /\ rcvWorker' = [pc |-> "lite", arg |-> ack]
       ELSE UNCHANGED <<FlowWindowSize, rcvWorker>>
  /\ UNCHANGED <<nSent, sndBuf, currBlock, SndCurrSeqNo, SndLastAck,
                 SndLastDataAck, sndLoss, inList, sndWorker, toSchedule, status,
                 receiver, netData, netAck, netAck2, netNak>>

\* The write of m_iSndLastAck that follows, in both.
SetSndLastAck ==
  /\ rcvWorker.pc \in {"seq", "lite"}
  /\ SndLastAck' = rcvWorker.arg
  /\ rcvWorker' = IF rcvWorker.pc = "lite" THEN Idle
                  ELSE [rcvWorker EXCEPT !.pc = "data"]
  /\ UNCHANGED <<nSent, sndBuf, currBlock, SndCurrSeqNo, SndLastDataAck,
                 FlowWindowSize, sndLoss, inList, sndWorker, toSchedule, status,
                 receiver, net>>

\* Mutant: compared with m_iSndLastAck, which this ACK has just moved.
RepeatedLastAck(ack) == ack <= SndLastAck

Repeated(ack) == ack <= SndLastDataAck

\* m_pSndLossList->remove(decseq(m_iSndLastDataAck))
StillLost(ack) == {s \in sndLoss : s >= ack}

\* The part of the ACK handler under m_AckLock; a repeated ACK ends there.
AckData ==
  /\ rcvWorker.pc = "data"
  /\ LET ack    == rcvWorker.arg
         offset == ack - SndLastDataAck IN
       IF Repeated(ack)
         THEN UNCHANGED <<sndBuf, currBlock, SndLastDataAck, sndLoss, toSchedule>>
         ELSE /\ sndBuf' = SubSeq(sndBuf, offset + 1, Len(sndBuf))
              /\ currBlock' = currBlock - offset
              /\ SndLastDataAck' = ack
              /\ sndLoss' = StillLost(ack)
              /\ toSchedule' = Wake("rcv")
  /\ rcvWorker' = Idle
  /\ UNCHANGED <<nSent, SndCurrSeqNo, SndLastAck, FlowWindowSize, inList,
                 sndWorker, status, receiver, net>>

\* NAK: the reported range, cut at m_iSndLastAck, joins the loss list.
RecvNak(n, keep) ==
  /\ RcvWorkerFree
  /\ n \in netNak /\ keep \in Keeps
  /\ netNak' = After(netNak, n, keep)
  /\ IF n.first > n.last \/ n.last > SndCurrSeqNo
       THEN /\ status' = "insane"
            /\ UNCHANGED <<sndLoss, toSchedule>>
       ELSE /\ sndLoss' = sndLoss \cup {s \in n.first .. n.last : s >= SndLastAck}
            /\ toSchedule' = Wake("rcv")
            /\ UNCHANGED status
  /\ UNCHANGED <<nSent, sndBuf, currBlock, SndCurrSeqNo, SndLastAck,
                 SndLastDataAck, FlowWindowSize, inList, sndWorker, rcvWorker,
                 receiver, netData, netAck, netLite, netAck2>>

\* EXP timer with data in the send buffer: everything sent and not
\* acknowledged is lost again, unless some loss is already listed.
SndTimeout ==
  /\ RcvWorkerFree
  /\ sndBuf # <<>>
  /\ sndLoss' = IF SndCurrSeqNo + 1 # SndLastAck /\ sndLoss = {}
                  THEN SndLastAck .. SndCurrSeqNo
                  ELSE sndLoss
  /\ toSchedule' = Wake("rcv")
  /\ UNCHANGED <<nSent, sndBuf, currBlock, SndCurrSeqNo, SndLastAck,
                 SndLastDataAck, FlowWindowSize, inList, sndWorker, rcvWorker,
                 status, receiver, net>>

\* EXP timer after 16 expirations without an answer.
PeerDead ==
  /\ PeerMayDie
  /\ RcvWorkerFree
  /\ status' = "timedOut"
  /\ toSchedule' = Wake("rcv")
  /\ UNCHANGED <<nSent, sndBuf, currBlock, SndCurrSeqNo, SndLastAck,
                 SndLastDataAck, FlowWindowSize, sndLoss, inList, sndWorker,
                 rcvWorker, receiver, net>>

-----------------------------------------------------------------------------
(* Receiver: the receive worker, CUDT::processData and CUDT::sendCtrl       *)

\* CRcvBuffer::getAvailBufSize
AvailBufSize(lastAck) == RcvBufSize - (lastAck - readPos) - 1

Occupied(seq) == \E u \in rcvBuf : u.seq = seq

\* Mutant: the number after the last one is not reported.
GapOffByOne(seq) == RcvCurrSeqNo + 2 .. seq - 1

\* The numbers that a packet skips.
Gap(seq) == RcvCurrSeqNo + 1 .. seq - 1

\* processData: store the packet, report the gap it opens, or close a loss.
RecvData(p, keep) ==
  /\ p \in netData /\ keep \in Keeps
  /\ netData' = After(netData, p, keep)
  /\ LET offset == p.seq - RcvLastAck IN
       IF offset < 0 \/ offset >= AvailBufSize(RcvLastAck) \/ Occupied(p.seq)
         THEN UNCHANGED <<rcvBuf, rcvLoss, RcvCurrSeqNo, netNak>>
         ELSE /\ rcvBuf' = rcvBuf \cup {p}
              /\ IF p.seq > RcvCurrSeqNo + 1
                   THEN netNak' = Reply("nak", netNak,
                          [first |-> RcvCurrSeqNo + 1, last |-> p.seq - 1])
                   ELSE UNCHANGED netNak
              /\ IF p.seq > RcvCurrSeqNo
                   THEN /\ rcvLoss' = rcvLoss \cup Gap(p.seq)
                        /\ RcvCurrSeqNo' = p.seq
                   ELSE /\ rcvLoss' = rcvLoss \ {p.seq}
                        /\ UNCHANGED RcvCurrSeqNo
  /\ UNCHANGED <<sender, RcvLastAck, RcvLastAckAck, readPos, delivered,
                 netAck, netLite, netAck2>>

\* Mutant: the gaps are forgotten.
IsAckPointNoLoss(ack) == ack = RcvCurrSeqNo + 1

\* The number an ACK carries: the first one missing.
IsAckPoint(ack) ==
  IF rcvLoss = {} THEN ack = RcvCurrSeqNo + 1
                  ELSE ack \in rcvLoss /\ \A s \in rcvLoss : ack <= s

\* Mutant: the true free space.
WindowTrue(lastAck) == AvailBufSize(lastAck)

\* The window an ACK advertises; 2 at least, "to break potential deadlock".
Window(lastAck) ==
  IF AvailBufSize(lastAck) < 2 THEN 2 ELSE AvailBufSize(lastAck)

\* sendCtrl(2), full ACK: acknowledge the receive buffer, then report, again
\* and again (ACK timer) until the sender's ACK2 has come.
SendAck ==
  /\ Room("ack", netAck)
  /\ \E ack \in RcvLastAck .. RcvCurrSeqNo + 1 :
       /\ IsAckPoint(ack)
       /\ ack # RcvLastAckAck
       /\ RcvLastAck' = ack
       /\ netAck' = IF ack > RcvLastAckAck
                      THEN netAck \cup {[ack |-> ack, wnd |-> Window(ack)]}
                      ELSE netAck
  /\ UNCHANGED <<sender, RcvCurrSeqNo, RcvLastAckAck, rcvLoss, rcvBuf, readPos,
                 delivered, netData, netLite, netAck2, netNak>>

\* sendCtrl(2) with size 4, every 64 packets between two full ACKs.
SendLiteAck ==
  /\ Room("lite", netLite)
  /\ \E ack \in RcvLastAck .. RcvCurrSeqNo + 1 :
       /\ IsAckPoint(ack)
       /\ ack # RcvLastAckAck
       /\ netLite' = netLite \cup {ack}
  /\ UNCHANGED <<sender, receiver, netData, netAck, netAck2, netNak>>

\* processCtrl(6): m_pACKWindow still holds the acknowledged number.
RecvAck2(ack, keep) ==
  /\ ack \in netAck2 /\ keep \in Keeps
  /\ netAck2' = After(netAck2, ack, keep)
  /\ RcvLastAckAck' = IF ack > RcvLastAckAck THEN ack ELSE RcvLastAckAck
  /\ UNCHANGED <<sender, RcvCurrSeqNo, RcvLastAck, rcvLoss, rcvBuf, readPos,
                 delivered, netData, netAck, netLite, netNak>>

\* CUDT::recv takes the unit at m_iStartPos.
AppRecv ==
  /\ readPos < RcvLastAck
  /\ \E u \in rcvBuf :
       /\ u.seq = readPos
       /\ delivered' = Append(delivered, u.block)
       /\ rcvBuf' = rcvBuf \ {u}
  /\ readPos' = readPos + 1
  /\ UNCHANGED <<sender, RcvCurrSeqNo, RcvLastAck, RcvLastAckAck, rcvLoss, net>>

-----------------------------------------------------------------------------
SenderStep ==
  \/ AppSend
  \/ \E thread \in {"app", "rcv"} : Schedule(thread)
  \/ PickLost \/ Retransmit \/ ReadWindow \/ PackNew
  \/ \E a \in netAck, keep, answer \in BOOLEAN : RecvAck(a, keep, answer)
  \/ \E a \in netLite, keep \in BOOLEAN : RecvLiteAck(a, keep)
  \/ SetSndLastAck \/ AckData
  \/ \E n \in netNak, keep \in BOOLEAN : RecvNak(n, keep)
  \/ SndTimeout \/ PeerDead

ReceiverStep ==
  \/ \E p \in netData, keep \in BOOLEAN : RecvData(p, keep)
  \/ SendAck \/ SendLiteAck
  \/ \E a \in netAck2, keep \in BOOLEAN : RecvAck2(a, keep)
  \/ AppRecv

Next == SenderStep \/ ReceiverStep \/ Lose

Spec == Init /\ [][Next]_vars

-----------------------------------------------------------------------------
(* Properties                                                               *)

\* recv() returns the blocks the peer sent, each once and in order, whatever the
\* network loses, duplicates or reorders (the promise of a stream socket).
InOrder ==
  /\ Len(delivered) <= nSent
  /\ \A i \in DOMAIN delivered : delivered[i] = i

\* The checks marked "this should not happen: attack or bug" in processCtrl never
\* break the connection of two correct peers (stale ACKs and NAKs included).
NeverInsane == status # "insane"

\* Every unit below m_iLastAckPos is there: readBuffer dereferences it unchecked.
AckedIsBuffered == \A s \in readPos .. RcvLastAck - 1 : Occupied(s)

\* The loss list is exactly the set of gaps: a number missing from it would be
\* acknowledged though never received, one too many would never be acknowledged.
LossListExact ==
  rcvLoss = {s \in RcvLastAck .. RcvCurrSeqNo : ~ Occupied(s)}

\* A block leaves the send buffer only when the receiver has it.
ReleasedIsReceived ==
  \A s \in ISN .. SndLastDataAck - 1 : s < readPos \/ Occupied(s)

\* packData and the loss list only ever name blocks that are in the send buffer
\* and were sent before: readData(offset) walks the block list unchecked.
LostIsInBuffer ==
  /\ \A s \in sndLoss : s - SndLastDataAck \in 0 .. currBlock - 1
  /\ sndWorker.pc = "lost" => sndWorker.arg - SndLastDataAck < currBlock
  /\ currBlock \in 0 .. Len(sndBuf)

\* At most a receive buffer's worth of packets is unacknowledged: it keeps the
\* circular comparisons exact, although window and acknowledgement are read apart.
WindowBound == SndCurrSeqNo + 1 - SndLastAck <= RcvBufSize

\* The loss list has room for all that a NAK or the EXP timer may insert: lite ACKs
\* move m_iSndLastAck without releasing, hence "requires twice space" (core.cpp:762).
LossListSpan ==
  rcvWorker = Idle => SndCurrSeqNo + 1 - SndLastDataAck <= 2 * RcvBufSize

\* No two units share a slot of the receive ring, and one slot stays free.
RingFits == \A u \in rcvBuf : u.seq \in readPos .. readPos + RcvBufSize - 2

\* Sender and receiver agree on what is where: no unit is dereferenced, released,
\* retransmitted or overwritten that is not there, whatever the threads read apart.
BuffersAgree ==
  AckedIsBuffered /\ ReleasedIsReceived /\ LostIsInBuffer /\ RingFits /\ WindowBound

\* The receiver stops repeating an ACK only when the sender has taken it or is
\* about to: otherwise the send buffer would never drain.
Ack2MeansReleased ==
  RcvLastAckAck > SndLastDataAck =>
    rcvWorker.pc \in {"seq", "data"} /\ rcvWorker.arg >= RcvLastAckAck

\* With nothing outstanding no timer retransmits: unsent data must then have the
\* socket in CSndUList, or a thread about to put it there.
UnsentIsScheduled ==
  status = "ok" /\ currBlock < Len(sndBuf) /\ SndLastDataAck = SndCurrSeqNo + 1
    => inList \/ toSchedule # {}

\* Acknowledgements never go back, though the packets that carry them are reordered.
AcksNeverGoBack ==
  [][ /\ SndLastAck' >= SndLastAck
      /\ SndLastDataAck' >= SndLastDataAck
      /\ RcvLastAckAck' >= RcvLastAckAck
      /\ RcvLastAck' >= RcvLastAck
      /\ RcvLastAckAck' <= RcvLastAck' ]_vars

\* Seen from the two applications the endpoints and the network are one FIFO pipe
\* that holds a send buffer and a receive buffer (less its free slot) of blocks.
Pipe == INSTANCE ReliablePipe WITH
          Capacity <- SndBufSize + RcvBufSize - 1,
          written  <- nSent,
          read     <- delivered

ImplementsPipe == Pipe!Spec

-----------------------------------------------------------------------------
(***************************************************************************)
(* The inductive invariant from which UdtTransferProofs derives the safety *)
(* properties and the refinement.                                          *)
(***************************************************************************)

\* How far each counter of the two endpoints may be ahead of the others.
CountersOK ==
  /\ ISN <= SndLastDataAck /\ SndLastDataAck <= SndLastAck
  /\ SndLastAck <= SndCurrSeqNo + 1
  /\ SndLastDataAck <= RcvLastAck
  /\ ISN <= readPos /\ readPos <= RcvLastAck /\ RcvLastAck <= RcvCurrSeqNo + 1
  /\ RcvCurrSeqNo <= SndCurrSeqNo
  /\ RcvLastAckAck <= RcvLastAck

\* What the ACK handler carries from one of its steps to the next.
HandlerOK ==
  /\ rcvWorker.pc \in {"seq", "lite"} =>
       SndLastAck <= rcvWorker.arg /\ rcvWorker.arg <= SndCurrSeqNo + 1
  /\ rcvWorker.pc = "data" => rcvWorker.arg <= SndLastAck
  /\ rcvWorker.pc \in {"seq", "data"} => rcvWorker.arg <= RcvLastAck

\* Sequence numbers and blocks of the send buffer stay aligned.
BufferOK ==
  /\ currBlock = SndCurrSeqNo + 1 - SndLastDataAck
  /\ currBlock <= Len(sndBuf)
  /\ Len(sndBuf) <= SndBufSize
  /\ Len(sndBuf) = nSent - (SndLastDataAck - ISN)

BlocksOK == \A i \in 1 .. Len(sndBuf) : sndBuf[i] = SndLastDataAck - ISN + i

\* Only numbers of sent and unreleased blocks are listed as lost.
LossOK ==
  /\ \A s \in sndLoss : SndLastDataAck <= s /\ s <= SndCurrSeqNo
  /\ sndWorker.pc = "lost" => /\ sndWorker.arg <= SndCurrSeqNo
                               /\ SndCurrSeqNo + 1 - sndWorker.arg <= SndBufSize

\* No window ever seen by packData exceeds the receive buffer.
WindowsOK ==
  /\ FlowWindowSize <= RcvBufSize
  /\ sndWorker.pc = "window" => sndWorker.arg <= RcvBufSize
  /\ WindowBound

\* Units hold the block of their number, within the ring.
UnitsOK ==
  \A u \in rcvBuf : /\ readPos <= u.seq /\ u.seq <= RcvCurrSeqNo
                    /\ u.seq <= readPos + RcvBufSize - 2
                    /\ u.block = u.seq - ISN + 1

DeliveredOK ==
  /\ Len(delivered) = readPos - ISN
  /\ \A i \in 1 .. Len(delivered) : delivered[i] = i

\* Packets in flight, however old, still fit what both sides know.
NetDataOK ==
  \A p \in netData : /\ ISN <= p.seq /\ p.seq <= SndCurrSeqNo
                     /\ p.block = p.seq - ISN + 1

NetAcksOK ==
  /\ \A a \in netAck : a.ack <= RcvLastAck /\ a.wnd <= RcvBufSize
  /\ \A l \in netLite : l <= RcvCurrSeqNo + 1
  /\ \A n \in netNak : n.first <= n.last /\ n.last <= RcvCurrSeqNo

NetAck2OK ==
  \A a \in netAck2 :
    /\ a <= RcvLastAck
    /\ a > SndLastDataAck =>
         rcvWorker.pc \in {"seq", "data"} /\ rcvWorker.arg >= a

\* m_iSndLastAck and m_iSndLastDataAck as they will be once the acknowledgement
\* in hand has been handled.
AckPoint == IF rcvWorker.pc \in {"seq", "lite"} THEN rcvWorker.arg ELSE SndLastAck

ReleasePoint ==
  IF rcvWorker.pc \in {"seq", "data"} /\ rcvWorker.arg > SndLastDataAck
    THEN rcvWorker.arg ELSE SndLastDataAck

\* What lite ACKs have acknowledged beyond the released blocks they took from the
\* window, so that not even a window read before them lets too much out.
SpanOK ==
  /\ FlowWindowSize + AckPoint - ReleasePoint <= RcvBufSize
  /\ sndWorker.pc = "window" =>
       sndWorker.arg + SndCurrSeqNo + 1 - ReleasePoint <= 2 * RcvBufSize
  /\ SndCurrSeqNo + 1 - ReleasePoint <= 2 * RcvBufSize

\* Only lite ACKs close the window, and what they acknowledge is not released yet.
WindowOpen == AckPoint = ReleasePoint => FlowWindowSize >= 2

\* The send worker takes a socket with unsent data out of CSndUList only while
\* something is outstanding, or an ACK that came in between is about to schedule it.
WorkerScheduled ==
  /\ UnsentIsScheduled
  /\ sndWorker.pc = "lost" /\ sndWorker.arg < SndLastDataAck => toSchedule # {}
  /\ sndWorker.pc = "window" /\ sndWorker.arg < 1 /\ SndLastDataAck = SndCurrSeqNo + 1
       => toSchedule # {}

ScheduleOK == WindowOpen /\ WorkerScheduled

IInv ==
  /\ TypeOK /\ CountersOK /\ HandlerOK
  /\ BufferOK /\ BlocksOK /\ LossOK /\ WindowsOK /\ NeverInsane
  /\ UnitsOK /\ LossListExact /\ AckedIsBuffered /\ DeliveredOK
  /\ Ack2MeansReleased
  /\ NetDataOK /\ NetAcksOK /\ NetAck2OK
=============================================================================
