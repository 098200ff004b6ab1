-------------------------- MODULE UdtTransferProofs --------------------------
(***************************************************************************)
(* Proofs about UdtTransfer, for every value of its constants: type        *)
(* correctness, the safety invariants and the refinement of ReliablePipe;  *)
(* and that the comparisons of sequence numbers in core.cpp are exact, for *)
(* every size of the circle, of the buffers and of the delay.              *)
(***************************************************************************)
EXTENDS UdtSeqNo, SequenceTheorems, TLAPS

-----------------------------------------------------------------------------
(* Type correctness: TypeOK is inductive by itself.                         *)

LEMMA IdleType ==
  /\ Idle \in [pc : {"idle", "lost", "window"}, arg : Int]
  /\ Idle \in [pc : {"idle", "seq", "lite", "data"}, arg : Nat]
  BY DEF Idle

LEMMA TypeInit ==
  ASSUME Init
  PROVE  TypeOK
<1>1. ISN - 1 \in Nat /\ ISN \in Nat /\ RcvBufSize \in Int
  BY TransferAssumption
<1>2. sndBuf \in Seq(Nat) /\ delivered \in Seq(Nat)
  BY DEF Init
<1>3. status \in {"ok", "timedOut", "insane"} /\ inList \in BOOLEAN
  BY DEF Init
<1>4. /\ nSent \in Nat /\ currBlock \in Int /\ SndCurrSeqNo \in Nat
      /\ SndLastAck \in Nat /\ SndLastDataAck \in Nat /\ FlowWindowSize \in Int
      /\ readPos \in Nat /\ RcvCurrSeqNo \in Nat /\ RcvLastAck \in Nat
      /\ RcvLastAckAck \in Nat
  BY <1>1 DEF Init
<1>5. /\ netData \subseteq Data /\ netAck \subseteq Ack /\ netLite \subseteq Nat
      /\ netAck2 \subseteq Nat /\ netNak \subseteq Nak /\ rcvLoss \subseteq Nat
      /\ rcvBuf \subseteq Data /\ sndLoss \subseteq Nat
      /\ toSchedule \subseteq {"app", "rcv"}
  BY DEF Init
<1> QED
  BY <1>2, <1>3, <1>4, <1>5, IdleType DEF Init, TypeOK

LEMMA TypeRecvAck ==
  ASSUME TypeOK, NEW a \in netAck, NEW keep \in BOOLEAN, NEW answer \in BOOLEAN,
         RecvAck(a, keep, answer)
  PROVE  TypeOK'
<1>1. a.ack \in Nat /\ a.wnd \in Nat
  BY DEF TypeOK, Ack
<1>2. rcvWorker' \in [pc : {"idle", "seq", "lite", "data"}, arg : Nat]
  BY <1>1 DEF TypeOK, RecvAck
<1>3. FlowWindowSize' \in Int /\ status' \in {"ok", "timedOut", "insane"}
  BY <1>1 DEF TypeOK, RecvAck
<1>4. netAck' \subseteq Ack /\ netAck2' \subseteq Nat
  BY <1>1 DEF TypeOK, RecvAck, After, Reply
<1> QED
  BY <1>2, <1>3, <1>4 DEF TypeOK, RecvAck, receiver

LEMMA TypeRecvData ==
  ASSUME TypeOK, NEW p \in netData, NEW keep \in BOOLEAN, RecvData(p, keep)
  PROVE  TypeOK'
<1>1. p \in Data /\ p.seq \in Nat
  BY DEF TypeOK, Data
<1>2. RcvCurrSeqNo' \in Nat
  BY <1>1 DEF TypeOK, RecvData
<1>3. RcvCurrSeqNo + 1 .. p.seq - 1 \subseteq Nat
  BY <1>1 DEF TypeOK
<1>4. rcvLoss' \subseteq Nat
  BY <1>1, <1>3 DEF TypeOK, RecvData, Gap
<1>5. rcvBuf' \subseteq Data
  BY <1>1 DEF TypeOK, RecvData
<1>6. netData' \subseteq Data
  BY <1>1 DEF TypeOK, RecvData, After
<1>7. netNak' \subseteq Nak
  BY <1>1 DEF TypeOK, RecvData, Reply, Nak
<1> QED
  BY <1>2, <1>4, <1>5, <1>6, <1>7 DEF TypeOK, RecvData, sender

LEMMA TypeAckData ==
  ASSUME TypeOK, AckData
  PROVE  TypeOK'
<1>1. rcvWorker.arg \in Nat
  BY DEF TypeOK
<1>2. sndBuf' \in Seq(Nat)
  <2>1. CASE Repeated(rcvWorker.arg)
    BY <2>1 DEF TypeOK, AckData
  <2>2. CASE ~ Repeated(rcvWorker.arg)
    <3>1. /\ rcvWorker.arg - SndLastDataAck + 1 \in Nat \ {0}
          /\ Len(sndBuf) \in Nat
      BY <1>1, <2>2 DEF TypeOK, Repeated
    <3>2. \A i \in rcvWorker.arg - SndLastDataAck + 1 .. Len(sndBuf) : sndBuf[i] \in Nat
      BY <3>1 DEF TypeOK
    <3>3. sndBuf' = SubSeq(sndBuf, rcvWorker.arg - SndLastDataAck + 1, Len(sndBuf))
      BY <2>2 DEF AckData
    <3>4. SubSeq(sndBuf, rcvWorker.arg - SndLastDataAck + 1, Len(sndBuf)) \in Seq(Nat)
      BY <3>1, <3>2, SubSeqProperties
    <3> QED
      BY <3>3, <3>4
  <2> QED
    BY <2>1, <2>2
<1>3. currBlock' \in Int /\ SndLastDataAck' \in Nat
  BY <1>1 DEF TypeOK, AckData
<1>4. sndLoss' \subseteq Nat /\ toSchedule' \subseteq {"app", "rcv"}
  BY <1>1 DEF TypeOK, AckData, Wake, StillLost
<1> QED
  BY <1>2, <1>3, <1>4, IdleType
  DEF TypeOK, AckData, receiver, net

LEMMA TypePackNew ==
  ASSUME TypeOK, PackNew
  PROVE  TypeOK'
<1>1. netData' \subseteq Data
  <2>1. CASE netData' = netData
    BY <2>1 DEF TypeOK
  <2>2. CASE netData' # netData
    <3>1. currBlock + 1 \in DOMAIN sndBuf
      BY <2>2 DEF PackNew
    <3>2. sndBuf[currBlock + 1] \in Nat /\ SndCurrSeqNo + 1 \in Nat
      BY <3>1 DEF TypeOK
    <3> QED
      BY <2>2, <3>2 DEF PackNew, TypeOK, Data
  <2> QED
    BY <2>1, <2>2
<1>2. SndCurrSeqNo' \in Nat /\ currBlock' \in Int
  BY DEF TypeOK, PackNew
<1>3. inList' \in BOOLEAN
  BY DEF TypeOK, PackNew
<1> QED
  BY <1>1, <1>2, <1>3, IdleType DEF TypeOK, PackNew, receiver

LEMMA TypeRetransmit ==
  ASSUME TypeOK, Retransmit
  PROVE  TypeOK'
<1>1. sndWorker.arg \in Int
  BY DEF TypeOK
<1>2. netData' \subseteq Data
  <2>1. CASE netData' = netData
    BY <2>1 DEF TypeOK
  <2>2. CASE netData' # netData
    <3>1. sndWorker.arg - SndLastDataAck + 1 \in DOMAIN sndBuf
      BY <2>2 DEF Retransmit, LossOffset
    <3>2. sndBuf[sndWorker.arg - SndLastDataAck + 1] \in Nat
      BY <3>1 DEF TypeOK
    <3>3. sndWorker.arg \in Nat
      BY <1>1, <3>1 DEF TypeOK
    <3> QED
      BY <2>2, <3>2, <3>3, SMTT(40) DEF Retransmit, TypeOK, Data
  <2> QED
    BY <2>1, <2>2
<1>3. inList' \in BOOLEAN
  BY DEF TypeOK, Retransmit
<1> QED
  BY <1>2, <1>3, IdleType DEF TypeOK, Retransmit, receiver

LEMMA TypeStep ==
  ASSUME TypeOK, [Next]_vars
  PROVE  TypeOK'
<1>1. CASE AppSend
  <2>1. sndBuf' \in Seq(Nat) /\ nSent' \in Nat
    BY <1>1 DEF TypeOK, AppSend
  <2> QED
    BY <1>1, <2>1 DEF TypeOK, AppSend, Wake, receiver, net
<1>2. ASSUME NEW thread \in {"app", "rcv"}, Schedule(thread)
      PROVE  TypeOK'
  BY <1>2 DEF TypeOK, Schedule, receiver, net
<1>3. CASE PickLost
  <2>1. sndWorker' \in [pc : {"idle", "lost", "window"}, arg : Int]
    BY <1>3 DEF TypeOK, PickLost
  <2> QED
    BY <1>3, <2>1 DEF TypeOK, PickLost, receiver, net
<1>4. CASE Retransmit
  BY <1>4, TypeRetransmit
<1>5. CASE ReadWindow
  <2>1. sndWorker' \in [pc : {"idle", "lost", "window"}, arg : Int]
    BY <1>5, TransferAssumption DEF TypeOK, ReadWindow
  <2> QED
    BY <1>5, <2>1 DEF TypeOK, ReadWindow, receiver, net
<1>6. CASE PackNew
  BY <1>6, TypePackNew
<1>7. ASSUME NEW a \in netAck, NEW keep \in BOOLEAN, NEW answer \in BOOLEAN,
             RecvAck(a, keep, answer)
      PROVE  TypeOK'
  BY <1>7, TypeRecvAck
<1>8. ASSUME NEW l \in netLite, NEW keep \in BOOLEAN, RecvLiteAck(l, keep)
      PROVE  TypeOK'
  <2>1. l \in Nat
    BY DEF TypeOK
  <2>2. rcvWorker' \in [pc : {"idle", "seq", "lite", "data"}, arg : Nat]
    BY <1>8, <2>1 DEF TypeOK, RecvLiteAck
  <2>3. FlowWindowSize' \in Int /\ netLite' \subseteq Nat
    BY <1>8, <2>1 DEF TypeOK, RecvLiteAck, LiteWindow, After
  <2> QED
    BY <1>8, <2>2, <2>3 DEF TypeOK, RecvLiteAck, receiver
<1>9. CASE SetSndLastAck
  <2>1. rcvWorker' \in [pc : {"idle", "seq", "lite", "data"}, arg : Nat]
    BY <1>9, IdleType DEF TypeOK, SetSndLastAck
  <2>2. SndLastAck' \in Nat
    BY <1>9 DEF TypeOK, SetSndLastAck
  <2> QED
    BY <1>9, <2>1, <2>2 DEF TypeOK, SetSndLastAck, receiver, net
<1>10. CASE AckData
  BY <1>10, TypeAckData
<1>11. ASSUME NEW n \in netNak, NEW keep \in BOOLEAN, RecvNak(n, keep)
       PROVE  TypeOK'
  <2>1. n.first \in Nat /\ n.last \in Nat
    BY DEF TypeOK, Nak
  <2>2. n.first .. n.last \subseteq Nat
    BY <2>1
  <2>3. sndLoss' \subseteq Nat
    BY <1>11, <2>2 DEF TypeOK, RecvNak
  <2> QED
    BY <1>11, <2>3 DEF TypeOK, RecvNak, Wake, After, receiver
<1>12. CASE SndTimeout
  <2>1. SndLastAck .. SndCurrSeqNo \subseteq Nat
    BY DEF TypeOK
  <2>2. sndLoss' \subseteq Nat
    BY <1>12, <2>1 DEF TypeOK, SndTimeout
  <2> QED
    BY <1>12, <2>2 DEF TypeOK, SndTimeout, Wake, receiver, net
<1>13. CASE PeerDead
  BY <1>13 DEF TypeOK, PeerDead, Wake, receiver, net
<1>14. ASSUME NEW p \in netData, NEW keep \in BOOLEAN, RecvData(p, keep)
       PROVE  TypeOK'
  BY <1>14, TypeRecvData
<1>15. CASE SendAck
  <2>1. PICK ack \in RcvLastAck .. RcvCurrSeqNo + 1 :
          /\ RcvLastAck' = ack
          /\ netAck' = IF ack > RcvLastAckAck
                         THEN netAck \cup {[ack |-> ack, wnd |-> Window(ack)]}
                         ELSE netAck
    BY <1>15 DEF SendAck
  <2>2. ack \in Nat /\ Window(ack) \in Nat \ {0, 1}
    BY TransferAssumption DEF TypeOK, Window, AvailBufSize
  <2>3. netAck' \subseteq Ack
    BY <2>1, <2>2 DEF TypeOK, Ack
  <2> QED
    BY <1>15, <2>1, <2>2, <2>3 DEF TypeOK, SendAck, sender
<1>16. CASE SendLiteAck
  BY <1>16 DEF TypeOK, SendLiteAck, sender, receiver
<1>17. ASSUME NEW a \in netAck2, NEW keep \in BOOLEAN, RecvAck2(a, keep)
       PROVE  TypeOK'
  BY <1>17 DEF TypeOK, RecvAck2, After, sender
<1>18. CASE AppRecv
  <2>1. delivered' \in Seq(Nat)
    BY <1>18 DEF TypeOK, AppRecv, Data
  <2> QED
    BY <1>18, <2>1 DEF TypeOK, AppRecv, sender, net
<1>19. CASE Lose
  BY <1>19 DEF TypeOK, Lose, sender, receiver
<1>20. CASE UNCHANGED vars
  BY <1>20 DEF TypeOK, vars, sender, receiver, net
<1> QED
  BY <1>1, <1>2, <1>3, <1>4, <1>5, <1>6, <1>7, <1>8, <1>9, <1>10, <1>11, <1>12,
     <1>13, <1>14, <1>15, <1>16, <1>17, <1>18, <1>19, <1>20
  DEF Next, SenderStep, ReceiverStep

\* Every variable keeps its type, for any number of blocks and any buffer sizes.
THEOREM TypeCorrect == Spec => []TypeOK
  BY TypeInit, TypeStep, PTL DEF Spec

-----------------------------------------------------------------------------
(* The inductive invariant.                                                 *)

\* The integers among the variables, for the arithmetic below.
IntegersOK ==
  /\ ISN \in Int /\ SndBufSize \in Int /\ RcvBufSize \in Int
  /\ nSent \in Int /\ currBlock \in Int /\ FlowWindowSize \in Int
  /\ SndCurrSeqNo \in Int /\ SndLastAck \in Int /\ SndLastDataAck \in Int
  /\ RcvCurrSeqNo \in Int /\ RcvLastAck \in Int /\ RcvLastAckAck \in Int
  /\ readPos \in Int /\ sndWorker.arg \in Int /\ rcvWorker.arg \in Int
  /\ Len(sndBuf) \in Int /\ Len(delivered) \in Int

LEMMA Integer ==
  ASSUME IInv
  PROVE  IntegersOK
  BY TransferAssumption DEF IInv, TypeOK, IntegersOK

LEMMA SequenceDomains ==
  ASSUME IInv
  PROVE  /\ DOMAIN sndBuf = 1 .. Len(sndBuf)
         /\ DOMAIN delivered = 1 .. Len(delivered)
<1>1. sndBuf \in Seq(Nat) /\ delivered \in Seq(Nat)
  BY DEF IInv, TypeOK
<1> QED
  BY <1>1

LEMMA InvInit ==
  ASSUME Init
  PROVE  IInv
<1>1. TypeOK
  BY TypeInit
<1>2. CountersOK /\ HandlerOK /\ BufferOK /\ BlocksOK /\ LossOK /\ WindowsOK
  BY <1>1, TransferAssumption
  DEF Init, CountersOK, HandlerOK, BufferOK, BlocksOK, LossOK, WindowsOK,
      WindowBound, Idle
<1>3. NeverInsane /\ UnitsOK /\ LossListExact /\ AckedIsBuffered /\ DeliveredOK
  BY TransferAssumption
  DEF Init, NeverInsane, UnitsOK, LossListExact, AckedIsBuffered, DeliveredOK,
      Occupied
<1>4. Ack2MeansReleased /\ NetDataOK /\ NetAcksOK /\ NetAck2OK
  BY TransferAssumption DEF Init, Ack2MeansReleased, NetDataOK, NetAcksOK, NetAck2OK
<1> QED
  BY <1>1, <1>2, <1>3, <1>4 DEF IInv

-----------------------------------------------------------------------------
(* Steps of the application and of the send worker.                         *)

LEMMA InvAppSend ==
  ASSUME IInv, TypeOK', AppSend
  PROVE  IInv'
<1>0. IntegersOK
  BY Integer
<1>1. Len(sndBuf') = Len(sndBuf) + 1
  BY DEF IInv, TypeOK, AppSend
<1>2. \A i \in 1 .. Len(sndBuf) : sndBuf'[i] = sndBuf[i]
  BY DEF IInv, TypeOK, AppSend
<1>3. sndBuf'[Len(sndBuf) + 1] = nSent + 1
  BY DEF IInv, TypeOK, AppSend
<1>4. BufferOK'
  <2>1. Len(sndBuf') <= SndBufSize
    BY <1>0, <1>1 DEF IntegersOK, AppSend
  <2> QED
    BY <1>0, <1>1, <2>1 DEF IntegersOK, IInv, BufferOK, AppSend
<1>5. BlocksOK'
  <2> SUFFICES ASSUME NEW i \in 1 .. Len(sndBuf')
               PROVE  sndBuf'[i] = SndLastDataAck - ISN + i
    BY DEF BlocksOK, AppSend
  <2>1. CASE i = Len(sndBuf) + 1
    <3>1. nSent + 1 = SndLastDataAck - ISN + (Len(sndBuf) + 1)
      BY <1>0 DEF IntegersOK, IInv, BufferOK
    <3> QED
      BY <1>3, <2>1, <3>1
  <2>2. CASE i # Len(sndBuf) + 1
    <3>1. i \in 1 .. Len(sndBuf)
      BY <1>0, <1>1, <2>2 DEF IntegersOK
    <3> QED
      BY <1>2, <3>1 DEF IInv, BlocksOK
  <2> QED
    BY <2>1, <2>2
<1>6. CountersOK' /\ HandlerOK' /\ LossOK' /\ WindowsOK' /\ NeverInsane'
  BY DEF IInv, CountersOK, HandlerOK, LossOK, WindowsOK, WindowBound, NeverInsane,
     AppSend, receiver
<1>7. UnitsOK' /\ LossListExact' /\ AckedIsBuffered' /\ DeliveredOK'
  BY DEF IInv, UnitsOK, LossListExact, AckedIsBuffered, DeliveredOK, Occupied,
     AppSend, receiver
<1>8. Ack2MeansReleased' /\ NetDataOK' /\ NetAcksOK' /\ NetAck2OK'
  BY DEF IInv, Ack2MeansReleased, NetDataOK, NetAcksOK, NetAck2OK, AppSend,
     receiver, net
<1> QED
  BY <1>4, <1>5, <1>6, <1>7, <1>8 DEF IInv

LEMMA InvSchedule ==
  ASSUME IInv, TypeOK', NEW thread \in {"app", "rcv"}, Schedule(thread)
  PROVE  IInv'
<1>1. /\ CountersOK' /\ HandlerOK' /\ BufferOK' /\ BlocksOK' /\ LossOK' /\ WindowsOK'
      /\ NeverInsane'
  BY DEF IInv, CountersOK, HandlerOK, BufferOK, BlocksOK, LossOK, WindowsOK,
     WindowBound, NeverInsane, Schedule, receiver
<1>2. UnitsOK' /\ LossListExact' /\ AckedIsBuffered' /\ DeliveredOK'
  BY DEF IInv, UnitsOK, LossListExact, AckedIsBuffered, DeliveredOK, Occupied,
     Schedule, receiver
<1>3. Ack2MeansReleased' /\ NetDataOK' /\ NetAcksOK' /\ NetAck2OK'
  BY DEF IInv, Ack2MeansReleased, NetDataOK, NetAcksOK, NetAck2OK, Schedule,
     receiver, net
<1> QED
  BY <1>1, <1>2, <1>3 DEF IInv

LEMMA InvPickLost ==
  ASSUME IInv, TypeOK', PickLost
  PROVE  IInv'
<1>1. LossOK'
  <2>0. IntegersOK
    BY Integer
  <2>1. PICK s \in sndLoss : sndLoss' = sndLoss \ {s} /\ sndWorker'.arg = s
    BY DEF PickLost
  <2>2. /\ s \in Int /\ SndLastDataAck <= s /\ s <= SndCurrSeqNo
        /\ SndCurrSeqNo + 1 - SndLastDataAck <= SndBufSize
    BY <2>0 DEF IntegersOK, IInv, TypeOK, LossOK, BufferOK
  <2>3. SndCurrSeqNo + 1 - s <= SndBufSize
    BY <2>0, <2>2 DEF IntegersOK
  <2> QED
    BY <2>1, <2>2, <2>3 DEF IInv, LossOK, PickLost
<1>2. WindowsOK'
  BY DEF IInv, WindowsOK, WindowBound, PickLost
<1>3. CountersOK' /\ HandlerOK' /\ BufferOK' /\ BlocksOK' /\ NeverInsane'
  BY DEF IInv, CountersOK, HandlerOK, BufferOK, BlocksOK, NeverInsane, PickLost,
     receiver
<1>4. UnitsOK' /\ LossListExact' /\ AckedIsBuffered' /\ DeliveredOK'
  BY DEF IInv, UnitsOK, LossListExact, AckedIsBuffered, DeliveredOK, Occupied,
     PickLost, receiver
<1>5. Ack2MeansReleased' /\ NetDataOK' /\ NetAcksOK' /\ NetAck2OK'
  BY DEF IInv, Ack2MeansReleased, NetDataOK, NetAcksOK, NetAck2OK, PickLost,
     receiver, net
<1> QED
  BY <1>1, <1>2, <1>3, <1>4, <1>5 DEF IInv

LEMMA InvReadWindow ==
  ASSUME IInv, TypeOK', ReadWindow
  PROVE  IInv'
<1>1. WindowsOK'
  <2>1. PICK cwnd \in CWndSizes :
          sndWorker' = [pc  |-> "window",
                        arg |-> IF FlowWindowSize < cwnd THEN FlowWindowSize ELSE cwnd]
    BY DEF ReadWindow
  <2>2. cwnd \in Int
    BY TransferAssumption
  <2>3. sndWorker'.arg <= RcvBufSize
    BY <2>1, <2>2, Integer DEF IntegersOK, IInv, WindowsOK
  <2> QED
    BY <2>3 DEF IInv, WindowsOK, WindowBound, ReadWindow
<1>2. LossOK'
  BY DEF IInv, LossOK, ReadWindow
<1>3. CountersOK' /\ HandlerOK' /\ BufferOK' /\ BlocksOK' /\ NeverInsane'
  BY DEF IInv, CountersOK, HandlerOK, BufferOK, BlocksOK, NeverInsane, ReadWindow,
     receiver
<1>4. UnitsOK' /\ LossListExact' /\ AckedIsBuffered' /\ DeliveredOK'
  BY DEF IInv, UnitsOK, LossListExact, AckedIsBuffered, DeliveredOK, Occupied,
     ReadWindow, receiver
<1>5. Ack2MeansReleased' /\ NetDataOK' /\ NetAcksOK' /\ NetAck2OK'
  BY DEF IInv, Ack2MeansReleased, NetDataOK, NetAcksOK, NetAck2OK, ReadWindow,
     receiver, net
<1> QED
  BY <1>1, <1>2, <1>3, <1>4, <1>5 DEF IInv

LEMMA InvRetransmit ==
  ASSUME IInv, TypeOK', Retransmit
  PROVE  IInv'
<1>0. IntegersOK
  BY Integer
<1>1. NetDataOK'
  <2>1. CASE netData' = netData
    BY <2>1 DEF IInv, NetDataOK, Retransmit
  <2>2. CASE netData' # netData
    <3>1. /\ sndWorker.arg - SndLastDataAck + 1 \in DOMAIN sndBuf
          /\ netData' = netData \cup
               {[seq   |-> sndWorker.arg,
                 block |-> sndBuf[sndWorker.arg - SndLastDataAck + 1]]}
      BY <2>2 DEF Retransmit, LossOffset
    <3>2. sndWorker.arg - SndLastDataAck + 1 \in 1 .. Len(sndBuf)
      BY <3>1, SequenceDomains
    <3>3. sndBuf[sndWorker.arg - SndLastDataAck + 1]
            = SndLastDataAck - ISN + (sndWorker.arg - SndLastDataAck + 1)
      BY <3>2 DEF IInv, BlocksOK
    <3>4. /\ ISN <= sndWorker.arg
          /\ sndBuf[sndWorker.arg - SndLastDataAck + 1] = sndWorker.arg - ISN + 1
      BY <1>0, <3>2, <3>3 DEF IntegersOK, IInv, CountersOK
    <3>5. sndWorker.arg <= SndCurrSeqNo
      BY DEF IInv, LossOK, Retransmit
    <3> QED
      BY <3>1, <3>4, <3>5 DEF IInv, NetDataOK, Retransmit
  <2> QED
    BY <2>1, <2>2
<1>2. LossOK' /\ WindowsOK'
  BY DEF IInv, LossOK, WindowsOK, WindowBound, Retransmit, Idle
<1>3. CountersOK' /\ HandlerOK' /\ BufferOK' /\ BlocksOK' /\ NeverInsane'
  BY DEF IInv, CountersOK, HandlerOK, BufferOK, BlocksOK, NeverInsane, Retransmit, receiver
<1>4. UnitsOK' /\ LossListExact' /\ AckedIsBuffered' /\ DeliveredOK'
  BY DEF IInv, UnitsOK, LossListExact, AckedIsBuffered, DeliveredOK, Occupied,
     Retransmit, receiver
<1>5. Ack2MeansReleased' /\ NetAcksOK' /\ NetAck2OK'
  BY DEF IInv, Ack2MeansReleased, NetAcksOK, NetAck2OK, Retransmit,
     receiver
<1> QED
  BY <1>1, <1>2, <1>3, <1>4, <1>5 DEF IInv

LEMMA InvPackNew ==
  ASSUME IInv, TypeOK', PackNew
  PROVE  IInv'
<1>0. IntegersOK
  BY Integer
<1>1. \/ UNCHANGED <<SndCurrSeqNo, currBlock, netData>>
      \/ /\ Allowed(sndWorker.arg)
         /\ currBlock + 1 \in DOMAIN sndBuf
         /\ SndCurrSeqNo' = SndCurrSeqNo + 1
         /\ currBlock' = currBlock + 1
         /\ netData' = netData \cup
              {[seq |-> SndCurrSeqNo + 1, block |-> sndBuf[currBlock + 1]]}
  BY DEF PackNew
<1>2. CASE UNCHANGED <<SndCurrSeqNo, currBlock, netData>>
  <2>1. CountersOK' /\ HandlerOK' /\ BufferOK' /\ BlocksOK' /\ NeverInsane'
    BY <1>2 DEF IInv, CountersOK, HandlerOK, BufferOK, BlocksOK, NeverInsane,
       PackNew, receiver
  <2>2. LossOK' /\ WindowsOK'
    BY <1>2 DEF IInv, LossOK, WindowsOK, WindowBound, PackNew, Idle
  <2>3. UnitsOK' /\ LossListExact' /\ AckedIsBuffered' /\ DeliveredOK'
    BY DEF IInv, UnitsOK, LossListExact, AckedIsBuffered, DeliveredOK, Occupied,
       PackNew, receiver
  <2>4. Ack2MeansReleased' /\ NetDataOK' /\ NetAcksOK' /\ NetAck2OK'
    BY <1>2 DEF IInv, Ack2MeansReleased, NetDataOK, NetAcksOK, NetAck2OK, PackNew,
       receiver
  <2> QED
    BY <2>1, <2>2, <2>3, <2>4 DEF IInv
<1>3. CASE /\ Allowed(sndWorker.arg)
           /\ currBlock + 1 \in DOMAIN sndBuf
           /\ SndCurrSeqNo' = SndCurrSeqNo + 1
           /\ currBlock' = currBlock + 1
           /\ netData' = netData \cup
                {[seq |-> SndCurrSeqNo + 1, block |-> sndBuf[currBlock + 1]]}
  <2>0. currBlock + 1 \in 1 .. Len(sndBuf)
    BY <1>3, SequenceDomains
  <2>1. CountersOK'
    BY <1>0, <1>3 DEF IntegersOK, IInv, CountersOK, PackNew, receiver
  <2>2. HandlerOK'
    BY <1>0, <1>3 DEF IntegersOK, IInv, HandlerOK, PackNew, receiver
  <2>3. BufferOK'
    BY <1>0, <1>3, <2>0 DEF IntegersOK, IInv, BufferOK, PackNew
  <2>4. LossOK'
    <3>1. \A s \in sndLoss : SndLastDataAck <= s /\ s <= SndCurrSeqNo + 1
      BY <1>0 DEF IntegersOK, IInv, TypeOK, LossOK
    <3> QED
      BY <1>3, <3>1 DEF LossOK, PackNew, Idle
  <2>5. WindowsOK'
    <3>1. SndCurrSeqNo + 1 + 1 - SndLastAck <= RcvBufSize
      BY <1>0, <1>3 DEF IntegersOK, IInv, WindowsOK, Allowed, PackNew
    <3> QED
      BY <1>3, <3>1 DEF IInv, WindowsOK, WindowBound, PackNew, Idle
  <2>6. NetDataOK'
    <3>1. sndBuf[currBlock + 1] = SndLastDataAck - ISN + (currBlock + 1)
      BY <2>0 DEF IInv, BlocksOK
    <3>2. /\ ISN <= SndCurrSeqNo + 1
          /\ sndBuf[currBlock + 1] = SndCurrSeqNo + 1 - ISN + 1
      BY <1>0, <3>1 DEF IntegersOK, IInv, CountersOK, BufferOK
    <3>3. \A p \in netData : p.seq <= SndCurrSeqNo + 1
      <4> SUFFICES ASSUME NEW p \in netData
                   PROVE  p.seq <= SndCurrSeqNo + 1
        OBVIOUS
      <4>1. p \in Data
        BY DEF IInv, TypeOK
      <4>2. p.seq \in Int
        BY <4>1 DEF Data
      <4>3. p.seq <= SndCurrSeqNo
        BY DEF IInv, NetDataOK
      <4> QED
        BY <1>0, <4>2, <4>3 DEF IntegersOK
    <3> QED
      BY <1>0, <1>3, <3>2, <3>3 DEF IntegersOK, IInv, NetDataOK
  <2>7. BlocksOK' /\ NeverInsane'
    BY DEF IInv, BlocksOK, NeverInsane, PackNew
  <2>8. UnitsOK' /\ LossListExact' /\ AckedIsBuffered' /\ DeliveredOK'
    BY DEF IInv, UnitsOK, LossListExact, AckedIsBuffered, DeliveredOK, Occupied,
       PackNew, receiver
  <2>9. Ack2MeansReleased' /\ NetAcksOK' /\ NetAck2OK'
    BY DEF IInv, Ack2MeansReleased, NetAcksOK, NetAck2OK, PackNew, receiver
  <2> QED
    BY <2>1, <2>2, <2>3, <2>4, <2>5, <2>6, <2>7, <2>8, <2>9 DEF IInv
<1> QED
  BY <1>1, <1>2, <1>3

-----------------------------------------------------------------------------
(* Steps of the sender's receive worker.                                    *)

LEMMA InvRecvAck ==
  ASSUME IInv, TypeOK', NEW a \in netAck, NEW keep \in BOOLEAN,
         NEW answer \in BOOLEAN, RecvAck(a, keep, answer)
  PROVE  IInv'
<1>0. IntegersOK
  BY Integer
<1>1. /\ a.ack \in Int /\ a.wnd \in Int
      /\ a.ack <= RcvLastAck /\ a.wnd <= RcvBufSize
  <2>1. a \in Ack
    BY DEF IInv, TypeOK
  <2> QED
    BY <2>1 DEF Ack, IInv, NetAcksOK
<1>2. a.ack <= SndCurrSeqNo + 1
  BY <1>0, <1>1 DEF IntegersOK, IInv, CountersOK
<1>3. rcvWorker.pc = "idle"
  BY DEF RecvAck, RcvWorkerFree, Idle
<1>4. /\ rcvWorker'.pc \in {"seq", "data"} /\ rcvWorker'.arg = a.ack
      /\ rcvWorker'.pc = "seq" => a.ack >= SndLastAck /\ FlowWindowSize' = a.wnd
      /\ rcvWorker'.pc = "data" => a.ack < SndLastAck /\ FlowWindowSize' = FlowWindowSize
      /\ status' = status
  BY <1>0, <1>1, <1>2 DEF IntegersOK, RecvAck, Advances, Refused
<1>5. HandlerOK'
  BY <1>0, <1>1, <1>2, <1>4
  DEF IntegersOK, IInv, HandlerOK, RecvAck, receiver
<1>6. WindowsOK'
  BY <1>1, <1>4 DEF IInv, WindowsOK, WindowBound, RecvAck
<1>7. Ack2MeansReleased'
  BY <1>3 DEF IInv, Ack2MeansReleased, RecvAck, receiver
<1>8. NetAcksOK'
  BY DEF IInv, NetAcksOK, RecvAck, After, receiver
<1>9. NetAck2OK'
  <2> SUFFICES ASSUME NEW b \in netAck2'
               PROVE  /\ b <= RcvLastAck
                      /\ b > SndLastDataAck =>
                           rcvWorker'.pc \in {"seq", "data"} /\ rcvWorker'.arg >= b
    BY DEF NetAck2OK, RecvAck, receiver
  <2>1. b \in netAck2 \/ b = a.ack
    BY DEF RecvAck, Reply
  <2>2. CASE b \in netAck2
    BY <1>3, <2>2 DEF IInv, NetAck2OK
  <2>3. CASE b = a.ack
    BY <1>1, <1>4, <2>3
  <2> QED
    BY <2>1, <2>2, <2>3
<1>10. CountersOK' /\ BufferOK' /\ BlocksOK' /\ LossOK' /\ NeverInsane'
  BY <1>4
  DEF IInv, CountersOK, BufferOK, BlocksOK, LossOK, NeverInsane, RecvAck, receiver
<1>11. UnitsOK' /\ LossListExact' /\ AckedIsBuffered' /\ DeliveredOK' /\ NetDataOK'
  BY DEF IInv, UnitsOK, LossListExact, AckedIsBuffered, DeliveredOK, Occupied,
     NetDataOK, RecvAck, receiver
<1> QED
  BY <1>5, <1>6, <1>7, <1>8, <1>9, <1>10, <1>11 DEF IInv

LEMMA InvRecvLiteAck ==
  ASSUME IInv, TypeOK', NEW l \in netLite, NEW keep \in BOOLEAN,
         RecvLiteAck(l, keep)
  PROVE  IInv'
<1>0. IntegersOK
  BY Integer
<1>1. l \in Int /\ l <= RcvCurrSeqNo + 1
  BY DEF IInv, TypeOK, NetAcksOK
<1>2. l <= SndCurrSeqNo + 1
  BY <1>0, <1>1 DEF IntegersOK, IInv, CountersOK
<1>3. rcvWorker.pc = "idle"
  BY DEF RecvLiteAck, RcvWorkerFree, Idle
<1>4. \/ UNCHANGED <<rcvWorker, FlowWindowSize>>
      \/ /\ l >= SndLastAck
         /\ rcvWorker'.pc = "lite" /\ rcvWorker'.arg = l
         /\ FlowWindowSize' = FlowWindowSize - (l - SndLastAck)
  BY <1>1 DEF RecvLiteAck, Advances, LiteWindow
<1>5. HandlerOK'
  BY <1>0, <1>1, <1>2, <1>3, <1>4
  DEF IntegersOK, HandlerOK, RecvLiteAck, receiver
<1>6. WindowsOK'
  <2>1. FlowWindowSize' <= RcvBufSize
    BY <1>0, <1>1, <1>4 DEF IntegersOK, IInv, WindowsOK
  <2> QED
    BY <2>1 DEF IInv, WindowsOK, WindowBound, RecvLiteAck
<1>7. Ack2MeansReleased' /\ NetAck2OK'
  BY <1>3
  DEF IInv, Ack2MeansReleased, NetAck2OK, RecvLiteAck,
      receiver
<1>8. NetAcksOK'
  BY DEF IInv, NetAcksOK, RecvLiteAck, After, receiver
<1>9. CountersOK' /\ BufferOK' /\ BlocksOK' /\ LossOK' /\ NeverInsane'
  BY DEF IInv, CountersOK, BufferOK, BlocksOK, LossOK, NeverInsane, RecvLiteAck, receiver
<1>10. UnitsOK' /\ LossListExact' /\ AckedIsBuffered' /\ DeliveredOK' /\ NetDataOK'
  BY DEF IInv, UnitsOK, LossListExact, AckedIsBuffered, DeliveredOK, Occupied,
     NetDataOK, RecvLiteAck, receiver
<1> QED
  BY <1>5, <1>6, <1>7, <1>8, <1>9, <1>10 DEF IInv

LEMMA InvSetSndLastAck ==
  ASSUME IInv, TypeOK', SetSndLastAck
  PROVE  IInv'
<1>0. IntegersOK
  BY Integer
<1>1. /\ SndLastAck' = rcvWorker.arg
      /\ SndLastAck <= rcvWorker.arg /\ rcvWorker.arg <= SndCurrSeqNo + 1
  BY DEF IInv, HandlerOK, SetSndLastAck
<1>2. \/ rcvWorker.pc = "lite" /\ rcvWorker'.pc = "idle"
      \/ /\ rcvWorker.pc = "seq" /\ rcvWorker'.pc = "data"
         /\ rcvWorker'.arg = rcvWorker.arg
  BY DEF IInv, TypeOK, SetSndLastAck, Idle
<1>3. CountersOK'
  BY <1>0, <1>1 DEF IntegersOK, IInv, CountersOK, SetSndLastAck, receiver
<1>4. HandlerOK'
  BY <1>0, <1>1, <1>2 DEF IntegersOK, IInv, HandlerOK, SetSndLastAck, receiver
<1>5. WindowsOK'
  <2>1. SndCurrSeqNo + 1 - SndLastAck' <= RcvBufSize
    BY <1>0, <1>1 DEF IntegersOK, IInv, WindowsOK, WindowBound
  <2> QED
    BY <2>1 DEF IInv, WindowsOK, WindowBound, SetSndLastAck
<1>6. Ack2MeansReleased' /\ NetAck2OK'
  BY <1>2 DEF IInv, Ack2MeansReleased, NetAck2OK, SetSndLastAck, receiver, net
<1>7. BufferOK' /\ BlocksOK' /\ LossOK' /\ NeverInsane'
  BY DEF IInv, BufferOK, BlocksOK, LossOK, NeverInsane, SetSndLastAck
<1>8. UnitsOK' /\ LossListExact' /\ AckedIsBuffered' /\ DeliveredOK'
  BY DEF IInv, UnitsOK, LossListExact, AckedIsBuffered, DeliveredOK, Occupied,
     SetSndLastAck, receiver
<1>9. NetDataOK' /\ NetAcksOK'
  BY DEF IInv, NetDataOK, NetAcksOK, SetSndLastAck, receiver, net
<1> QED
  BY <1>3, <1>4, <1>5, <1>6, <1>7, <1>8, <1>9 DEF IInv

LEMMA InvAckData ==
  ASSUME IInv, TypeOK', AckData
  PROVE  IInv'
<1>0. IntegersOK
  BY Integer
<1>1. /\ rcvWorker.pc = "data" /\ rcvWorker'.pc = "idle"
      /\ rcvWorker.arg <= SndLastAck /\ rcvWorker.arg <= RcvLastAck
  BY DEF IInv, HandlerOK, AckData, Idle
<1>2. HandlerOK' /\ WindowsOK' /\ NeverInsane'
  BY <1>1
  DEF IInv, HandlerOK, WindowsOK, WindowBound, NeverInsane, AckData, Idle
<1>3. UnitsOK' /\ LossListExact' /\ AckedIsBuffered' /\ DeliveredOK'
  BY DEF IInv, UnitsOK, LossListExact, AckedIsBuffered, DeliveredOK, Occupied,
     AckData, receiver
<1>4. NetDataOK' /\ NetAcksOK'
  BY DEF IInv, NetDataOK, NetAcksOK, AckData, receiver,
     net
<1>5. CASE Repeated(rcvWorker.arg)
  <2>1. CountersOK' /\ BufferOK' /\ BlocksOK' /\ LossOK'
    BY <1>5
    DEF IInv, CountersOK, BufferOK, BlocksOK, LossOK, AckData, receiver
  <2>2. rcvWorker.arg <= SndLastDataAck
    BY <1>5 DEF Repeated
  <2>3. Ack2MeansReleased'
    <3>1. ~ (RcvLastAckAck > SndLastDataAck)
      BY <1>0, <1>1, <2>2 DEF IntegersOK, IInv, Ack2MeansReleased
    <3> QED
      BY <1>5, <3>1
      DEF Ack2MeansReleased, AckData, receiver
  <2>4. NetAck2OK'
    <3>1. \A b \in netAck2 : b <= RcvLastAck /\ ~ (b > SndLastDataAck)
      <4> SUFFICES ASSUME NEW b \in netAck2
                   PROVE  b <= RcvLastAck /\ ~ (b > SndLastDataAck)
        OBVIOUS
      <4>1. b \in Int
        BY DEF IInv, TypeOK
      <4> QED
        BY <1>0, <1>1, <2>2, <4>1 DEF IntegersOK, IInv, NetAck2OK
    <3> QED
      BY <1>5, <3>1 DEF NetAck2OK, AckData, receiver, net
  <2> QED
    BY <1>2, <1>3, <1>4, <2>1, <2>3, <2>4 DEF IInv
<1>6. CASE ~ Repeated(rcvWorker.arg)
  <2> DEFINE offset == rcvWorker.arg - SndLastDataAck
  <2>1. /\ sndBuf' = SubSeq(sndBuf, offset + 1, Len(sndBuf))
        /\ currBlock' = currBlock - offset
        /\ SndLastDataAck' = rcvWorker.arg
        /\ sndLoss' = {s \in sndLoss : s >= rcvWorker.arg}
    BY <1>6 DEF AckData, StillLost
  <2>2. offset \in Int /\ offset >= 1 /\ offset <= Len(sndBuf)
    BY <1>0, <1>1, <1>6 DEF IntegersOK, IInv, CountersOK, BufferOK, Repeated
  <2>3. /\ Len(sndBuf') = Len(sndBuf) - offset
        /\ \A i \in 1 .. Len(sndBuf) - offset : sndBuf'[i] = sndBuf[offset + i]
    <3>1. sndBuf \in Seq(Nat)
      BY DEF IInv, TypeOK
    <3>2. /\ offset + 1 \in Int /\ Len(sndBuf) \in Int
          /\ \A i \in offset + 1 .. Len(sndBuf) : sndBuf[i] \in Nat
      BY <2>2, <3>1
    <3> HIDE DEF offset
    <3>3. /\ Len(SubSeq(sndBuf, offset + 1, Len(sndBuf)))
               = IF offset + 1 <= Len(sndBuf) THEN Len(sndBuf) - (offset + 1) + 1 ELSE 0
          /\ \A i \in 1 .. Len(sndBuf) - (offset + 1) + 1 :
               SubSeq(sndBuf, offset + 1, Len(sndBuf))[i] = sndBuf[offset + 1 + i - 1]
      BY <3>2, SubSeqProperties
    <3> QED
      BY <2>1, <2>2, <3>2, <3>3
  <2>4. CountersOK'
    BY <1>0, <1>1, <1>6, <2>1
    DEF IntegersOK, IInv, CountersOK, AckData, Repeated, receiver
  <2>5. BufferOK'
    <3>1. currBlock' = SndCurrSeqNo + 1 - rcvWorker.arg
      BY <1>0, <2>1 DEF IntegersOK, IInv, BufferOK
    <3>2. Len(sndBuf') = nSent - (rcvWorker.arg - ISN)
      BY <1>0, <2>3 DEF IntegersOK, IInv, BufferOK
    <3>3. Len(sndBuf') <= SndBufSize
      BY <1>0, <2>2, <2>3 DEF IntegersOK, IInv, BufferOK
    <3>4. currBlock' <= Len(sndBuf')
      <4>1. currBlock' = currBlock - offset /\ Len(sndBuf') = Len(sndBuf) - offset
        BY <2>1, <2>3
      <4>2. currBlock <= Len(sndBuf) /\ offset \in Int
        BY <1>0 DEF IntegersOK, IInv, BufferOK
      <4> HIDE DEF offset
      <4> QED
        BY <1>0, <4>1, <4>2 DEF IntegersOK
    <3> QED
      BY <2>1, <3>1, <3>2, <3>3, <3>4
      DEF BufferOK, AckData
  <2>6. BlocksOK'
    <3> SUFFICES ASSUME NEW i \in 1 .. Len(sndBuf')
                 PROVE  sndBuf'[i] = SndLastDataAck' - ISN + i
      BY DEF BlocksOK
    <3>1. i \in 1 .. Len(sndBuf) - offset /\ offset + i \in 1 .. Len(sndBuf)
      BY <1>0, <2>2, <2>3, SMTT(40) DEF IntegersOK
    <3>2. sndBuf'[i] = SndLastDataAck - ISN + (offset + i)
      BY <2>3, <3>1 DEF IInv, BlocksOK
    <3>3. rcvWorker.arg - ISN + i = SndLastDataAck - ISN + (offset + i)
      BY <1>0, <3>1 DEF IntegersOK
    <3> QED
      BY <2>1, <3>2, <3>3
  <2>7. LossOK'
    BY <2>1 DEF IInv, LossOK, AckData
  <2>8. Ack2MeansReleased'
    BY <1>0, <1>1, <2>1, SMTT(40)
    DEF IntegersOK, IInv, Ack2MeansReleased, AckData, Repeated,
        receiver
  <2>9. NetAck2OK'
    <3>1. \A b \in netAck2 : b <= RcvLastAck /\ ~ (b > rcvWorker.arg)
      <4> SUFFICES ASSUME NEW b \in netAck2
                   PROVE  b <= RcvLastAck /\ ~ (b > rcvWorker.arg)
        OBVIOUS
      <4>1. b \in Int
        BY DEF IInv, TypeOK
      <4> QED
        BY <1>0, <1>1, <1>6, <4>1 DEF IntegersOK, IInv, NetAck2OK, Repeated
    <3> QED
      BY <2>1, <3>1 DEF NetAck2OK, AckData, receiver, net
  <2> QED
    BY <1>2, <1>3, <1>4, <2>4, <2>5, <2>6, <2>7, <2>8, <2>9 DEF IInv
<1> QED
  BY <1>5, <1>6

LEMMA InvRecvNak ==
  ASSUME IInv, TypeOK', NEW n \in netNak, NEW keep \in BOOLEAN, RecvNak(n, keep)
  PROVE  IInv'
<1>0. IntegersOK
  BY Integer
<1>1. /\ n.first \in Int /\ n.last \in Int
      /\ n.first <= n.last /\ n.last <= RcvCurrSeqNo
  <2>1. n \in Nak
    BY DEF IInv, TypeOK
  <2> QED
    BY <2>1 DEF Nak, IInv, NetAcksOK
<1>2. n.last <= SndCurrSeqNo
  BY <1>0, <1>1 DEF IntegersOK, IInv, CountersOK
<1>3. /\ sndLoss' = sndLoss \cup {s \in n.first .. n.last : s >= SndLastAck}
      /\ status' = status
  BY <1>0, <1>1, <1>2 DEF IntegersOK, RecvNak
<1>4. LossOK'
  <2>1. \A s \in n.first .. n.last :
          s >= SndLastAck => SndLastDataAck <= s /\ s <= SndCurrSeqNo
    BY <1>0, <1>1, <1>2 DEF IntegersOK, IInv, CountersOK
  <2> QED
    BY <1>3, <2>1 DEF IInv, LossOK, RecvNak
<1>5. /\ CountersOK' /\ HandlerOK' /\ BufferOK' /\ BlocksOK' /\ WindowsOK'
      /\ NeverInsane'
  BY <1>3
  DEF IInv, CountersOK, HandlerOK, BufferOK, BlocksOK, WindowsOK, WindowBound,
      NeverInsane, RecvNak, receiver
<1>6. UnitsOK' /\ LossListExact' /\ AckedIsBuffered' /\ DeliveredOK'
  BY DEF IInv, UnitsOK, LossListExact, AckedIsBuffered, DeliveredOK, Occupied,
     RecvNak, receiver
<1>7. Ack2MeansReleased' /\ NetDataOK' /\ NetAcksOK' /\ NetAck2OK'
  BY DEF IInv, Ack2MeansReleased, NetDataOK, NetAcksOK, NetAck2OK, RecvNak,
     After, receiver
<1> QED
  BY <1>4, <1>5, <1>6, <1>7 DEF IInv

LEMMA InvSndTimeout ==
  ASSUME IInv, TypeOK', SndTimeout
  PROVE  IInv'
<1>0. IntegersOK
  BY Integer
<1>1. LossOK'
  <2>1. \A s \in SndLastAck .. SndCurrSeqNo :
          SndLastDataAck <= s /\ s <= SndCurrSeqNo
    BY <1>0 DEF IntegersOK, IInv, CountersOK
  <2> QED
    BY <2>1 DEF IInv, LossOK, SndTimeout
<1>2. /\ CountersOK' /\ HandlerOK' /\ BufferOK' /\ BlocksOK' /\ WindowsOK'
      /\ NeverInsane'
  BY DEF IInv, CountersOK, HandlerOK, BufferOK, BlocksOK, WindowsOK, WindowBound,
     NeverInsane, SndTimeout, receiver
<1>3. UnitsOK' /\ LossListExact' /\ AckedIsBuffered' /\ DeliveredOK'
  BY DEF IInv, UnitsOK, LossListExact, AckedIsBuffered, DeliveredOK, Occupied,
     SndTimeout, receiver
<1>4. Ack2MeansReleased' /\ NetDataOK' /\ NetAcksOK' /\ NetAck2OK'
  BY DEF IInv, Ack2MeansReleased, NetDataOK, NetAcksOK, NetAck2OK, SndTimeout,
     receiver, net
<1> QED
  BY <1>1, <1>2, <1>3, <1>4 DEF IInv

LEMMA InvPeerDead ==
  ASSUME IInv, TypeOK', PeerDead
  PROVE  IInv'
<1>1. /\ CountersOK' /\ HandlerOK' /\ BufferOK' /\ BlocksOK' /\ LossOK' /\ WindowsOK'
      /\ NeverInsane'
  BY DEF IInv, CountersOK, HandlerOK, BufferOK, BlocksOK, LossOK, WindowsOK,
     WindowBound, NeverInsane, PeerDead, receiver
<1>2. UnitsOK' /\ LossListExact' /\ AckedIsBuffered' /\ DeliveredOK'
  BY DEF IInv, UnitsOK, LossListExact, AckedIsBuffered, DeliveredOK, Occupied,
     PeerDead, receiver
<1>3. Ack2MeansReleased' /\ NetDataOK' /\ NetAcksOK' /\ NetAck2OK'
  BY DEF IInv, Ack2MeansReleased, NetDataOK, NetAcksOK, NetAck2OK, PeerDead,
     receiver, net
<1> QED
  BY <1>1, <1>2, <1>3 DEF IInv

-----------------------------------------------------------------------------
(* Steps of the receiver and of the network.                                *)

\* Arithmetic, stated for terms that may be primed variables.
LEMMA Transitive ==
  ASSUME NEW a \in Int, NEW b \in Int, NEW c \in Int, a <= b + 1, b <= c
  PROVE  a <= c + 1
OBVIOUS

LEMMA InvRecvData ==
  ASSUME IInv, TypeOK', NEW p \in netData, NEW keep \in BOOLEAN, RecvData(p, keep)
  PROVE  IInv'
<1>0. IntegersOK
  BY Integer
<1>1. /\ p \in Data /\ p.seq \in Int
      /\ ISN <= p.seq /\ p.seq <= SndCurrSeqNo /\ p.block = p.seq - ISN + 1
  <2>1. p \in Data
    BY DEF IInv, TypeOK
  <2> QED
    BY <2>1 DEF Data, IInv, NetDataOK
<1>2. netData' \subseteq netData
  BY DEF RecvData, After
<1>3. HandlerOK' /\ BufferOK' /\ BlocksOK' /\ LossOK' /\ WindowsOK' /\ NeverInsane'
  BY DEF IInv, HandlerOK, BufferOK, BlocksOK, LossOK, WindowsOK, WindowBound,
     NeverInsane, RecvData, sender
<1>4. DeliveredOK' /\ Ack2MeansReleased' /\ NetAck2OK' /\ NetDataOK'
  BY <1>2
  DEF IInv, DeliveredOK, Ack2MeansReleased, NetAck2OK, NetDataOK, RecvData,
      sender
<1>5. CASE UNCHANGED <<rcvBuf, rcvLoss, RcvCurrSeqNo, netNak>>
  BY <1>3, <1>4, <1>5
  DEF IInv, CountersOK, UnitsOK, LossListExact, AckedIsBuffered, Occupied,
      NetAcksOK, RecvData, sender
<1>6. CASE ~ UNCHANGED <<rcvBuf, rcvLoss, RcvCurrSeqNo, netNak>>
  <2>1. /\ ~ (p.seq - RcvLastAck < 0)
        /\ ~ (p.seq - RcvLastAck >= AvailBufSize(RcvLastAck))
        /\ ~ Occupied(p.seq)
        /\ rcvBuf' = rcvBuf \cup {p}
    BY <1>6 DEF RecvData
  <2>2. RcvLastAck <= p.seq /\ p.seq <= readPos + RcvBufSize - 2
    BY <1>0, <1>1, <2>1 DEF IntegersOK, AvailBufSize
  <2>3. \/ /\ p.seq > RcvCurrSeqNo
           /\ rcvLoss' = rcvLoss \cup (RcvCurrSeqNo + 1 .. p.seq - 1)
           /\ RcvCurrSeqNo' = p.seq
        \/ /\ ~ (p.seq > RcvCurrSeqNo)
           /\ rcvLoss' = rcvLoss \ {p.seq}
           /\ RcvCurrSeqNo' = RcvCurrSeqNo
    BY <2>1 DEF RecvData, Gap
  <2>4. /\ RcvCurrSeqNo' \in Int /\ RcvCurrSeqNo <= RcvCurrSeqNo'
        /\ p.seq <= RcvCurrSeqNo' /\ RcvCurrSeqNo' <= SndCurrSeqNo
    BY <1>0, <1>1, <2>3 DEF IntegersOK, IInv, CountersOK
  <2>5. CountersOK'
    <3>1. RcvLastAck <= RcvCurrSeqNo' + 1
      BY <1>0, <2>4, Transitive DEF IntegersOK, IInv, CountersOK
    <3> QED
      BY <2>4, <3>1 DEF IInv, CountersOK, RecvData, sender
  <2>6. \A u \in rcvBuf : u.seq \in Int /\ u.seq <= RcvCurrSeqNo
    <3> SUFFICES ASSUME NEW u \in rcvBuf
                 PROVE  u.seq \in Int /\ u.seq <= RcvCurrSeqNo
      OBVIOUS
    <3>1. u \in Data
      BY DEF IInv, TypeOK
    <3> QED
      BY <3>1 DEF Data, IInv, UnitsOK
  <2>7. UnitsOK'
    <3> SUFFICES ASSUME NEW u \in rcvBuf'
                 PROVE  /\ readPos <= u.seq /\ u.seq <= RcvCurrSeqNo'
                        /\ u.seq <= readPos + RcvBufSize - 2
                        /\ u.block = u.seq - ISN + 1
      BY DEF UnitsOK, RecvData
    <3>1. CASE u = p
      BY <1>0, <1>1, <2>2, <2>4, <3>1 DEF IntegersOK, IInv, CountersOK
    <3>2. CASE u \in rcvBuf
      <4>1. u.seq <= RcvCurrSeqNo'
        BY <1>0, <2>4, <2>6, <3>2 DEF IntegersOK
      <4> QED
        BY <3>2, <4>1 DEF IInv, UnitsOK
    <3> QED
      BY <2>1, <3>1, <3>2
  <2>8. \A s \in Int : Occupied(s)' <=> Occupied(s) \/ s = p.seq
    BY <2>1 DEF Occupied
  <2>9. \A s \in Int : Occupied(s) => s <= RcvCurrSeqNo
    BY <2>6 DEF Occupied
  <2>10. LossListExact'
    <3>1. \A s \in Int : s \in rcvLoss <=>
            /\ RcvLastAck <= s /\ s <= RcvCurrSeqNo /\ ~ Occupied(s)
      BY <1>0 DEF IntegersOK, IInv, LossListExact
    <3>2. \A s \in Int : s \in rcvLoss' <=>
            /\ RcvLastAck <= s /\ s <= RcvCurrSeqNo' /\ ~ Occupied(s)'
      <4> SUFFICES ASSUME NEW s \in Int
                   PROVE  s \in rcvLoss' <=>
                            RcvLastAck <= s /\ s <= RcvCurrSeqNo' /\ ~ Occupied(s)'
        OBVIOUS
      <4>1. CASE p.seq > RcvCurrSeqNo
        BY <1>0, <1>1, <2>2, <2>3, <2>8, <2>9, <3>1, <4>1
        DEF IntegersOK, IInv, CountersOK
      <4>2. CASE ~ (p.seq > RcvCurrSeqNo)
        BY <1>0, <1>1, <2>2, <2>3, <2>8, <3>1, <4>2 DEF IntegersOK
      <4> QED
        BY <4>1, <4>2
    <3>3. rcvLoss' \subseteq Int /\ RcvLastAck' = RcvLastAck
      BY DEF TypeOK, RecvData
    <3>4. \A s \in RcvLastAck .. RcvCurrSeqNo' :
            s \in Int /\ RcvLastAck <= s /\ s <= RcvCurrSeqNo'
      BY <1>0, <2>4 DEF IntegersOK
    <3>5. \A s \in rcvLoss' : s \in RcvLastAck .. RcvCurrSeqNo' /\ ~ Occupied(s)'
      BY <1>0, <2>4, <3>2, <3>3 DEF IntegersOK
    <3>6. \A s \in RcvLastAck .. RcvCurrSeqNo' : ~ Occupied(s)' => s \in rcvLoss'
      BY <3>2, <3>4
    <3> QED
      BY <3>3, <3>5, <3>6 DEF LossListExact
  <2>11. AckedIsBuffered'
    BY <1>0, <2>8 DEF IntegersOK, IInv, AckedIsBuffered, RecvData
  <2>12. NetAcksOK'
    <3>1. \A a \in netAck' : a.ack <= RcvLastAck' /\ a.wnd <= RcvBufSize
      BY DEF IInv, NetAcksOK, RecvData
    <3>2. \A l \in netLite' : l <= RcvCurrSeqNo' + 1
      <4> SUFFICES ASSUME NEW l \in netLite
                   PROVE  l <= RcvCurrSeqNo' + 1
        BY DEF RecvData
      <4>1. l \in Int /\ l <= RcvCurrSeqNo + 1
        BY DEF IInv, TypeOK, NetAcksOK
      <4>2. RcvCurrSeqNo \in Int /\ RcvCurrSeqNo' \in Int /\ RcvCurrSeqNo <= RcvCurrSeqNo'
        BY <1>0, <2>4 DEF IntegersOK
      <4> QED
        BY <4>1, <4>2, Transitive
    <3>3. \A n \in netNak' : n.first <= n.last /\ n.last <= RcvCurrSeqNo'
      <4> SUFFICES ASSUME NEW n \in netNak'
                   PROVE  n.first <= n.last /\ n.last <= RcvCurrSeqNo'
        OBVIOUS
      <4>1. \/ n \in netNak
            \/ /\ p.seq > RcvCurrSeqNo + 1
               /\ n = [first |-> RcvCurrSeqNo + 1, last |-> p.seq - 1]
        BY <2>1 DEF RecvData, Reply
      <4>2. CASE n \in netNak
        <5>1. n \in Nak
          BY <4>2 DEF IInv, TypeOK
        <5>2. n.last \in Int /\ n.first <= n.last /\ n.last <= RcvCurrSeqNo
          BY <4>2, <5>1 DEF Nak, IInv, NetAcksOK
        <5> QED
          BY <1>0, <2>4, <5>2 DEF IntegersOK
      <4>3. CASE /\ p.seq > RcvCurrSeqNo + 1
                 /\ n = [first |-> RcvCurrSeqNo + 1, last |-> p.seq - 1]
        BY <1>0, <1>1, <2>4, <4>3 DEF IntegersOK
      <4> QED
        BY <4>1, <4>2, <4>3
    <3> QED
      BY <3>1, <3>2, <3>3 DEF NetAcksOK
  <2> QED
    BY <1>3, <1>4, <2>5, <2>7, <2>10, <2>11, <2>12 DEF IInv
<1> QED
  BY <1>5, <1>6

\* Everything below the number an ACK carries has arrived.
LEMMA AckPointIsReached ==
  ASSUME IInv, NEW ack \in RcvLastAck .. RcvCurrSeqNo + 1, IsAckPoint(ack)
  PROVE  \A s \in RcvLastAck .. ack - 1 : Occupied(s)
<1>0. IntegersOK
  BY Integer
<1>1. \A s \in Int : s \in rcvLoss <=>
        /\ RcvLastAck <= s /\ s <= RcvCurrSeqNo /\ ~ Occupied(s)
  BY <1>0 DEF IntegersOK, IInv, LossListExact
<1> SUFFICES ASSUME NEW s \in RcvLastAck .. ack - 1
             PROVE  Occupied(s)
  OBVIOUS
<1>2. /\ s \in Int /\ ack \in Int /\ RcvLastAck <= s /\ s < ack
      /\ s <= RcvCurrSeqNo
  BY <1>0 DEF IntegersOK
<1>3. s \notin rcvLoss
  BY <1>0, <1>2 DEF IntegersOK, IsAckPoint
<1> QED
  BY <1>1, <1>2, <1>3

LEMMA InvSendAck ==
  ASSUME IInv, TypeOK', SendAck
  PROVE  IInv'
<1>0. IntegersOK
  BY Integer
<1> PICK ack \in RcvLastAck .. RcvCurrSeqNo + 1 :
      /\ IsAckPoint(ack)
      /\ ack # RcvLastAckAck
      /\ RcvLastAck' = ack
      /\ netAck' = IF ack > RcvLastAckAck
                     THEN netAck \cup {[ack |-> ack, wnd |-> Window(ack)]}
                     ELSE netAck
  BY DEF SendAck
<1>1. ack \in Int /\ RcvLastAck <= ack /\ ack <= RcvCurrSeqNo + 1
  BY <1>0 DEF IntegersOK
<1>2. \A s \in RcvLastAck .. ack - 1 : Occupied(s)
  BY AckPointIsReached
<1>3. CountersOK'
  BY <1>0, <1>1 DEF IntegersOK, IInv, CountersOK, SendAck, sender
<1>4. HandlerOK' /\ BufferOK' /\ BlocksOK' /\ LossOK' /\ WindowsOK' /\ NeverInsane'
  <2>1. BufferOK' /\ BlocksOK' /\ LossOK' /\ WindowsOK' /\ NeverInsane'
    BY DEF IInv, BufferOK, BlocksOK, LossOK, WindowsOK, WindowBound, NeverInsane,
       SendAck, sender
  <2>2. HandlerOK'
    BY <1>0, <1>1 DEF IntegersOK, IInv, HandlerOK, SendAck, sender
  <2> QED
    BY <2>1, <2>2
<1>5. UnitsOK' /\ DeliveredOK' /\ Ack2MeansReleased' /\ NetDataOK'
  BY DEF IInv, UnitsOK, DeliveredOK, Ack2MeansReleased, NetDataOK, SendAck, sender
<1>6. AckedIsBuffered'
  <2>1. \A s \in readPos .. RcvLastAck - 1 : Occupied(s)
    BY DEF IInv, AckedIsBuffered
  <2>2. \A s \in readPos .. ack - 1 : Occupied(s)
    BY <1>0, <1>1, <1>2, <2>1 DEF IntegersOK
  <2> QED
    BY <2>2 DEF AckedIsBuffered, Occupied, SendAck
<1>7. LossListExact'
  <2>1. \A s \in rcvLoss : s >= ack
    BY <1>0, <1>1, <1>2 DEF IntegersOK, IInv, LossListExact
  <2>2. rcvLoss = {s \in ack .. RcvCurrSeqNo : ~ Occupied(s)}
    BY <1>0, <1>1, <2>1 DEF IntegersOK, IInv, LossListExact
  <2> QED
    BY <2>2 DEF LossListExact, Occupied, SendAck
<1>8. NetAcksOK'
  <2>1. Window(ack) <= RcvBufSize
    BY <1>0, <1>1, TransferAssumption
    DEF IntegersOK, Window, AvailBufSize, IInv, CountersOK
  <2>2. \A a \in netAck : a.ack \in Int /\ a.ack <= RcvLastAck /\ a.wnd <= RcvBufSize
    <3> SUFFICES ASSUME NEW a \in netAck
                 PROVE  a.ack \in Int /\ a.ack <= RcvLastAck /\ a.wnd <= RcvBufSize
      OBVIOUS
    <3>1. a \in Ack
      BY DEF IInv, TypeOK
    <3> QED
      BY <3>1 DEF Ack, IInv, NetAcksOK
  <2>3. \A a \in netAck : a.ack <= ack
    BY <1>0, <1>1, <2>2 DEF IntegersOK
  <2>4. \A a \in netAck' : a.ack <= ack /\ a.wnd <= RcvBufSize
    BY <1>1, <2>1, <2>2, <2>3
  <2> QED
    BY <2>4 DEF IInv, NetAcksOK, SendAck
<1>9. NetAck2OK'
  <2>1. \A a \in netAck2 : a \in Int /\ a <= RcvLastAck
    BY DEF IInv, TypeOK, NetAck2OK
  <2>2. \A a \in netAck2 : a <= ack
    BY <1>0, <1>1, <2>1 DEF IntegersOK
  <2> QED
    BY <2>2 DEF IInv, NetAck2OK, SendAck, sender
<1> QED
  BY <1>3, <1>4, <1>5, <1>6, <1>7, <1>8, <1>9 DEF IInv

LEMMA InvSendLiteAck ==
  ASSUME IInv, TypeOK', SendLiteAck
  PROVE  IInv'
<1>0. IntegersOK
  BY Integer
<1>1. NetAcksOK'
  BY <1>0 DEF IntegersOK, IInv, NetAcksOK, SendLiteAck, receiver
<1>2. /\ CountersOK' /\ HandlerOK' /\ BufferOK' /\ BlocksOK' /\ LossOK' /\ WindowsOK'
      /\ NeverInsane'
  BY DEF IInv, CountersOK, HandlerOK, BufferOK, BlocksOK, LossOK, WindowsOK,
     WindowBound, NeverInsane, SendLiteAck, sender, receiver
<1>3. UnitsOK' /\ LossListExact' /\ AckedIsBuffered' /\ DeliveredOK'
  BY DEF IInv, UnitsOK, LossListExact, AckedIsBuffered, DeliveredOK, Occupied,
     SendLiteAck, receiver
<1>4. Ack2MeansReleased' /\ NetDataOK' /\ NetAck2OK'
  BY DEF IInv, Ack2MeansReleased, NetDataOK, NetAck2OK, SendLiteAck, sender, receiver
<1> QED
  BY <1>1, <1>2, <1>3, <1>4 DEF IInv

LEMMA InvRecvAck2 ==
  ASSUME IInv, TypeOK', NEW ack \in netAck2, NEW keep \in BOOLEAN,
         RecvAck2(ack, keep)
  PROVE  IInv'
<1>0. IntegersOK
  BY Integer
<1>1. /\ ack \in Int /\ ack <= RcvLastAck
      /\ ack > SndLastDataAck =>
           rcvWorker.pc \in {"seq", "data"} /\ rcvWorker.arg >= ack
  BY DEF IInv, TypeOK, NetAck2OK
<1>2. /\ netAck2' \subseteq netAck2
      /\ \/ RcvLastAckAck' = ack
         \/ RcvLastAckAck' = RcvLastAckAck
  BY DEF RecvAck2, After
<1>3. CountersOK'
  BY <1>1, <1>2 DEF IInv, CountersOK, RecvAck2, sender
<1>4. Ack2MeansReleased'
  BY <1>1, <1>2 DEF IInv, Ack2MeansReleased, RecvAck2, sender
<1>5. NetAcksOK' /\ NetAck2OK' /\ NetDataOK'
  BY <1>2 DEF IInv, NetAcksOK, NetAck2OK, NetDataOK, RecvAck2, sender
<1>6. HandlerOK' /\ BufferOK' /\ BlocksOK' /\ LossOK' /\ WindowsOK' /\ NeverInsane'
  BY DEF IInv, HandlerOK, BufferOK, BlocksOK, LossOK, WindowsOK, WindowBound,
     NeverInsane, RecvAck2, sender
<1>7. UnitsOK' /\ LossListExact' /\ AckedIsBuffered' /\ DeliveredOK'
  BY DEF IInv, UnitsOK, LossListExact, AckedIsBuffered, DeliveredOK, Occupied,
     RecvAck2
<1> QED
  BY <1>3, <1>4, <1>5, <1>6, <1>7 DEF IInv

LEMMA InvLose ==
  ASSUME IInv, TypeOK', Lose
  PROVE  IInv'
<1>1. /\ netData' \subseteq netData /\ netAck' \subseteq netAck
      /\ netLite' \subseteq netLite /\ netAck2' \subseteq netAck2
      /\ netNak' \subseteq netNak
  BY DEF Lose
<1>2. /\ CountersOK' /\ HandlerOK' /\ BufferOK' /\ BlocksOK' /\ LossOK' /\ WindowsOK'
      /\ NeverInsane'
  BY DEF IInv, CountersOK, HandlerOK, BufferOK, BlocksOK, LossOK, WindowsOK,
     WindowBound, NeverInsane, Lose, sender, receiver
<1>3. UnitsOK' /\ LossListExact' /\ AckedIsBuffered' /\ DeliveredOK'
  BY DEF IInv, UnitsOK, LossListExact, AckedIsBuffered, DeliveredOK, Occupied,
     Lose, receiver
<1>4. Ack2MeansReleased' /\ NetDataOK' /\ NetAcksOK' /\ NetAck2OK'
  BY <1>1 DEF IInv, Ack2MeansReleased, NetDataOK, NetAcksOK, NetAck2OK, Lose,
     sender, receiver
<1> QED
  BY <1>2, <1>3, <1>4 DEF IInv

\* A unit is determined by its number.
LEMMA UnitsDiffer ==
  ASSUME IInv, NEW u \in rcvBuf, NEW v \in rcvBuf, u.seq = v.seq
  PROVE  u = v
<1>1. u \in Data /\ v \in Data
  BY DEF IInv, TypeOK
<1>2. u.block = v.block
  BY DEF IInv, UnitsOK
<1> QED
  BY <1>1, <1>2 DEF Data

LEMMA InvAppRecv ==
  ASSUME IInv, TypeOK', AppRecv
  PROVE  IInv'
<1>0. IntegersOK
  BY Integer
<1> PICK u \in rcvBuf : /\ u.seq = readPos
                        /\ delivered' = Append(delivered, u.block)
                        /\ rcvBuf' = rcvBuf \ {u}
  BY DEF AppRecv
<1>1. readPos' = readPos + 1 /\ readPos < RcvLastAck
  BY DEF AppRecv
<1>2. \A v \in rcvBuf : /\ v.seq \in Int /\ readPos <= v.seq
                        /\ v.seq = readPos => v = u
  <2> SUFFICES ASSUME NEW v \in rcvBuf
               PROVE  /\ v.seq \in Int /\ readPos <= v.seq
                      /\ v.seq = readPos => v = u
    OBVIOUS
  <2>1. v \in Data
    BY DEF IInv, TypeOK
  <2> QED
    BY <2>1, UnitsDiffer DEF Data, IInv, UnitsOK
<1>3. CountersOK'
  BY <1>0, <1>1 DEF IntegersOK, IInv, CountersOK, AppRecv, sender
<1>4. /\ HandlerOK' /\ BufferOK' /\ BlocksOK' /\ LossOK' /\ WindowsOK' /\ NeverInsane'
      /\ Ack2MeansReleased'
  BY DEF IInv, HandlerOK, BufferOK, BlocksOK, LossOK, WindowsOK, WindowBound,
     NeverInsane, Ack2MeansReleased, AppRecv, sender
<1>5. NetDataOK' /\ NetAcksOK' /\ NetAck2OK'
  BY DEF IInv, NetDataOK, NetAcksOK, NetAck2OK, AppRecv, sender, net
<1>6. \A s \in Int : s # readPos => (Occupied(s)' <=> Occupied(s))
  BY DEF Occupied
<1>7. UnitsOK'
  <2> SUFFICES ASSUME NEW v \in rcvBuf'
               PROVE  /\ readPos + 1 <= v.seq /\ v.seq <= RcvCurrSeqNo
                      /\ v.seq <= readPos + 1 + RcvBufSize - 2
                      /\ v.block = v.seq - ISN + 1
    BY <1>1 DEF UnitsOK, AppRecv
  <2>1. v \in rcvBuf /\ v # u
    OBVIOUS
  <2>2. /\ v.seq <= RcvCurrSeqNo /\ v.seq <= readPos + RcvBufSize - 2
        /\ v.block = v.seq - ISN + 1
    BY <2>1 DEF IInv, UnitsOK
  <2>3. v.seq \in Int /\ readPos <= v.seq /\ v.seq # readPos
    BY <1>2, <2>1
  <2> QED
    BY <1>0, <2>2, <2>3 DEF IntegersOK
<1>8. AckedIsBuffered'
  <2>1. \A s \in readPos + 1 .. RcvLastAck - 1 : Occupied(s)'
    BY <1>0, <1>6 DEF IntegersOK, IInv, AckedIsBuffered
  <2> QED
    BY <1>1, <2>1 DEF AckedIsBuffered, AppRecv
<1>9. LossListExact'
  <2>1. rcvLoss = {s \in RcvLastAck .. RcvCurrSeqNo : ~ Occupied(s)'}
    BY <1>0, <1>1, <1>6 DEF IntegersOK, IInv, LossListExact
  <2> QED
    BY <2>1 DEF LossListExact, AppRecv
<1>10. DeliveredOK'
  <2>1. delivered \in Seq(Nat) /\ u \in Data
    BY DEF IInv, TypeOK
  <2>2. u.block \in Nat /\ u.block = readPos - ISN + 1
    BY <2>1 DEF Data, IInv, UnitsOK
  <2>3. /\ Len(delivered') = Len(delivered) + 1
        /\ \A i \in 1 .. Len(delivered) : delivered'[i] = delivered[i]
        /\ delivered'[Len(delivered) + 1] = u.block
    BY <2>1, <2>2
  <2>4. Len(delivered) = readPos - ISN /\ \A i \in 1 .. Len(delivered) : delivered[i] = i
    BY DEF IInv, DeliveredOK
  <2>5. Len(delivered') = readPos' - ISN
    BY <1>0, <1>1, <2>3, <2>4 DEF IntegersOK
  <2>6. \A i \in 1 .. Len(delivered) + 1 : delivered'[i] = i
    BY <1>0, <2>2, <2>3, <2>4 DEF IntegersOK
  <2> QED
    BY <2>3, <2>5, <2>6 DEF DeliveredOK
<1> QED
  BY <1>3, <1>4, <1>5, <1>7, <1>8, <1>9, <1>10 DEF IInv

-----------------------------------------------------------------------------
(* The invariant and what follows from it.                                  *)

LEMMA InvStep ==
  ASSUME IInv, [Next]_vars
  PROVE  IInv'
<1>0. TypeOK'
  BY TypeStep DEF IInv
<1>1. CASE UNCHANGED vars
  BY <1>1 DEF vars, sender, receiver, net, IInv, TypeOK, CountersOK, HandlerOK,
     BufferOK, BlocksOK, LossOK, WindowsOK, WindowBound, NeverInsane, UnitsOK,
     LossListExact, AckedIsBuffered, Occupied, DeliveredOK, Ack2MeansReleased,
     NetDataOK, NetAcksOK, NetAck2OK
<1>2. CASE SenderStep
  <2>1. CASE AppSend
    BY <1>0, <2>1, InvAppSend
  <2>2. CASE \E thread \in {"app", "rcv"} : Schedule(thread)
    BY <1>0, <2>2, InvSchedule
  <2>3. CASE PickLost
    BY <1>0, <2>3, InvPickLost
  <2>4. CASE Retransmit
    BY <1>0, <2>4, InvRetransmit
  <2>5. CASE ReadWindow
    BY <1>0, <2>5, InvReadWindow
  <2>6. CASE PackNew
    BY <1>0, <2>6, InvPackNew
  <2>7. CASE \E a \in netAck, keep, answer \in BOOLEAN : RecvAck(a, keep, answer)
    BY <1>0, <2>7, InvRecvAck
  <2>8. CASE \E a \in netLite, keep \in BOOLEAN : RecvLiteAck(a, keep)
    BY <1>0, <2>8, InvRecvLiteAck
  <2>9. CASE SetSndLastAck
    BY <1>0, <2>9, InvSetSndLastAck
  <2>10. CASE AckData
    BY <1>0, <2>10, InvAckData
  <2>11. CASE \E n \in netNak, keep \in BOOLEAN : RecvNak(n, keep)
    BY <1>0, <2>11, InvRecvNak
  <2>12. CASE SndTimeout
    BY <1>0, <2>12, InvSndTimeout
  <2>13. CASE PeerDead
    BY <1>0, <2>13, InvPeerDead
  <2> QED
    BY <1>2, <2>1, <2>2, <2>3, <2>4, <2>5, <2>6, <2>7, <2>8, <2>9, <2>10, <2>11,
       <2>12, <2>13 DEF SenderStep
<1>3. CASE ReceiverStep
  <2>1. CASE \E p \in netData, keep \in BOOLEAN : RecvData(p, keep)
    BY <1>0, <2>1, InvRecvData
  <2>2. CASE SendAck
    BY <1>0, <2>2, InvSendAck
  <2>3. CASE SendLiteAck
    BY <1>0, <2>3, InvSendLiteAck
  <2>4. CASE \E a \in netAck2, keep \in BOOLEAN : RecvAck2(a, keep)
    BY <1>0, <2>4, InvRecvAck2
  <2>5. CASE AppRecv
    BY <1>0, <2>5, InvAppRecv
  <2> QED
    BY <1>3, <2>1, <2>2, <2>3, <2>4, <2>5 DEF ReceiverStep
<1>4. CASE Lose
  BY <1>0, <1>4, InvLose
<1> QED
  BY <1>1, <1>2, <1>3, <1>4 DEF Next

\* The conjunction of everything the endpoints and the packets in flight know of
\* each other holds in every reachable state: the inductive invariant.
THEOREM Invariance == Spec => []IInv
<1>1. Init => IInv
  BY InvInit
<1>2. IInv /\ [Next]_vars => IInv'
  BY InvStep
<1> QED
  BY <1>1, <1>2, PTL DEF Spec

\* What recv() has returned is a prefix of what send() was given: no loss,
\* duplication or reordering in the network shows at the application.
THEOREM OrderedDelivery == Spec => []InOrder
<1>1. ASSUME IInv
      PROVE  InOrder
  <2>0. IntegersOK
    BY <1>1, Integer
  <2>1. Len(delivered) <= nSent
    BY <1>1, <2>0 DEF IntegersOK, IInv, CountersOK, BufferOK, DeliveredOK
  <2>2. \A i \in DOMAIN delivered : delivered[i] = i
    BY <1>1, SequenceDomains DEF IInv, DeliveredOK
  <2> QED
    BY <2>1, <2>2 DEF InOrder
<1> QED
  BY <1>1, Invariance, PTL

\* Neither endpoint is ever told a number that processCtrl would refuse as "attack
\* or bug", however stale the ACK or NAK that arrives.
THEOREM NoFalseAlarm == Spec => []NeverInsane
  BY Invariance, PTL DEF IInv

\* readBuffer finds a unit in every slot below the acknowledged position.
THEOREM AckedUnitsArePresent == Spec => []AckedIsBuffered
  BY Invariance, PTL DEF IInv

\* The receiver's loss list holds the gaps, all of them and nothing else.
THEOREM LossListIsExact == Spec => []LossListExact
  BY Invariance, PTL DEF IInv

\* The sender releases only what the receiver has stored.
THEOREM NothingReleasedEarly == Spec => []ReleasedIsReceived
<1>1. ASSUME IInv
      PROVE  ReleasedIsReceived
  <2>0. IntegersOK
    BY <1>1, Integer
  <2> SUFFICES ASSUME NEW s \in ISN .. SndLastDataAck - 1, ~ (s < readPos)
               PROVE  Occupied(s)
    BY DEF ReleasedIsReceived
  <2>1. s \in readPos .. RcvLastAck - 1
    BY <1>1, <2>0 DEF IntegersOK, IInv, CountersOK
  <2> QED
    BY <1>1, <2>1 DEF IInv, AckedIsBuffered
<1> QED
  BY <1>1, Invariance, PTL

\* A retransmission finds its block: readData(offset) stays inside the block list.
THEOREM RetransmissionsAreInBuffer == Spec => []LostIsInBuffer
<1>1. ASSUME IInv
      PROVE  LostIsInBuffer
  <2>0. IntegersOK
    BY <1>1, Integer
  <2>1. /\ currBlock = SndCurrSeqNo + 1 - SndLastDataAck
        /\ currBlock <= Len(sndBuf)
        /\ SndLastDataAck <= SndCurrSeqNo + 1
    BY <1>1, <2>0 DEF IntegersOK, IInv, BufferOK, CountersOK
  <2>2. \A s \in sndLoss : s - SndLastDataAck \in 0 .. currBlock - 1
    <3> SUFFICES ASSUME NEW s \in sndLoss
                 PROVE  s - SndLastDataAck \in 0 .. currBlock - 1
      OBVIOUS
    <3>1. s \in Int
      BY <1>1 DEF IInv, TypeOK
    <3>2. SndLastDataAck <= s /\ s <= SndCurrSeqNo
      BY <1>1 DEF IInv, LossOK
    <3> QED
      BY <2>0, <2>1, <3>1, <3>2 DEF IntegersOK
  <2>3. sndWorker.pc = "lost" => sndWorker.arg - SndLastDataAck < currBlock
    BY <1>1, <2>0, <2>1 DEF IntegersOK, IInv, LossOK
  <2>4. currBlock \in 0 .. Len(sndBuf)
    BY <2>0, <2>1 DEF IntegersOK
  <2> QED
    BY <2>2, <2>3, <2>4 DEF LostIsInBuffer
<1> QED
  BY <1>1, Invariance, PTL

\* The unacknowledged span never exceeds the receive buffer, whatever window the
\* send worker had read before the ACK handler moved on.
THEOREM BoundedSpan == Spec => []WindowBound
  BY Invariance, PTL DEF IInv, WindowsOK

\* Units never share a slot of the receive ring.
THEOREM RingNeverWraps == Spec => []RingFits
<1>1. ASSUME IInv
      PROVE  RingFits
  <2>0. IntegersOK
    BY <1>1, Integer
  <2> SUFFICES ASSUME NEW u \in rcvBuf
               PROVE  u.seq \in readPos .. readPos + RcvBufSize - 2
    BY DEF RingFits
  <2>1. u \in Data
    BY <1>1 DEF IInv, TypeOK
  <2> QED
    BY <1>1, <2>0, <2>1 DEF Data, IntegersOK, IInv, UnitsOK
<1> QED
  BY <1>1, Invariance, PTL

\* What both ends hold, release, retransmit and overwrite fits together.
THEOREM BuffersAlwaysAgree == Spec => []BuffersAgree
  BY AckedUnitsArePresent, NothingReleasedEarly, RetransmissionsAreInBuffer, RingNeverWraps,
     BoundedSpan, PTL DEF BuffersAgree

\* An ACK2 never silences an acknowledgement the sender has not taken.
THEOREM SilenceMeansReleased == Spec => []Ack2MeansReleased
  BY Invariance, PTL DEF IInv

-----------------------------------------------------------------------------
(* An action property: acknowledgements only advance.                       *)

LEMMA AcksAdvance ==
  ASSUME IInv, [Next]_vars
  PROVE  /\ SndLastAck' >= SndLastAck
         /\ SndLastDataAck' >= SndLastDataAck
         /\ RcvLastAckAck' >= RcvLastAckAck
         /\ RcvLastAck' >= RcvLastAck
<1>0. IntegersOK
  BY Integer
<1> DEFINE Same == UNCHANGED <<SndLastAck, SndLastDataAck, RcvLastAckAck, RcvLastAck>>
<1>1. CASE Same
  BY <1>0, <1>1 DEF IntegersOK
<1>2. CASE SetSndLastAck
  BY <1>0, <1>2 DEF IntegersOK, SetSndLastAck, receiver, IInv, HandlerOK
<1>3. CASE AckData
  <2>1. \/ SndLastDataAck' = SndLastDataAck
        \/ /\ ~ Repeated(rcvWorker.arg)
           /\ SndLastDataAck' = rcvWorker.arg
    BY <1>3 DEF AckData
  <2> QED
    BY <1>0, <1>3, <2>1 DEF Repeated, IntegersOK, AckData, receiver
<1>4. CASE SendAck
  BY <1>0, <1>4 DEF IntegersOK, SendAck, sender
<1>5. CASE \E a \in netAck2, keep \in BOOLEAN : RecvAck2(a, keep)
  <2> PICK a \in netAck2, keep \in BOOLEAN : RecvAck2(a, keep)
    BY <1>5
  <2>1. a \in Int
    BY DEF IInv, TypeOK
  <2> QED
    BY <1>0, <2>1 DEF IntegersOK, RecvAck2, sender
<1>6. CASE UNCHANGED vars
  BY <1>1, <1>6 DEF vars, sender, receiver
<1>7. CASE SenderStep /\ ~ SetSndLastAck /\ ~ AckData
  <2>1. Same
    BY <1>7
    DEF SenderStep, AppSend, Schedule, PickLost, Retransmit,
        ReadWindow, PackNew, RecvAck, RecvLiteAck, LiteWindow,
        RecvNak, SndTimeout, PeerDead, receiver
  <2> QED
    BY <1>1, <2>1
<1>8. CASE \/ \E p \in netData, keep \in BOOLEAN : RecvData(p, keep)
           \/ SendLiteAck \/ AppRecv \/ Lose
  <2>1. Same
    BY <1>8 DEF RecvData, SendLiteAck, AppRecv, Lose, sender, receiver
  <2> QED
    BY <1>1, <2>1
<1> QED
  BY <1>2, <1>3, <1>4, <1>5, <1>6, <1>7, <1>8 DEF Next, ReceiverStep

\* No reordered or repeated ACK or ACK2 moves an acknowledgement back, and an
\* ACK2 never confirms more than was acknowledged.
THEOREM AcksAreMonotone == Spec => AcksNeverGoBack
<1>1. ASSUME IInv, IInv', [Next]_vars
      PROVE  /\ SndLastAck' >= SndLastAck
             /\ SndLastDataAck' >= SndLastDataAck
             /\ RcvLastAckAck' >= RcvLastAckAck
             /\ RcvLastAck' >= RcvLastAck
             /\ RcvLastAckAck' <= RcvLastAck'
  BY <1>1, AcksAdvance DEF IInv, CountersOK
<1> QED
  BY <1>1, Invariance, PTL DEF Spec, AcksNeverGoBack

-----------------------------------------------------------------------------
(* What lite ACKs leave behind: the room of the sender's loss list.         *)

\* The acknowledgement in hand, the released blocks and the numbers sent are in
\* this order, whatever step the ACK handler has come to.
LEMMA PointsInOrder ==
  ASSUME IInv
  PROVE  /\ AckPoint \in Int /\ ReleasePoint \in Int
         /\ SndLastDataAck <= ReleasePoint
         /\ ReleasePoint <= AckPoint
         /\ SndLastAck <= AckPoint
         /\ AckPoint <= SndCurrSeqNo + 1
<1>0. IntegersOK
  BY Integer
<1>1. rcvWorker.pc \in {"idle", "seq", "lite", "data"}
  BY DEF IInv, TypeOK
<1> QED
  BY <1>0, <1>1 DEF IntegersOK, AckPoint, ReleasePoint, IInv, CountersOK, HandlerOK

\* The steps that leave the points of the ACK handler alone.
PointsUnchanged ==
  UNCHANGED <<rcvWorker, SndLastAck, SndLastDataAck, FlowWindowSize>>

LEMMA PointsStay ==
  ASSUME PointsUnchanged
  PROVE  AckPoint' = AckPoint /\ ReleasePoint' = ReleasePoint
  BY DEF PointsUnchanged, AckPoint, ReleasePoint

\* A full ACK that advances m_iSndLastAck brings its own window; an older one moves
\* no more than the release point, and not beyond m_iSndLastAck.
LEMMA PointsRecvAck ==
  ASSUME IInv, NEW a \in netAck, NEW keep \in BOOLEAN, NEW answer \in BOOLEAN,
         RecvAck(a, keep, answer)
  PROVE  /\ ReleasePoint' >= ReleasePoint
         /\ \/ /\ AckPoint' = ReleasePoint'
               /\ FlowWindowSize' \in 2 .. RcvBufSize
            \/ /\ AckPoint' = AckPoint
               /\ FlowWindowSize' = FlowWindowSize
               /\ AckPoint' = ReleasePoint' => AckPoint = ReleasePoint
         /\ UNCHANGED <<SndCurrSeqNo, sndWorker>>
<1>0. IntegersOK
  BY Integer
<1>1. a.ack \in Int /\ a.wnd \in 2 .. RcvBufSize
  <2>1. a \in Ack /\ a.wnd <= RcvBufSize
    BY DEF IInv, TypeOK, NetAcksOK
  <2> QED
    BY <1>0, <2>1 DEF Ack, IntegersOK
<1>2. /\ rcvWorker = Idle
      /\ UNCHANGED <<SndCurrSeqNo, sndWorker, SndLastAck, SndLastDataAck>>
  BY DEF RecvAck, RcvWorkerFree
<1>3. /\ AckPoint = SndLastAck /\ ReleasePoint = SndLastDataAck
      /\ SndLastDataAck <= SndLastAck
  BY <1>2 DEF AckPoint, ReleasePoint, Idle, IInv, CountersOK
<1>4. CASE Refused(a.ack)
  <2>1. UNCHANGED <<FlowWindowSize, rcvWorker>>
    BY <1>4 DEF RecvAck
  <2> QED
    BY <1>0, <1>2, <1>3, <2>1 DEF IntegersOK, AckPoint, ReleasePoint, Idle
<1>5. CASE ~ Refused(a.ack) /\ Advances(a.ack)
  <2>1. /\ FlowWindowSize' = a.wnd
        /\ rcvWorker' = [pc |-> "seq", arg |-> a.ack]
        /\ a.ack >= SndLastAck
    BY <1>5 DEF RecvAck, Advances
  <2>2. AckPoint' = a.ack
    BY <2>1 DEF AckPoint
  <2>3. ReleasePoint' = a.ack
    BY <1>0, <1>1, <1>2, <1>3, <2>1 DEF ReleasePoint, IntegersOK
  <2> QED
    BY <1>0, <1>1, <1>2, <1>3, <2>1, <2>2, <2>3 DEF IntegersOK
<1>6. CASE ~ Refused(a.ack) /\ ~ Advances(a.ack)
  <2>1. /\ FlowWindowSize' = FlowWindowSize
        /\ rcvWorker' = [pc |-> "data", arg |-> a.ack]
        /\ a.ack < SndLastAck
    BY <1>0, <1>1, <1>6 DEF RecvAck, Advances, IntegersOK
  <2>2. AckPoint' = AckPoint
    BY <1>2, <1>3, <2>1 DEF AckPoint
  <2>3. /\ ReleasePoint' = SndLastDataAck \/ ReleasePoint' = a.ack
        /\ ReleasePoint' >= SndLastDataAck
    BY <1>0, <1>1, <1>2, <1>3, <2>1 DEF ReleasePoint, IntegersOK
  <2> QED
    BY <1>0, <1>1, <1>2, <1>3, <2>1, <2>2, <2>3 DEF IntegersOK
<1> QED
  BY <1>4, <1>5, <1>6

\* A lite ACK takes from the window what it acknowledges.
LEMMA PointsRecvLiteAck ==
  ASSUME IInv, NEW a \in netLite, NEW keep \in BOOLEAN, RecvLiteAck(a, keep)
  PROVE  /\ FlowWindowSize' + AckPoint' = FlowWindowSize + AckPoint
         /\ AckPoint' >= AckPoint
         /\ ReleasePoint' = ReleasePoint
         /\ UNCHANGED <<SndCurrSeqNo, sndWorker>>
<1>0. IntegersOK
  BY Integer
<1>1. a \in Int
  BY DEF IInv, TypeOK
<1>2. /\ rcvWorker = Idle
      /\ UNCHANGED <<SndCurrSeqNo, sndWorker, SndLastAck, SndLastDataAck>>
  BY DEF RecvLiteAck, RcvWorkerFree
<1>3. AckPoint = SndLastAck /\ ReleasePoint = SndLastDataAck
  BY <1>2 DEF AckPoint, ReleasePoint, Idle
<1>4. CASE Advances(a)
  <2>1. /\ FlowWindowSize' = FlowWindowSize - (a - SndLastAck)
        /\ rcvWorker' = [pc |-> "lite", arg |-> a]
        /\ a >= SndLastAck
    BY <1>4 DEF RecvLiteAck, LiteWindow, Advances
  <2>2. AckPoint' = a /\ ReleasePoint' = SndLastDataAck
    BY <1>2, <2>1 DEF AckPoint, ReleasePoint
  <2> QED
    BY <1>0, <1>1, <1>2, <1>3, <2>1, <2>2 DEF IntegersOK
<1>5. CASE ~ Advances(a)
  <2>1. UNCHANGED <<FlowWindowSize, rcvWorker>>
    BY <1>5 DEF RecvLiteAck
  <2>2. AckPoint' = AckPoint /\ ReleasePoint' = ReleasePoint
    BY <1>2, <2>1 DEF AckPoint, ReleasePoint
  <2> QED
    BY <1>0, <1>2, <1>3, <2>1, <2>2 DEF IntegersOK
<1> QED
  BY <1>4, <1>5

\* The later steps of the handler only carry out what was decided.
LEMMA PointsSetSndLastAck ==
  ASSUME IInv, SetSndLastAck
  PROVE  /\ AckPoint' = AckPoint /\ ReleasePoint' = ReleasePoint
         /\ UNCHANGED <<FlowWindowSize, SndCurrSeqNo, sndWorker>>
<1>0. rcvWorker \in [pc : {"idle", "seq", "lite", "data"}, arg : Nat]
  BY DEF IInv, TypeOK
<1>1. CASE rcvWorker.pc = "lite"
  <2>1. rcvWorker' = Idle /\ SndLastAck' = rcvWorker.arg
    BY <1>1 DEF SetSndLastAck
  <2> QED
    BY <1>1, <2>1 DEF SetSndLastAck, AckPoint, ReleasePoint, Idle
<1>2. CASE rcvWorker.pc = "seq"
  <2>1. rcvWorker'.pc = "data" /\ rcvWorker'.arg = rcvWorker.arg
    BY <1>0, <1>2 DEF SetSndLastAck
  <2> QED
    BY <1>2, <2>1 DEF SetSndLastAck, AckPoint, ReleasePoint
<1> QED
  BY <1>1, <1>2 DEF SetSndLastAck

LEMMA PointsAckData ==
  ASSUME IInv, AckData
  PROVE  /\ AckPoint' = AckPoint /\ ReleasePoint' = ReleasePoint
         /\ UNCHANGED <<FlowWindowSize, SndCurrSeqNo, sndWorker>>
<1>0. IntegersOK
  BY Integer
<1>1. /\ rcvWorker.pc = "data" /\ rcvWorker' = Idle
      /\ UNCHANGED <<SndLastAck, FlowWindowSize, SndCurrSeqNo, sndWorker>>
  BY DEF AckData
<1>2. AckPoint' = AckPoint
  BY <1>1 DEF AckPoint, Idle
<1>3. CASE Repeated(rcvWorker.arg)
  <2>1. SndLastDataAck' = SndLastDataAck /\ ~ (rcvWorker.arg > SndLastDataAck)
    BY <1>0, <1>3 DEF AckData, Repeated, IntegersOK
  <2> QED
    BY <1>1, <1>2, <2>1 DEF ReleasePoint, Idle
<1>4. CASE ~ Repeated(rcvWorker.arg)
  <2>1. SndLastDataAck' = rcvWorker.arg /\ rcvWorker.arg > SndLastDataAck
    BY <1>0, <1>4 DEF AckData, Repeated, IntegersOK
  <2> QED
    BY <1>1, <1>2, <2>1 DEF ReleasePoint, Idle
<1> QED
  BY <1>3, <1>4

\* A window read now leaves room for what it may still let out.
LEMMA SpanReadWindow ==
  ASSUME IInv, SpanOK, ReadWindow
  PROVE  SpanOK'
<1>0. IntegersOK
  BY Integer
<1>1. /\ UNCHANGED <<rcvWorker, SndLastAck, SndLastDataAck, FlowWindowSize>>
      /\ SndCurrSeqNo' = SndCurrSeqNo
  BY DEF ReadWindow
<1>2. AckPoint' = AckPoint /\ ReleasePoint' = ReleasePoint
  BY <1>1, PointsStay DEF PointsUnchanged
<1>3. PICK cwnd \in CWndSizes :
        sndWorker' = [pc  |-> "window",
                      arg |-> IF FlowWindowSize < cwnd THEN FlowWindowSize ELSE cwnd]
  BY DEF ReadWindow
<1>4. sndWorker'.arg \in Int /\ sndWorker'.arg <= FlowWindowSize
  <2>1. cwnd \in Int
    BY TransferAssumption
  <2> QED
    BY <1>0, <1>3, <2>1 DEF IntegersOK
<1>5. SndCurrSeqNo + 1 - AckPoint <= RcvBufSize
  BY <1>0, PointsInOrder DEF IInv, WindowsOK, WindowBound, IntegersOK
<1>6. sndWorker'.arg + SndCurrSeqNo + 1 - ReleasePoint <= 2 * RcvBufSize
  BY <1>0, <1>4, <1>5, PointsInOrder DEF IntegersOK, SpanOK
<1> QED
  BY <1>1, <1>2, <1>6 DEF SpanOK

\* A new block goes out only into the room that was left.
LEMMA SpanPackNew ==
  ASSUME IInv, SpanOK, PackNew
  PROVE  SpanOK'
<1>0. IntegersOK
  BY Integer
<1>1. /\ UNCHANGED <<rcvWorker, SndLastAck, SndLastDataAck, FlowWindowSize>>
      /\ sndWorker' = Idle
      /\ sndWorker.pc = "window"
  BY DEF PackNew
<1>2. AckPoint' = AckPoint /\ ReleasePoint' = ReleasePoint
  BY <1>1, PointsStay DEF PointsUnchanged
<1>3. SndCurrSeqNo' + 1 - ReleasePoint <= 2 * RcvBufSize
  <2>1. CASE SndCurrSeqNo' = SndCurrSeqNo
    BY <2>1 DEF SpanOK
  <2>2. CASE SndCurrSeqNo' = SndCurrSeqNo + 1 /\ Allowed(sndWorker.arg)
    <3>1. SndLastAck <= SndCurrSeqNo + 1
      BY DEF IInv, CountersOK
    <3>2. sndWorker.arg >= 1
      BY <1>0, <2>2, <3>1 DEF Allowed, IntegersOK
    <3>3. sndWorker.arg + SndCurrSeqNo + 1 - ReleasePoint <= 2 * RcvBufSize
      BY <1>1 DEF SpanOK
    <3> QED
      BY <1>0, <2>2, <3>2, <3>3, PointsInOrder DEF IntegersOK
  <2> QED
    BY <2>1, <2>2 DEF PackNew
<1> QED
  BY <1>1, <1>2, <1>3 DEF SpanOK, Idle

LEMMA SpanStep ==
  ASSUME IInv, IInv', SpanOK, [Next]_vars
  PROVE  SpanOK'
<1>0. IntegersOK
  BY Integer
<1>9. /\ SndCurrSeqNo' \in Int /\ FlowWindowSize' \in Int /\ sndWorker'.arg \in Int
      /\ AckPoint' \in Int /\ ReleasePoint' \in Int
  BY DEF IInv, TypeOK, AckPoint, ReleasePoint
<1>13. AckPoint \in Int /\ ReleasePoint \in Int
  BY PointsInOrder
<1>14. /\ FlowWindowSize + AckPoint - ReleasePoint <= RcvBufSize
       /\ SndCurrSeqNo + 1 - ReleasePoint <= 2 * RcvBufSize
  BY DEF SpanOK
<1>15. FlowWindowSize \in Int /\ SndCurrSeqNo \in Int /\ RcvBufSize \in Int
  BY <1>0 DEF IntegersOK
<1> DEFINE Same == UNCHANGED <<FlowWindowSize, SndCurrSeqNo, sndWorker>>
\* neither a window nor a number sent changes, and the points are where they were
<1>1. ASSUME AckPoint' = AckPoint, ReleasePoint' = ReleasePoint,
             UNCHANGED <<FlowWindowSize, SndCurrSeqNo>>,
             sndWorker' = sndWorker \/ sndWorker'.pc # "window"
      PROVE  SpanOK'
  BY <1>1 DEF SpanOK
<1>2. CASE ReadWindow
  BY <1>2, SpanReadWindow
<1>3. CASE PackNew
  BY <1>3, SpanPackNew
<1>4. CASE \E a \in netAck, keep, answer \in BOOLEAN : RecvAck(a, keep, answer)
  <2> PICK a \in netAck, keep \in BOOLEAN, answer \in BOOLEAN : RecvAck(a, keep, answer)
    BY <1>4
  <2>0. /\ ReleasePoint' >= ReleasePoint
        /\ UNCHANGED <<SndCurrSeqNo, sndWorker>>
        /\ \/ AckPoint' = ReleasePoint' /\ FlowWindowSize' \in 2 .. RcvBufSize
           \/ AckPoint' = AckPoint /\ FlowWindowSize' = FlowWindowSize
    BY PointsRecvAck
  <2>1. FlowWindowSize' + AckPoint' - ReleasePoint' <= RcvBufSize
    BY <1>15, <1>9, <1>13, <1>14, <2>0 DEF AckPoint, ReleasePoint
  <2>2. SndCurrSeqNo' + 1 - ReleasePoint' <= 2 * RcvBufSize
    BY <1>15, <1>9, <1>13, <1>14, <2>0 DEF AckPoint, ReleasePoint
  <2>3. sndWorker'.pc = "window" =>
          sndWorker'.arg + SndCurrSeqNo' + 1 - ReleasePoint' <= 2 * RcvBufSize
    BY <1>0, <1>9, <1>13, <2>0 DEF SpanOK, IntegersOK
  <2> QED
    BY <2>1, <2>2, <2>3 DEF SpanOK
<1>5. CASE \E a \in netLite, keep \in BOOLEAN : RecvLiteAck(a, keep)
  <2> PICK a \in netLite, keep \in BOOLEAN : RecvLiteAck(a, keep)
    BY <1>5
  <2>1. /\ FlowWindowSize' + AckPoint' = FlowWindowSize + AckPoint
        /\ ReleasePoint' = ReleasePoint
        /\ UNCHANGED <<SndCurrSeqNo, sndWorker>>
    BY PointsRecvLiteAck
  <2>2. FlowWindowSize' + AckPoint' - ReleasePoint' <= RcvBufSize
    BY <1>15, <1>9, <1>13, <1>14, <2>1 DEF AckPoint, ReleasePoint
  <2> QED
    BY <2>1, <2>2 DEF SpanOK
<1>6. CASE SetSndLastAck
  BY <1>1, <1>6, PointsSetSndLastAck
<1>7. CASE AckData
  BY <1>1, <1>7, PointsAckData
<1>8. CASE PickLost \/ Retransmit
  <2>1. /\ PointsUnchanged /\ UNCHANGED <<FlowWindowSize, SndCurrSeqNo>>
        /\ sndWorker'.pc # "window"
    BY <1>8 DEF PickLost, Retransmit, PointsUnchanged, Idle
  <2> QED
    BY <1>1, <2>1, PointsStay
<1>10. CASE \/ AppSend \/ \E thread \in {"app", "rcv"} : Schedule(thread)
            \/ \E n \in netNak, keep \in BOOLEAN : RecvNak(n, keep)
            \/ SndTimeout \/ PeerDead
  <2>1. PointsUnchanged /\ Same
    BY <1>10 DEF AppSend, Schedule, RecvNak, SndTimeout, PeerDead, PointsUnchanged
  <2> QED
    BY <1>1, <2>1, PointsStay
<1>11. CASE ReceiverStep \/ Lose \/ UNCHANGED vars
  <2>1. UNCHANGED sender
    BY <1>11 DEF ReceiverStep, RecvData, SendAck, SendLiteAck, RecvAck2, AppRecv, Lose,
       vars
  <2>2. PointsUnchanged /\ Same
    BY <2>1 DEF sender, PointsUnchanged
  <2> QED
    BY <1>1, <2>2, PointsStay
<1> QED
  BY <1>2, <1>3, <1>4, <1>5, <1>6, <1>7, <1>8, <1>10, <1>11 DEF Next, SenderStep

LEMMA SpanInit ==
  ASSUME Init
  PROVE  SpanOK
<1>1. AckPoint = ISN /\ ReleasePoint = ISN
  BY DEF Init, AckPoint, ReleasePoint, Idle
<1> QED
  BY <1>1, TransferAssumption DEF Init, SpanOK, Idle

\* The list of lost packets, made for two flow windows, has a slot for every number
\* that a NAK or the EXP timer may report, whatever lite ACKs have moved.
THEOREM LossListFits == Spec => []LossListSpan
<1>1. Init => SpanOK
  BY SpanInit
<1>2. IInv /\ IInv' /\ SpanOK /\ [Next]_vars => SpanOK'
  BY SpanStep
<1>3. SpanOK => LossListSpan
  BY DEF SpanOK, LossListSpan, ReleasePoint, Idle
<1> QED
  BY <1>1, <1>2, <1>3, Invariance, PTL DEF Spec

-----------------------------------------------------------------------------
(* The send worker and CSndUList: no lost wakeup.                           *)

\* With everything acknowledged and released the window is open: only lite ACKs
\* close it, and what they acknowledge is not released yet.
LEMMA WindowOpenStep ==
  ASSUME IInv, IInv', ScheduleOK, [Next]_vars
  PROVE  WindowOpen'
<1>0. IntegersOK
  BY Integer
<1>1. AckPoint = ReleasePoint => FlowWindowSize >= 2
  BY DEF ScheduleOK, WindowOpen
<1>2. ASSUME AckPoint' = AckPoint, ReleasePoint' = ReleasePoint,
             UNCHANGED FlowWindowSize
      PROVE  WindowOpen'
  BY <1>1, <1>2 DEF WindowOpen
<1>3. CASE \E a \in netAck, keep, answer \in BOOLEAN : RecvAck(a, keep, answer)
  <2> PICK a \in netAck, keep \in BOOLEAN, answer \in BOOLEAN : RecvAck(a, keep, answer)
    BY <1>3
  <2>1. \/ FlowWindowSize' \in 2 .. RcvBufSize
        \/ /\ FlowWindowSize' = FlowWindowSize
           /\ AckPoint' = ReleasePoint' => AckPoint = ReleasePoint
    BY PointsRecvAck
  <2>2. FlowWindowSize' \in 2 .. RcvBufSize => FlowWindowSize' >= 2
    BY <1>0 DEF IntegersOK
  <2> QED
    BY <1>1, <2>1, <2>2 DEF WindowOpen
<1>4. CASE \E a \in netLite, keep \in BOOLEAN : RecvLiteAck(a, keep)
  <2> PICK a \in netLite, keep \in BOOLEAN : RecvLiteAck(a, keep)
    BY <1>4
  <2>1. /\ FlowWindowSize' + AckPoint' = FlowWindowSize + AckPoint
        /\ AckPoint' >= AckPoint
        /\ ReleasePoint' = ReleasePoint
    BY PointsRecvLiteAck
  <2>2. /\ AckPoint \in Int /\ ReleasePoint \in Int /\ ReleasePoint <= AckPoint
    BY PointsInOrder
  <2>3. AckPoint' \in Int
    BY DEF IInv, TypeOK, AckPoint
  <2>4. PICK ack \in Int : ack = AckPoint'
    BY <2>3
  <2>5. PICK flow \in Int : flow = FlowWindowSize'
    BY DEF IInv, TypeOK
  <2>6. flow + ack = FlowWindowSize + AckPoint /\ ack >= AckPoint
    BY <2>1, <2>4, <2>5
  <2>7. ack = ReleasePoint => flow >= 2
    BY <1>0, <1>1, <2>2, <2>6 DEF IntegersOK
  <2> QED
    BY <2>1, <2>4, <2>5, <2>7 DEF WindowOpen
<1>5. CASE SetSndLastAck \/ AckData
  BY <1>2, <1>5, PointsSetSndLastAck, PointsAckData
<1>6. CASE \/ AppSend \/ \E thread \in {"app", "rcv"} : Schedule(thread)
           \/ PickLost \/ Retransmit \/ ReadWindow \/ PackNew
           \/ \E n \in netNak, keep \in BOOLEAN : RecvNak(n, keep)
           \/ SndTimeout \/ PeerDead
  <2>1. PointsUnchanged
    BY <1>6 DEF AppSend, Schedule, PickLost, Retransmit, ReadWindow, PackNew, RecvNak,
       SndTimeout, PeerDead, PointsUnchanged
  <2> QED
    BY <1>2, <2>1, PointsStay DEF PointsUnchanged
<1>7. CASE ReceiverStep \/ Lose \/ UNCHANGED vars
  <2>1. UNCHANGED sender
    BY <1>7 DEF ReceiverStep, RecvData, SendAck, SendLiteAck, RecvAck2, AppRecv, Lose,
       vars
  <2>2. PointsUnchanged
    BY <2>1 DEF sender, PointsUnchanged
  <2> QED
    BY <1>2, <2>2, PointsStay DEF PointsUnchanged
<1> QED
  BY <1>3, <1>4, <1>5, <1>6, <1>7 DEF Next, SenderStep

\* All is released only when all is acknowledged.
LEMMA AllReleased ==
  ASSUME IInv, SndLastDataAck = SndCurrSeqNo + 1
  PROVE  SndLastAck = SndCurrSeqNo + 1 /\ AckPoint = ReleasePoint
<1>1. IntegersOK
  BY Integer
<1> QED
  BY <1>1, PointsInOrder DEF IntegersOK, IInv, CountersOK

LEMMA ScheduledPickLost ==
  ASSUME IInv, PickLost
  PROVE  WorkerScheduled'
<1>0. IntegersOK
  BY Integer
<1>1. PICK s \in sndLoss : sndWorker' = [pc |-> "lost", arg |-> s]
  BY DEF PickLost
<1>2. s \in Int /\ SndLastDataAck <= s
  BY DEF IInv, TypeOK, LossOK
<1>3. ~ (sndWorker'.arg < SndLastDataAck) /\ sndWorker'.pc = "lost"
  BY <1>0, <1>1, <1>2 DEF IntegersOK
<1>4. inList' = TRUE /\ SndLastDataAck' = SndLastDataAck
  BY DEF PickLost
<1> QED
  BY <1>3, <1>4 DEF WorkerScheduled, UnsentIsScheduled

LEMMA ScheduledRetransmit ==
  ASSUME IInv, WorkerScheduled, Retransmit
  PROVE  WorkerScheduled'
<1>0. IntegersOK
  BY Integer
<1>1. /\ sndWorker' = Idle
      /\ UNCHANGED <<status, currBlock, sndBuf, SndLastDataAck, SndCurrSeqNo, toSchedule>>
  BY DEF Retransmit
<1>2. inList' = inList \/ toSchedule # {}
  <2>1. CASE LossOffset(sndWorker.arg) < 0
    BY <1>0, <2>1 DEF LossOffset, IntegersOK, WorkerScheduled, Retransmit
  <2>2. CASE ~ (LossOffset(sndWorker.arg) < 0)
    BY <2>2 DEF Retransmit
  <2> QED
    BY <2>1, <2>2
<1> QED
  BY <1>1, <1>2 DEF WorkerScheduled, UnsentIsScheduled, Idle

LEMMA ScheduledReadWindow ==
  ASSUME IInv, ScheduleOK, ReadWindow
  PROVE  WorkerScheduled'
<1>0. IntegersOK
  BY Integer
<1>1. PICK cwnd \in CWndSizes :
        sndWorker' = [pc  |-> "window",
                      arg |-> IF FlowWindowSize < cwnd THEN FlowWindowSize ELSE cwnd]
  BY DEF ReadWindow
<1>2. /\ inList' = TRUE
      /\ UNCHANGED <<SndLastDataAck, SndCurrSeqNo>>
  BY DEF ReadWindow
<1>3. SndLastDataAck = SndCurrSeqNo + 1 => ~ (sndWorker'.arg < 1)
  <2>1. SndLastDataAck = SndCurrSeqNo + 1 => FlowWindowSize >= 2
    BY AllReleased DEF ScheduleOK, WindowOpen
  <2>2. cwnd \in Int /\ cwnd >= 1
    BY TransferAssumption
  <2> QED
    BY <1>0, <1>1, <2>1, <2>2 DEF IntegersOK
<1>4. sndWorker'.pc = "window"
  BY <1>1
<1> QED
  BY <1>2, <1>3, <1>4 DEF WorkerScheduled, UnsentIsScheduled

\* packData leaves the list only with something outstanding, nothing to send, or
\* the ACK handler about to put the socket back.
LEMMA ScheduledPackNew ==
  ASSUME IInv, WorkerScheduled, PackNew
  PROVE  WorkerScheduled'
<1>0. IntegersOK
  BY Integer
<1>1. /\ sndWorker' = Idle /\ sndWorker.pc = "window"
      /\ UNCHANGED <<status, sndBuf, SndLastDataAck, toSchedule>>
  BY DEF PackNew
<1>2. CASE SndCurrSeqNo' = SndCurrSeqNo + 1
  <2>1. SndLastDataAck # SndCurrSeqNo' + 1
    BY <1>0, <1>2 DEF IntegersOK, IInv, CountersOK
  <2> QED
    BY <1>1, <2>1 DEF WorkerScheduled, UnsentIsScheduled, Idle
<1>3. CASE /\ UNCHANGED <<SndCurrSeqNo, currBlock>>
           /\ ~ (Allowed(sndWorker.arg) /\ currBlock + 1 \in DOMAIN sndBuf)
  <2>1. ASSUME currBlock < Len(sndBuf), SndLastDataAck = SndCurrSeqNo + 1
        PROVE  toSchedule # {}
    <3>1. SndLastAck = SndCurrSeqNo + 1
      BY <2>1, AllReleased
    <3>2. currBlock = 0
      BY <1>0, <2>1 DEF IntegersOK, IInv, BufferOK
    <3>3. currBlock + 1 \in DOMAIN sndBuf
      BY <1>0, <2>1, <3>2, SequenceDomains DEF IntegersOK
    <3>4. ~ Allowed(sndWorker.arg)
      BY <1>3, <3>3
    <3>5. sndWorker.arg < 1
      BY <1>0, <3>1, <3>4 DEF Allowed, IntegersOK
    <3> QED
      BY <1>1, <2>1, <3>5 DEF WorkerScheduled
  <2> QED
    BY <1>1, <1>3, <2>1 DEF WorkerScheduled, UnsentIsScheduled, Idle
<1> QED
  BY <1>2, <1>3 DEF PackNew

LEMMA ScheduledStep ==
  ASSUME IInv, ScheduleOK, [Next]_vars
  PROVE  WorkerScheduled'
<1>0. WorkerScheduled
  BY DEF ScheduleOK
<1> DEFINE Same == UNCHANGED <<currBlock, sndBuf, SndLastDataAck, SndCurrSeqNo, inList,
                               toSchedule, sndWorker>>
<1>1. ASSUME Same, status' = status \/ status' # "ok"
      PROVE  WorkerScheduled'
  BY <1>0, <1>1 DEF WorkerScheduled, UnsentIsScheduled
<1>2. ASSUME toSchedule' # {}
      PROVE  WorkerScheduled'
  BY <1>2 DEF WorkerScheduled, UnsentIsScheduled
<1>3. CASE AppSend \/ SndTimeout \/ PeerDead
  BY <1>2, <1>3 DEF AppSend, SndTimeout, PeerDead, Wake
<1>4. CASE \E thread \in {"app", "rcv"} : Schedule(thread)
  BY <1>4 DEF Schedule, WorkerScheduled, UnsentIsScheduled, Idle
<1>5. CASE PickLost
  BY <1>5, ScheduledPickLost
<1>6. CASE Retransmit
  BY <1>0, <1>6, ScheduledRetransmit
<1>7. CASE ReadWindow
  BY <1>7, ScheduledReadWindow
<1>8. CASE PackNew
  BY <1>0, <1>8, ScheduledPackNew
<1>9. CASE \/ \E a \in netAck, keep, answer \in BOOLEAN : RecvAck(a, keep, answer)
           \/ \E a \in netLite, keep \in BOOLEAN : RecvLiteAck(a, keep)
           \/ SetSndLastAck
  BY <1>1, <1>9 DEF RecvAck, RecvLiteAck, SetSndLastAck
<1>10. CASE AckData
  <2>1. CASE Repeated(rcvWorker.arg)
    BY <1>1, <1>10, <2>1 DEF AckData
  <2>2. CASE ~ Repeated(rcvWorker.arg)
    BY <1>2, <1>10, <2>2 DEF AckData, Wake
  <2> QED
    BY <2>1, <2>2
<1>11. CASE \E n \in netNak, keep \in BOOLEAN : RecvNak(n, keep)
  <2> PICK n \in netNak, keep \in BOOLEAN : RecvNak(n, keep)
    BY <1>11
  <2>1. toSchedule' # {} \/ (Same /\ status' = "insane")
    BY DEF RecvNak, Wake
  <2> QED
    BY <1>1, <1>2, <2>1
<1>12. CASE ReceiverStep \/ Lose \/ UNCHANGED vars
  <2>1. UNCHANGED sender
    BY <1>12 DEF ReceiverStep, RecvData, SendAck, SendLiteAck, RecvAck2, AppRecv, Lose,
       vars
  <2> QED
    BY <1>1, <2>1 DEF sender
<1> QED
  BY <1>3, <1>4, <1>5, <1>6, <1>7, <1>8, <1>9, <1>10, <1>11, <1>12 DEF Next, SenderStep

LEMMA ScheduleInit ==
  ASSUME Init
  PROVE  ScheduleOK
<1>1. AckPoint = ISN /\ ReleasePoint = ISN
  BY DEF Init, AckPoint, ReleasePoint, Idle
<1>2. ~ (currBlock < Len(sndBuf)) /\ sndWorker.pc = "idle"
  BY DEF Init, Idle
<1> QED
  BY <1>1, <1>2, TransferAssumption DEF Init, ScheduleOK, WindowOpen, WorkerScheduled,
     UnsentIsScheduled

\* Unsent data never waits for a timer that will not come: the socket is in
\* CSndUList or a thread is about to put it there, although packData takes it out
\* on a window it read before the ACK that opened it.
THEOREM NoLostWakeup == Spec => []UnsentIsScheduled
<1>1. Init => ScheduleOK
  BY ScheduleInit
<1>2. IInv /\ IInv' /\ ScheduleOK /\ [Next]_vars => ScheduleOK'
  BY WindowOpenStep, ScheduledStep DEF ScheduleOK
<1>3. ScheduleOK => UnsentIsScheduled
  BY DEF ScheduleOK, WorkerScheduled
<1> QED
  BY <1>1, <1>2, <1>3, Invariance, PTL DEF Spec

-----------------------------------------------------------------------------
(* The refinement of ReliablePipe.                                          *)

\* What has been acknowledged and not been read fits the receive buffer.
LEMMA UnreadFits ==
  ASSUME IInv
  PROVE  RcvLastAck - readPos <= RcvBufSize - 1
<1>0. IntegersOK
  BY Integer
<1>1. CASE RcvLastAck = readPos
  BY <1>0, <1>1, TransferAssumption DEF IntegersOK
<1>2. CASE RcvLastAck # readPos
  <2>1. RcvLastAck - 1 \in readPos .. RcvLastAck - 1
    BY <1>0, <1>2 DEF IntegersOK, IInv, CountersOK
  <2>2. PICK u \in rcvBuf : u.seq = RcvLastAck - 1
    BY <2>1 DEF IInv, AckedIsBuffered, Occupied
  <2> QED
    BY <1>0, <2>2 DEF IntegersOK, IInv, UnitsOK
<1> QED
  BY <1>1, <1>2

LEMMA SendIsWrite ==
  ASSUME IInv, AppSend
  PROVE  Pipe!Write
<1>0. IntegersOK
  BY Integer
<1>1. nSent - Len(delivered) < SndBufSize + RcvBufSize - 1
  BY <1>0, UnreadFits
  DEF IntegersOK, IInv, CountersOK, BufferOK, DeliveredOK, AppSend
<1> QED
  BY <1>1 DEF Pipe!Write, AppSend, receiver

LEMMA RecvIsRead ==
  ASSUME IInv, AppRecv
  PROVE  Pipe!Read
<1>0. IntegersOK
  BY Integer
<1> PICK u \in rcvBuf : u.seq = readPos /\ delivered' = Append(delivered, u.block)
  BY DEF AppRecv
<1>1. u.block = readPos - ISN + 1
  BY DEF IInv, UnitsOK
<1>2. u.block = Len(delivered) + 1
  BY <1>0, <1>1 DEF IntegersOK, IInv, DeliveredOK
<1>3. Len(delivered) < nSent
  BY <1>0 DEF IntegersOK, IInv, CountersOK, BufferOK, DeliveredOK, AppRecv
<1> QED
  BY <1>2, <1>3 DEF Pipe!Read, AppRecv, sender

\* Seen from send() and recv() the two endpoints, their threads and a network that
\* loses, duplicates and reorders packets are one bounded FIFO pipe.
THEOREM Refinement == Spec => ImplementsPipe
<1>1. Init => Pipe!Init
  BY DEF Init, Pipe!Init
<1>2. ASSUME IInv, [Next]_vars
      PROVE  [Pipe!Next]_<<nSent, delivered>>
  <2>1. CASE AppSend
    BY <1>2, <2>1, SendIsWrite DEF Pipe!Next
  <2>2. CASE AppRecv
    BY <1>2, <2>2, RecvIsRead DEF Pipe!Next
  <2>3. CASE SenderStep /\ ~ AppSend
    BY <2>3
    DEF SenderStep, Schedule, PickLost, Retransmit, ReadWindow, PackNew,
        RecvAck, RecvLiteAck, LiteWindow, SetSndLastAck, AckData, RecvNak, SndTimeout, PeerDead, receiver
  <2>4. CASE (ReceiverStep /\ ~ AppRecv) \/ Lose
    BY <2>4
    DEF ReceiverStep, RecvData, SendAck, SendLiteAck, RecvAck2, Lose, sender,
        receiver
  <2>5. CASE UNCHANGED vars
    BY <2>5 DEF vars, sender, receiver
  <2> QED
    BY <1>2, <2>1, <2>2, <2>3, <2>4, <2>5 DEF Next
<1> QED
  BY <1>1, <1>2, Invariance, PTL DEF Spec, ImplementsPipe, Pipe!Spec

-----------------------------------------------------------------------------
(* The circle: numbers less than a circle apart wrap to numbers that are    *)
(* equally far apart, or one circle less or more.                           *)

LEMMA MaxIsOdd == MaxSeqNo \in Nat /\ SeqNoTH \in Nat /\ MaxSeqNo + 1 = SeqNoTH + SeqNoTH + 2 /\ SeqNoTH > 0
  BY SeqNoAssumption DEF MaxSeqNo

\* A product grows by its factor.
LEMMA Multiple ==
  ASSUME NEW m \in Nat, NEW q \in Int, q >= 2
  PROVE  m * q >= m + m
  OBVIOUS

LEMMA Quotient ==
  ASSUME NEW u \in Int, NEW m \in Nat \ {0}
  PROVE  /\ u \div m \in Int
         /\ u % m \in 0 .. m - 1
         /\ u = m * (u \div m) + (u % m)
  OBVIOUS

LEMMA SameCircle ==
  ASSUME NEW m \in Nat \ {0}, NEW p \in Int, NEW q \in Int,
         NEW r \in 0 .. m - 1, NEW s \in 0 .. m - 1,
         NEW d \in Int, -m < d, d < m, m * p + r - (m * q + s) = d
  PROVE  r - s \in {d, d - m, d + m}
<1>1. m * (p - q) = m * p - m * q /\ m * (q - p) = m * q - m * p
  OBVIOUS
<1>2. ~ (p - q >= 2)
  <2> SUFFICES ASSUME p - q >= 2
               PROVE  FALSE
    OBVIOUS
  <2>1. m * (p - q) >= m + m
    BY Multiple
  <2> QED
    BY <1>1, <2>1
<1>3. ~ (q - p >= 2)
  <2> SUFFICES ASSUME q - p >= 2
               PROVE  FALSE
    OBVIOUS
  <2>1. m * (q - p) >= m + m
    BY Multiple
  <2> QED
    BY <1>1, <2>1
<1>4. p - q \in {-1, 0, 1}
  BY <1>2, <1>3
<1>5. CASE p - q = 0
  <2>1. p = q
    BY <1>5
  <2> QED
    BY <2>1
<1>6. CASE p - q = 1
  <2>1. m * (p - q) = m
    BY <1>6
  <2> QED
    BY <1>1, <2>1
<1>7. CASE p - q = -1
  <2>1. m * (q - p) = m
    BY <1>7
  <2> QED
    BY <1>1, <2>1
<1> QED
  BY <1>4, <1>5, <1>6, <1>7

\* Two numbers less than a circle apart.
LEMMA WrapNear ==
  ASSUME NEW u \in Int, NEW v \in Int,
         -(MaxSeqNo + 1) < u - v, u - v < MaxSeqNo + 1
  PROVE  /\ Wrap(u) \in 0 .. MaxSeqNo /\ Wrap(v) \in 0 .. MaxSeqNo
         /\ Wrap(u) - Wrap(v) \in
              {u - v, u - v - (MaxSeqNo + 1), u - v + (MaxSeqNo + 1)}
<1> DEFINE m == MaxSeqNo + 1
<1>1. m \in Nat \ {0} /\ MaxSeqNo \in Nat
  BY MaxIsOdd
<1> HIDE DEF m
<1>2. u % m \in 0 .. m - 1 /\ v % m \in 0 .. m - 1
  BY <1>1, Quotient
<1>3. PICK p \in Int : u = m * p + (u % m)
  BY <1>1, Quotient
<1>4. PICK q \in Int : v = m * q + (v % m)
  BY <1>1, Quotient
<1>5. (u % m) - (v % m) \in {u - v, u - v - m, u - v + m}
  <2> DEFINE r == u % m
             s == v % m
             d == u - v
  <2>1. d \in Int /\ -m < d /\ d < m
    BY DEF m
  <2>2. r \in 0 .. m - 1 /\ s \in 0 .. m - 1
    BY <1>2
  <2>3. m * p + r - (m * q + s) = d
    <3>1. u = m * p + r /\ v = m * q + s
      BY <1>3, <1>4
    <3>2. m * p \in Int /\ m * q \in Int /\ r \in Int /\ s \in Int
      BY <1>1, <2>2
    <3> HIDE DEF r, s
    <3> QED
      BY <3>1, <3>2
  <2> HIDE DEF r, s, d
  <2>4. r - s \in {d, d - m, d + m}
    BY <1>1, <2>1, <2>2, <2>3, SameCircle
  <2> QED
    BY <2>4 DEF r, s, d
<1>6. m - 1 = MaxSeqNo
  BY <1>1 DEF m
<1> QED
  BY <1>1, <1>2, <1>5, <1>6 DEF Wrap, m

\* seqcmp has the sign of the difference, seqoff is the difference.
LEMMA CompareExact ==
  ASSUME NEW u \in Int, NEW v \in Int, -SeqNoTH < u - v, u - v < SeqNoTH
  PROVE  /\ seqcmp(Wrap(u), Wrap(v)) > 0 <=> u > v
         /\ seqcmp(Wrap(u), Wrap(v)) >= 0 <=> u >= v
         /\ seqoff(Wrap(v), Wrap(u)) = u - v
         /\ Wrap(u) = Wrap(v) <=> u = v
<1>1. /\ Wrap(u) \in 0 .. MaxSeqNo /\ Wrap(v) \in 0 .. MaxSeqNo
      /\ Wrap(u) - Wrap(v) \in
           {u - v, u - v - (MaxSeqNo + 1), u - v + (MaxSeqNo + 1)}
  BY MaxIsOdd, WrapNear
<1> QED
  BY <1>1, MaxIsOdd DEF seqcmp, seqoff, Near

\* seqlen counts both ends.
LEMMA LengthExact ==
  ASSUME NEW u \in Int, NEW v \in Int, 0 <= v - u, v - u < MaxSeqNo + 1
  PROVE  seqlen(Wrap(u), Wrap(v)) = v - u + 1
<1>1. /\ Wrap(u) \in 0 .. MaxSeqNo /\ Wrap(v) \in 0 .. MaxSeqNo
      /\ Wrap(v) - Wrap(u) \in
           {v - u, v - u - (MaxSeqNo + 1), v - u + (MaxSeqNo + 1)}
  BY MaxIsOdd, WrapNear
<1> QED
  BY <1>1, MaxIsOdd DEF seqlen

\* incseq is the successor on the circle, also of the initial -1.
LEMMA NextExact ==
  ASSUME NEW u \in Nat
  PROVE  incseq(CurrSeqNo(u)) = Wrap(u + 1)
<1>1. /\ Wrap(u + 1) \in 0 .. MaxSeqNo /\ Wrap(u) \in 0 .. MaxSeqNo
      /\ Wrap(u + 1) - Wrap(u) \in
           {1, 1 - (MaxSeqNo + 1), 1 + (MaxSeqNo + 1)}
  <2>1. u + 1 \in Int /\ u \in Int /\ u + 1 - u = 1
    OBVIOUS
  <2> QED
    BY <2>1, MaxIsOdd, WrapNear
<1>2. CASE u = ISN - 1
  <2>1. u + 1 = ISN
    BY <1>2, TransferAssumption
  <2> QED
    BY <1>1, <1>2, <2>1, MaxIsOdd DEF CurrSeqNo, incseq
<1>3. CASE u # ISN - 1
  BY <1>1, <1>3, MaxIsOdd DEF CurrSeqNo, incseq
<1> QED
  BY <1>2, <1>3

\* Comparison with m_iSndCurrSeqNo or m_iRcvCurrSeqNo, also when that is -1.
LEMMA CurrExact ==
  ASSUME NEW u \in Nat, NEW v \in Nat, -SeqNoTH < u - v, u - v < SeqNoTH
  PROVE  seqcmp(Wrap(u), CurrSeqNo(v)) > 0 <=> u > v
<1>1. CASE v = ISN - 1
  <2>1. /\ ISN \in Nat /\ u - ISN \in Int
        /\ -(MaxSeqNo + 1) < u - ISN /\ u - ISN < MaxSeqNo + 1
    BY <1>1, MaxIsOdd, TransferAssumption
  <2>2. /\ Wrap(u) \in 0 .. MaxSeqNo /\ Wrap(ISN) \in 0 .. MaxSeqNo
        /\ Wrap(u) - Wrap(ISN) \in
             {u - ISN, u - ISN - (MaxSeqNo + 1), u - ISN + (MaxSeqNo + 1)}
    BY <2>1, WrapNear
  <2> QED
    BY <1>1, <2>1, <2>2, MaxIsOdd DEF CurrSeqNo, seqcmp, Near
<1>2. CASE v # ISN - 1
  BY <1>2, CompareExact DEF CurrSeqNo
<1> QED
  BY <1>1, <1>2

-----------------------------------------------------------------------------
(* The distances at which the endpoints compare.                            *)

LEMMA Distances ==
  ASSUME IInv
  PROVE  /\ SndBufSize \in Nat /\ Age \in Nat /\ SeqNoTH \in Nat
         /\ SndBufSize + Age < SeqNoTH
         /\ SndCurrSeqNo \in Nat /\ SndLastAck \in Nat /\ SndLastDataAck \in Nat
         /\ RcvCurrSeqNo \in Nat /\ RcvLastAck \in Nat /\ RcvLastAckAck \in Nat
         /\ SndLastDataAck <= SndLastAck /\ SndLastAck <= SndCurrSeqNo + 1
         /\ SndCurrSeqNo + 1 - SndLastDataAck <= SndBufSize
         /\ SndLastDataAck <= RcvLastAck /\ RcvLastAck <= RcvCurrSeqNo + 1
         /\ RcvCurrSeqNo <= SndCurrSeqNo /\ RcvLastAckAck <= RcvLastAck
<1>1. IntegersOK
  BY Integer
<1>2. SndCurrSeqNo + 1 - SndLastDataAck <= SndBufSize
  BY <1>1 DEF IntegersOK, IInv, BufferOK
<1> QED
  BY <1>2, AgeAssumption, TransferAssumption, SeqNoAssumption
  DEF IInv, TypeOK, CountersOK

LEMMA AckIsExact ==
  ASSUME IInv, Fresh
  PROVE  AckExact
<1>1. ASSUME NEW a \in netAck
      PROVE  /\ codeRefused(a.ack) <=> Refused(a.ack)
             /\ codeAdvances(a.ack) <=> Advances(a.ack)
  <2>1. a.ack \in Nat /\ a.ack <= RcvLastAck /\ a.ack + Age >= SndLastDataAck
    BY <1>1 DEF IInv, TypeOK, Ack, NetAcksOK, Fresh
  <2>2. incseq(CurrSeqNo(SndCurrSeqNo)) = Wrap(SndCurrSeqNo + 1)
    BY Distances, NextExact
  <2>3. /\ -SeqNoTH < a.ack - (SndCurrSeqNo + 1)
        /\ a.ack - (SndCurrSeqNo + 1) < SeqNoTH
        /\ -SeqNoTH < a.ack - SndLastAck /\ a.ack - SndLastAck < SeqNoTH
    BY <2>1, Distances
  <2>4. codeRefused(a.ack) <=> a.ack > SndCurrSeqNo + 1
    BY <2>1, <2>2, <2>3, Distances, CompareExact DEF codeRefused
  <2>5. codeAdvances(a.ack) <=> a.ack >= SndLastAck
    BY <2>1, <2>3, Distances, CompareExact DEF codeAdvances
  <2> QED
    BY <2>4, <2>5 DEF Refused, Advances
<1>2. ASSUME NEW l \in netLite
      PROVE  /\ codeAdvances(l) <=> Advances(l)
             /\ Advances(l) => codeLiteWindow(l) = LiteWindow(l)
  <2>1. l \in Nat /\ l <= RcvCurrSeqNo + 1 /\ l + Age >= SndLastAck
    BY <1>2 DEF IInv, TypeOK, NetAcksOK, Fresh
  <2>2. -SeqNoTH < l - SndLastAck /\ l - SndLastAck < SeqNoTH
    BY <2>1, Distances
  <2>3. /\ codeAdvances(l) <=> l >= SndLastAck
        /\ seqoff(Wrap(SndLastAck), Wrap(l)) = l - SndLastAck
    BY <2>1, <2>2, Distances, CompareExact DEF codeAdvances
  <2> QED
    BY <2>3 DEF Advances, codeLiteWindow, LiteWindow
<1>3. ASSUME rcvWorker.pc = "data"
      PROVE  codeRepeated(rcvWorker.arg) <=> Repeated(rcvWorker.arg)
  <2>1. /\ rcvWorker.arg \in Nat /\ rcvWorker.arg <= SndLastAck
        /\ rcvWorker.arg + Age >= SndLastDataAck
    BY <1>3 DEF IInv, TypeOK, HandlerOK, Fresh
  <2>2. /\ -SeqNoTH < rcvWorker.arg - SndLastDataAck
        /\ rcvWorker.arg - SndLastDataAck < SeqNoTH
    BY <2>1, Distances
  <2>3. seqoff(Wrap(SndLastDataAck), Wrap(rcvWorker.arg))
          = rcvWorker.arg - SndLastDataAck
    BY <2>1, <2>2, Distances, CompareExact
  <2> QED
    BY <2>1, <2>3, Distances DEF codeRepeated, Repeated
<1> QED
  BY <1>1, <1>2, <1>3 DEF AckExact

LEMMA LossIsExact ==
  ASSUME IInv, Fresh
  PROVE  LossExact
<1>1. ASSUME sndWorker.pc = "lost"
      PROVE  codeLossOffset(sndWorker.arg) = LossOffset(sndWorker.arg)
  <2>1. /\ sndWorker.arg \in Int /\ sndWorker.arg <= SndCurrSeqNo
        /\ SndCurrSeqNo + 1 - sndWorker.arg <= SndBufSize
    BY <1>1 DEF IInv, TypeOK, LossOK
  <2>2. /\ -SeqNoTH < sndWorker.arg - SndLastDataAck
        /\ sndWorker.arg - SndLastDataAck < SeqNoTH
    BY <2>1, Distances
  <2> QED
    BY <2>1, <2>2, Distances, CompareExact DEF codeLossOffset, LossOffset
<1>2. ASSUME NEW n \in netNak
      PROVE  /\ codeNakRefused(n) <=> n.first > n.last \/ n.last > SndCurrSeqNo
             /\ codeAdvances(n.first) <=> Advances(n.first)
             /\ codeAdvances(n.last) <=> Advances(n.last)
  <2>1. /\ n.first \in Nat /\ n.last \in Nat /\ n.first <= n.last
        /\ n.last <= RcvCurrSeqNo /\ n.first + Age >= SndLastAck
    BY <1>2 DEF IInv, TypeOK, Nak, NetAcksOK, Fresh
  <2>2. /\ -SeqNoTH < n.first - n.last /\ n.first - n.last < SeqNoTH
        /\ -SeqNoTH < n.last - SndCurrSeqNo /\ n.last - SndCurrSeqNo < SeqNoTH
        /\ -SeqNoTH < n.first - SndLastAck /\ n.first - SndLastAck < SeqNoTH
        /\ -SeqNoTH < n.last - SndLastAck /\ n.last - SndLastAck < SeqNoTH
    BY <2>1, Distances
  <2>3. codeNakRefused(n) <=> n.first > n.last \/ n.last > SndCurrSeqNo
    BY <2>1, <2>2, Distances, CompareExact, CurrExact DEF codeNakRefused
  <2>4. /\ codeAdvances(n.first) <=> n.first >= SndLastAck
        /\ codeAdvances(n.last) <=> n.last >= SndLastAck
    BY <2>1, <2>2, Distances, CompareExact DEF codeAdvances
  <2> QED
    BY <2>3, <2>4 DEF Advances
<1> QED
  BY <1>1, <1>2 DEF LossExact

LEMMA WindowIsExact ==
  ASSUME IInv
  PROVE  WindowExact
<1>1. incseq(CurrSeqNo(SndCurrSeqNo)) = Wrap(SndCurrSeqNo + 1)
  BY Distances, NextExact
<1>2. /\ 0 <= SndCurrSeqNo + 1 - SndLastAck
      /\ SndCurrSeqNo + 1 - SndLastAck < MaxSeqNo + 1
      /\ -SeqNoTH < SndCurrSeqNo + 1 - SndLastAck
      /\ SndCurrSeqNo + 1 - SndLastAck < SeqNoTH
  BY Distances, MaxIsOdd
<1>3. seqlen(Wrap(SndLastAck), Wrap(SndCurrSeqNo + 1))
        = SndCurrSeqNo + 1 - SndLastAck + 1
  BY <1>2, Distances, LengthExact
<1>4. Wrap(SndCurrSeqNo + 1) = Wrap(SndLastAck) <=> SndCurrSeqNo + 1 = SndLastAck
  BY <1>2, Distances, CompareExact
<1>5. sndWorker.arg \in Int
  BY DEF IInv, TypeOK
<1> QED
  BY <1>1, <1>3, <1>4, <1>5, Distances
  DEF WindowExact, codeAllowed, Allowed, codeUnacknowledged

LEMMA DataIsExact ==
  ASSUME IInv, Fresh
  PROVE  DataExact
<1> SUFFICES ASSUME NEW p \in netData
             PROVE  /\ codeDataOffset(p.seq) = p.seq - RcvLastAck
                    /\ p.seq - RcvLastAck \in 0 .. AvailBufSize(RcvLastAck) - 1 =>
                         /\ codeOpensGap(p.seq) <=> p.seq > RcvCurrSeqNo + 1
                         /\ codeIsNew(p.seq) <=> p.seq > RcvCurrSeqNo
  BY DEF DataExact
<1>1. p.seq \in Nat /\ p.seq <= SndCurrSeqNo /\ p.seq + Age >= RcvLastAck
  BY DEF IInv, TypeOK, Data, NetDataOK, Fresh
<1>2. codeDataOffset(p.seq) = p.seq - RcvLastAck
  <2>1. -SeqNoTH < p.seq - RcvLastAck /\ p.seq - RcvLastAck < SeqNoTH
    BY <1>1, Distances
  <2> QED
    BY <1>1, <2>1, Distances, CompareExact DEF codeDataOffset
<1>3. ASSUME p.seq >= RcvLastAck
      PROVE  /\ codeOpensGap(p.seq) <=> p.seq > RcvCurrSeqNo + 1
             /\ codeIsNew(p.seq) <=> p.seq > RcvCurrSeqNo
  <2>1. incseq(CurrSeqNo(RcvCurrSeqNo)) = Wrap(RcvCurrSeqNo + 1)
    BY Distances, NextExact
  <2>2. /\ -SeqNoTH < p.seq - (RcvCurrSeqNo + 1)
        /\ p.seq - (RcvCurrSeqNo + 1) < SeqNoTH
        /\ -SeqNoTH < p.seq - RcvCurrSeqNo /\ p.seq - RcvCurrSeqNo < SeqNoTH
    BY <1>1, <1>3, Distances
  <2>3. codeOpensGap(p.seq) <=> p.seq > RcvCurrSeqNo + 1
    BY <1>1, <2>1, <2>2, Distances, CompareExact DEF codeOpensGap
  <2>4. codeIsNew(p.seq) <=> p.seq > RcvCurrSeqNo
    BY <1>1, <2>2, Distances, CurrExact DEF codeIsNew
  <2> QED
    BY <2>3, <2>4
<1>4. p.seq - RcvLastAck \in 0 .. AvailBufSize(RcvLastAck) - 1 => p.seq >= RcvLastAck
  BY <1>1, Distances
<1> QED
  BY <1>2, <1>3, <1>4

LEMMA ReportIsExact ==
  ASSUME IInv, Fresh
  PROVE  ReportExact
<1>1. RcvLastAckAck + Age >= RcvCurrSeqNo + 1
  BY DEF Fresh
<1>2. ASSUME NEW ack \in RcvLastAck .. RcvCurrSeqNo + 1
      PROVE  /\ codeAckSize(ack) = ack - RcvLastAck
             /\ codeReported(ack) <=> ack > RcvLastAckAck
             /\ Wrap(ack) = Wrap(RcvLastAckAck) <=> ack = RcvLastAckAck
  <2>1. /\ ack \in Nat
        /\ -SeqNoTH < ack - RcvLastAck /\ ack - RcvLastAck < SeqNoTH
        /\ -SeqNoTH < ack - RcvLastAckAck /\ ack - RcvLastAckAck < SeqNoTH
    BY <1>1, <1>2, Distances
  <2> QED
    BY <2>1, Distances, CompareExact DEF codeAckSize, codeReported
<1>3. ASSUME NEW a \in netAck2
      PROVE  codeReported(a) <=> a > RcvLastAckAck
  <2>1. a \in Nat /\ a <= RcvLastAck /\ a + Age >= RcvLastAckAck
    BY <1>3 DEF IInv, TypeOK, NetAck2OK, Fresh
  <2>2. -SeqNoTH < a - RcvLastAckAck /\ a - RcvLastAckAck < SeqNoTH
    BY <1>1, <2>1, Distances
  <2> QED
    BY <2>1, <2>2, Distances, CompareExact DEF codeReported
<1> QED
  BY <1>2, <1>3 DEF ReportExact

-----------------------------------------------------------------------------
\* The comparisons of processCtrl, packData and checkTimers are exact.
THEOREM SenderComparisons == Spec => []SenderExact
<1>1. IInv => SenderExact
  BY AckIsExact, LossIsExact, WindowIsExact DEF SenderExact
<1> QED
  BY <1>1, Invariance, PTL

\* The comparisons of processData, sendCtrl and the ACK2 handler are exact.
THEOREM ReceiverComparisons == Spec => []ReceiverExact
<1>1. IInv => ReceiverExact
  BY DataIsExact, ReportIsExact DEF ReceiverExact
<1> QED
  BY <1>1, Invariance, PTL

\* Both ends decide as if the numbers never restarted.
THEOREM ComparisonsExact == Spec => []DecidesAlike
  BY SenderComparisons, ReceiverComparisons, PTL DEF DecidesAlike
=============================================================================
