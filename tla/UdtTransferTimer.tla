--------------------------- MODULE UdtTransferTimer ---------------------------
(***************************************************************************)
(* UdtTransfer with the silence that the EXP timer waits for.              *)
(*                                                                         *)
(* checkTimers (core.cpp) lets the timer expire when nothing has come from *)
(* the peer for a whole interval: processData and processCtrl restart the  *)
(* interval with every packet, the peer's own data and keep-alives as well *)
(* as its acknowledgements.  UdtTransfer lets the timer expire at any time,*)
(* which is all that safety needs.  Whether it ever expires depends on the *)
(* other direction of the connection, which is one variable here.          *)
(***************************************************************************)
EXTENDS UdtTransfer

VARIABLE peerTalks  \* the peer sends packets of its own, an interval is never over

timedVars == <<vars, peerTalks>>

TimedInit == Init /\ peerTalks \in BOOLEAN

\* The peer's own direction begins to carry packets, or pauses.
PeerTalks == peerTalks' = ~ peerTalks /\ UNCHANGED vars

\* A whole interval has passed since m_ullLastRspTime.
Expires == ~ peerTalks

TimedNext ==
  \/ Next /\ UNCHANGED peerTalks /\ (SndTimeout \/ PeerDead => Expires)
  \/ PeerTalks

TimedSpec == TimedInit /\ [][TimedNext]_timedVars

\* Packets of this direction that come from the peer, which restart the interval too.
Hears ==
  \/ \E a \in netAck, answer \in BOOLEAN : RecvAck(a, FALSE, answer)
  \/ \E a \in netLite : RecvLiteAck(a, FALSE)
  \/ \E n \in netNak : RecvNak(n, FALSE)

(***************************************************************************)
(* Fairness.  The threads keep running, the mutexes they share starve none *)
(* of them, the receive worker reads the socket as well as its timers, a   *)
(* repeated ACK is answered (one of the same number always is, core.cpp:   *)
(* 1987), and from some time on the network loses nothing (before that it  *)
(* may lose as much as it likes).  The EXP timer expires if neither this   *)
(* direction's packets nor the other's keep restarting it.                 *)
(***************************************************************************)
SeqNos == ISN .. ISN + MaxBlocks

FairSender ==
  /\ \A thread \in {"app", "rcv"} : SF_vars(Schedule(thread))
  /\ WF_vars(PickLost) /\ WF_vars(Retransmit)
  /\ WF_vars(ReadWindow) /\ WF_vars(PackNew)
  /\ WF_vars(SetSndLastAck) /\ WF_vars(AckData)

FairTimer == []<><<Hears>>_vars \/ WF_vars(Expires /\ SndTimeout)

FairReceiver == WF_vars(SendAck) /\ WF_vars(AppRecv)

FairNet ==
  /\ \A s \in SeqNos :
       /\ WF_vars(\E p \in netData : p.seq = s /\ RecvData(p, FALSE))
       /\ SF_vars(\E a \in netAck : a.ack = s /\ RecvAck(a, FALSE, TRUE))
       /\ WF_vars(RecvAck2(s, FALSE))
  /\ <>[][~ Lose]_vars

FairSpec == TimedSpec /\ FairSender /\ FairTimer /\ FairReceiver /\ FairNet

-----------------------------------------------------------------------------
(* Properties                                                               *)

\* From some time on the peer has nothing to send of its own.  The code does not
\* see to it: while the peer talks without a pause of an interval, a last packet
\* that is lost is never sent again.
PeerIsQuiet == <>[] ~ peerTalks

\* Every block handed to send() reaches the peer's application, unless the
\* connection ends: no window, timer or loss list ever leaves the two waiting,
\* provided the peer's own packets do not hold up the EXP timer for ever.
Delivery ==
  PeerIsQuiet =>
    \A n \in 1 .. MaxBlocks : nSent >= n ~> Len(delivered) >= n \/ status # "ok"

\* The send buffer drains under the same condition, so a blocked send() and a
\* lingering close() go on.
Drain == PeerIsQuiet => (sndBuf # <<>> ~> sndBuf = <<>> \/ status # "ok")
=============================================================================
