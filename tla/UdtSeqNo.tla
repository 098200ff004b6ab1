------------------------------- MODULE UdtSeqNo -------------------------------
(***************************************************************************)
(* UdtTransfer counts packets with integers that never restart; the code   *)
(* compares 31-bit numbers that do.  Here every comparison of core.cpp is  *)
(* written as the code evaluates it, on the numbers it holds, and required *)
(* to decide what UdtTransfer decides.                                     *)
(*                                                                         *)
(* That is true only of packets that are not too old (Fresh): SeqNoTH is   *)
(* half the circle, and an ACK delayed for longer than it takes to send    *)
(* that many packets looks like one from the future.                       *)
(***************************************************************************)
EXTENDS UdtTransfer, SeqNo

CONSTANT Age   \* how many packets a delayed packet may be behind

ASSUME AgeAssumption == Age \in Nat /\ SndBufSize + Age < SeqNoTH

\* m_iSndCurrSeqNo and m_iRcvCurrSeqNo start as ISN - 1, which is -1 and not
\* MaxSeqNo when the ISN is 0.
CurrSeqNo(u) == IF u = ISN - 1 THEN Wrap(ISN) - 1 ELSE Wrap(u)

\* No packet in flight, and nothing read from one, is older than Age; nor is the
\* last ACK2 the receiver has got.
Fresh ==
  /\ \A p \in netData : p.seq + Age >= RcvLastAck
  /\ \A a \in netAck : a.ack + Age >= SndLastDataAck
  /\ \A l \in netLite : l + Age >= SndLastAck
  /\ \A n \in netNak : n.first + Age >= SndLastAck
  /\ \A a \in netAck2 : a + Age >= RcvLastAckAck
  /\ rcvWorker.pc = "data" => rcvWorker.arg + Age >= SndLastDataAck
  /\ RcvLastAckAck + Age >= RcvCurrSeqNo + 1

-----------------------------------------------------------------------------
(* The comparisons as the code makes them                                   *)

codeRefused(ack) == seqcmp(Wrap(ack), incseq(CurrSeqNo(SndCurrSeqNo))) > 0

codeAdvances(ack) == seqcmp(Wrap(ack), Wrap(SndLastAck)) >= 0

codeLiteWindow(ack) == FlowWindowSize - seqoff(Wrap(SndLastAck), Wrap(ack))

codeRepeated(ack) == seqoff(Wrap(SndLastDataAck), Wrap(ack)) <= 0

codeLossOffset(seq) == seqoff(Wrap(SndLastDataAck), Wrap(seq))

codeAllowed(window) ==
  window >= seqlen(Wrap(SndLastAck), incseq(CurrSeqNo(SndCurrSeqNo)))

codeUnacknowledged == incseq(CurrSeqNo(SndCurrSeqNo)) # Wrap(SndLastAck)

codeNakRefused(n) ==
  \/ seqcmp(Wrap(n.first), Wrap(n.last)) > 0
  \/ seqcmp(Wrap(n.last), CurrSeqNo(SndCurrSeqNo)) > 0

codeDataOffset(seq) == seqoff(Wrap(RcvLastAck), Wrap(seq))

codeOpensGap(seq) == seqcmp(Wrap(seq), incseq(CurrSeqNo(RcvCurrSeqNo))) > 0

codeIsNew(seq) == seqcmp(Wrap(seq), CurrSeqNo(RcvCurrSeqNo)) > 0

codeAckSize(ack) == seqoff(Wrap(RcvLastAck), Wrap(ack))

codeReported(ack) == seqcmp(Wrap(ack), Wrap(RcvLastAckAck)) > 0

-----------------------------------------------------------------------------
(* What the sender decides                                                  *)

AckExact ==
  /\ \A a \in netAck : /\ codeRefused(a.ack) <=> Refused(a.ack)
                       /\ codeAdvances(a.ack) <=> Advances(a.ack)
  /\ \A l \in netLite : /\ codeAdvances(l) <=> Advances(l)
                        /\ Advances(l) => codeLiteWindow(l) = LiteWindow(l)
  /\ rcvWorker.pc = "data" =>
       (codeRepeated(rcvWorker.arg) <=> Repeated(rcvWorker.arg))

LossExact ==
  /\ sndWorker.pc = "lost" =>
       codeLossOffset(sndWorker.arg) = LossOffset(sndWorker.arg)
  /\ \A n \in netNak :
       /\ codeNakRefused(n) <=> n.first > n.last \/ n.last > SndCurrSeqNo
       /\ codeAdvances(n.first) <=> Advances(n.first)
       /\ codeAdvances(n.last) <=> Advances(n.last)

WindowExact ==
  /\ sndWorker.pc = "window" =>
       (codeAllowed(sndWorker.arg) <=> Allowed(sndWorker.arg))
  /\ codeUnacknowledged <=> SndCurrSeqNo + 1 # SndLastAck

(* What the receiver decides                                                *)

DataExact ==
  \A p \in netData :
    /\ codeDataOffset(p.seq) = p.seq - RcvLastAck
    /\ p.seq - RcvLastAck \in 0 .. AvailBufSize(RcvLastAck) - 1 =>
         /\ codeOpensGap(p.seq) <=> p.seq > RcvCurrSeqNo + 1
         /\ codeIsNew(p.seq) <=> p.seq > RcvCurrSeqNo

ReportExact ==
  /\ \A ack \in RcvLastAck .. RcvCurrSeqNo + 1 :
       /\ codeAckSize(ack) = ack - RcvLastAck
       /\ codeReported(ack) <=> ack > RcvLastAckAck
       /\ Wrap(ack) = Wrap(RcvLastAckAck) <=> ack = RcvLastAckAck
  /\ \A a \in netAck2 : codeReported(a) <=> a > RcvLastAckAck

\* While no packet is too old, the sender's circular comparisons in processCtrl,
\* packData and checkTimers decide as if the numbers never restarted, even across
\* the restart and from the initial m_iSndCurrSeqNo of -1.
SenderExact == Fresh => AckExact /\ LossExact /\ WindowExact

\* So do the receiver's, in processData, sendCtrl and the ACK2 handler.
ReceiverExact == Fresh => DataExact /\ ReportExact

\* Neither end notices the restart.
DecidesAlike == SenderExact /\ ReceiverExact
=============================================================================
