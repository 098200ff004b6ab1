------------------------------ MODULE Readiness ------------------------------
(***************************************************************************)
(* Who waits for a connected socket, and who wakes them: a receiving and a *)
(* sending call (core.cpp), a thread that uses epoll and select (epoll.cpp,*)
(* api.cpp), the receive worker, which brings data, acknowledgements and   *)
(* the end of the connection, and close.                                   *)
(*                                                                         *)
(* Abstracted: data is counted, in blocks or messages; a call holds        *)
(* m_SendLock or m_RecvLock until it is idle; what happens under           *)
(* m_RecvDataLock, m_SendBlockLock or m_EPollLock is one step.             *)
(***************************************************************************)
EXTENDS Integers, FiniteSets

CONSTANTS
  MaxData,     \* bound: what the receive buffer holds
  SndBufSize,  \* m_iSndBufSize
  Usages       \* how a socket may be used: see mode

\* timed: UDT_RCVTIMEO or UDT_SNDTIMEO; file: recvfile, sendfile; message: recvmsg with
\* a time limit; poll: not m_bSynRecving, not m_bSynSending; none: no call, no traffic.
Modes == {"block", "timed", "poll", "file", "message", "none"}

ASSUME ReadinessAssumption ==
  /\ {MaxData, SndBufSize} \subseteq Nat \ {0}
  /\ Usages \subseteq [recv : Modes, send : Modes \ {"message"}, end : {"shutdown", "timeout"}]

VARIABLES
  pc,     \* of each thread
  mode,   \* how the socket is received from and sent to, and how its connection may end
  sock,   \* the CUDT: data and used of its buffers, its flags, and its m_sPollID
  poll    \* the CEPollDesc: watched sets and results, for this socket

readyVars == <<pc, mode, sock, poll>>

Init ==
  /\ pc = [t \in {"recv", "send", "worker", "closer", "app"} |-> "idle"]
  /\ mode \in Usages
  /\ sock = [data |-> 0, used |-> 0, broken |-> FALSE, closing |-> FALSE, opened |-> TRUE,
             health |-> TRUE, polled |-> FALSE]
  /\ poll = [in |-> FALSE, out |-> FALSE, reads |-> FALSE, writes |-> FALSE]

Ok == ~ sock.broken /\ ~ sock.closing

At(t, p) == pc[t] = p
Go(t, p) == pc' = [pc EXCEPT ![t] = p]

\* pthread_cond_signal
Signalled(t) == IF pc[t] = "wait" THEN "woken" ELSE pc[t]

\* update_events, for a socket that knows of the epoll.
Events(in, out, enable) ==
  IF ~ sock.polled THEN poll
  ELSE [poll EXCEPT !.reads = IF ~ in THEN @ ELSE enable /\ (@ \/ poll.in),
                    !.writes = IF ~ out THEN @ ELSE enable /\ (@ \/ poll.out)]

-----------------------------------------------------------------------------
(* recv, recvmsg, recvfile                                                  *)

recvBegins ==
  /\ At("recv", "idle") /\ sock.opened /\ mode.recv # "none"
  /\ Ok \/ sock.data > 0
  /\ Go("recv", CASE mode.recv # "message" -> "check"
                 [] mode.recv = "message" /\ Ok -> "wait"
                 [] mode.recv = "message" /\ ~ Ok -> "read")
  /\ UNCHANGED <<mode, sock, poll>>

MustWait == sock.data = 0 /\ Ok

recvChecks ==
  /\ At("recv", "check")
  /\ Go("recv", IF ~ MustWait THEN "read" ELSE IF mode.recv = "poll" THEN "idle" ELSE "wait")
  /\ UNCHANGED <<mode, sock, poll>>

recvWakes ==
  /\ At("recv", "woken")
  /\ Go("recv", IF mode.recv = "message" THEN "readmsg" ELSE "check")
  /\ UNCHANGED <<mode, sock, poll>>

recvTimesOut ==
  /\ At("recv", "wait") /\ mode.recv \in {"timed", "message"}
  /\ Go("recv", IF mode.recv = "message" THEN "lastread" ELSE "read")
  /\ UNCHANGED <<mode, sock, poll>>

\* readBuffer, readBufferToFile, and readMsg of a recvmsg after the end
recvReads ==
  /\ At("recv", "read")
  /\ IF ~ sock.opened \/ (~ Ok /\ sock.data = 0) THEN Go("recv", "idle") /\ UNCHANGED sock
     ELSE \E n \in 0 .. sock.data :
            /\ (n = 0) = (sock.data = 0)
            /\ sock' = [sock EXCEPT !.data = @ - n]
            /\ Go("recv", "size")
  /\ UNCHANGED <<mode, poll>>

\* recvmsg: what is read is lost if the connection has ended meanwhile.
recvmsgReads ==
  /\ pc["recv"] \in {"readmsg", "lastread"}
  /\ sock' = [sock EXCEPT !.data = IF @ > 0 THEN @ - 1 ELSE 0]
  /\ Go("recv", IF ~ Ok THEN "idle"
                ELSE IF sock.data = 0 /\ At("recv", "readmsg") THEN "wait" ELSE "size")
  /\ UNCHANGED <<mode, poll>>

recvfileGoesOn ==
  /\ At("recv", "size") /\ mode.recv = "file"
  /\ Go("recv", "check")
  /\ UNCHANGED <<mode, sock, poll>>

\* getRcvDataSize is asked before m_EPollLock is taken.
recvSizes ==
  /\ At("recv", "size")
  /\ Go("recv", IF sock.data = 0 THEN "unset" ELSE "idle")
  /\ UNCHANGED <<mode, sock, poll>>

recvUnsets ==
  /\ At("recv", "unset")
  /\ poll' = Events(TRUE, FALSE, FALSE)
  /\ Go("recv", "idle")
  /\ UNCHANGED <<mode, sock>>

-----------------------------------------------------------------------------
(* send, sendfile                                                           *)

Full == sock.used >= SndBufSize

sendBegins ==
  /\ At("send", "idle") /\ sock.opened /\ Ok /\ mode.send # "none"
  /\ Go("send", "check")
  /\ UNCHANGED <<mode, sock, poll>>

sendChecks ==
  /\ At("send", "check")
  /\ Go("send", IF Full /\ mode.send = "poll" THEN "idle"
                ELSE IF Full /\ Ok /\ sock.health THEN "wait"
                ELSE IF Full \/ mode.send = "file" THEN "status"
                ELSE "add")
  /\ UNCHANGED <<mode, sock, poll>>

sendWakes ==
  /\ At("send", "woken")
  /\ Go("send", "recheck")
  /\ UNCHANGED <<mode, sock, poll>>

sendRechecks ==
  /\ At("send", "recheck")
  /\ Go("send", IF Full /\ Ok /\ sock.health THEN "wait" ELSE "status")
  /\ UNCHANGED <<mode, sock, poll>>

sendTimesOut ==
  /\ At("send", "wait") /\ mode.send = "timed"
  /\ Go("send", "status")
  /\ UNCHANGED <<mode, sock, poll>>

\* An error of the peer is told once.
sendStatus ==
  /\ At("send", "status")
  /\ sock' = [sock EXCEPT !.health = (@ \/ (Ok /\ sock.opened))]
  /\ Go("send", IF Ok /\ sock.opened /\ sock.health THEN "add" ELSE "idle")
  /\ UNCHANGED <<mode, poll>>

sendAdds ==
  /\ At("send", "add")
  /\ IF Full THEN Go("send", "idle") /\ UNCHANGED sock
     ELSE \E n \in sock.used + 1 .. SndBufSize :
            /\ sock' = [sock EXCEPT !.used = n]
            /\ Go("send", "size")
  /\ UNCHANGED <<mode, poll>>

sendfileGoesOn ==
  /\ At("send", "size") /\ mode.send = "file"
  /\ Go("send", "check")
  /\ UNCHANGED <<mode, sock, poll>>

sendSizes ==
  /\ At("send", "size")
  /\ Go("send", IF Full THEN "unset" ELSE "idle")
  /\ UNCHANGED <<mode, sock, poll>>

sendUnsets ==
  /\ At("send", "unset")
  /\ poll' = Events(FALSE, TRUE, FALSE)
  /\ Go("send", "idle")
  /\ UNCHANGED <<mode, sock>>

-----------------------------------------------------------------------------
(* The receive worker: what arrives, and the timers                         *)

WorkerFree == At("worker", "idle") /\ Ok /\ sock.opened

\* Mutant: recv is not signalled.
dataArrivesQuietly ==
  /\ WorkerFree /\ sock.data < MaxData /\ mode.recv # "none"
  /\ sock' = [sock EXCEPT !.data = @ + 1]
  /\ Go("worker", "eventIn")
  /\ UNCHANGED <<mode, poll>>

\* sendCtrl(2): ackData.
dataArrives ==
  /\ WorkerFree /\ sock.data < MaxData /\ mode.recv # "none"
  /\ sock' = [sock EXCEPT !.data = @ + 1]
  /\ Go("worker", "signalRecv")
  /\ UNCHANGED <<mode, poll>>

\* processCtrl, an acknowledgement
ackArrives ==
  /\ WorkerFree /\ sock.used > 0
  /\ sock' = [sock EXCEPT !.used = @ - 1]
  /\ Go("worker", "signalSend")
  /\ UNCHANGED <<mode, poll>>

signals ==
  /\ \/ /\ At("worker", "signalRecv")
        /\ pc' = [pc EXCEPT !["worker"] = "eventIn", !["recv"] = Signalled("recv")]
     \/ /\ At("worker", "signalSend")
        /\ pc' = [pc EXCEPT !["worker"] = "eventOut", !["send"] = Signalled("send")]
  /\ UNCHANGED <<mode, sock, poll>>

setsEvent ==
  /\ \/ At("worker", "eventIn") /\ poll' = Events(TRUE, FALSE, TRUE)
     \/ At("worker", "eventOut") /\ poll' = Events(FALSE, TRUE, TRUE)
     \/ At("worker", "eventBoth") /\ poll' = Events(TRUE, TRUE, TRUE)
  /\ Go("worker", "idle")
  /\ UNCHANGED <<mode, sock>>

\* processCtrl, an error of the peer
peerError ==
  /\ WorkerFree /\ mode.send # "none" /\ sock' = [sock EXCEPT !.health = FALSE]
  /\ UNCHANGED <<pc, mode, poll>>

\* processCtrl, a shutdown; checkTimers, no answer for too long
connectionEnds ==
  /\ WorkerFree
  /\ sock' = [sock EXCEPT !.broken = TRUE, !.closing = TRUE]
  /\ Go("worker", "release1")
  /\ UNCHANGED <<mode, poll>>

-----------------------------------------------------------------------------
(* releaseSynch, by the worker and by close                                 *)

\* Mutant: the thread that waits for m_SendLock has not signalled.
releaseSignalsAfter(t) ==
  /\ \/ /\ At(t, "release1") /\ At("send", "idle")
        /\ Go(t, "release2")
     \/ /\ At(t, "release2")
        /\ pc' = [pc EXCEPT ![t] = "release3", !["recv"] = Signalled("recv")]
  /\ UNCHANGED <<mode, sock, poll>>

releaseSignals(t) ==
  /\ \/ /\ At(t, "release1")
        /\ pc' = [pc EXCEPT ![t] = "release2", !["send"] = Signalled("send")]
     \/ /\ At(t, "release2") /\ At("send", "idle")
        /\ pc' = [pc EXCEPT ![t] = "release3", !["recv"] = Signalled("recv")]
  /\ UNCHANGED <<mode, sock, poll>>

releaseEnds(t) ==
  /\ At(t, "release3") /\ At("recv", "idle")
  /\ Go(t, CASE t = "closer" -> "guards"
             [] t = "worker" /\ mode.end = "timeout" -> "eventBoth"
             [] t = "worker" /\ mode.end = "shutdown" -> "idle")
  /\ UNCHANGED <<mode, sock, poll>>

-----------------------------------------------------------------------------
(* CUDT::close, called by the application or by the garbage collector; to   *)
(* linger is in SocketLife                                                  *)

\* update_events for UDT_EPOLL_ERR finds m_sUDTSocksEx empty: nothing fills it.
closeBegins ==
  /\ At("closer", "idle") /\ sock.opened
  /\ poll' = IF sock.polled THEN [poll EXCEPT !.in = FALSE, !.out = FALSE] ELSE poll
  /\ Go("closer", "stop")
  /\ UNCHANGED <<mode, sock>>

closeStops ==
  /\ At("closer", "stop")
  /\ sock' = [sock EXCEPT !.closing = TRUE]
  /\ Go("closer", "release1")
  /\ UNCHANGED <<mode, poll>>

closeEnds ==
  /\ At("closer", "guards") /\ At("send", "idle") /\ At("recv", "idle")
  /\ sock' = [sock EXCEPT !.opened = FALSE]
  /\ Go("closer", "idle")
  /\ UNCHANGED <<mode, poll>>

-----------------------------------------------------------------------------
(* An application thread: epoll and select                                  *)

\* epoll_add_usock; locate finds no closed socket.
addBegins ==
  /\ At("app", "idle") /\ sock.opened
  /\ poll' = [poll EXCEPT !.in = TRUE, !.out = TRUE]
  /\ Go("app", "add")
  /\ UNCHANGED <<mode, sock>>

\* addEPoll looks at the buffers without a lock.
addInserts ==
  /\ At("app", "add")
  /\ sock' = [sock EXCEPT !.polled = TRUE]
  /\ Go("app", IF Ok /\ sock.opened THEN "addIn" ELSE "idle")
  /\ UNCHANGED <<mode, poll>>

addLooks ==
  /\ \/ At("app", "addIn") /\ Go("app", IF sock.data > 0 THEN "setIn" ELSE "addOut")
     \/ At("app", "addOut") /\ Go("app", IF Full THEN "idle" ELSE "setOut")
  /\ UNCHANGED <<mode, sock, poll>>

addSets ==
  /\ \/ At("app", "setIn") /\ poll' = Events(TRUE, FALSE, TRUE) /\ Go("app", "addOut")
     \/ At("app", "setOut") /\ poll' = Events(FALSE, TRUE, TRUE) /\ Go("app", "idle")
  /\ UNCHANGED <<mode, sock>>

\* Mutant: the socket is still watched when its results are cleared.
removeBeginsWatched ==
  /\ At("app", "idle") /\ sock.polled
  /\ Go("app", IF sock.opened THEN "clear" ELSE "idle")
  /\ UNCHANGED <<mode, sock, poll>>

\* epoll_remove_usock; of a closed socket only what is watched is taken out.
removeBegins ==
  /\ At("app", "idle") /\ sock.polled
  /\ poll' = [poll EXCEPT !.in = FALSE, !.out = FALSE]
  /\ Go("app", IF sock.opened THEN "clear" ELSE "idle")
  /\ UNCHANGED <<mode, sock>>

\* removeEPoll
removeClears ==
  /\ At("app", "clear")
  /\ poll' = Events(TRUE, TRUE, FALSE)
  /\ Go("app", "erase")
  /\ UNCHANGED <<mode, sock>>

removeErases ==
  /\ At("app", "erase")
  /\ sock' = [sock EXCEPT !.polled = FALSE]
  /\ Go("app", "idle")
  /\ UNCHANGED <<mode, poll>>

\* CEPoll::wait and CUDTUnited::select without a time limit: waitForEvent comes back at
\* the latest after 10 ms, so they look again and again.
waitBegins ==
  /\ At("app", "idle")
  /\ pc' \in {[pc EXCEPT !["app"] = p] : p \in {"epoll"} \cup IF sock.opened THEN {"readable", "writable"} ELSE {}}
  /\ UNCHANGED <<mode, sock, poll>>

Readable == sock.data > 0 \/ sock.broken \/ ~ sock.opened
Writable == ~ Full \/ sock.broken \/ ~ sock.opened

waitReturns ==
  /\ \/ At("app", "epoll") /\ (poll.reads \/ poll.writes \/ ~ (poll.in \/ poll.out))
     \/ At("app", "readable") /\ Readable
     \/ At("app", "writable") /\ Writable
  /\ Go("app", "idle")
  /\ UNCHANGED <<mode, sock, poll>>

-----------------------------------------------------------------------------
Arrives ==
  \/ dataArrives \/ ackArrives \/ peerError \/ connectionEnds

Begins ==
  \/ recvBegins \/ sendBegins \/ closeBegins \/ addBegins \/ removeBegins \/ waitBegins

recvStep ==
  \/ recvChecks \/ recvWakes \/ recvTimesOut \/ recvReads \/ recvmsgReads
  \/ recvfileGoesOn \/ recvSizes \/ recvUnsets

sendStep ==
  \/ sendChecks \/ sendWakes \/ sendRechecks \/ sendTimesOut \/ sendStatus \/ sendAdds
  \/ sendfileGoesOn \/ sendSizes \/ sendUnsets

workerStep == signals \/ setsEvent \/ releaseSignals("worker") \/ releaseEnds("worker")

closerStep == closeStops \/ releaseSignals("closer") \/ releaseEnds("closer") \/ closeEnds

appStep ==
  \/ addInserts \/ addLooks \/ addSets \/ removeClears \/ removeErases \/ waitReturns

Next ==
  \/ Arrives \/ Begins
  \/ recvStep \/ sendStep \/ workerStep \/ closerStep \/ appStep

Spec == Init /\ [][Next]_readyVars

\* The scheduler runs every thread that can go on, and the timers of a wait run out;
\* nothing has to arrive and nobody has to call.
Fairness ==
  /\ WF_readyVars(recvStep)
  /\ WF_readyVars(sendStep)
  /\ WF_readyVars(workerStep)
  /\ WF_readyVars(closerStep)
  /\ WF_readyVars(appStep)

FairSpec == Spec /\ Fairness

-----------------------------------------------------------------------------
\* Type invariant: the threads are where their calls can be and the buffers within their
\* bounds (core.cpp:1013, 1125).
TypeOK ==
  /\ pc["recv"] \in {"idle", "check", "wait", "woken", "read", "readmsg", "lastread", "size", "unset"}
  /\ pc["send"] \in {"idle", "check", "wait", "woken", "recheck", "status", "add", "size", "unset"}
  /\ pc["worker"] \in {"idle", "signalRecv", "signalSend", "eventIn", "eventOut", "eventBoth",
                       "release1", "release2", "release3"}
  /\ pc["closer"] \in {"idle", "stop", "release1", "release2", "release3", "guards"}
  /\ pc["app"] \in {"idle", "add", "addIn", "addOut", "setIn", "setOut", "clear", "erase",
                    "epoll", "readable", "writable"}
  /\ mode \in Usages
  /\ sock.data \in 0 .. MaxData /\ sock.used \in 0 .. SndBufSize
  /\ {sock.broken, sock.closing, sock.opened, sock.health, sock.polled} \subseteq BOOLEAN
  /\ {poll.in, poll.out, poll.reads, poll.writes} \subseteq BOOLEAN

\* No wakeup is lost: a receiver or sender that waits though there is data or space, or
\* though the connection ends, is about to be signalled (pthread_cond_signal, core.cpp:1711,
\* 1784, 2033).
WakeupIsComing ==
  LET about(t, others) == pc[t] \in {"release1"} \cup others
  IN  /\ At("recv", "wait") /\ mode.recv # "message" /\ ~ MustWait =>
           \/ At("worker", "signalRecv") \/ about("worker", {"release2"})
           \/ about("closer", {"release2"})
      /\ At("send", "wait") /\ (~ Full \/ ~ Ok) =>
           At("worker", "signalSend") \/ about("worker", {}) \/ about("closer", {})

\* "since this happens after the epoll ID has been removed, they cannot be set again"
\* (core.cpp:2666): a socket taken out of an epoll is in none of its results, whatever
\* arrives meanwhile.
RemovedIsQuiet == ~ sock.polled => ~ poll.reads /\ ~ poll.writes

\* The receive worker, which serves all sockets of the multiplexer, waits in releaseSynch
\* for the calls in progress and gets them to end (core.cpp:2214, 2591).
WorkerGoesOn == ~ At("worker", "idle") ~> At("worker", "idle")

\* close ends the calls in progress and returns (core.cpp:963, 1003).
CallsEnd == ~ At("closer", "idle") ~> At("closer", "idle")

\* A select without a time limit returns when the connection breaks (api.cpp:966).
SelectReturns == At("app", "readable") /\ sock.broken ~> At("app", "idle")

\* Worker, close and select all go on, whoever else waits for data or space.
NobodyIsLeftWaiting == WorkerGoesOn /\ CallsEnd /\ SelectReturns
=============================================================================
