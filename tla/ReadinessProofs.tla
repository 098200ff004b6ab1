--------------------------- MODULE ReadinessProofs ---------------------------
(***************************************************************************)
(* What Readiness promises at every moment, for every size of the buffers  *)
(* and every usage, proved: its types, that no wakeup is lost, and that a  *)
(* socket taken out of an epoll is in none of its results.                 *)
(***************************************************************************)
EXTENDS Readiness, TLAPS

Threads == {"recv", "send", "worker", "closer", "app"}

\* Wherever a thread may be.
Positions ==
  {"idle", "check", "wait", "woken", "read", "readmsg", "lastread", "size", "unset", "recheck", "status",
   "add", "signalRecv", "signalSend", "eventIn", "eventOut", "eventBoth", "release1", "release2",
   "release3", "stop", "guards", "addIn", "addOut", "setIn", "setOut", "clear", "erase", "epoll",
   "readable", "writable"}

\* The values are functions and records: what an EXCEPT changes, and nothing else.
Shape ==
  /\ pc \in [Threads -> Positions]
  /\ sock \in [data : Nat, used : Nat, broken : BOOLEAN, closing : BOOLEAN, opened : BOOLEAN,
               health : BOOLEAN, polled : BOOLEAN]
  /\ poll \in [in : BOOLEAN, out : BOOLEAN, reads : BOOLEAN, writes : BOOLEAN]

\* While it is taken out of the epoll, a socket is not watched, and then has no result.
Leaving ==
  /\ At("app", "clear") => ~ poll.in /\ ~ poll.out
  /\ At("app", "erase") => ~ poll.in /\ ~ poll.out /\ ~ poll.reads /\ ~ poll.writes

IInv == Shape /\ TypeOK /\ WakeupIsComing /\ RemovedIsQuiet /\ Leaving

-----------------------------------------------------------------------------
\* update_events changes no watched set, and sets a result only of a set that is watched.
LEMMA EventsKeep ==
  ASSUME Shape, NEW i \in BOOLEAN, NEW o \in BOOLEAN, NEW e \in BOOLEAN
  PROVE  LET p == Events(i, o, e)
         IN  /\ p \in [in : BOOLEAN, out : BOOLEAN, reads : BOOLEAN, writes : BOOLEAN]
             /\ p.in = poll.in /\ p.out = poll.out
             /\ p.reads => poll.reads \/ (sock.polled /\ poll.in)
             /\ p.writes => poll.writes \/ (sock.polled /\ poll.out)
             /\ ~ sock.polled => p = poll
             /\ sock.polled /\ i /\ ~ e => ~ p.reads
             /\ sock.polled /\ o /\ ~ e => ~ p.writes
  BY DEF Shape, Events

-----------------------------------------------------------------------------
(* The first state                                                          *)

\* Nobody waits, nothing is watched.
LEMMA Begin == Init => IInv
<1>1. Init => Shape
  BY DEF Init, Shape, Threads, Positions
<1>2. Init => TypeOK
  BY ReadinessAssumption DEF Init, TypeOK
<1>3. Init => WakeupIsComing
  BY DEF Init, WakeupIsComing, At
<1>4. Init => RemovedIsQuiet /\ Leaving
  BY DEF Init, RemovedIsQuiet, Leaving, At
<1> QED
  BY <1>1, <1>2, <1>3, <1>4 DEF IInv

-----------------------------------------------------------------------------
(* The steps, for one part of the invariant at a time                       *)

\* Every step leaves functions and records of the same shape.
LEMMA ShapeIsKept ==
  ASSUME IInv, [Next]_readyVars
  PROVE  Shape'
<1>1. CASE Arrives
  <2>1. CASE dataArrives
    BY <2>1 DEF IInv, Shape, Threads, At, Go, dataArrives, Positions, WorkerFree, Ok
  <2>2. CASE ackArrives
    BY <2>2 DEF IInv, Shape, Threads, At, Go, ackArrives, Positions, WorkerFree, Ok
  <2>3. CASE peerError
    BY <2>3 DEF IInv, Shape, Threads, At, Go, peerError, Positions, WorkerFree, Ok
  <2>4. CASE connectionEnds
    BY <2>4 DEF IInv, Shape, Threads, At, Go, connectionEnds, Positions, WorkerFree, Ok
  <2> QED
    BY <1>1, <2>1, <2>2, <2>3, <2>4 DEF Arrives
<1>2. CASE Begins
  <2>1. CASE recvBegins
    BY <2>1 DEF IInv, Shape, Threads, At, Go, recvBegins, Positions, Ok
  <2>2. CASE sendBegins
    BY <2>2 DEF IInv, Shape, Threads, At, Go, sendBegins, Positions, Ok
  <2>3. CASE closeBegins
    BY <2>3 DEF IInv, Shape, Threads, At, Go, closeBegins, Positions
  <2>4. CASE addBegins
    BY <2>4 DEF IInv, Shape, Threads, At, Go, addBegins, Positions
  <2>5. CASE removeBegins
    BY <2>5 DEF IInv, Shape, Threads, At, Go, removeBegins, Positions
  <2>6. CASE waitBegins
    BY <2>6 DEF IInv, Shape, Threads, At, Go, waitBegins, Positions
  <2> QED
    BY <1>2, <2>1, <2>2, <2>3, <2>4, <2>5, <2>6 DEF Begins
<1>3. CASE recvStep
  <2>1. CASE recvChecks
    BY <2>1 DEF IInv, Shape, Threads, At, Go, recvChecks, Positions, MustWait, Ok
  <2>2. CASE recvWakes
    BY <2>2 DEF IInv, Shape, Threads, At, Go, recvWakes, Positions
  <2>3. CASE recvTimesOut
    BY <2>3 DEF IInv, Shape, Threads, At, Go, recvTimesOut, Positions
  <2>4. CASE recvReads
    BY <2>4 DEF IInv, Shape, Threads, At, Go, recvReads, Positions, Ok
  <2>5. CASE recvmsgReads
    BY <2>5 DEF IInv, Shape, Threads, At, Go, recvmsgReads, Positions, Ok
  <2>6. CASE recvfileGoesOn
    BY <2>6 DEF IInv, Shape, Threads, At, Go, recvfileGoesOn, Positions
  <2>7. CASE recvSizes
    BY <2>7 DEF IInv, Shape, Threads, At, Go, recvSizes, Positions
  <2>8. CASE recvUnsets
    BY <2>8, EventsKeep DEF IInv, Shape, Threads, At, Go, recvUnsets, Positions
  <2> QED
    BY <1>3, <2>1, <2>2, <2>3, <2>4, <2>5, <2>6, <2>7, <2>8 DEF recvStep
<1>4. CASE sendStep
  <2>1. CASE sendChecks
    BY <2>1 DEF IInv, Shape, Threads, At, Go, sendChecks, Positions, Full, Ok
  <2>2. CASE sendWakes
    BY <2>2 DEF IInv, Shape, Threads, At, Go, sendWakes, Positions
  <2>3. CASE sendRechecks
    BY <2>3 DEF IInv, Shape, Threads, At, Go, sendRechecks, Positions, Full, Ok
  <2>4. CASE sendTimesOut
    BY <2>4 DEF IInv, Shape, Threads, At, Go, sendTimesOut, Positions
  <2>5. CASE sendStatus
    BY <2>5 DEF IInv, Shape, Threads, At, Go, sendStatus, Positions, Ok
  <2>6. CASE sendAdds
    BY <2>6 DEF IInv, Shape, Threads, At, Go, sendAdds, Positions, Full
  <2>7. CASE sendfileGoesOn
    BY <2>7 DEF IInv, Shape, Threads, At, Go, sendfileGoesOn, Positions
  <2>8. CASE sendSizes
    BY <2>8 DEF IInv, Shape, Threads, At, Go, sendSizes, Positions, Full
  <2>9. CASE sendUnsets
    BY <2>9, EventsKeep DEF IInv, Shape, Threads, At, Go, sendUnsets, Positions
  <2> QED
    BY <1>4, <2>1, <2>2, <2>3, <2>4, <2>5, <2>6, <2>7, <2>8, <2>9 DEF sendStep
<1>5. CASE workerStep
  <2>1. CASE signals
    BY <2>1 DEF IInv, Shape, Threads, At, Go, signals, Positions, Signalled
  <2>2. CASE setsEvent
    <3>1. PICK i \in BOOLEAN, o \in BOOLEAN, e \in BOOLEAN : poll' = Events(i, o, e)
      BY <2>2 DEF setsEvent
    <3>2. /\ poll' \in [in : BOOLEAN, out : BOOLEAN, reads : BOOLEAN, writes : BOOLEAN]
          /\ poll'.in = poll.in /\ poll'.out = poll.out
          /\ poll'.reads => poll.reads \/ (sock.polled /\ poll.in)
          /\ poll'.writes => poll.writes \/ (sock.polled /\ poll.out)
      BY <3>1, EventsKeep DEF IInv
    <3> QED
      BY <2>2, <3>2 DEF IInv, Shape, Threads, At, Go, setsEvent, Positions
  <2>3. CASE releaseSignals("worker")
    BY <2>3 DEF IInv, Shape, Threads, At, Go, releaseSignals, Positions, Signalled
  <2>4. CASE releaseEnds("worker")
    BY <2>4, ReadinessAssumption DEF IInv, Shape, Threads, At, Go, releaseEnds, Positions, TypeOK
  <2> QED
    BY <1>5, <2>1, <2>2, <2>3, <2>4 DEF workerStep
<1>6. CASE closerStep
  <2>1. CASE closeStops
    BY <2>1 DEF IInv, Shape, Threads, At, Go, closeStops, Positions
  <2>2. CASE releaseSignals("closer")
    BY <2>2 DEF IInv, Shape, Threads, At, Go, releaseSignals, Positions, Signalled
  <2>3. CASE releaseEnds("closer")
    BY <2>3, ReadinessAssumption DEF IInv, Shape, Threads, At, Go, releaseEnds, Positions, TypeOK
  <2>4. CASE closeEnds
    BY <2>4 DEF IInv, Shape, Threads, At, Go, closeEnds, Positions
  <2> QED
    BY <1>6, <2>1, <2>2, <2>3, <2>4 DEF closerStep
<1>7. CASE appStep
  <2>1. CASE addInserts
    BY <2>1 DEF IInv, Shape, Threads, At, Go, addInserts, Positions, Ok
  <2>2. CASE addLooks
    BY <2>2 DEF IInv, Shape, Threads, At, Go, addLooks, Positions, Full
  <2>3. CASE addSets
    <3>1. PICK i \in BOOLEAN, o \in BOOLEAN, e \in BOOLEAN : poll' = Events(i, o, e)
      BY <2>3 DEF addSets
    <3>2. /\ poll' \in [in : BOOLEAN, out : BOOLEAN, reads : BOOLEAN, writes : BOOLEAN]
          /\ poll'.in = poll.in /\ poll'.out = poll.out
          /\ poll'.reads => poll.reads \/ (sock.polled /\ poll.in)
          /\ poll'.writes => poll.writes \/ (sock.polled /\ poll.out)
      BY <3>1, EventsKeep DEF IInv
    <3>3. UNCHANGED <<mode, sock>> /\ pc["app"] \in {"setIn", "setOut"}
          /\ \E p \in {"addOut", "idle"} : Go("app", p)
      BY <2>3 DEF addSets, At
    <3> QED
      BY <3>2, <3>3 DEF IInv, Shape, Threads, At, Go, Positions
  <2>4. CASE removeClears
    BY <2>4, EventsKeep DEF IInv, Shape, Threads, At, Go, removeClears, Positions
  <2>5. CASE removeErases
    BY <2>5 DEF IInv, Shape, Threads, At, Go, removeErases, Positions
  <2>6. CASE waitReturns
    BY <2>6 DEF IInv, Shape, Threads, At, Go, waitReturns, Positions, Readable, Writable, Full
  <2> QED
    BY <1>7, <2>1, <2>2, <2>3, <2>4, <2>5, <2>6 DEF appStep
<1>8. CASE UNCHANGED readyVars
  BY <1>8 DEF readyVars, IInv, Shape, At, Positions
<1> QED
  BY <1>1, <1>2, <1>3, <1>4, <1>5, <1>6, <1>7, <1>8 DEF Next

\* Every step leaves the threads and the buffers within their types.
LEMMA TypeIsKept ==
  ASSUME IInv, [Next]_readyVars
  PROVE  TypeOK'
<1>1. CASE Arrives
  <2>1. CASE dataArrives
    BY <2>1, ReadinessAssumption
    DEF IInv, Shape, Threads, At, Go, dataArrives, TypeOK, WorkerFree, Ok
  <2>2. CASE ackArrives
    BY <2>2, ReadinessAssumption
    DEF IInv, Shape, Threads, At, Go, ackArrives, TypeOK, WorkerFree, Ok
  <2>3. CASE peerError
    BY <2>3, ReadinessAssumption DEF IInv, Shape, Threads, At, Go, peerError, TypeOK, WorkerFree, Ok
  <2>4. CASE connectionEnds
    BY <2>4, ReadinessAssumption
    DEF IInv, Shape, Threads, At, Go, connectionEnds, TypeOK, WorkerFree, Ok
  <2> QED
    BY <1>1, <2>1, <2>2, <2>3, <2>4 DEF Arrives
<1>2. CASE Begins
  <2>1. CASE recvBegins
    BY <2>1, ReadinessAssumption DEF IInv, Shape, Threads, At, Go, recvBegins, TypeOK, Ok
  <2>2. CASE sendBegins
    BY <2>2, ReadinessAssumption DEF IInv, Shape, Threads, At, Go, sendBegins, TypeOK, Ok
  <2>3. CASE closeBegins
    BY <2>3, ReadinessAssumption DEF IInv, Shape, Threads, At, Go, closeBegins, TypeOK
  <2>4. CASE addBegins
    BY <2>4, ReadinessAssumption DEF IInv, Shape, Threads, At, Go, addBegins, TypeOK
  <2>5. CASE removeBegins
    BY <2>5, ReadinessAssumption DEF IInv, Shape, Threads, At, Go, removeBegins, TypeOK
  <2>6. CASE waitBegins
    BY <2>6, ReadinessAssumption DEF IInv, Shape, Threads, At, Go, waitBegins, TypeOK
  <2> QED
    BY <1>2, <2>1, <2>2, <2>3, <2>4, <2>5, <2>6 DEF Begins
<1>3. CASE recvStep
  <2>1. CASE recvChecks
    BY <2>1, ReadinessAssumption DEF IInv, Shape, Threads, At, Go, recvChecks, TypeOK, MustWait, Ok
  <2>2. CASE recvWakes
    BY <2>2, ReadinessAssumption DEF IInv, Shape, Threads, At, Go, recvWakes, TypeOK
  <2>3. CASE recvTimesOut
    BY <2>3, ReadinessAssumption DEF IInv, Shape, Threads, At, Go, recvTimesOut, TypeOK
  <2>4. CASE recvReads
    BY <2>4, ReadinessAssumption DEF IInv, Shape, Threads, At, Go, recvReads, TypeOK, Ok
  <2>5. CASE recvmsgReads
    BY <2>5, ReadinessAssumption DEF IInv, Shape, Threads, At, Go, recvmsgReads, TypeOK, Ok
  <2>6. CASE recvfileGoesOn
    BY <2>6, ReadinessAssumption DEF IInv, Shape, Threads, At, Go, recvfileGoesOn, TypeOK
  <2>7. CASE recvSizes
    BY <2>7, ReadinessAssumption DEF IInv, Shape, Threads, At, Go, recvSizes, TypeOK
  <2>8. CASE recvUnsets
    <3>1. PICK i \in BOOLEAN, o \in BOOLEAN, e \in BOOLEAN : poll' = Events(i, o, e)
      BY <2>8 DEF recvUnsets
    <3>2. /\ poll' \in [in : BOOLEAN, out : BOOLEAN, reads : BOOLEAN, writes : BOOLEAN]
          /\ poll'.in = poll.in /\ poll'.out = poll.out
          /\ poll'.reads => poll.reads \/ (sock.polled /\ poll.in)
          /\ poll'.writes => poll.writes \/ (sock.polled /\ poll.out)
      BY <3>1, EventsKeep DEF IInv
    <3> QED
      BY <2>8, <3>2 DEF IInv, Shape, Threads, At, Go, recvUnsets, TypeOK
  <2> QED
    BY <1>3, <2>1, <2>2, <2>3, <2>4, <2>5, <2>6, <2>7, <2>8 DEF recvStep
<1>4. CASE sendStep
  <2>1. CASE sendChecks
    BY <2>1, ReadinessAssumption DEF IInv, Shape, Threads, At, Go, sendChecks, TypeOK, Full, Ok
  <2>2. CASE sendWakes
    BY <2>2, ReadinessAssumption DEF IInv, Shape, Threads, At, Go, sendWakes, TypeOK
  <2>3. CASE sendRechecks
    BY <2>3, ReadinessAssumption DEF IInv, Shape, Threads, At, Go, sendRechecks, TypeOK, Full, Ok
  <2>4. CASE sendTimesOut
    BY <2>4, ReadinessAssumption DEF IInv, Shape, Threads, At, Go, sendTimesOut, TypeOK
  <2>5. CASE sendStatus
    BY <2>5, ReadinessAssumption DEF IInv, Shape, Threads, At, Go, sendStatus, TypeOK, Ok
  <2>6. CASE sendAdds
    BY <2>6, ReadinessAssumption DEF IInv, Shape, Threads, At, Go, sendAdds, TypeOK, Full
  <2>7. CASE sendfileGoesOn
    BY <2>7, ReadinessAssumption DEF IInv, Shape, Threads, At, Go, sendfileGoesOn, TypeOK
  <2>8. CASE sendSizes
    BY <2>8, ReadinessAssumption DEF IInv, Shape, Threads, At, Go, sendSizes, TypeOK, Full
  <2>9. CASE sendUnsets
    <3>1. PICK i \in BOOLEAN, o \in BOOLEAN, e \in BOOLEAN : poll' = Events(i, o, e)
      BY <2>9 DEF sendUnsets
    <3>2. /\ poll' \in [in : BOOLEAN, out : BOOLEAN, reads : BOOLEAN, writes : BOOLEAN]
          /\ poll'.in = poll.in /\ poll'.out = poll.out
          /\ poll'.reads => poll.reads \/ (sock.polled /\ poll.in)
          /\ poll'.writes => poll.writes \/ (sock.polled /\ poll.out)
      BY <3>1, EventsKeep DEF IInv
    <3> QED
      BY <2>9, <3>2 DEF IInv, Shape, Threads, At, Go, sendUnsets, TypeOK
  <2> QED
    BY <1>4, <2>1, <2>2, <2>3, <2>4, <2>5, <2>6, <2>7, <2>8, <2>9 DEF sendStep
<1>5. CASE workerStep
  <2>1. CASE signals
    BY <2>1, ReadinessAssumption DEF IInv, Shape, Threads, At, Go, signals, TypeOK, Signalled
  <2>2. CASE setsEvent
    <3>1. PICK i \in BOOLEAN, o \in BOOLEAN, e \in BOOLEAN : poll' = Events(i, o, e)
      BY <2>2 DEF setsEvent
    <3>2. /\ poll' \in [in : BOOLEAN, out : BOOLEAN, reads : BOOLEAN, writes : BOOLEAN]
          /\ poll'.in = poll.in /\ poll'.out = poll.out
          /\ poll'.reads => poll.reads \/ (sock.polled /\ poll.in)
          /\ poll'.writes => poll.writes \/ (sock.polled /\ poll.out)
      BY <3>1, EventsKeep DEF IInv
    <3> QED
      BY <2>2, <3>2 DEF IInv, Shape, Threads, At, Go, setsEvent, TypeOK
  <2>3. CASE releaseSignals("worker")
    BY <2>3, ReadinessAssumption DEF IInv, Shape, Threads, At, Go, releaseSignals, TypeOK, Signalled
  <2>4. CASE releaseEnds("worker")
    BY <2>4, ReadinessAssumption DEF IInv, Shape, Threads, At, Go, releaseEnds, TypeOK
  <2> QED
    BY <1>5, <2>1, <2>2, <2>3, <2>4 DEF workerStep
<1>6. CASE closerStep
  <2>1. CASE closeStops
    BY <2>1, ReadinessAssumption DEF IInv, Shape, Threads, At, Go, closeStops, TypeOK
  <2>2. CASE releaseSignals("closer")
    BY <2>2, ReadinessAssumption DEF IInv, Shape, Threads, At, Go, releaseSignals, TypeOK, Signalled
  <2>3. CASE releaseEnds("closer")
    BY <2>3, ReadinessAssumption DEF IInv, Shape, Threads, At, Go, releaseEnds, TypeOK
  <2>4. CASE closeEnds
    BY <2>4, ReadinessAssumption DEF IInv, Shape, Threads, At, Go, closeEnds, TypeOK
  <2> QED
    BY <1>6, <2>1, <2>2, <2>3, <2>4 DEF closerStep
<1>7. CASE appStep
  <2>1. CASE addInserts
    BY <2>1, ReadinessAssumption DEF IInv, Shape, Threads, At, Go, addInserts, TypeOK, Ok
  <2>2. CASE addLooks
    BY <2>2, ReadinessAssumption DEF IInv, Shape, Threads, At, Go, addLooks, TypeOK, Full
  <2>3. CASE addSets
    <3>1. PICK i \in BOOLEAN, o \in BOOLEAN, e \in BOOLEAN : poll' = Events(i, o, e)
      BY <2>3 DEF addSets
    <3>2. /\ poll' \in [in : BOOLEAN, out : BOOLEAN, reads : BOOLEAN, writes : BOOLEAN]
          /\ poll'.in = poll.in /\ poll'.out = poll.out
          /\ poll'.reads => poll.reads \/ (sock.polled /\ poll.in)
          /\ poll'.writes => poll.writes \/ (sock.polled /\ poll.out)
      BY <3>1, EventsKeep DEF IInv
    <3>3. UNCHANGED <<mode, sock>> /\ pc["app"] \in {"setIn", "setOut"}
          /\ \E p \in {"addOut", "idle"} : Go("app", p)
      BY <2>3 DEF addSets, At
    <3> QED
      BY <3>2, <3>3 DEF IInv, Shape, Threads, At, Go, TypeOK
  <2>4. CASE removeClears
    <3>1. PICK i \in BOOLEAN, o \in BOOLEAN, e \in BOOLEAN : poll' = Events(i, o, e)
      BY <2>4 DEF removeClears
    <3>2. /\ poll' \in [in : BOOLEAN, out : BOOLEAN, reads : BOOLEAN, writes : BOOLEAN]
          /\ poll'.in = poll.in /\ poll'.out = poll.out
          /\ poll'.reads => poll.reads \/ (sock.polled /\ poll.in)
          /\ poll'.writes => poll.writes \/ (sock.polled /\ poll.out)
      BY <3>1, EventsKeep DEF IInv
    <3> QED
      BY <2>4, <3>2 DEF IInv, Shape, Threads, At, Go, removeClears, TypeOK
  <2>5. CASE removeErases
    BY <2>5, ReadinessAssumption DEF IInv, Shape, Threads, At, Go, removeErases, TypeOK
  <2>6. CASE waitReturns
    BY <2>6, ReadinessAssumption
    DEF IInv, Shape, Threads, At, Go, waitReturns, TypeOK, Readable, Writable, Full
  <2> QED
    BY <1>7, <2>1, <2>2, <2>3, <2>4, <2>5, <2>6 DEF appStep
<1>8. CASE UNCHANGED readyVars
  BY <1>8 DEF readyVars, IInv, Shape, At, TypeOK
<1> QED
  BY <1>1, <1>2, <1>3, <1>4, <1>5, <1>6, <1>7, <1>8 DEF Next

\* Who makes data, space or the end is about to signal, and whoever waits is woken by it;
\* nobody goes into a wait that is over.
LEMMA WakeupIsKept ==
  ASSUME IInv, [Next]_readyVars
  PROVE  WakeupIsComing'
<1>1. CASE Arrives
  <2>1. CASE dataArrives
    BY <2>1
    DEF IInv, Shape, Threads, At, Go, dataArrives, TypeOK, WakeupIsComing, MustWait, Ok, Full, WorkerFree
  <2>2. CASE ackArrives
    BY <2>2
    DEF IInv, Shape, Threads, At, Go, ackArrives, TypeOK, WakeupIsComing, MustWait, Ok, Full, WorkerFree
  <2>3. CASE peerError
    BY <2>3
    DEF IInv, Shape, Threads, At, Go, peerError, TypeOK, WakeupIsComing, MustWait, Ok, Full, WorkerFree
  <2>4. CASE connectionEnds
    BY <2>4
    DEF IInv, Shape, Threads, At, Go, connectionEnds, TypeOK, WakeupIsComing, MustWait, Ok, Full, WorkerFree
  <2> QED
    BY <1>1, <2>1, <2>2, <2>3, <2>4 DEF Arrives
<1>2. CASE Begins
  <2>1. CASE recvBegins
    BY <2>1 DEF IInv, Shape, Threads, At, Go, recvBegins, TypeOK, WakeupIsComing, MustWait, Ok, Full
  <2>2. CASE sendBegins
    BY <2>2 DEF IInv, Shape, Threads, At, Go, sendBegins, TypeOK, WakeupIsComing, MustWait, Ok, Full
  <2>3. CASE closeBegins
    BY <2>3
    DEF IInv, Shape, Threads, At, Go, closeBegins, TypeOK, WakeupIsComing, MustWait, Ok, Full
  <2>4. CASE addBegins
    BY <2>4 DEF IInv, Shape, Threads, At, Go, addBegins, TypeOK, WakeupIsComing, MustWait, Ok, Full
  <2>5. CASE removeBegins
    BY <2>5
    DEF IInv, Shape, Threads, At, Go, removeBegins, TypeOK, WakeupIsComing, MustWait, Ok, Full
  <2>6. CASE waitBegins
    BY <2>6 DEF IInv, Shape, Threads, At, Go, waitBegins, TypeOK, WakeupIsComing, MustWait, Ok, Full
  <2> QED
    BY <1>2, <2>1, <2>2, <2>3, <2>4, <2>5, <2>6 DEF Begins
<1>3. CASE recvStep
  <2>1. CASE recvChecks
    BY <2>1 DEF IInv, Shape, Threads, At, Go, recvChecks, TypeOK, WakeupIsComing, MustWait, Ok, Full
  <2>2. CASE recvWakes
    BY <2>2 DEF IInv, Shape, Threads, At, Go, recvWakes, TypeOK, WakeupIsComing, MustWait, Ok, Full
  <2>3. CASE recvTimesOut
    BY <2>3
    DEF IInv, Shape, Threads, At, Go, recvTimesOut, TypeOK, WakeupIsComing, MustWait, Ok, Full
  <2>4. CASE recvReads
    BY <2>4 DEF IInv, Shape, Threads, At, Go, recvReads, TypeOK, WakeupIsComing, MustWait, Ok, Full
  <2>5. CASE recvmsgReads
    BY <2>5
    DEF IInv, Shape, Threads, At, Go, recvmsgReads, TypeOK, WakeupIsComing, MustWait, Ok, Full
  <2>6. CASE recvfileGoesOn
    BY <2>6
    DEF IInv, Shape, Threads, At, Go, recvfileGoesOn, TypeOK, WakeupIsComing, MustWait, Ok, Full
  <2>7. CASE recvSizes
    BY <2>7 DEF IInv, Shape, Threads, At, Go, recvSizes, TypeOK, WakeupIsComing, MustWait, Ok, Full
  <2>8. CASE recvUnsets
    BY <2>8, EventsKeep
    DEF IInv, Shape, Threads, At, Go, recvUnsets, TypeOK, WakeupIsComing, MustWait, Ok, Full
  <2> QED
    BY <1>3, <2>1, <2>2, <2>3, <2>4, <2>5, <2>6, <2>7, <2>8 DEF recvStep
<1>4. CASE sendStep
  <2>1. CASE sendChecks
    BY <2>1 DEF IInv, Shape, Threads, At, Go, sendChecks, TypeOK, WakeupIsComing, MustWait, Ok, Full
  <2>2. CASE sendWakes
    BY <2>2 DEF IInv, Shape, Threads, At, Go, sendWakes, TypeOK, WakeupIsComing, MustWait, Ok, Full
  <2>3. CASE sendRechecks
    BY <2>3
    DEF IInv, Shape, Threads, At, Go, sendRechecks, TypeOK, WakeupIsComing, MustWait, Ok, Full
  <2>4. CASE sendTimesOut
    BY <2>4
    DEF IInv, Shape, Threads, At, Go, sendTimesOut, TypeOK, WakeupIsComing, MustWait, Ok, Full
  <2>5. CASE sendStatus
    BY <2>5 DEF IInv, Shape, Threads, At, Go, sendStatus, TypeOK, WakeupIsComing, MustWait, Ok, Full
  <2>6. CASE sendAdds
    BY <2>6 DEF IInv, Shape, Threads, At, Go, sendAdds, TypeOK, WakeupIsComing, MustWait, Ok, Full
  <2>7. CASE sendfileGoesOn
    BY <2>7
    DEF IInv, Shape, Threads, At, Go, sendfileGoesOn, TypeOK, WakeupIsComing, MustWait, Ok, Full
  <2>8. CASE sendSizes
    BY <2>8 DEF IInv, Shape, Threads, At, Go, sendSizes, TypeOK, WakeupIsComing, MustWait, Ok, Full
  <2>9. CASE sendUnsets
    BY <2>9, EventsKeep
    DEF IInv, Shape, Threads, At, Go, sendUnsets, TypeOK, WakeupIsComing, MustWait, Ok, Full
  <2> QED
    BY <1>4, <2>1, <2>2, <2>3, <2>4, <2>5, <2>6, <2>7, <2>8, <2>9 DEF sendStep
<1>5. CASE workerStep
  <2>1. CASE signals
    BY <2>1
    DEF IInv, Shape, Threads, At, Go, signals, TypeOK, WakeupIsComing, MustWait, Ok, Full, Signalled
  <2>2. CASE setsEvent
    BY <2>2, EventsKeep
    DEF IInv, Shape, Threads, At, Go, setsEvent, TypeOK, WakeupIsComing, MustWait, Ok, Full
  <2>3. CASE releaseSignals("worker")
    BY <2>3
    DEF IInv, Shape, Threads, At, Go, releaseSignals, TypeOK, WakeupIsComing, MustWait, Ok, Full, Signalled
  <2>4. CASE releaseEnds("worker")
    BY <2>4, ReadinessAssumption
    DEF IInv, Shape, Threads, At, Go, releaseEnds, TypeOK, WakeupIsComing, MustWait, Ok, Full
  <2> QED
    BY <1>5, <2>1, <2>2, <2>3, <2>4 DEF workerStep
<1>6. CASE closerStep
  <2>1. CASE closeStops
    BY <2>1 DEF IInv, Shape, Threads, At, Go, closeStops, TypeOK, WakeupIsComing, MustWait, Ok, Full
  <2>2. CASE releaseSignals("closer")
    BY <2>2
    DEF IInv, Shape, Threads, At, Go, releaseSignals, TypeOK, WakeupIsComing, MustWait, Ok, Full, Signalled
  <2>3. CASE releaseEnds("closer")
    BY <2>3, ReadinessAssumption
    DEF IInv, Shape, Threads, At, Go, releaseEnds, TypeOK, WakeupIsComing, MustWait, Ok, Full
  <2>4. CASE closeEnds
    BY <2>4 DEF IInv, Shape, Threads, At, Go, closeEnds, TypeOK, WakeupIsComing, MustWait, Ok, Full
  <2> QED
    BY <1>6, <2>1, <2>2, <2>3, <2>4 DEF closerStep
<1>7. CASE appStep
  <2>1. CASE addInserts
    BY <2>1 DEF IInv, Shape, Threads, At, Go, addInserts, TypeOK, WakeupIsComing, MustWait, Ok, Full
  <2>2. CASE addLooks
    BY <2>2 DEF IInv, Shape, Threads, At, Go, addLooks, TypeOK, WakeupIsComing, MustWait, Ok, Full
  <2>3. CASE addSets
    <3>1. PICK i \in BOOLEAN, o \in BOOLEAN, e \in BOOLEAN : poll' = Events(i, o, e)
      BY <2>3 DEF addSets
    <3>2. /\ poll' \in [in : BOOLEAN, out : BOOLEAN, reads : BOOLEAN, writes : BOOLEAN]
          /\ poll'.in = poll.in /\ poll'.out = poll.out
          /\ poll'.reads => poll.reads \/ (sock.polled /\ poll.in)
          /\ poll'.writes => poll.writes \/ (sock.polled /\ poll.out)
      BY <3>1, EventsKeep DEF IInv
    <3>3. UNCHANGED <<mode, sock>> /\ pc["app"] \in {"setIn", "setOut"}
          /\ \E p \in {"addOut", "idle"} : Go("app", p)
      BY <2>3 DEF addSets, At
    <3> QED
      BY <3>2, <3>3 DEF IInv, Shape, Threads, At, Go, TypeOK, WakeupIsComing, MustWait, Ok, Full
  <2>4. CASE removeClears
    BY <2>4, EventsKeep
    DEF IInv, Shape, Threads, At, Go, removeClears, TypeOK, WakeupIsComing, MustWait, Ok, Full
  <2>5. CASE removeErases
    BY <2>5
    DEF IInv, Shape, Threads, At, Go, removeErases, TypeOK, WakeupIsComing, MustWait, Ok, Full
  <2>6. CASE waitReturns
    BY <2>6
    DEF IInv, Shape, Threads, At, Go, waitReturns, TypeOK, WakeupIsComing, MustWait, Ok, Full, Readable, Writable
  <2> QED
    BY <1>7, <2>1, <2>2, <2>3, <2>4, <2>5, <2>6 DEF appStep
<1>8. CASE UNCHANGED readyVars
  BY <1>8 DEF readyVars, IInv, Shape, At, TypeOK, WakeupIsComing, MustWait, Ok, Full
<1> QED
  BY <1>1, <1>2, <1>3, <1>4, <1>5, <1>6, <1>7, <1>8 DEF Next

\* A result is set only while the socket is watched and known to the epoll.
LEMMA QuietIsKept ==
  ASSUME IInv, [Next]_readyVars
  PROVE  (RemovedIsQuiet /\ Leaving)'
<1>1. CASE Arrives
  <2>1. CASE dataArrives
    BY <2>1 DEF IInv, Shape, Threads, At, Go, dataArrives, RemovedIsQuiet, Leaving, WorkerFree, Ok
  <2>2. CASE ackArrives
    BY <2>2 DEF IInv, Shape, Threads, At, Go, ackArrives, RemovedIsQuiet, Leaving, WorkerFree, Ok
  <2>3. CASE peerError
    BY <2>3 DEF IInv, Shape, Threads, At, Go, peerError, RemovedIsQuiet, Leaving, WorkerFree, Ok
  <2>4. CASE connectionEnds
    BY <2>4
    DEF IInv, Shape, Threads, At, Go, connectionEnds, RemovedIsQuiet, Leaving, WorkerFree, Ok
  <2> QED
    BY <1>1, <2>1, <2>2, <2>3, <2>4 DEF Arrives
<1>2. CASE Begins
  <2>1. CASE recvBegins
    BY <2>1 DEF IInv, Shape, Threads, At, Go, recvBegins, RemovedIsQuiet, Leaving, Ok
  <2>2. CASE sendBegins
    BY <2>2 DEF IInv, Shape, Threads, At, Go, sendBegins, RemovedIsQuiet, Leaving, Ok
  <2>3. CASE closeBegins
    BY <2>3 DEF IInv, Shape, Threads, At, Go, closeBegins, RemovedIsQuiet, Leaving
  <2>4. CASE addBegins
    BY <2>4 DEF IInv, Shape, Threads, At, Go, addBegins, RemovedIsQuiet, Leaving
  <2>5. CASE removeBegins
    BY <2>5 DEF IInv, Shape, Threads, At, Go, removeBegins, RemovedIsQuiet, Leaving
  <2>6. CASE waitBegins
    BY <2>6 DEF IInv, Shape, Threads, At, Go, waitBegins, RemovedIsQuiet, Leaving
  <2> QED
    BY <1>2, <2>1, <2>2, <2>3, <2>4, <2>5, <2>6 DEF Begins
<1>3. CASE recvStep
  <2>1. CASE recvChecks
    BY <2>1 DEF IInv, Shape, Threads, At, Go, recvChecks, RemovedIsQuiet, Leaving, MustWait, Ok
  <2>2. CASE recvWakes
    BY <2>2 DEF IInv, Shape, Threads, At, Go, recvWakes, RemovedIsQuiet, Leaving
  <2>3. CASE recvTimesOut
    BY <2>3 DEF IInv, Shape, Threads, At, Go, recvTimesOut, RemovedIsQuiet, Leaving
  <2>4. CASE recvReads
    BY <2>4 DEF IInv, Shape, Threads, At, Go, recvReads, RemovedIsQuiet, Leaving, Ok
  <2>5. CASE recvmsgReads
    BY <2>5 DEF IInv, Shape, Threads, At, Go, recvmsgReads, RemovedIsQuiet, Leaving, Ok
  <2>6. CASE recvfileGoesOn
    BY <2>6 DEF IInv, Shape, Threads, At, Go, recvfileGoesOn, RemovedIsQuiet, Leaving
  <2>7. CASE recvSizes
    BY <2>7 DEF IInv, Shape, Threads, At, Go, recvSizes, RemovedIsQuiet, Leaving
  <2>8. CASE recvUnsets
    BY <2>8, EventsKeep DEF IInv, Shape, Threads, At, Go, recvUnsets, RemovedIsQuiet, Leaving
  <2> QED
    BY <1>3, <2>1, <2>2, <2>3, <2>4, <2>5, <2>6, <2>7, <2>8 DEF recvStep
<1>4. CASE sendStep
  <2>1. CASE sendChecks
    BY <2>1 DEF IInv, Shape, Threads, At, Go, sendChecks, RemovedIsQuiet, Leaving, Full, Ok
  <2>2. CASE sendWakes
    BY <2>2 DEF IInv, Shape, Threads, At, Go, sendWakes, RemovedIsQuiet, Leaving
  <2>3. CASE sendRechecks
    BY <2>3 DEF IInv, Shape, Threads, At, Go, sendRechecks, RemovedIsQuiet, Leaving, Full, Ok
  <2>4. CASE sendTimesOut
    BY <2>4 DEF IInv, Shape, Threads, At, Go, sendTimesOut, RemovedIsQuiet, Leaving
  <2>5. CASE sendStatus
    BY <2>5 DEF IInv, Shape, Threads, At, Go, sendStatus, RemovedIsQuiet, Leaving, Ok
  <2>6. CASE sendAdds
    BY <2>6 DEF IInv, Shape, Threads, At, Go, sendAdds, RemovedIsQuiet, Leaving, Full
  <2>7. CASE sendfileGoesOn
    BY <2>7 DEF IInv, Shape, Threads, At, Go, sendfileGoesOn, RemovedIsQuiet, Leaving
  <2>8. CASE sendSizes
    BY <2>8 DEF IInv, Shape, Threads, At, Go, sendSizes, RemovedIsQuiet, Leaving, Full
  <2>9. CASE sendUnsets
    BY <2>9, EventsKeep DEF IInv, Shape, Threads, At, Go, sendUnsets, RemovedIsQuiet, Leaving
  <2> QED
    BY <1>4, <2>1, <2>2, <2>3, <2>4, <2>5, <2>6, <2>7, <2>8, <2>9 DEF sendStep
<1>5. CASE workerStep
  <2>1. CASE signals
    BY <2>1 DEF IInv, Shape, Threads, At, Go, signals, RemovedIsQuiet, Leaving, Signalled
  <2>2. CASE setsEvent
    <3>1. PICK i \in BOOLEAN, o \in BOOLEAN, e \in BOOLEAN : poll' = Events(i, o, e)
      BY <2>2 DEF setsEvent
    <3>2. /\ poll' \in [in : BOOLEAN, out : BOOLEAN, reads : BOOLEAN, writes : BOOLEAN]
          /\ poll'.in = poll.in /\ poll'.out = poll.out
          /\ poll'.reads => poll.reads \/ (sock.polled /\ poll.in)
          /\ poll'.writes => poll.writes \/ (sock.polled /\ poll.out)
      BY <3>1, EventsKeep DEF IInv
    <3> QED
      BY <2>2, <3>2 DEF IInv, Shape, Threads, At, Go, setsEvent, RemovedIsQuiet, Leaving
  <2>3. CASE releaseSignals("worker")
    BY <2>3 DEF IInv, Shape, Threads, At, Go, releaseSignals, RemovedIsQuiet, Leaving, Signalled
  <2>4. CASE releaseEnds("worker")
    BY <2>4, ReadinessAssumption
    DEF IInv, Shape, Threads, At, Go, releaseEnds, RemovedIsQuiet, Leaving
  <2> QED
    BY <1>5, <2>1, <2>2, <2>3, <2>4 DEF workerStep
<1>6. CASE closerStep
  <2>1. CASE closeStops
    BY <2>1 DEF IInv, Shape, Threads, At, Go, closeStops, RemovedIsQuiet, Leaving
  <2>2. CASE releaseSignals("closer")
    BY <2>2 DEF IInv, Shape, Threads, At, Go, releaseSignals, RemovedIsQuiet, Leaving, Signalled
  <2>3. CASE releaseEnds("closer")
    BY <2>3, ReadinessAssumption
    DEF IInv, Shape, Threads, At, Go, releaseEnds, RemovedIsQuiet, Leaving
  <2>4. CASE closeEnds
    BY <2>4 DEF IInv, Shape, Threads, At, Go, closeEnds, RemovedIsQuiet, Leaving
  <2> QED
    BY <1>6, <2>1, <2>2, <2>3, <2>4 DEF closerStep
<1>7. CASE appStep
  <2>1. CASE addInserts
    BY <2>1 DEF IInv, Shape, Threads, At, Go, addInserts, RemovedIsQuiet, Leaving, Ok
  <2>2. CASE addLooks
    BY <2>2 DEF IInv, Shape, Threads, At, Go, addLooks, RemovedIsQuiet, Leaving, Full
  <2>3. CASE addSets
    <3>1. PICK i \in BOOLEAN, o \in BOOLEAN, e \in BOOLEAN : poll' = Events(i, o, e)
      BY <2>3 DEF addSets
    <3>2. /\ poll' \in [in : BOOLEAN, out : BOOLEAN, reads : BOOLEAN, writes : BOOLEAN]
          /\ poll'.in = poll.in /\ poll'.out = poll.out
          /\ poll'.reads => poll.reads \/ (sock.polled /\ poll.in)
          /\ poll'.writes => poll.writes \/ (sock.polled /\ poll.out)
      BY <3>1, EventsKeep DEF IInv
    <3>3. UNCHANGED <<mode, sock>> /\ pc["app"] \in {"setIn", "setOut"}
          /\ \E p \in {"addOut", "idle"} : Go("app", p)
      BY <2>3 DEF addSets, At
    <3> QED
      BY <3>2, <3>3 DEF IInv, Shape, Threads, At, Go, RemovedIsQuiet, Leaving
  <2>4. CASE removeClears
    BY <2>4, EventsKeep DEF IInv, Shape, Threads, At, Go, removeClears, RemovedIsQuiet, Leaving
  <2>5. CASE removeErases
    BY <2>5 DEF IInv, Shape, Threads, At, Go, removeErases, RemovedIsQuiet, Leaving
  <2>6. CASE waitReturns
    BY <2>6
    DEF IInv, Shape, Threads, At, Go, waitReturns, RemovedIsQuiet, Leaving, Readable, Writable, Full
  <2> QED
    BY <1>7, <2>1, <2>2, <2>3, <2>4, <2>5, <2>6 DEF appStep
<1>8. CASE UNCHANGED readyVars
  BY <1>8 DEF readyVars, IInv, Shape, At, RemovedIsQuiet, Leaving
<1> QED
  BY <1>1, <1>2, <1>3, <1>4, <1>5, <1>6, <1>7, <1>8 DEF Next

-----------------------------------------------------------------------------
(* The theorems                                                             *)

LEMMA Inductive == Spec => []IInv
<1>1. IInv /\ [Next]_readyVars => IInv'
  BY ShapeIsKept, TypeIsKept, WakeupIsKept, QuietIsKept DEF IInv
<1> QED
  BY Begin, <1>1, PTL DEF Spec

\* The threads are where their calls can be, the buffers within their bounds.
THEOREM TypeCorrect == Spec => []TypeOK
  BY Inductive, PTL DEF IInv

\* No wakeup of a blocked receiver or sender is lost.
THEOREM NoLostWakeup == Spec => []WakeupIsComing
  BY Inductive, PTL DEF IInv

\* A socket that has been taken out of an epoll is in none of its results.
THEOREM RemovedStaysQuiet == Spec => []RemovedIsQuiet
  BY Inductive, PTL DEF IInv
=============================================================================
