---------------------------- MODULE SocketLifeProofs ----------------------------
(***************************************************************************)
(* The tables of CUDTUnited agree with each other at every moment, for any *)
(* number of sockets, peers and acceptors and any backlog, proved.         *)
(***************************************************************************)
EXTENDS SocketLife, FiniteSetTheorems, WellFoundedInduction, TLAPS

\* The sockets that use multiplexer m.
Users(m) == {u \in DOMAIN sock : sock[u].mux = m}

\* l is a listener, or was one.
Listens(l) ==
  l \in DOMAIN sock /\ sock[l].status \in {"LISTENING", "CLOSED"} /\ sock[l].listenSocket = None

\* Both tables are functions to records.
Shape ==
  /\ sock \in [DOMAIN sock -> CUDTSocket]
  /\ mMultiplexer \in [DOMAIN mMultiplexer -> CMultiplexer]

\* Ids are never used again.
IdsAreFresh ==
  /\ \A u \in DOMAIN sock \cup owned \cup DOMAIN mMultiplexer : u >= SocketID
  /\ \A l \in DOMAIN sock : \A u \in sock[l].queued : u >= SocketID
  /\ \A t \in Acceptors : acceptor[t].pc = "found" => acceptor[t].u >= SocketID

\* Which sockets are where, by their status.
Places ==
  /\ Sockets \cap ClosedSockets = {}
  /\ \A u \in DOMAIN sock :
       /\ sock[u].status = "LISTENING" => u \in Sockets
       /\ sock[u].status = "CLOSED" /\ sock[u].listenSocket = None => u \in ClosedSockets
       /\ sock[u].status = "INIT" => sock[u].mux = None
       /\ sock[u].status \in {"OPENED", "CONNECTING"} => sock[u].mux # None
       /\ sock[u].mux = None => u \notin DOMAIN mMultiplexer
       /\ sock[u].connected => sock[u].status \in {"CONNECTED", "CLOSED"}
       /\ sock[u].listenSocket # None => sock[u].status \in {"CONNECTED", "CLOSED"}
  /\ \A u \in closers :
       u \in DOMAIN sock \cap owned /\ sock[u].locked /\ sock[u].status # "LISTENING"

\* What is queued came from its listener, and the application does not know it.
Came(u, l) ==
  /\ u \in DOMAIN sock /\ u \notin ClosedSockets /\ sock[u].listenSocket = l
  /\ ~ Failures => u \in Sockets

Queues ==
  \A l \in DOMAIN sock :
    /\ \A u \in sock[l].queued : u \notin owned /\ (Torn \/ Came(u, l))
    /\ sock[l].queued # {} => Listens(l)
    /\ Cardinality(sock[l].queued) <= sock[l].backLog

Multiplexers ==
  /\ RefCountExact
  /\ \A m \in DOMAIN mMultiplexer :
       mMultiplexer[m].listener # None => Listens(mMultiplexer[m].listener)

\* The socket that newConnection is making is known to nobody.
Making == worker.pc \in {"insert", "queue"}

Made(n) ==
  /\ n \notin owned /\ sock[n].mux = sock[worker.ls].mux
  /\ \A l \in DOMAIN sock : n \notin sock[l].queued
  /\ worker.pc = "insert" => n \notin Sockets \cup ClosedSockets
  /\ worker.pc = "queue" /\ gc = "running" =>
       n \notin ClosedSockets /\ (~ Failures => n \in Sockets)
  /\ gc = "running" => ~ sock[n].broken

Working ==
  IF worker.pc = "idle" THEN worker = Idle ELSE
    /\ worker.peer \in Peers /\ Listens(worker.ls)
    /\ worker.pc \in {"locate", "create"} => SocketID > 1
    /\ worker.pc \in {"create", "insert", "queue"} =>
         Cardinality(sock[worker.ls].queued) < sock[worker.ls].backLog
    /\ worker.pc \in {"create", "insert"} => \A u \in MadeFor(worker.peer) : sock[u].broken
    /\ worker.pc = "insert" => \A r \in PeerRec : worker.ns < r[2]
    /\ worker.pc \in {"insert", "queue", "rollback"} =>
         worker.ns \in DOMAIN sock /\ sock[worker.ns].listenSocket = worker.ls
    /\ Making => Made(worker.ns)
    /\ worker.pc = "rollback" \/ worker.failed => Failures

\* What a caller of accept relies on.
Accepting ==
  \A t \in Acceptors : LET a == acceptor[t] IN
    /\ a.pc \in {"ready", "waiting"} => Listens(a.ls)
    /\ a.pc = "waiting" => Torn \/ (sock[a.ls].status = "LISTENING" /\ ~ sock[a.ls].broken)
    /\ a.pc = "found" =>
         /\ a.u \notin owned /\ (Making => worker.ns # a.u)
         /\ \A l \in DOMAIN sock : a.u \notin sock[l].queued
         /\ \A t2 \in Acceptors \ {t} : acceptor[t2].u # a.u
    /\ a.pc # "found" => a.u = None

\* The acceptors that are about to look into the queue of l.
Ready(l) == {t \in Acceptors : acceptor[t].pc = "ready" /\ acceptor[t].ls = l}

\* Of the sockets made for a peer only the newest may work.
Records ==
  /\ \A r \in PeerRec : r[2] \in DOMAIN sock /\ sock[r[2]].listenSocket # None
  /\ \A p \in Peers : \A u, v \in MadeFor(p) : v < u => sock[u].broken

\* An orderly cleanup begins and ends with nobody busy.  Another one closes all
\* sockets but the one that newConnection is making, which goes with its listener.
Ending ==
  /\ gc # "running" =>
       /\ bClosing /\ \A u \in DOMAIN sock : sock[u].status # "LISTENING"
       /\ worker.pc \in {"create", "insert"} => Sockets = {}
       /\ \A u \in Sockets : u \notin owned /\ \A t \in Acceptors : acceptor[t].u # u
       /\ ~ Failures => \A u \in Sockets :
            \/ worker.pc = "queue" /\ worker.ns = u
            \/ \E l \in DOMAIN sock : u \in sock[l].queued
  /\ gc = "done" => ClosedSockets = {}
  /\ bClosing /\ orderly => Calm
  /\ ~ Failures =>
       DOMAIN sock = Sockets \cup ClosedSockets \cup {u \in {worker.ns} : worker.pc = "insert"}

IInv ==
  /\ TypeOK /\ Shape /\ IdsAreFresh /\ Places /\ Queues /\ Multiplexers
  /\ Working /\ Accepting /\ (Failures \/ AcceptorsWake) /\ Records /\ Ending /\ Survives

-----------------------------------------------------------------------------
(* Sets of ids                                                              *)

\* Least returns the least id of a set, if there is one.
LEMMA LeastIs ==
  ASSUME NEW ids \in SUBSET Nat, ids # {}
  PROVE  Least(ids) \in ids /\ \A v \in ids : Least(ids) <= v
<1>1. IsWellFoundedOn(OpToRel(<, Nat), Nat)
  BY NatLessThanWellFounded
<1>2. PICK x \in ids : \A y \in ids : ~ (<<y, x>> \in OpToRel(<, Nat))
  BY <1>1, WFMin
<1>3. \A y \in ids : ~ (y < x)
  BY <1>2 DEF OpToRel
<1>4. \E u \in ids : \A v \in ids : u <= v
  BY <1>3
<1> QED
  BY <1>4 DEF Least

\* A set of ids is finite, and the number of its elements bounded.
LEMMA IdsAreFinite ==
  ASSUME NEW S \in SUBSET Ids
  PROVE  IsFiniteSet(S) /\ Cardinality(S) \in 0 .. MaxSockets
<1>1. IsFiniteSet(Ids) /\ Cardinality(Ids) = MaxSockets
  BY FS_Interval, SocketLifeAssumption DEF Ids
<1>2. IsFiniteSet(S) /\ Cardinality(S) <= MaxSockets
  BY <1>1, FS_Subset
<1> QED
  BY <1>2, FS_CardinalityType

\* Fewer ids, a smaller number.
LEMMA FewerIds ==
  ASSUME NEW S \in SUBSET Ids, NEW T \in SUBSET S
  PROVE  Cardinality(T) <= Cardinality(S) /\ Cardinality(T) \in Nat /\ Cardinality(S) \in Nat
BY IdsAreFinite, FS_Subset


\* There are finitely many acceptors.
LEMMA FewerAcceptors ==
  ASSUME NEW S \in SUBSET Acceptors, NEW T \in SUBSET S
  PROVE  /\ IsFiniteSet(S) /\ Cardinality(T) <= Cardinality(S)
         /\ Cardinality(T) \in Nat /\ Cardinality(S) \in Nat
<1>1. IsFiniteSet(S)
  BY SocketLifeAssumption, FS_Subset
<1> QED
  BY <1>1, FS_Subset, FS_CardinalityType
-----------------------------------------------------------------------------
(* Steps that change one socket, and perhaps its multiplexer                *)

\* How an operation may change the socket from d to c.
MayTurn(d, c) ==
  /\ c.queued = d.queued /\ c.listenSocket = d.listenSocket
  /\ c.mux = d.mux \/ (d.status = "INIT" /\ c.status # "INIT" /\ c.mux # None)
  /\ c.backLog = d.backLog \/ d.status = "OPENED"
  /\ \/ c.status = d.status
     \/ /\ d.status \in {"INIT", "OPENED", "CONNECTING"} /\ c.mux # None
        /\ c.status \in {"OPENED", "CONNECTING", "CONNECTED", "LISTENING"}
  /\ c.connected => d.connected \/ c.status = "CONNECTED"
  /\ d.broken => c.broken

\* The flags may differ, what the tables are made of does not.
Alike(d, c) ==
  /\ c.queued = d.queued /\ c.listenSocket = d.listenSocket /\ c.mux = d.mux
  /\ c.backLog = d.backLog /\ c.status = d.status /\ (c.connected => d.connected)

\* closers and broken as the step leaves them.
MayClose(u, c) ==
  /\ c.status = "LISTENING" => u \in Sockets /\ u \notin closers
  /\ c.broken => sock[u].broken \/ (sock[u].status # "LISTENING" /\ ~ (Making /\ u = worker.ns))
  /\ u \in closers => c.locked
  /\ c.status \in {"LISTENING", "CONNECTING"} => c.status = sock[u].status \/ ~ bClosing
  /\ \/ closers' = closers
     \/ /\ closers' = closers \cup {u} /\ ~ bClosing
        /\ u \in owned /\ c.locked /\ c.status # "LISTENING"

LEMMA SocketTurns ==
  ASSUME IInv, NEW u \in DOMAIN sock, NEW c \in CUDTSocket, sock' = [sock EXCEPT ![u] = c],
         MayTurn(sock[u], c), MayClose(u, c),
         mMultiplexer' \in [DOMAIN mMultiplexer' -> CMultiplexer],
         DOMAIN mMultiplexer' \subseteq DOMAIN mMultiplexer \cup {u},
         u \in DOMAIN mMultiplexer' => u \in DOMAIN mMultiplexer \/ c.mux # None,
         Multiplexers',
         UNCHANGED <<Sockets, ClosedSockets, PeerRec, SocketID, worker, acceptor, owned, bClosing,
                     gc, cleanups>>,
         GoesOn
  PROVE  IInv'
<1>1. /\ DOMAIN sock' = DOMAIN sock /\ sock'[u] = c
      /\ \A v \in DOMAIN sock \ {u} : sock'[v] = sock[v]
      /\ sock[u] \in CUDTSocket /\ sock' \in [DOMAIN sock' -> CUDTSocket]
  BY DEF IInv, Shape
<1>0. fate = "runs" /\ fate' = fate /\ orderly' = orderly
  BY DEF GoesOn, process
<1>2. closers' \subseteq closers \cup {u} /\ closers' \subseteq Ids
  BY DEF IInv, TypeOK, MayClose
<1>3. \A v \in DOMAIN sock : /\ sock'[v].queued = sock[v].queued
                             /\ sock'[v].listenSocket = sock[v].listenSocket
                             /\ Listens(v) => /\ Listens(v)' /\ sock'[v].mux = sock[v].mux
                                              /\ sock'[v].status = sock[v].status
                                              /\ sock'[v].backLog = sock[v].backLog
                             /\ sock[v].broken => sock'[v].broken
  BY <1>1 DEF MayTurn, Listens
<1>4. (TypeOK /\ Shape)'
  BY <1>0, <1>1, <1>2 DEF IInv, TypeOK, Shape
<1>5. IdsAreFresh'
  BY <1>1, <1>3 DEF IInv, IdsAreFresh
<1>6. Places'
  <2>1. (Sockets \cap ClosedSockets = {})'
    BY DEF IInv, Places
  <2>2. /\ c.status = "LISTENING" => u \in Sockets
        /\ c.status = "CLOSED" /\ c.listenSocket = None => u \in ClosedSockets
        /\ c.status = "INIT" => c.mux = None
        /\ c.status \in {"OPENED", "CONNECTING"} => c.mux # None
        /\ c.mux = None => u \notin DOMAIN mMultiplexer'
        /\ c.connected => c.status \in {"CONNECTED", "CLOSED"}
        /\ c.listenSocket # None => c.status \in {"CONNECTED", "CLOSED"}
    BY <1>1 DEF IInv, Places, MayTurn, MayClose
  <2>3. \A v \in DOMAIN sock \ {u} : v \in DOMAIN mMultiplexer' => v \in DOMAIN mMultiplexer
    OBVIOUS
  <2>4. ASSUME NEW v \in closers'
        PROVE  v \in DOMAIN sock \cap owned /\ sock'[v].locked /\ sock'[v].status # "LISTENING"
    <3>1. CASE v = u
      BY <1>1, <2>4, <3>1 DEF IInv, Places, MayTurn, MayClose
    <3>2. CASE v # u
      BY <1>1, <1>2, <2>4, <3>2 DEF IInv, Places
    <3> QED
      BY <3>1, <3>2
  <2> QED
    BY <1>1, <2>1, <2>2, <2>3, <2>4 DEF IInv, Places
<1>7. Queues'
  <2> SUFFICES ASSUME NEW l \in DOMAIN sock
               PROVE  /\ \A v \in sock'[l].queued : v \notin owned /\ (Torn' \/ Came(v, l)')
                      /\ sock'[l].queued # {} => Listens(l)'
                      /\ Cardinality(sock'[l].queued) <= sock'[l].backLog
    BY <1>1 DEF Queues
  <2>1. \A v \in sock'[l].queued : v \notin owned /\ (Torn' \/ Came(v, l)')
    BY <1>0, <1>1, <1>3 DEF IInv, Queues, Came, Torn
  <2>2. sock'[l].queued # {} => Listens(l)'
    BY <1>3 DEF IInv, Queues
  <2>3. ASSUME sock[l].queued = {}
        PROVE  Cardinality(sock'[l].queued) <= sock'[l].backLog
    <3>1. sock'[l] \in CUDTSocket
      BY <1>1
    <3>2. sock'[l].backLog \in Nat
      BY <3>1, SocketLifeAssumption DEF CUDTSocket
    <3>3. sock'[l].queued = {}
      BY <1>3, <2>3
    <3>4. Cardinality(sock'[l].queued) = 0
      BY <3>3, FS_EmptySet
    <3> QED
      BY <3>2, <3>4
  <2>4. ASSUME sock[l].queued # {}
        PROVE  Cardinality(sock'[l].queued) <= sock'[l].backLog
    BY <1>3, <2>4 DEF IInv, Queues
  <2> QED
    BY <2>1, <2>2, <2>3, <2>4
<1>8. Working'
  <2>0. CASE worker.pc = "idle"
    BY <2>0 DEF IInv, Working
  <2>. CASE worker.pc # "idle"
    <3>1. worker.peer \in Peers /\ Listens(worker.ls) /\ worker.ls \in DOMAIN sock /\ worker.ls # None
      BY DEF IInv, TypeOK, Working, Listens, Ids, None
    <3>2. \A p \in Peers : \A v \in MadeFor(p)' : v \in MadeFor(p) /\ (sock[v].broken => sock'[v].broken)
      BY <1>3 DEF IInv, TypeOK, MadeFor
    <3>3. worker.pc \in {"insert", "queue", "rollback"} =>
            /\ worker.ns \in DOMAIN sock /\ sock[worker.ns].listenSocket = worker.ls
            /\ sock'[worker.ns].listenSocket = worker.ls
      BY <1>3 DEF IInv, Working
    <3>4. ASSUME Making
          PROVE  Made(worker.ns)'
      <4>1. Made(worker.ns) /\ worker.ns \in DOMAIN sock /\ sock[worker.ns].listenSocket # None
        BY <3>1, <3>3, <3>4 DEF IInv, Working, Making
      <4>2. sock'[worker.ns].mux = sock[worker.ns].mux
        BY <1>1, <4>1 DEF IInv, Places, MayTurn
      <4>3. sock'[worker.ns].broken => sock[worker.ns].broken
        BY <1>1, <3>4, <4>1 DEF MayClose
      <4>4. sock'[worker.ls].mux = sock[worker.ls].mux
        BY <1>3, <3>1
      <4> QED
        BY <1>1, <1>3, <4>1, <4>2, <4>3, <4>4 DEF Made
    <3> QED
      BY <1>1, <1>3, <3>1, <3>2, <3>3, <3>4 DEF IInv, Working, Making
  <2> QED
    BY <2>0
<1>9. Accepting'
  BY <1>0, <1>1, <1>3 DEF IInv, Accepting, Making, MayClose, Listens, Torn
<1>10. Failures \/ AcceptorsWake'
  BY <1>0, <1>1, <1>3 DEF IInv, AcceptorsWake, Waiting, Accepting, MayClose, Torn
<1>11. Records'
  BY <1>1, <1>3 DEF IInv, Records, MadeFor
<1>12. Ending'
  <2>1. bClosing /\ orderly => Calm'
    BY <1>1, <1>2 DEF IInv, Ending, Calm, MayClose
  <2>2. gc # "running" => \A v \in DOMAIN sock : sock'[v].status # "LISTENING"
    BY <1>1 DEF IInv, Ending, MayClose
  <2>3. \A v : (\E l \in DOMAIN sock : v \in sock[l].queued) => \E l \in DOMAIN sock' : v \in sock'[l].queued
    BY <1>1, <1>3
  <2> QED
    BY <1>0, <1>1, <2>1, <2>2, <2>3 DEF IInv, Ending
<1>13. Survives'
  BY <1>0 DEF Survives
<1> QED
  BY <1>4, <1>5, <1>6, <1>7, <1>8, <1>9, <1>10, <1>11, <1>12, <1>13 DEF IInv

\* Its multiplexer stays the same.
LEMMA FlagsTurn ==
  ASSUME IInv, NEW u \in DOMAIN sock, NEW c \in CUDTSocket, sock' = [sock EXCEPT ![u] = c],
         MayTurn(sock[u], c), MayClose(u, c), c.mux = sock[u].mux,
         UNCHANGED <<Sockets, ClosedSockets, mMultiplexer, PeerRec, SocketID, worker, acceptor, owned,
                     bClosing, gc, cleanups>>,
         GoesOn
  PROVE  IInv'
<1>1. /\ DOMAIN sock' = DOMAIN sock /\ sock'[u] = c
      /\ \A v \in DOMAIN sock \ {u} : sock'[v] = sock[v]
  BY DEF IInv, Shape
<1>2. \A v \in DOMAIN sock : sock'[v].mux = sock[v].mux /\ (Listens(v) => Listens(v)')
  BY <1>1 DEF MayTurn, Listens
<1>3. \A m : {v \in DOMAIN sock' : sock'[v].mux = m} = {v \in DOMAIN sock : sock[v].mux = m}
  BY <1>1, <1>2
<1>4. RefCountExact'
  BY <1>1, <1>2, <1>3 DEF IInv, Multiplexers, RefCountExact
<1>5. Multiplexers'
  BY <1>2, <1>4 DEF IInv, Multiplexers, Listens
<1> QED
  BY <1>5, SocketTurns DEF IInv, Shape

LEMMA SendStep ==
  ASSUME IInv, NEW u \in Ids, Send(u)
  PROVE  IInv'
<1> DEFINE c == [sock[u] EXCEPT !.unsent = TRUE]
<1>1. u \in DOMAIN sock /\ sock[u] \in CUDTSocket
  BY DEF IInv, TypeOK, Send, Known
<1>2. /\ c \in CUDTSocket /\ Alike(sock[u], c)
      /\ c.broken = sock[u].broken /\ c.locked = sock[u].locked
  BY <1>1 DEF CUDTSocket, Alike
<1>3. sock' = [sock EXCEPT ![u] = c]
  BY DEF Send
<1> HIDE DEF c
<1>4. MayTurn(sock[u], c) /\ MayClose(u, c)
  BY <1>1, <1>2 DEF Alike, MayTurn, MayClose, Send, IInv, Places, AppOnly
<1> QED
  BY <1>1, <1>2, <1>3, <1>4, FlagsTurn DEF Alike, Send, AppOnly

LEMMA ConnectFails ==
  ASSUME IInv, NEW u \in Ids, connectFails(u)
  PROVE  IInv'
<1> DEFINE c == [sock[u] EXCEPT !.status = "OPENED", !.locked = FALSE]
<1>1. u \in DOMAIN sock \ closers /\ sock[u] \in CUDTSocket
  BY DEF IInv, TypeOK, connectFails
<1>2. /\ c \in CUDTSocket /\ c.queued = sock[u].queued /\ c.listenSocket = sock[u].listenSocket
      /\ c.mux = sock[u].mux /\ c.backLog = sock[u].backLog /\ c.status = "OPENED"
      /\ c.broken = sock[u].broken /\ c.connected = sock[u].connected
  BY <1>1 DEF CUDTSocket, Status
<1>3. sock' = [sock EXCEPT ![u] = c]
  BY DEF connectFails
<1> HIDE DEF c
<1>4. MayTurn(sock[u], c) /\ MayClose(u, c)
  BY <1>1, <1>2 DEF Alike, MayTurn, MayClose, connectFails, IInv, Places, AppOnly
<1> QED
  BY <1>1, <1>2, <1>3, <1>4, FlagsTurn DEF Alike, connectFails, AppOnly

LEMMA ConnectCompletes ==
  ASSUME IInv, NEW u \in Ids, connect_complete(u)
  PROVE  IInv'
<1> DEFINE c == [sock[u] EXCEPT !.status = "CONNECTED", !.connected = TRUE, !.onList = TRUE, !.locked = FALSE]
<1>1. u \in DOMAIN sock \ closers /\ sock[u] \in CUDTSocket
  BY DEF IInv, TypeOK, connect_complete
<1>2. /\ c \in CUDTSocket /\ c.queued = sock[u].queued /\ c.listenSocket = sock[u].listenSocket
      /\ c.mux = sock[u].mux /\ c.backLog = sock[u].backLog /\ c.status = "CONNECTED"
      /\ c.broken = sock[u].broken
  BY <1>1 DEF CUDTSocket, Status
<1>3. sock' = [sock EXCEPT ![u] = c]
  BY DEF connect_complete
<1> HIDE DEF c
<1>4. MayTurn(sock[u], c) /\ MayClose(u, c)
  BY <1>1, <1>2 DEF Alike, MayTurn, MayClose, connect_complete, IInv, Places, AppOnly
<1> QED
  BY <1>1, <1>2, <1>3, <1>4, FlagsTurn DEF Alike, connect_complete, AppOnly

LEMMA Breaks ==
  ASSUME IInv, NEW u \in Ids, breaks(u)
  PROVE  IInv'
<1> DEFINE c == [sock[u] EXCEPT !.broken = TRUE, !.closing = TRUE]
<1>1. u \in DOMAIN sock /\ sock[u] \in CUDTSocket /\ sock[u].connected
  BY DEF IInv, TypeOK, breaks, Served
<1>2. c \in CUDTSocket /\ Alike(sock[u], c) /\ c.broken /\ c.locked = sock[u].locked
  BY <1>1 DEF CUDTSocket, Alike
<1>3. sock' = [sock EXCEPT ![u] = c]
  BY DEF breaks
<1> HIDE DEF c
<1>4. ~ (Making /\ u = worker.ns)
  BY DEF IInv, Working, Making, Made, breaks, Served
<1>5. MayTurn(sock[u], c) /\ MayClose(u, c)
  BY <1>1, <1>2, <1>4 DEF Alike, MayTurn, MayClose, breaks, IInv, Places, WorkerTurn, WorkerOnly
<1> QED
  BY <1>1, <1>2, <1>3, <1>5, FlagsTurn DEF Alike, breaks, WorkerTurn, WorkerOnly

LEMMA Drains ==
  ASSUME IInv, NEW u \in Ids, drains(u)
  PROVE  IInv'
<1> DEFINE c == [sock[u] EXCEPT !.unsent = FALSE]
<1>1. u \in DOMAIN sock /\ sock[u] \in CUDTSocket
  BY DEF IInv, TypeOK, drains, Served
<1>2. /\ c \in CUDTSocket /\ Alike(sock[u], c)
      /\ c.broken = sock[u].broken /\ c.locked = sock[u].locked
  BY <1>1 DEF CUDTSocket, Alike
<1>3. sock' = [sock EXCEPT ![u] = c]
  BY DEF drains
<1> HIDE DEF c
<1>4. MayTurn(sock[u], c) /\ MayClose(u, c)
  BY <1>1, <1>2 DEF Alike, MayTurn, MayClose, drains, IInv, Places, WorkerTurn, WorkerOnly
<1> QED
  BY <1>1, <1>2, <1>3, <1>4, FlagsTurn DEF Alike, drains, WorkerTurn, WorkerOnly

LEMMA LeavesList ==
  ASSUME IInv, NEW u \in Ids, leavesList(u)
  PROVE  IInv'
<1> DEFINE c == [sock[u] EXCEPT !.onList = FALSE]
<1>1. u \in DOMAIN sock /\ sock[u] \in CUDTSocket
  BY DEF IInv, TypeOK, leavesList, Served
<1>2. /\ c \in CUDTSocket /\ Alike(sock[u], c)
      /\ c.broken = sock[u].broken /\ c.locked = sock[u].locked
  BY <1>1 DEF CUDTSocket, Alike
<1>3. sock' = [sock EXCEPT ![u] = c]
  BY DEF leavesList
<1> HIDE DEF c
<1>4. MayTurn(sock[u], c) /\ MayClose(u, c)
  BY <1>1, <1>2 DEF Alike, MayTurn, MayClose, leavesList, IInv, Places, WorkerTurn, WorkerOnly
<1> QED
  BY <1>1, <1>2, <1>3, <1>4, FlagsTurn DEF Alike, leavesList, WorkerTurn, WorkerOnly

\* CUDT::close changes flags only.
LEMMA Shutting ==
  ASSUME NEW d \in CUDTSocket
  PROVE  Shut(d) \in CUDTSocket /\ Alike(d, Shut(d)) /\ Shut(d).broken = d.broken /\ Shut(d).locked = d.locked
BY ZenonT(60) DEF Shut, CUDTSocket, Alike

\* As long as sockets stay alike, and do not move, the tables agree.
LEMMA TablesStay ==
  ASSUME IInv, DOMAIN sock' = DOMAIN sock, sock' \in [DOMAIN sock' -> CUDTSocket],
         \A v \in DOMAIN sock : /\ Alike(sock[v], sock'[v]) /\ sock'[v].locked = sock[v].locked
                                /\ sock[v].broken => sock'[v].broken,
         \A t \in Acceptors : acceptor'[t].pc = "found" => acceptor'[t] = acceptor[t],
         UNCHANGED <<Sockets, ClosedSockets, mMultiplexer, PeerRec, SocketID, closers, owned, gc, orderly>>
  PROVE  (Shape /\ IdsAreFresh /\ Places /\ Queues /\ Multiplexers /\ Records)'
<1>1. (Shape /\ IdsAreFresh)'
  BY DEF IInv, Shape, IdsAreFresh, Alike
<1>2. Places'
  BY DEF IInv, Places, Alike
<1>3. Queues'
  <2>1. \A l : Listens(l) => Listens(l)'
    BY DEF Listens, Alike
  <2>2. \A l, v : Torn \/ Came(v, l) => Torn' \/ Came(v, l)'
    BY DEF Torn, Came, Alike
  <2>3. \A l \in DOMAIN sock : sock'[l].queued = sock[l].queued /\ sock'[l].backLog = sock[l].backLog
    BY DEF Alike
  <2> QED
    BY <2>1, <2>2, <2>3 DEF IInv, Queues
<1>4. \A m : {v \in DOMAIN sock' : sock'[v].mux = m} = {v \in DOMAIN sock : sock[v].mux = m}
  BY DEF Alike
<1>5. Multiplexers'
  BY <1>4 DEF IInv, Multiplexers, RefCountExact, Listens, Alike
<1>6. Records'
  BY DEF IInv, TypeOK, Records, MadeFor, Alike
<1> QED
  BY <1>1, <1>2, <1>3, <1>5, <1>6

\* close of a listener: it is broken, and nobody waits for it any more.
LEMMA ListenerCloses ==
  ASSUME IInv, NEW u \in Ids, close(u), sock[u].status = "LISTENING"
  PROVE  IInv'
<1> DEFINE c == [sock[u] EXCEPT !.broken = TRUE]
<1>1. u \in DOMAIN sock /\ sock[u] \in CUDTSocket /\ u \in owned
  BY DEF IInv, TypeOK, close, Call, Known
<1>2. c \in CUDTSocket /\ Alike(sock[u], c) /\ c.broken /\ c.locked = sock[u].locked
  BY <1>1 DEF CUDTSocket, Alike
<1>3. /\ sock' = [sock EXCEPT ![u] = c] /\ acceptor' = Woken(u)
      /\ UNCHANGED <<Sockets, ClosedSockets, mMultiplexer, PeerRec, SocketID, worker, closers, owned,
                     bClosing, gc, cleanups, orderly, fate>>
      /\ ~ bClosing /\ fate = "runs"
  BY DEF close, Call, InUse, GoesOn, process
<1> HIDE DEF c
<1>4. /\ DOMAIN sock' = DOMAIN sock /\ sock'[u] = c /\ sock' \in [DOMAIN sock' -> CUDTSocket]
      /\ \A v \in DOMAIN sock \ {u} : sock'[v] = sock[v]
  BY <1>1, <1>2, <1>3 DEF IInv, Shape
<1>5. \A v \in DOMAIN sock : /\ Alike(sock[v], sock'[v]) /\ sock'[v].locked = sock[v].locked
                             /\ sock[v].broken => sock'[v].broken
  BY <1>1, <1>2, <1>4 DEF Alike
<1>6. /\ \A t \in Acceptors : \/ acceptor'[t] = acceptor[t] /\ ~ (acceptor[t].pc = "waiting" /\ acceptor[t].ls = u)
                              \/ /\ acceptor[t].pc = "waiting" /\ acceptor[t].ls = u
                                 /\ acceptor'[t].pc = "ready"
                                 /\ acceptor'[t].ls = acceptor[t].ls /\ acceptor'[t].u = acceptor[t].u
      /\ acceptor' \in [Acceptors -> [pc : {"idle", "ready", "waiting", "found"},
                                      ls : Ids \cup {None}, u : Ids \cup {None}]]
  BY <1>3 DEF Woken, IInv, TypeOK
<1>7. TypeOK'
  BY <1>3, <1>4, <1>6 DEF IInv, TypeOK
<1>8. (Shape /\ IdsAreFresh /\ Places /\ Queues /\ Multiplexers /\ Records)'
  <2>1. \A t \in Acceptors : acceptor'[t].pc = "found" => acceptor'[t] = acceptor[t]
    BY <1>6
  <2> QED
    BY <1>3, <1>4, <1>5, <2>1, TablesStay
<1>9. Working'
  <2>1. \A p : MadeFor(p)' = MadeFor(p)
    BY <1>3 DEF MadeFor
  <2>2. ASSUME worker.pc # "idle"
        PROVE  /\ worker.peer \in Peers /\ Listens(worker.ls) /\ worker.ls \in DOMAIN sock
               /\ Making => worker.ns # u /\ Made(worker.ns) /\ worker.ns \in DOMAIN sock
    BY <1>1, <2>2 DEF IInv, Working, Making, Made, Listens
  <2>3. ASSUME worker.pc # "idle", Making
        PROVE  Made(worker.ns)'
    BY <1>3, <1>4, <1>5, <2>2, <2>3 DEF Made, Alike
  <2>4. \A p : \A v \in MadeFor(p) : v \in DOMAIN sock
    BY DEF MadeFor, IInv, TypeOK
  <2>5. \A v \in DOMAIN sock : Listens(v) => Listens(v)'
    BY <1>4, <1>5 DEF Listens, Alike
  <2> QED
    BY <1>3, <1>4, <1>5, <2>1, <2>2, <2>3, <2>4, <2>5 DEF IInv, Working, Making, Alike
<1>10. Accepting'
  <2>1. \A v \in DOMAIN sock : Listens(v) => Listens(v)'
    BY <1>4, <1>5 DEF Listens, Alike
  <2> QED
    BY <1>3, <1>4, <1>5, <1>6, <2>1 DEF IInv, Accepting, Listens, Making, Alike, Torn
<1>11. Failures \/ AcceptorsWake'
  <2> SUFFICES ASSUME ~ Failures, ~ Torn', NEW l \in DOMAIN sock, Waiting(l)' # {}
               PROVE  /\ ~ sock'[l].broken
                      /\ Cardinality(sock'[l].queued) <=
                           Cardinality({t \in Acceptors : acceptor'[t].pc = "ready" /\ acceptor'[t].ls = l})
                           + IF worker'.pc = "signal" /\ worker'.ls = l THEN 1 ELSE 0
    BY <1>4 DEF AcceptorsWake
  <2>1. l # u /\ Waiting(l) # {} /\ ~ Torn
    BY <1>3, <1>6 DEF Waiting, Torn
  <2>2. {t \in Acceptors : acceptor'[t].pc = "ready" /\ acceptor'[t].ls = l}
          = {t \in Acceptors : acceptor[t].pc = "ready" /\ acceptor[t].ls = l}
    BY <1>6, <2>1
  <2> QED
    BY <1>3, <1>4, <2>1, <2>2 DEF IInv, AcceptorsWake
<1>12. Ending' /\ Survives'
  BY <1>3, <1>4 DEF IInv, Ending, Survives
<1> QED
  BY <1>7, <1>8, <1>9, <1>10, <1>11, <1>12 DEF IInv

\* close, up to m_ControlLock.
LEMMA Closes ==
  ASSUME IInv, NEW u \in Ids, close(u)
  PROVE  IInv'
<1> DEFINE s == Shut(sock[u])
           c == [s EXCEPT !.locked = TRUE]
<1>1. CASE sock[u].status = "LISTENING"
  BY <1>1, ListenerCloses
<1>2. CASE sock[u].status # "LISTENING"
  <2>1. u \in DOMAIN sock /\ sock[u] \in CUDTSocket /\ u \in owned /\ ~ bClosing
    BY DEF IInv, TypeOK, close, Call, Known, InUse
  <2>2. s \in CUDTSocket /\ Alike(sock[u], s) /\ s.broken = sock[u].broken
    BY <2>1, Shutting
  <2> HIDE DEF s
  <2>3. c \in CUDTSocket /\ Alike(sock[u], c) /\ c.broken = sock[u].broken /\ c.locked
    BY <2>2 DEF CUDTSocket, Alike
  <2>4. sock' = [sock EXCEPT ![u] = c] /\ closers' = closers \cup {u}
    BY <1>2 DEF close, s
  <2> HIDE DEF c
  <2>5. MayTurn(sock[u], c) /\ MayClose(u, c)
    BY <1>2, <2>1, <2>3, <2>4 DEF Alike, MayTurn, MayClose
  <2> QED
    BY <1>2, <2>1, <2>3, <2>4, <2>5, FlagsTurn DEF Alike, close
<1> QED
  BY <1>1, <1>2

\* One more socket uses multiplexer m.
LEMMA Joining ==
  ASSUME IInv, NEW u \in Ids, NEW m \in DOMAIN mMultiplexer, u \notin DOMAIN sock \/ sock[u].mux = None,
         DOMAIN sock' = DOMAIN sock \cup {u}, sock'[u].mux = m,
         \A v \in DOMAIN sock \ {u} : sock'[v].mux = sock[v].mux,
         \A v \in DOMAIN sock : Listens(v) => Listens(v)',
         mMultiplexer' = Joined(m)
  PROVE  /\ Multiplexers' /\ DOMAIN mMultiplexer' = DOMAIN mMultiplexer
         /\ mMultiplexer' \in [DOMAIN mMultiplexer' -> CMultiplexer]
<1>1. /\ DOMAIN sock \subseteq Ids /\ DOMAIN mMultiplexer \subseteq Ids /\ m # None
      /\ RefCountExact /\ mMultiplexer \in [DOMAIN mMultiplexer -> CMultiplexer]
  BY DEF IInv, TypeOK, Multiplexers, Shape, Ids, None
<1>2. u \notin Users(m) /\ Users(m) \in SUBSET Ids /\ Users(m)' \in SUBSET Ids
  BY <1>1 DEF Users
<1>3. Users(m)' = Users(m) \cup {u}
  BY DEF Users
<1>4. \A n \in DOMAIN mMultiplexer \ {m} : Users(n)' = Users(n)
  BY <1>1 DEF Users, Ids, None
<1>5. Cardinality(Users(m)') = mMultiplexer[m].refCount + 1 /\ Cardinality(Users(m)') \in 0 .. MaxSockets
  <2>1. Cardinality(Users(m)') = Cardinality(Users(m)) + 1
    BY <1>2, <1>3, IdsAreFinite, FS_AddElement
  <2>2. Cardinality(Users(m)) = mMultiplexer[m].refCount
    BY <1>1 DEF RefCountExact, Users
  <2> QED
    BY <1>2, <2>1, <2>2, IdsAreFinite
<1>6. mMultiplexer[m].refCount + 1 \in 1 .. MaxSockets
  BY <1>1, <1>5, SocketLifeAssumption DEF CMultiplexer
<1>7. /\ DOMAIN mMultiplexer' = DOMAIN mMultiplexer
      /\ mMultiplexer' \in [DOMAIN mMultiplexer' -> CMultiplexer]
      /\ mMultiplexer'[m].refCount = mMultiplexer[m].refCount + 1
      /\ \A n \in DOMAIN mMultiplexer \ {m} : mMultiplexer'[n].refCount = mMultiplexer[n].refCount
      /\ \A n \in DOMAIN mMultiplexer : mMultiplexer'[n].listener = mMultiplexer[n].listener
  BY <1>1, <1>6 DEF Joined, CMultiplexer
<1>8. RefCountExact'
  <2>1. \A n \in DOMAIN mMultiplexer : mMultiplexer'[n].refCount = Cardinality(Users(n)')
    BY <1>1, <1>4, <1>5, <1>7, ZenonT(60) DEF RefCountExact, Users
  <2>2. \A v \in DOMAIN sock' : sock'[v].mux # None => sock'[v].mux \in DOMAIN mMultiplexer
    BY <1>1 DEF RefCountExact
  <2> QED
    BY <1>7, <2>1, <2>2 DEF RefCountExact, Users
<1>9. Multiplexers'
  BY <1>7, <1>8 DEF IInv, Multiplexers, Listens
<1> QED
  BY <1>7, <1>9

\* u makes a multiplexer of its own.
LEMMA MakingMux ==
  ASSUME IInv, NEW u \in DOMAIN sock, sock[u].mux = None, NEW port \in Ports, NEW reuse \in BOOLEAN,
         DOMAIN sock' = DOMAIN sock, sock'[u].mux = u,
         \A v \in DOMAIN sock \ {u} : sock'[v].mux = sock[v].mux,
         \A v \in DOMAIN sock : Listens(v) => Listens(v)',
         mMultiplexer' = With(mMultiplexer, u, NewMux(port, reuse))
  PROVE  /\ Multiplexers' /\ DOMAIN mMultiplexer' = DOMAIN mMultiplexer \cup {u}
         /\ mMultiplexer' \in [DOMAIN mMultiplexer' -> CMultiplexer]
<1>1. /\ DOMAIN sock \subseteq Ids /\ DOMAIN mMultiplexer \subseteq Ids /\ u # None
      /\ RefCountExact /\ mMultiplexer \in [DOMAIN mMultiplexer -> CMultiplexer]
      /\ u \notin DOMAIN mMultiplexer
  BY DEF IInv, TypeOK, Multiplexers, Shape, Places, Ids, None
<1>2. Users(u)' = {u}
  BY <1>1 DEF Users, RefCountExact
<1>3. \A n \in DOMAIN mMultiplexer : Users(n)' = Users(n)
  BY <1>1 DEF Users, Ids, None
<1>4. NewMux(port, reuse) \in CMultiplexer
  BY SocketLifeAssumption DEF NewMux, CMultiplexer
<1>5. /\ DOMAIN mMultiplexer' = DOMAIN mMultiplexer \cup {u}
      /\ mMultiplexer'[u] = NewMux(port, reuse)
      /\ \A n \in DOMAIN mMultiplexer : mMultiplexer'[n] = mMultiplexer[n]
      /\ mMultiplexer' \in [DOMAIN mMultiplexer' -> CMultiplexer]
  BY <1>1, <1>4 DEF With
<1>6. mMultiplexer'[u].refCount = 1 /\ mMultiplexer'[u].listener = None
  BY <1>5 DEF NewMux
<1>7. RefCountExact'
  <2>1. \A n \in DOMAIN mMultiplexer' : mMultiplexer'[n].refCount = Cardinality(Users(n)')
    <3>1. mMultiplexer'[u].refCount = Cardinality(Users(u)')
      BY <1>2, <1>6, FS_Singleton
    <3>2. \A n \in DOMAIN mMultiplexer : mMultiplexer'[n].refCount = Cardinality(Users(n)')
      BY <1>1, <1>3, <1>5 DEF RefCountExact, Users
    <3> QED
      BY <1>5, <3>1, <3>2
  <2>2. \A v \in DOMAIN sock' : sock'[v].mux # None => sock'[v].mux \in DOMAIN mMultiplexer'
    BY <1>1, <1>5 DEF RefCountExact
  <2> QED
    BY <2>1, <2>2 DEF RefCountExact, Users
<1>8. Multiplexers'
  BY <1>5, <1>6, <1>7 DEF IInv, Multiplexers, Listens
<1> QED
  BY <1>5, <1>8

\* bind, or connect without it: the status and the multiplexer of a new socket change.
LEMMA Opening ==
  ASSUME NEW d \in CUDTSocket, NEW m \in Ids, d.status = "INIT", d.mux = None,
         NEW c \in CUDTSocket, c.queued = d.queued, c.listenSocket = d.listenSocket, c.backLog = d.backLog,
         c.status \in {"OPENED", "CONNECTING"}, c.mux = m, c.connected = d.connected, c.broken = d.broken
  PROVE  MayTurn(d, c) /\ c.mux # None
BY DEF MayTurn, Ids, None

LEMMA Binds ==
  ASSUME IInv, NEW u \in Ids, NEW reuse \in BOOLEAN, bind(u, reuse)
  PROVE  IInv'
<1>1. /\ u \in DOMAIN sock /\ sock[u] \in CUDTSocket /\ sock[u].status = "INIT"
      /\ sock[u].mux = None /\ ~ sock[u].locked /\ u \notin closers
      /\ UNCHANGED <<Sockets, ClosedSockets, PeerRec, closers>> /\ AppOnly
  BY DEF IInv, TypeOK, Places, bind, Call, Known
<1>2. ASSUME NEW m \in Ids, sock' = [sock EXCEPT ![u] = Opened(@, m)]
      PROVE  \E c \in CUDTSocket :
               /\ sock' = [sock EXCEPT ![u] = c] /\ MayTurn(sock[u], c) /\ MayClose(u, c) /\ c.mux = m
               /\ DOMAIN sock' = DOMAIN sock /\ sock'[u].mux = m
               /\ \A v \in DOMAIN sock \ {u} : sock'[v].mux = sock[v].mux
               /\ \A v \in DOMAIN sock : Listens(v) => Listens(v)'
  <2>1. PICK c : c = Opened(sock[u], m)
    OBVIOUS
  <2>2. /\ c \in CUDTSocket /\ c.queued = sock[u].queued /\ c.listenSocket = sock[u].listenSocket
        /\ c.backLog = sock[u].backLog /\ c.status = "OPENED" /\ c.mux = m
        /\ c.connected = sock[u].connected /\ c.broken = sock[u].broken
    BY <1>1, <2>1 DEF Opened, CUDTSocket, Status
  <2>3. MayTurn(sock[u], c)
    BY <1>1, <2>2, Opening
  <2>4. MayClose(u, c)
    BY <1>1, <2>2 DEF MayClose
  <2>5. /\ sock' = [sock EXCEPT ![u] = c] /\ DOMAIN sock' = DOMAIN sock /\ sock'[u] = c
        /\ \A v \in DOMAIN sock \ {u} : sock'[v] = sock[v]
    BY <1>1, <1>2, <2>1 DEF IInv, Shape
  <2>6. \A v \in DOMAIN sock : Listens(v) => Listens(v)'
    BY <1>1, <2>5 DEF Listens
  <2> QED
    BY <2>2, <2>3, <2>4, <2>5, <2>6
<1>3. CASE \E m \in Shared("named", reuse) :
             mMultiplexer' = Joined(m) /\ sock' = [sock EXCEPT ![u] = Opened(@, m)]
  <2>1. PICK m \in DOMAIN mMultiplexer \cap Ids :
               mMultiplexer' = Joined(m) /\ sock' = [sock EXCEPT ![u] = Opened(@, m)]
    BY <1>3 DEF Shared, IInv, TypeOK
  <2>2. PICK c \in CUDTSocket :
               /\ sock' = [sock EXCEPT ![u] = c] /\ MayTurn(sock[u], c) /\ MayClose(u, c) /\ c.mux = m
               /\ DOMAIN sock' = DOMAIN sock /\ sock'[u].mux = m
               /\ \A v \in DOMAIN sock \ {u} : sock'[v].mux = sock[v].mux
               /\ \A v \in DOMAIN sock : Listens(v) => Listens(v)'
    BY <1>2, <2>1
  <2>3. /\ Multiplexers' /\ DOMAIN mMultiplexer' = DOMAIN mMultiplexer
        /\ mMultiplexer' \in [DOMAIN mMultiplexer' -> CMultiplexer]
    BY <1>1, <2>1, <2>2, Joining
  <2> QED
    BY <1>1, <2>2, <2>3, SocketTurns DEF AppOnly
<1>4. CASE /\ mMultiplexer' = With(mMultiplexer, u, NewMux("named", reuse))
           /\ sock' = [sock EXCEPT ![u] = Opened(@, u)]
  <2>1. PICK c \in CUDTSocket :
               /\ sock' = [sock EXCEPT ![u] = c] /\ MayTurn(sock[u], c) /\ MayClose(u, c) /\ c.mux = u
               /\ DOMAIN sock' = DOMAIN sock /\ sock'[u].mux = u
               /\ \A v \in DOMAIN sock \ {u} : sock'[v].mux = sock[v].mux
               /\ \A v \in DOMAIN sock : Listens(v) => Listens(v)'
    BY <1>2, <1>4
  <2>2. /\ Multiplexers' /\ DOMAIN mMultiplexer' = DOMAIN mMultiplexer \cup {u}
        /\ mMultiplexer' \in [DOMAIN mMultiplexer' -> CMultiplexer]
    BY <1>1, <1>4, <2>1, MakingMux DEF Ports
  <2>3. c.mux # None
    BY <2>1 DEF Ids, None
  <2> QED
    BY <1>1, <2>1, <2>2, <2>3, SocketTurns DEF AppOnly
<1>5. CASE sock' = [sock EXCEPT ![u].opened = TRUE] /\ UNCHANGED mMultiplexer
  <2> DEFINE c == [sock[u] EXCEPT !.opened = TRUE]
  <2>1. /\ c \in CUDTSocket /\ Alike(sock[u], c)
        /\ c.broken = sock[u].broken /\ c.locked = sock[u].locked
    BY <1>1 DEF CUDTSocket, Alike
  <2>2. sock' = [sock EXCEPT ![u] = c]
    BY <1>5
  <2> HIDE DEF c
  <2>3. MayTurn(sock[u], c) /\ MayClose(u, c)
    BY <1>1, <2>1 DEF Alike, MayTurn, MayClose
  <2> QED
    BY <1>1, <1>5, <2>1, <2>2, <2>3, FlagsTurn DEF Alike, AppOnly
<1> QED
  BY <1>3, <1>4, <1>5 DEF bind

LEMMA Connects ==
  ASSUME IInv, NEW u \in Ids, NEW blocks \in BOOLEAN, connect(u, blocks)
  PROVE  IInv'
<1>1. /\ u \in DOMAIN sock /\ sock[u] \in CUDTSocket /\ sock[u].status \in {"INIT", "OPENED"}
      /\ ~ sock[u].locked /\ u \notin closers
      /\ ~ bClosing /\ UNCHANGED <<Sockets, ClosedSockets, PeerRec, closers>> /\ AppOnly
  BY DEF IInv, TypeOK, Places, connect, Call, Known, InUse
<1>2. CASE sock[u].status = "INIT"
  <2>1. sock[u].mux = None
    BY <1>1, <1>2 DEF IInv, Places
  <2>2. /\ mMultiplexer' = With(mMultiplexer, u, NewMux("fresh", TRUE))
        /\ sock' = [sock EXCEPT ![u] =
             [Opened(sock[u], u) EXCEPT !.status = "CONNECTING", !.locked = blocks]]
    BY <1>1, <1>2 DEF connect
  <2>3. PICK c : c = [Opened(sock[u], u) EXCEPT !.status = "CONNECTING", !.locked = blocks]
    OBVIOUS
  <2>4. /\ c \in CUDTSocket /\ c.queued = sock[u].queued /\ c.listenSocket = sock[u].listenSocket
        /\ c.backLog = sock[u].backLog /\ c.status = "CONNECTING" /\ c.mux = u
        /\ c.connected = sock[u].connected /\ c.broken = sock[u].broken
        /\ sock' = [sock EXCEPT ![u] = c]
    BY <1>1, <2>2, <2>3 DEF Opened, CUDTSocket, Status
  <2>5. MayTurn(sock[u], c) /\ MayClose(u, c) /\ c.mux # None
    BY <1>1, <1>2, <2>1, <2>4, Opening DEF MayClose
  <2>6. /\ DOMAIN sock' = DOMAIN sock /\ sock'[u] = c
        /\ \A v \in DOMAIN sock \ {u} : sock'[v] = sock[v]
    BY <1>1, <2>4 DEF IInv, Shape
  <2>7. \A v \in DOMAIN sock : Listens(v) => Listens(v)'
    BY <1>1, <2>6 DEF Listens
  <2>8. /\ Multiplexers' /\ DOMAIN mMultiplexer' = DOMAIN mMultiplexer \cup {u}
        /\ mMultiplexer' \in [DOMAIN mMultiplexer' -> CMultiplexer]
    BY <1>1, <2>1, <2>2, <2>4, <2>6, <2>7, MakingMux DEF Ports
  <2> QED
    BY <1>1, <2>4, <2>5, <2>8, SocketTurns DEF AppOnly
<1>3. CASE sock[u].status = "OPENED"
  <2> DEFINE c == [sock[u] EXCEPT !.status = "CONNECTING", !.locked = blocks]
  <2>1. sock[u].mux # None
    BY <1>1, <1>3 DEF IInv, Places
  <2>2. /\ c \in CUDTSocket /\ MayTurn(sock[u], c) /\ c.mux = sock[u].mux /\ c.status = "CONNECTING"
        /\ c.broken = sock[u].broken
    BY <1>1, <1>3, <2>1 DEF CUDTSocket, Status, MayTurn
  <2>3. sock' = [sock EXCEPT ![u] = c] /\ UNCHANGED mMultiplexer
    BY <1>1, <1>3 DEF connect
  <2> HIDE DEF c
  <2>4. MayClose(u, c)
    BY <1>1, <2>2 DEF MayClose
  <2> QED
    BY <1>1, <2>2, <2>3, <2>4, FlagsTurn DEF AppOnly
<1> QED
  BY <1>1, <1>2, <1>3

LEMMA ListenStep ==
  ASSUME IInv, NEW u \in Ids, NEW backLog \in 1 .. MaxBackLog, listen(u, backLog)
  PROVE  IInv'
<1> DEFINE c == [sock[u] EXCEPT !.status = "LISTENING", !.backLog = backLog]
           mux == sock[u].mux
<1>1. /\ u \in DOMAIN sock /\ u \in Sockets /\ sock[u] \in CUDTSocket /\ sock[u].status = "OPENED"
      /\ ~ sock[u].locked /\ u \notin closers
      /\ sock[u].listenSocket = None /\ ~ bClosing
      /\ UNCHANGED <<Sockets, ClosedSockets, PeerRec, closers>> /\ AppOnly
  BY DEF IInv, TypeOK, Places, listen, Call, Known, InUse
<1>2. mux \in DOMAIN mMultiplexer /\ mux # None
  BY <1>1 DEF IInv, Places, Multiplexers, RefCountExact
<1>3. /\ c \in CUDTSocket /\ c.queued = sock[u].queued /\ c.listenSocket = sock[u].listenSocket
      /\ c.status = "LISTENING" /\ c.mux = mux
      /\ c.connected = sock[u].connected /\ c.broken = sock[u].broken
  <2>1. backLog \in 0 .. MaxBackLog /\ "LISTENING" \in Status
    BY SocketLifeAssumption DEF Status
  <2> QED
    BY <1>1, <2>1 DEF CUDTSocket
<1>4. /\ sock' = [sock EXCEPT ![u] = c]
      /\ mMultiplexer' = [mMultiplexer EXCEPT ![mux].listener = u]
  BY DEF listen
<1> HIDE DEF c
<1>5. MayTurn(sock[u], c) /\ MayClose(u, c)
  BY <1>1, <1>2, <1>3 DEF MayTurn, MayClose
<1>6. /\ DOMAIN sock' = DOMAIN sock /\ sock'[u] = c
      /\ \A v \in DOMAIN sock \ {u} : sock'[v] = sock[v]
  BY <1>1, <1>4 DEF IInv, Shape
<1>7. /\ DOMAIN mMultiplexer' = DOMAIN mMultiplexer
      /\ mMultiplexer' \in [DOMAIN mMultiplexer' -> CMultiplexer]
      /\ \A m \in DOMAIN mMultiplexer :
           /\ mMultiplexer'[m].refCount = mMultiplexer[m].refCount
           /\ mMultiplexer'[m].listener \in {mMultiplexer[m].listener, u}
  BY <1>2, <1>4 DEF IInv, Shape, CMultiplexer
<1>8. \A m : {v \in DOMAIN sock' : sock'[v].mux = m} = {v \in DOMAIN sock : sock[v].mux = m}
  BY <1>3, <1>6
<1>9. RefCountExact'
  BY <1>3, <1>6, <1>7, <1>8 DEF IInv, Multiplexers, RefCountExact
<1>10. Multiplexers'
  BY <1>1, <1>3, <1>6, <1>7, <1>9 DEF IInv, Multiplexers, Listens
<1> QED
  BY <1>1, <1>3, <1>4, <1>5, <1>7, <1>10, SocketTurns DEF AppOnly

-----------------------------------------------------------------------------
(* Steps that close some sockets and delete others                          *)

\* What becomes of a socket v when those of R are closed.
MaySweep(v, R) ==
  /\ sock'[v].mux = sock[v].mux /\ sock'[v].listenSocket = sock[v].listenSocket
  /\ sock'[v].backLog = sock[v].backLog
  /\ sock'[v].queued \subseteq sock[v].queued /\ sock[v].queued \ R \subseteq sock'[v].queued
  /\ Torn \/ sock'[v].queued \cap R = {}
  /\ v \in R => sock'[v].status = "CLOSED"
  /\ v \notin R => sock'[v].status = sock[v].status /\ sock'[v].broken = sock[v].broken
  /\ sock[v].broken => sock'[v].broken
  /\ sock'[v].connected => sock[v].connected

\* Nobody in the middle of an operation relies on a socket that is closed or deleted.
MayGo(R, D) ==
  /\ \A v \in R : /\ gc' = "running" => ~ (Making /\ v = worker.ns)
                  /\ Torn' \/ \A t \in Acceptors : acceptor[t].pc = "waiting" => acceptor[t].ls # v
  /\ \A v \in D : ~ InHand(v) /\ sock[v].queued \subseteq R
  /\ closers' \subseteq closers /\ \A v \in closers' : sock'[v].locked

LEMMA Sweeps ==
  ASSUME IInv, NEW R \in SUBSET Sockets, NEW D \in SUBSET ClosedSockets,
         DOMAIN sock' = DOMAIN sock \ D, sock' \in [DOMAIN sock' -> CUDTSocket],
         \A v \in DOMAIN sock' : MaySweep(v, R), MayGo(R, D),
         Sockets' = Sockets \ R, ClosedSockets' = (ClosedSockets \cup R) \ D,
         PeerRec' = {r \in PeerRec : r[2] \notin D},
         mMultiplexer' \in [DOMAIN mMultiplexer' -> CMultiplexer],
         DOMAIN mMultiplexer' \subseteq DOMAIN mMultiplexer, Multiplexers',
         \/ gc' = gc /\ (gc = "done" => R = {})
         \/ gc = "running" /\ gc' = "final" /\ bClosing /\ R = Sockets /\ D = {},
         UNCHANGED <<SocketID, worker, acceptor, owned, bClosing, cleanups>>, GoesOn
  PROVE  IInv'
<1>0. fate = "runs" /\ fate' = fate /\ orderly' = orderly /\ (Torn => Torn')
  BY DEF GoesOn, process, Torn
<1>1. /\ DOMAIN sock \subseteq Ids /\ Sockets \subseteq DOMAIN sock /\ ClosedSockets \subseteq DOMAIN sock
      /\ Sockets \cap ClosedSockets = {}
  BY DEF IInv, TypeOK, Places
<1>2. TypeOK'
  BY <1>0, <1>1 DEF IInv, TypeOK, MayGo
<1>3. (Shape /\ IdsAreFresh)'
  <2>1. \A l \in DOMAIN sock' : sock'[l].queued \subseteq sock[l].queued
    BY DEF MaySweep
  <2> QED
    BY <2>1 DEF IInv, Shape, IdsAreFresh
<1>4. Places'
  <2>1. (Sockets \cap ClosedSockets = {})'
    BY <1>1
  <2>2. \A v \in closers' : v \in DOMAIN sock' /\ v \in owned /\ sock'[v].locked /\ sock'[v].status # "LISTENING"
    BY <1>1 DEF IInv, Places, MayGo, MaySweep, InHand
  <2>3. \A v \in DOMAIN sock' :
          /\ sock'[v].status = "LISTENING" => v \in Sockets'
          /\ sock'[v].status = "CLOSED" /\ sock'[v].listenSocket = None => v \in ClosedSockets'
          /\ sock'[v].status = "INIT" => sock'[v].mux = None
          /\ sock'[v].status \in {"OPENED", "CONNECTING"} => sock'[v].mux # None
          /\ sock'[v].mux = None => v \notin DOMAIN mMultiplexer'
          /\ sock'[v].connected => sock'[v].status \in {"CONNECTED", "CLOSED"}
          /\ sock'[v].listenSocket # None => sock'[v].status \in {"CONNECTED", "CLOSED"}
    BY DEF IInv, Places, MaySweep
  <2> QED
    BY <2>1, <2>2, <2>3 DEF Places
<1>5. \A l \in DOMAIN sock' : Listens(l) => Listens(l)'
  BY DEF Listens, MaySweep
<1>6. Queues'
  <2> SUFFICES ASSUME NEW l \in DOMAIN sock'
               PROVE  /\ \A v \in sock'[l].queued : v \notin owned /\ (Torn' \/ Came(v, l)')
                      /\ sock'[l].queued # {} => Listens(l)'
                      /\ Cardinality(sock'[l].queued) <= sock'[l].backLog
    BY DEF Queues
  <2>1. /\ l \in DOMAIN sock /\ sock[l].queued \in SUBSET Ids /\ sock'[l].queued \subseteq sock[l].queued
        /\ Torn' \/ sock'[l].queued \cap R = {}
        /\ sock'[l].backLog = sock[l].backLog /\ sock[l].backLog \in Nat
    BY <1>0, SocketLifeAssumption DEF IInv, Shape, CUDTSocket, MaySweep
  <2>2. Cardinality(sock'[l].queued) <= sock'[l].backLog
    BY <2>1, FewerIds DEF IInv, Queues
  <2>3. ASSUME NEW v \in sock'[l].queued
        PROVE  v \notin owned /\ (Torn' \/ Came(v, l)')
    <3>1. v \notin owned /\ (Torn' \/ Came(v, l))
      BY <1>0, <2>1 DEF IInv, Queues
    <3>2. ASSUME ~ Torn'
          PROVE  Came(v, l)'
      BY <1>1, <2>1, <3>1, <3>2 DEF Came, MaySweep
    <3> QED
      BY <3>1, <3>2
  <2> QED
    BY <1>5, <2>1, <2>2, <2>3 DEF IInv, Queues
<1>7. \A p : MadeFor(p)' \subseteq MadeFor(p)
  BY DEF MadeFor
<1>8. ASSUME NEW l \in DOMAIN sock'
      PROVE  /\ Cardinality(sock'[l].queued) <= Cardinality(sock[l].queued)
             /\ Cardinality(sock'[l].queued) \in Nat /\ Cardinality(sock[l].queued) \in Nat
             /\ sock'[l].queued \subseteq sock[l].queued
             /\ sock'[l].backLog = sock[l].backLog /\ sock[l].backLog \in Nat
  <2>1. l \in DOMAIN sock /\ sock[l].queued \in SUBSET Ids /\ sock'[l].queued \subseteq sock[l].queued
    BY DEF IInv, Shape, CUDTSocket, MaySweep
  <2>2. sock'[l].backLog = sock[l].backLog /\ sock[l].backLog \in Nat
    BY <2>1, SocketLifeAssumption DEF IInv, Shape, CUDTSocket, MaySweep
  <2> QED
    BY <2>1, <2>2, FewerIds
<1>9. Working'
  <2>0. CASE worker.pc = "idle"
    BY <2>0 DEF IInv, Working
  <2>. CASE worker.pc # "idle"
    <3>1. worker.peer \in Peers /\ Listens(worker.ls) /\ worker.ls \in DOMAIN sock'
      BY DEF IInv, Working, Listens, MayGo, InHand
    <3>2. worker.pc \in {"create", "insert", "queue"} =>
            Cardinality(sock'[worker.ls].queued) < sock'[worker.ls].backLog
      BY <1>8, <3>1 DEF IInv, Working
    <3>3. \A v \in MadeFor(worker.peer)' : v \in MadeFor(worker.peer) /\ (sock[v].broken => sock'[v].broken)
      BY <1>1, <1>7, <3>1 DEF MadeFor, IInv, Records, MaySweep
    <3>4. worker.pc \in {"insert", "queue", "rollback"} =>
            /\ worker.ns \in DOMAIN sock' /\ sock[worker.ns].listenSocket = worker.ls
            /\ sock'[worker.ns].listenSocket = worker.ls
      BY DEF IInv, Working, MayGo, InHand, MaySweep
    <3>5. ASSUME Making
          PROVE  Made(worker.ns)'
      <4>1. Made(worker.ns) /\ worker.ns \in DOMAIN sock'
        BY <3>4, <3>5 DEF IInv, Working, Making
      <4>2. /\ sock'[worker.ns].mux = sock[worker.ns].mux /\ sock'[worker.ls].mux = sock[worker.ls].mux
            /\ worker.ns \notin R => sock'[worker.ns].broken = sock[worker.ns].broken
        BY <3>1, <4>1 DEF MaySweep
      <4>3. \A l \in DOMAIN sock' : worker.ns \notin sock'[l].queued
        BY <1>8, <4>1 DEF Made
      <4>4. gc' = "running" => gc = "running" /\ worker.ns \notin R
        BY <3>5 DEF MayGo
      <4> QED
        BY <4>1, <4>2, <4>3, <4>4 DEF Made
    <3>6. \A r \in PeerRec' : r \in PeerRec
      OBVIOUS
    <3> QED
      BY <1>5, <3>1, <3>2, <3>3, <3>4, <3>5, <3>6 DEF IInv, Working, Making
  <2> QED
    BY <2>0
<1>10. Accepting'
  <2> SUFFICES ASSUME NEW t \in Acceptors, acceptor[t].pc # "idle"
               PROVE  /\ acceptor[t].pc \in {"ready", "waiting"} => Listens(acceptor[t].ls)'
                      /\ acceptor[t].pc = "waiting" =>
                           \/ Torn'
                           \/ sock'[acceptor[t].ls].status = "LISTENING" /\ ~ sock'[acceptor[t].ls].broken
                      /\ acceptor[t].pc = "found" =>
                           \A l \in DOMAIN sock' : acceptor[t].u \notin sock'[l].queued
    BY DEF IInv, Accepting, Making
  <2>1. CASE acceptor[t].pc \in {"ready", "waiting"}
    <3>1. Listens(acceptor[t].ls) /\ acceptor[t].ls \in DOMAIN sock'
      BY <2>1 DEF IInv, Accepting, Listens, MayGo, InHand
    <3>2. Listens(acceptor[t].ls)'
      BY <1>5, <3>1
    <3>3. ASSUME ~ Torn', acceptor[t].pc = "waiting"
          PROVE  sock'[acceptor[t].ls].status = "LISTENING" /\ ~ sock'[acceptor[t].ls].broken
      <4>1. sock[acceptor[t].ls].status = "LISTENING" /\ ~ sock[acceptor[t].ls].broken
        BY <1>0, <3>3 DEF IInv, Accepting
      <4>2. acceptor[t].ls \notin R
        BY <3>3 DEF MayGo
      <4> QED
        BY <3>1, <4>1, <4>2 DEF MaySweep
    <3> QED
      BY <2>1, <3>2, <3>3
  <2>2. CASE acceptor[t].pc = "found"
    BY <1>8, <2>2 DEF IInv, Accepting
  <2> QED
    BY <2>1, <2>2 DEF IInv, TypeOK
<1>11. Failures \/ AcceptorsWake'
  <2> SUFFICES ASSUME ~ Failures, ~ Torn', NEW l \in DOMAIN sock', Waiting(l)' # {}
               PROVE  /\ ~ sock'[l].broken
                      /\ Cardinality(sock'[l].queued) <=
                           Cardinality({t \in Acceptors : acceptor[t].pc = "ready" /\ acceptor[t].ls = l})
                           + IF worker.pc = "signal" /\ worker.ls = l THEN 1 ELSE 0
    BY DEF AcceptorsWake
  <2>1. Waiting(l) # {} /\ l \in DOMAIN sock /\ ~ Torn
    BY <1>0 DEF Waiting
  <2>2. /\ ~ sock[l].broken
        /\ Cardinality(sock[l].queued) <=
             Cardinality({t \in Acceptors : acceptor[t].pc = "ready" /\ acceptor[t].ls = l})
             + IF worker.pc = "signal" /\ worker.ls = l THEN 1 ELSE 0
    BY <2>1 DEF IInv, AcceptorsWake
  <2>3. l \notin R
    BY <2>1 DEF MayGo, Waiting
  <2>4. Cardinality({t \in Acceptors : acceptor[t].pc = "ready" /\ acceptor[t].ls = l}) \in Nat
    BY FewerAcceptors
  <2> QED
    BY <1>8, <2>2, <2>3, <2>4 DEF MaySweep
<1>12. Records'
  BY <1>1, <1>7 DEF IInv, TypeOK, Records, MadeFor, MaySweep
<1>13. Ending'
  <2>1. gc' # "running" =>
          /\ bClosing /\ \A v \in DOMAIN sock' : sock'[v].status # "LISTENING"
          /\ worker.pc \in {"create", "insert"} => Sockets' = {}
          /\ \A v \in Sockets' : v \notin owned /\ \A t \in Acceptors : acceptor[t].u # v
    BY DEF IInv, Ending, Places, MaySweep
  <2>2. ASSUME gc' # "running", ~ Failures, NEW v \in Sockets'
        PROVE  \/ worker.pc = "queue" /\ worker.ns = v
               \/ \E l \in DOMAIN sock' : v \in sock'[l].queued
    <3>1. v \in Sockets /\ v \notin R /\ gc # "running"
      BY <2>2
    <3>2. CASE \E l \in DOMAIN sock : v \in sock[l].queued
      <4>1. PICK l \in DOMAIN sock : v \in sock[l].queued
        BY <3>2
      <4>2. l \in DOMAIN sock'
        BY <3>1, <4>1 DEF MayGo
      <4>3. v \in sock'[l].queued
        BY <3>1, <4>1, <4>2 DEF MaySweep
      <4> QED
        BY <4>2, <4>3
    <3> QED
      BY <2>2, <3>1, <3>2 DEF IInv, Ending
  <2>3. gc' = "done" => ClosedSockets' = {}
    BY DEF IInv, Ending
  <2>4. bClosing /\ orderly => Calm'
    BY DEF IInv, Ending, Calm, MayGo, MaySweep
  <2>5. ASSUME ~ Failures
        PROVE  DOMAIN sock' = Sockets' \cup ClosedSockets' \cup {u \in {worker.ns} : worker.pc = "insert"}
    <3>1. worker.pc = "insert" => worker.ns \notin D
      BY DEF MayGo, InHand
    <3>2. DOMAIN sock = Sockets \cup ClosedSockets \cup {u \in {worker.ns} : worker.pc = "insert"}
      BY <2>5 DEF IInv, Ending
    <3>3. Sockets' \cup ClosedSockets' = (Sockets \cup ClosedSockets) \ D
      BY <1>1
    <3> QED
      BY <3>1, <3>2, <3>3
  <2> QED
    BY <1>0, <2>1, <2>2, <2>3, <2>4, <2>5 DEF Ending
<1>14. Survives'
  BY <1>0 DEF Survives
<1> QED
  BY <1>2, <1>3, <1>4, <1>6, <1>9, <1>10, <1>11, <1>12, <1>13, <1>14 DEF IInv

\* As long as no socket goes or changes its multiplexer, the counts are exact.
LEMMA CountsStay ==
  ASSUME IInv, DOMAIN sock' = DOMAIN sock,
         \A v \in DOMAIN sock : sock'[v].mux = sock[v].mux /\ (Listens(v) => Listens(v)'),
         DOMAIN mMultiplexer' = DOMAIN mMultiplexer,
         \A m \in DOMAIN mMultiplexer :
           /\ mMultiplexer'[m].refCount = mMultiplexer[m].refCount
           /\ mMultiplexer'[m].listener \in {mMultiplexer[m].listener, None}
  PROVE  Multiplexers'
<1>1. \A m : {v \in DOMAIN sock' : sock'[v].mux = m} = {v \in DOMAIN sock : sock[v].mux = m}
  OBVIOUS
<1>2. RefCountExact'
  BY <1>1 DEF IInv, Multiplexers, RefCountExact
<1> QED
  BY <1>2 DEF IInv, Multiplexers, Listens

LEMMA CloseRetires ==
  ASSUME IInv, NEW u \in Ids, closeRetires(u)
  PROVE  IInv'
<1> DEFINE c == [(IF Known(u) THEN Retired(sock[u]) ELSE sock[u]) EXCEPT !.locked = FALSE]
           R == IF Known(u) THEN {u} ELSE {}
<1>1. /\ u \in DOMAIN sock /\ sock[u] \in CUDTSocket /\ u \in owned /\ u \in closers
      /\ sock[u].status # "LISTENING"
      /\ closers' = closers \ {u} /\ UNCHANGED <<mMultiplexer, PeerRec>> /\ AppOnly
  BY DEF IInv, Shape, Places, closeRetires
<1>2. /\ c \in CUDTSocket /\ c.mux = sock[u].mux /\ c.listenSocket = sock[u].listenSocket
      /\ c.backLog = sock[u].backLog /\ c.queued = sock[u].queued
      /\ c.status = IF Known(u) THEN "CLOSED" ELSE sock[u].status
      /\ c.broken = sock[u].broken /\ c.connected = sock[u].connected
  BY <1>1 DEF CUDTSocket, Status, Retired
<1>3. sock' = [sock EXCEPT ![u] = c]
  BY DEF closeRetires
<1> HIDE DEF c
<1>4. /\ DOMAIN sock' = DOMAIN sock /\ sock'[u] = c /\ sock' \in [DOMAIN sock' -> CUDTSocket]
      /\ \A v \in DOMAIN sock \ {u} : sock'[v] = sock[v]
  BY <1>1, <1>2, <1>3 DEF IInv, Shape
<1>5. R \in SUBSET Sockets /\ Sockets' = Sockets \ R /\ ClosedSockets' = (ClosedSockets \cup R) \ {}
  BY DEF closeRetires, Known
<1>6. \A l \in DOMAIN sock : u \notin sock[l].queued
  BY <1>1 DEF IInv, Queues
<1>7. \A v \in DOMAIN sock' : MaySweep(v, R)
  <2>1. MaySweep(u, R)
    BY <1>1, <1>2, <1>4, <1>6 DEF MaySweep
  <2>2. \A v \in DOMAIN sock \ {u} : MaySweep(v, R)
    BY <1>4, <1>6 DEF MaySweep
  <2> QED
    BY <1>4, <2>1, <2>2
<1>8. MayGo(R, {})
  <2>1. ~ (Making /\ u = worker.ns)
    BY <1>1 DEF IInv, Working, Making, Made
  <2>2. Torn' \/ \A t \in Acceptors : acceptor[t].pc = "waiting" => acceptor[t].ls # u
    BY <1>1 DEF IInv, Accepting, Torn, AppOnly, GoesOn, process
  <2>3. \A v \in closers' : sock'[v].locked
    BY <1>1, <1>4 DEF IInv, Places
  <2> QED
    BY <1>1, <2>1, <2>2, <2>3 DEF MayGo
<1>9. \A v \in DOMAIN sock : sock'[v].mux = sock[v].mux /\ (Listens(v) => Listens(v)')
  BY <1>1, <1>2, <1>4 DEF Listens
<1>10. Multiplexers'
  BY <1>1, <1>4, <1>9, CountsStay
<1>11. PeerRec' = {r \in PeerRec : r[2] \notin {}}
  BY <1>1
<1>12. gc' = gc /\ (gc = "done" => R = {})
  BY <1>1, <1>5 DEF AppOnly, IInv, Ending
<1> HIDE DEF R
<1>13. {} \in SUBSET ClosedSockets /\ DOMAIN sock' = DOMAIN sock \ {}
  BY <1>4
<1> QED
  BY <1>1, <1>4, <1>5, <1>7, <1>8, <1>10, <1>11, <1>12, <1>13, Sweeps DEF AppOnly, IInv, Shape

\* The listener of a multiplexer that is closed is forgotten; nothing else changes.
LEMMA UnlistenedIs ==
  ASSUME IInv, NEW S
  PROVE  /\ DOMAIN Unlistened(S) = DOMAIN mMultiplexer
         /\ Unlistened(S) \in [DOMAIN mMultiplexer -> CMultiplexer]
         /\ \A m \in DOMAIN mMultiplexer :
              /\ Unlistened(S)[m].refCount = mMultiplexer[m].refCount
              /\ Unlistened(S)[m].listener = IF mMultiplexer[m].listener \in S THEN None
                                             ELSE mMultiplexer[m].listener
BY DEF Unlistened, IInv, Shape, CMultiplexer

\* What a listener keeps in its queue when ids leave it.
LEMMA UnqueuedIs ==
  ASSUME IInv, NEW l \in DOMAIN sock, NEW S \in SUBSET Ids
  PROVE  /\ Unqueued(l, S) \in CUDTSocket
         /\ Unqueued(l, S).queued \subseteq sock[l].queued
         /\ sock[l].queued \ S \subseteq Unqueued(l, S).queued
         /\ Torn \/ Unqueued(l, S).queued \cap S = {}
         /\ \A f \in {"mux", "listenSocket", "backLog", "status", "broken", "connected", "opened", "locked"} :
              Unqueued(l, S)[f] = sock[l][f]
<1> DEFINE its == {u \in S : sock[u].listenSocket = l}
<1>1. sock[l] \in CUDTSocket
  BY DEF IInv, Shape
<1>2. /\ sock[l].queued \ S \subseteq sock[l].queued \ its
      /\ Torn \/ (sock[l].queued \ its) \cap S = {}
  BY DEF IInv, Queues, Came
<1>3. Unqueued(l, S) = [sock[l] EXCEPT !.queued = sock[l].queued \ its, !.accepted = sock[l].accepted \ its]
  BY DEF Unqueued
<1> HIDE DEF its
<1> QED
  BY <1>1, <1>2, <1>3 DEF CUDTSocket

\* What a socket is after it was marked broken and closed.
LEMMA RetiredIs ==
  ASSUME NEW d \in CUDTSocket
  PROVE  LET c == Retired(Shut([d EXCEPT !.broken = TRUE])) IN
           /\ c \in CUDTSocket /\ c.broken /\ c.status = "CLOSED" /\ (c.connected => d.connected)
           /\ \A f \in {"queued", "mux", "listenSocket", "backLog", "locked"} : c[f] = d[f]
<1> DEFINE b == [d EXCEPT !.broken = TRUE]
           s == Shut(b)
<1>1. /\ b \in CUDTSocket /\ b.broken /\ b.connected = d.connected
      /\ \A f \in {"queued", "mux", "listenSocket", "backLog", "locked"} : b[f] = d[f]
  BY DEF CUDTSocket
<1> HIDE DEF b
<1>2. /\ s \in CUDTSocket /\ s.broken /\ (s.connected => d.connected)
      /\ \A f \in {"queued", "mux", "listenSocket", "backLog", "locked"} : s[f] = d[f]
  BY <1>1, Shutting DEF Alike
<1> HIDE DEF s
<1>3. /\ Retired(s) \in CUDTSocket /\ Retired(s).broken /\ Retired(s).status = "CLOSED"
      /\ (Retired(s).connected => d.connected)
      /\ \A f \in {"queued", "mux", "listenSocket", "backLog", "locked"} : Retired(s)[f] = d[f]
  BY <1>2 DEF Retired, CUDTSocket, Status
<1> QED
  BY <1>3 DEF s, b

LEMMA ClosesAll ==
  ASSUME IInv, closesAll
  PROVE  IInv'
<1>1. /\ bClosing /\ gc = "running" /\ gc' = "final" /\ ~ Torn
      /\ orderly => \A t \in Acceptors : acceptor[t].pc = "idle"
      /\ Sockets \in SUBSET Ids /\ Sockets \subseteq DOMAIN sock
      /\ UNCHANGED <<PeerRec, bClosing>> /\ CollectorOnly
  BY DEF IInv, TypeOK, Ending, Calm, Torn, closesAll
<1>2. /\ DOMAIN sock' = DOMAIN sock
      /\ \A v \in DOMAIN sock :
           sock'[v] = IF v \in Sockets THEN Retired(Shut([Unqueued(v, Sockets) EXCEPT !.broken = TRUE]))
                      ELSE Unqueued(v, Sockets)
  BY DEF closesAll
<1>3. ASSUME NEW v \in DOMAIN sock
      PROVE  sock'[v] \in CUDTSocket /\ MaySweep(v, Sockets) /\ sock'[v].locked = sock[v].locked
  <2>1. PICK d : d = Unqueued(v, Sockets)
    OBVIOUS
  <2>2. /\ d \in CUDTSocket /\ d.queued \subseteq sock[v].queued
        /\ sock[v].queued \ Sockets \subseteq d.queued /\ d.queued \cap Sockets = {}
        /\ d.mux = sock[v].mux /\ d.locked = sock[v].locked
        /\ d.listenSocket = sock[v].listenSocket /\ d.backLog = sock[v].backLog
        /\ d.status = sock[v].status /\ d.broken = sock[v].broken /\ d.connected = sock[v].connected
    BY <1>1, <2>1, UnqueuedIs
  <2>3. CASE v \in Sockets
    <3>1. PICK c : c = Retired(Shut([d EXCEPT !.broken = TRUE]))
      OBVIOUS
    <3>2. /\ c \in CUDTSocket /\ c.broken /\ c.status = "CLOSED" /\ (c.connected => d.connected)
          /\ c.queued = d.queued /\ c.mux = d.mux /\ c.listenSocket = d.listenSocket
          /\ c.backLog = d.backLog /\ c.locked = d.locked
      BY <2>2, <3>1, RetiredIs
    <3>3. sock'[v] = c
      BY <1>2, <2>1, <2>3, <3>1
    <3> QED
      BY <2>2, <2>3, <3>2, <3>3 DEF MaySweep
  <2>4. CASE v \notin Sockets
    BY <1>2, <2>1, <2>2, <2>4 DEF MaySweep
  <2> QED
    BY <2>3, <2>4
<1>4. sock' = [v \in DOMAIN sock' |-> sock'[v]]
  BY <1>2 DEF closesAll
<1>5. sock' \in [DOMAIN sock' -> CUDTSocket]
  BY <1>2, <1>3, <1>4
<1>6. MayGo(Sockets, {})
  <2>1. Torn' \/ \A t \in Acceptors : acceptor[t].pc # "waiting"
    BY <1>1 DEF Torn, CollectorOnly, GoesOn, process
  <2>2. closers' = closers /\ \A v \in closers : v \in DOMAIN sock /\ sock[v].locked
    BY <1>1 DEF CollectorOnly, IInv, Places
  <2> QED
    BY <1>1, <1>3, <2>1, <2>2 DEF MayGo
<1>7. \A v \in DOMAIN sock : sock'[v].mux = sock[v].mux /\ (Listens(v) => Listens(v)')
  BY <1>2, <1>3 DEF MaySweep, Listens
<1>8. mMultiplexer' = Unlistened(Sockets)
  BY DEF closesAll
<1>9. Multiplexers' /\ DOMAIN mMultiplexer' = DOMAIN mMultiplexer
      /\ mMultiplexer' \in [DOMAIN mMultiplexer' -> CMultiplexer]
  BY <1>2, <1>7, <1>8, CountsStay, UnlistenedIs
<1>10. /\ Sockets' = Sockets \ Sockets /\ ClosedSockets' = (ClosedSockets \cup Sockets) \ {}
       /\ PeerRec' = {r \in PeerRec : r[2] \notin {}}
  BY <1>1 DEF closesAll
<1>11. {} \in SUBSET ClosedSockets /\ Sockets \in SUBSET Sockets /\ DOMAIN sock' = DOMAIN sock \ {}
  BY <1>2
<1>12. \A v \in DOMAIN sock' : MaySweep(v, Sockets)
  BY <1>2, <1>3
<1> QED
  BY <1>1, <1>5, <1>6, <1>9, <1>10, <1>11, <1>12, Sweeps DEF CollectorOnly

\* The sockets D leave their multiplexers, and those nobody uses any more are deleted.
LEMMA Releasing ==
  ASSUME IInv, NEW D \in SUBSET DOMAIN sock, DOMAIN sock' = DOMAIN sock \ D,
         \A v \in DOMAIN sock' : sock'[v].mux = sock[v].mux /\ (Listens(v) => Listens(v)'),
         mMultiplexer' = Released(Unlistened(D), D)
  PROVE  /\ Multiplexers' /\ DOMAIN mMultiplexer' \subseteq DOMAIN mMultiplexer
         /\ mMultiplexer' \in [DOMAIN mMultiplexer' -> CMultiplexer]
<1> DEFINE mux == Unlistened(D)
           Gone(m) == {u \in D : sock[u].mux = m}
           Left(m) == mux[m].refCount - Cardinality(Gone(m))
<1>1. /\ DOMAIN mux = DOMAIN mMultiplexer /\ mux \in [DOMAIN mMultiplexer -> CMultiplexer]
      /\ \A m \in DOMAIN mMultiplexer :
           /\ mux[m].refCount = mMultiplexer[m].refCount
           /\ mux[m].listener = IF mMultiplexer[m].listener \in D THEN None ELSE mMultiplexer[m].listener
  BY UnlistenedIs
<1>2. mMultiplexer' = [m \in {n \in DOMAIN mux : Left(n) > 0} |-> [mux[m] EXCEPT !.refCount = Left(m)]]
  BY DEF Released
<1> HIDE DEF mux
<1>3. DOMAIN sock \subseteq Ids /\ RefCountExact
  BY DEF IInv, TypeOK, Multiplexers
<1>4. \A m : Users(m)' = Users(m) \ Gone(m) /\ Gone(m) \subseteq Users(m)
  BY DEF Users
<1>5. ASSUME NEW m \in DOMAIN mMultiplexer
      PROVE  Left(m) = Cardinality(Users(m)') /\ Left(m) \in 0 .. MaxSockets
  <2>1. /\ Users(m) \in SUBSET Ids /\ Gone(m) \in SUBSET Ids /\ Users(m)' \in SUBSET Ids
        /\ Users(m) \cap Gone(m) = Gone(m)
    BY <1>3, <1>4 DEF Users
  <2>2. Cardinality(Users(m)') = Cardinality(Users(m)) - Cardinality(Gone(m))
    <3>1. IsFiniteSet(Users(m)) /\ IsFiniteSet(Gone(m))
      BY <2>1, IdsAreFinite
    <3> HIDE DEF Gone
    <3>2. Cardinality(Users(m) \ Gone(m)) = Cardinality(Users(m)) - Cardinality(Users(m) \cap Gone(m))
      BY <3>1, FS_Difference
    <3> QED
      BY <1>4, <2>1, <3>2
  <2>3. mux[m].refCount = Cardinality(Users(m))
    BY <1>1, <1>3 DEF RefCountExact, Users
  <2> QED
    BY <2>1, <2>2, <2>3, IdsAreFinite
<1>6. DOMAIN mMultiplexer' = {n \in DOMAIN mMultiplexer : Left(n) > 0}
  BY <1>1, <1>2
<1>7. ASSUME NEW m \in DOMAIN mMultiplexer'
      PROVE  /\ mMultiplexer'[m] \in CMultiplexer /\ mMultiplexer'[m].refCount = Cardinality(Users(m)')
             /\ mMultiplexer'[m].listener = mux[m].listener
  <2>1. m \in DOMAIN mMultiplexer /\ Left(m) = Cardinality(Users(m)') /\ Left(m) \in 1 .. MaxSockets
    BY <1>5, <1>6, SocketLifeAssumption
  <2>2. mMultiplexer'[m] = [mux[m] EXCEPT !.refCount = Left(m)]
    BY <1>1, <1>2, <1>6, <2>1
  <2> HIDE DEF Left
  <2> QED
    BY <1>1, <2>1, <2>2 DEF CMultiplexer
<1>8. mMultiplexer' = [m \in DOMAIN mMultiplexer' |-> mMultiplexer'[m]]
  BY <1>2
<1>9. \A v \in DOMAIN sock' : sock'[v].mux # None => sock'[v].mux \in DOMAIN mMultiplexer'
  <2> SUFFICES ASSUME NEW v \in DOMAIN sock', sock'[v].mux # None
               PROVE  sock'[v].mux \in DOMAIN mMultiplexer'
    OBVIOUS
  <2>1. sock[v].mux \in DOMAIN mMultiplexer /\ v \in Users(sock[v].mux)'
    BY <1>3 DEF RefCountExact, Users
  <2>2. Users(sock[v].mux)' \in SUBSET Ids
    BY <1>3 DEF Users
  <2>3. Cardinality(Users(sock[v].mux)') # 0
    BY <2>1, <2>2, IdsAreFinite, FS_EmptySet
  <2> HIDE DEF Left
  <2>4. Left(sock[v].mux) > 0
    BY <1>5, <2>1, <2>3, SocketLifeAssumption
  <2> QED
    BY <1>6, <2>1, <2>4
<1>10. RefCountExact'
  BY <1>7, <1>9 DEF RefCountExact, Users
<1>11. ASSUME NEW m \in DOMAIN mMultiplexer', mMultiplexer'[m].listener # None
       PROVE  /\ mMultiplexer'[m].listener \in DOMAIN sock'
              /\ sock'[mMultiplexer'[m].listener].status \in {"LISTENING", "CLOSED"}
              /\ sock'[mMultiplexer'[m].listener].listenSocket = None
  <2>1. /\ m \in DOMAIN mMultiplexer /\ mMultiplexer'[m].listener = mMultiplexer[m].listener
        /\ mMultiplexer[m].listener \notin D
    BY <1>1, <1>6, <1>7, <1>11
  <2>2. PICK l : l = mMultiplexer[m].listener
    OBVIOUS
  <2>3. Listens(l)
    BY <1>11, <2>1, <2>2 DEF IInv, Multiplexers
  <2>4. Listens(l)'
    BY <2>1, <2>2, <2>3 DEF Listens
  <2>5. l \in DOMAIN sock' /\ sock'[l].status \in {"LISTENING", "CLOSED"} /\ sock'[l].listenSocket = None
    BY <2>4 DEF Listens
  <2> QED
    BY <2>1, <2>2, <2>5
<1> HIDE DEF Left, Gone
<1>12. DOMAIN mMultiplexer' \subseteq DOMAIN mMultiplexer
  BY <1>6
<1>13. mMultiplexer' \in [DOMAIN mMultiplexer' -> CMultiplexer]
  BY <1>7, <1>8
<1>14. Multiplexers'
  BY <1>10, <1>11 DEF Multiplexers, Listens
<1> QED
  BY <1>12, <1>13, <1>14

\* One round of the garbage collector.
LEMMA ChecksBroken ==
  ASSUME IInv, NEW due \in SUBSET Delayed, NEW expired \in SUBSET Lingering,
         checkBrokenSockets(due, expired)
  PROVE  IInv'
<1>1. PICK tbc, D, waiting, over :
        /\ tbc = ToBeClosed(due) /\ D = ToBeRemoved(due, expired)
        /\ waiting = QueueClosed(due, expired) /\ over = LingerOver(due, expired)
  OBVIOUS
<1>2. PICK R : R = tbc \cup waiting
  OBVIOUS
<1> DEFINE Ended(c) == [c EXCEPT !.linger = FALSE, !.closing = TRUE]
           C(u) == IF u \in over THEN Ended(Unqueued(u, tbc)) ELSE Unqueued(u, tbc)
<1>3. /\ sock' = [u \in DOMAIN sock \ D |->
            IF u \in waiting THEN Retired(Shut([C(u) EXCEPT !.broken = TRUE]))
            ELSE IF u \in tbc THEN Retired(C(u)) ELSE C(u)]
      /\ Sockets' = Sockets \ R /\ ClosedSockets' = (ClosedSockets \cup R) \ D
      /\ mMultiplexer' = Released(Unlistened(D), D) /\ PeerRec' = {r \in PeerRec : r[2] \notin D}
      /\ \A u \in due \cap ClosedSockets : ~ InHand(u)
      /\ gc # "done" /\ waiting \subseteq Sockets
      /\ UNCHANGED <<bClosing, gc>> /\ CollectorOnly
  BY <1>1, <1>2 DEF checkBrokenSockets, PeerForgotten
<1>4. /\ tbc \subseteq Sockets /\ D \subseteq ClosedSockets \cap due
      /\ \A u \in tbc : sock[u].broken
      /\ Sockets \subseteq Ids /\ Sockets \subseteq DOMAIN sock /\ ClosedSockets \subseteq DOMAIN sock
      /\ tbc \in SUBSET Ids
  BY <1>1 DEF ToBeClosed, ToBeRemoved, IInv, TypeOK
<1>5. ASSUME NEW u \in DOMAIN sock
      PROVE  /\ C(u) \in CUDTSocket /\ C(u).queued \subseteq sock[u].queued
             /\ sock[u].queued \ tbc \subseteq C(u).queued /\ (Torn \/ C(u).queued \cap tbc = {})
             /\ C(u).mux = sock[u].mux
             /\ C(u).listenSocket = sock[u].listenSocket /\ C(u).backLog = sock[u].backLog
             /\ C(u).status = sock[u].status /\ C(u).broken = sock[u].broken
             /\ C(u).connected = sock[u].connected /\ C(u).locked = sock[u].locked
  <2>1. PICK d : d = Unqueued(u, tbc)
    OBVIOUS
  <2>2. /\ d \in CUDTSocket /\ d.queued \subseteq sock[u].queued
        /\ sock[u].queued \ tbc \subseteq d.queued /\ (Torn \/ d.queued \cap tbc = {})
        /\ d.mux = sock[u].mux
        /\ d.listenSocket = sock[u].listenSocket /\ d.backLog = sock[u].backLog
        /\ d.status = sock[u].status /\ d.broken = sock[u].broken
        /\ d.connected = sock[u].connected /\ d.locked = sock[u].locked
    BY <1>4, <2>1, UnqueuedIs
  <2>3. C(u) = d \/ C(u) = [d EXCEPT !.linger = FALSE, !.closing = TRUE]
    BY <2>1
  <2> HIDE DEF C
  <2> QED
    BY <2>2, <2>3 DEF CUDTSocket
<1> HIDE DEF C
<1>6. \A u \in waiting : \E l \in D : u \in sock[l].queued
  <2>1. \A l \in D : Unqueued(l, tbc).queued \subseteq sock[l].queued
    BY <1>4, UnqueuedIs
  <2> QED
    BY <1>1, <2>1 DEF QueueClosed
<1>7. ASSUME ~ Torn
      PROVE  \A u \in waiting : u \in DOMAIN sock /\ sock[u].listenSocket \in D
  BY <1>4, <1>6, <1>7 DEF IInv, Queues, Came
<1>8. Torn \/ \A v \in DOMAIN sock \ D : sock[v].queued \cap waiting = {}
  BY <1>7 DEF IInv, Queues, Came
<1>9. R \in SUBSET Sockets /\ D \in SUBSET ClosedSockets
  BY <1>2, <1>3, <1>4
<1>10. DOMAIN sock' = DOMAIN sock \ D
  BY <1>3
<1>11. ASSUME NEW v \in DOMAIN sock'
       PROVE  sock'[v] \in CUDTSocket /\ MaySweep(v, R) /\ sock'[v].locked = sock[v].locked
  <2>1. PICK d : d = C(v)
    OBVIOUS
  <2>2. /\ d \in CUDTSocket /\ d.queued \subseteq sock[v].queued
        /\ sock[v].queued \ tbc \subseteq d.queued /\ (Torn \/ d.queued \cap tbc = {})
        /\ d.mux = sock[v].mux
        /\ d.listenSocket = sock[v].listenSocket /\ d.backLog = sock[v].backLog
        /\ d.status = sock[v].status /\ d.broken = sock[v].broken
        /\ d.connected = sock[v].connected /\ d.locked = sock[v].locked
    BY <1>5, <1>10, <2>1
  <2>3. sock[v].queued \ R \subseteq d.queued /\ (Torn \/ d.queued \cap R = {})
    BY <1>2, <1>8, <1>10, <2>2
  <2>4. CASE v \in waiting
    <3>1. PICK c : c = Retired(Shut([d EXCEPT !.broken = TRUE]))
      OBVIOUS
    <3>2. /\ c \in CUDTSocket /\ c.broken /\ c.status = "CLOSED" /\ (c.connected => d.connected)
          /\ c.queued = d.queued /\ c.mux = d.mux /\ c.listenSocket = d.listenSocket
          /\ c.backLog = d.backLog /\ c.locked = d.locked
      BY <2>2, <3>1, RetiredIs
    <3>3. sock'[v] = c
      BY <1>3, <1>10, <2>1, <2>4, <3>1
    <3> QED
      BY <1>2, <2>2, <2>3, <2>4, <3>2, <3>3 DEF MaySweep
  <2>5. CASE v \in tbc \ waiting
    <3>1. sock'[v] = Retired(d)
      BY <1>3, <1>10, <2>1, <2>5
    <3>2. /\ Retired(d) \in CUDTSocket /\ Retired(d).status = "CLOSED" /\ Retired(d).broken = d.broken
          /\ Retired(d).connected = d.connected /\ Retired(d).queued = d.queued
          /\ Retired(d).mux = d.mux /\ Retired(d).listenSocket = d.listenSocket
          /\ Retired(d).backLog = d.backLog /\ Retired(d).locked = d.locked
      BY <2>2 DEF Retired, CUDTSocket, Status
    <3> QED
      BY <1>2, <2>2, <2>3, <2>5, <3>1, <3>2 DEF MaySweep
  <2>6. CASE v \notin R
    BY <1>2, <1>3, <1>10, <2>1, <2>2, <2>3, <2>6 DEF MaySweep
  <2> QED
    BY <1>2, <2>4, <2>5, <2>6
<1>12. sock' \in [DOMAIN sock' -> CUDTSocket]
  <2>1. sock' = [v \in DOMAIN sock' |-> sock'[v]]
    BY <1>3
  <2> QED
    BY <1>11, <2>1
<1>13. MayGo(R, D)
  <2>1. \A v \in tbc : /\ gc = "running" => ~ (Making /\ v = worker.ns)
                       /\ Torn \/ \A t \in Acceptors : acceptor[t].pc = "waiting" => acceptor[t].ls # v
    BY <1>4 DEF IInv, Working, Making, Made, Accepting
  <2>2. ASSUME NEW v \in waiting
        PROVE  /\ ~ (Making /\ v = worker.ns)
               /\ Torn \/ \A t \in Acceptors : acceptor[t].pc = "waiting" => acceptor[t].ls # v
    <3>1. PICK l \in DOMAIN sock : v \in sock[l].queued
      BY <1>4, <1>6, <2>2
    <3>2. ~ (Making /\ v = worker.ns)
      BY <3>1 DEF IInv, Working, Making, Made
    <3>3. ASSUME ~ Torn
          PROVE  v \in DOMAIN sock /\ sock[v].listenSocket # None
      BY <1>4, <1>7, <2>2, <3>3 DEF IInv, TypeOK, Ids, None
    <3>4. Torn \/ sock[v].status # "LISTENING"
      BY <3>3 DEF IInv, Places
    <3> QED
      BY <3>2, <3>4 DEF IInv, Accepting
  <2>3. ASSUME NEW v \in D
        PROVE  ~ InHand(v) /\ sock[v].queued \subseteq R
    <3>1. sock[v].queued \ tbc \subseteq Unqueued(v, tbc).queued
      BY <1>4, UnqueuedIs
    <3>2. Unqueued(v, tbc).queued \subseteq waiting
      BY <1>1 DEF QueueClosed
    <3> QED
      BY <1>2, <1>3, <1>4, <3>1, <3>2
  <2>4. \A v \in closers' : sock'[v].locked
    BY <1>3, <1>10, <1>11, <2>3 DEF CollectorOnly, IInv, Places, InHand
  <2> QED
    BY <1>2, <1>3, <2>1, <2>2, <2>3, <2>4 DEF MayGo, CollectorOnly, Torn, GoesOn, process
<1>14. /\ Multiplexers' /\ DOMAIN mMultiplexer' \subseteq DOMAIN mMultiplexer
       /\ mMultiplexer' \in [DOMAIN mMultiplexer' -> CMultiplexer]
  <2>1. \A v \in DOMAIN sock' : sock'[v].mux = sock[v].mux /\ (Listens(v) => Listens(v)')
    BY <1>11 DEF MaySweep, Listens
  <2>2. D \in SUBSET DOMAIN sock
    BY <1>4
  <2> QED
    BY <1>3, <1>10, <2>1, <2>2, Releasing
<1>15. \A v \in DOMAIN sock' : MaySweep(v, R)
  BY <1>11
<1>16. gc' = gc /\ (gc = "done" => R = {})
  BY <1>3
<1> QED
  BY <1>3, <1>16, <1>9, <1>10, <1>12, <1>13, <1>14, <1>15, Sweeps DEF CollectorOnly

-----------------------------------------------------------------------------
(* Steps that add a socket                                                  *)

\* Socket n arrives, which nobody has heard of.
LEMMA Arrives ==
  ASSUME IInv, SocketID > 1, NEW n, n = SocketID - 1, NEW c \in CUDTSocket, sock' = With(sock, n, c),
         c.queued = {}, ~ c.broken, c.connected => c.status \in {"CONNECTED", "CLOSED"},
         c.status \in {"INIT", "CONNECTED", "CLOSED"},
         c.status = "INIT" => c.mux = None, c.status = "INIT" <=> c.listenSocket = None,
         SocketID' = n, Sockets' \in {Sockets, Sockets \cup {n}}, owned' \in {owned, owned \cup {n}},
         DOMAIN mMultiplexer' = DOMAIN mMultiplexer,
         mMultiplexer' \in [DOMAIN mMultiplexer' -> CMultiplexer],
         Making' => worker'.ns = n \/ (Making /\ worker'.ns = worker.ns),
         worker.pc = "signal" => worker' = worker,
         UNCHANGED <<ClosedSockets, PeerRec, acceptor, closers, bClosing, gc, cleanups>>,
         GoesOn
  PROVE  /\ n \in Ids /\ DOMAIN sock' = DOMAIN sock \cup {n} /\ sock'[n] = c
         /\ \A v \in DOMAIN sock : v # n /\ sock'[v] = sock[v]
         /\ n \notin Sockets \cup ClosedSockets \cup owned \cup DOMAIN mMultiplexer
         /\ \A p : MadeFor(p)' = MadeFor(p)
         /\ \A v \in DOMAIN sock : Listens(v) => Listens(v)'
         /\ (Shape /\ IdsAreFresh /\ Places /\ Queues /\ Accepting /\ Records)'
         /\ \A l \in DOMAIN sock' : n \notin sock'[l].queued
         /\ Failures \/ AcceptorsWake'
<1>1. n \in Ids /\ n < SocketID /\ n \in Nat
  BY SocketLifeAssumption DEF IInv, TypeOK, Ids
<1>2. /\ n \notin DOMAIN sock /\ n \notin owned /\ n \notin DOMAIN mMultiplexer
      /\ DOMAIN sock \subseteq Nat /\ owned \subseteq Nat /\ DOMAIN mMultiplexer \subseteq Nat
      /\ Sockets \subseteq DOMAIN sock /\ ClosedSockets \subseteq DOMAIN sock
  BY <1>1, SocketLifeAssumption DEF IInv, TypeOK, IdsAreFresh, Ids
<1>3. /\ DOMAIN sock' = DOMAIN sock \cup {n} /\ sock'[n] = c
      /\ \A v \in DOMAIN sock : v # n /\ sock'[v] = sock[v]
      /\ sock' \in [DOMAIN sock' -> CUDTSocket]
  BY <1>2 DEF With, IInv, Shape
<1>4. \A r \in PeerRec : r[2] \in DOMAIN sock
  BY DEF IInv, Records
<1>5. \A p : MadeFor(p)' = MadeFor(p)
  <2> SUFFICES ASSUME NEW p
               PROVE  {u \in Sockets' : <<p, u>> \in PeerRec} = {u \in Sockets : <<p, u>> \in PeerRec}
    BY DEF MadeFor
  <2>1. <<p, n>> \notin PeerRec
    <3> SUFFICES ASSUME <<p, n>> \in PeerRec
                 PROVE  FALSE
      OBVIOUS
    <3>1. <<p, n>>[2] \in DOMAIN sock
      BY <1>4
    <3> QED
      BY <1>2, <3>1
  <2> QED
    BY <2>1
<1>6. \A v \in DOMAIN sock : Listens(v) => Listens(v)'
  BY <1>3 DEF Listens
<1>13. /\ \A l \in DOMAIN sock : n \notin sock[l].queued
       /\ \A t \in Acceptors : acceptor[t].pc = "found" => acceptor[t].u # n
  BY <1>1, SocketLifeAssumption DEF IInv, TypeOK, IdsAreFresh, Ids
<1>7. (Shape /\ IdsAreFresh)'
  <2>1. \A v \in DOMAIN sock' \cup owned' \cup DOMAIN mMultiplexer' : v >= n
    BY <1>1, <1>2, <1>3, SocketLifeAssumption DEF IInv, TypeOK, IdsAreFresh
  <2>2. \A l \in DOMAIN sock : \A v \in sock[l].queued : v >= n
    BY <1>1, SocketLifeAssumption DEF IInv, TypeOK, Shape, CUDTSocket, IdsAreFresh, Ids
  <2>3. \A l \in DOMAIN sock' : \A v \in sock'[l].queued : v >= n
    BY <1>3, <2>2
  <2>4. \A t \in Acceptors : acceptor[t].pc = "found" => acceptor[t].u >= n
    BY <1>1, SocketLifeAssumption DEF IInv, TypeOK, Accepting, IdsAreFresh, Ids, None
  <2> QED
    BY <1>3, <2>1, <2>3, <2>4 DEF Shape, IdsAreFresh
<1>8. Places'
  BY <1>2, <1>3 DEF IInv, Places
<1>9. Queues'
  <2>1. c.backLog \in Nat
    BY SocketLifeAssumption DEF CUDTSocket
  <2>2. Cardinality(c.queued) <= c.backLog
    BY <2>1, FS_EmptySet
  <2>3. ASSUME NEW l \in DOMAIN sock
        PROVE  /\ \A v \in sock'[l].queued : v \notin owned' /\ (Torn' \/ Came(v, l)')
               /\ sock'[l].queued # {} => Listens(l)'
               /\ Cardinality(sock'[l].queued) <= sock'[l].backLog
    <3>1. \A v \in sock[l].queued : v \notin owned /\ v # n
      BY <1>1, <1>13 DEF IInv, Queues
    <3>2. \A v : Torn \/ Came(v, l) => Torn' \/ Came(v, l)'
      BY <1>2, <1>3 DEF Torn, Came, GoesOn, process
    <3> QED
      BY <1>3, <1>6, <3>1, <3>2 DEF IInv, Queues
  <2> QED
    BY <1>3, <2>2, <2>3 DEF Queues
<1>10. Accepting'
  <2> SUFFICES ASSUME NEW t \in Acceptors, acceptor[t].pc # "idle"
               PROVE  /\ acceptor[t].pc \in {"ready", "waiting"} => Listens(acceptor[t].ls)'
                      /\ acceptor[t].pc = "waiting" =>
                           \/ Torn'
                           \/ sock'[acceptor[t].ls].status = "LISTENING" /\ ~ sock'[acceptor[t].ls].broken
                      /\ acceptor[t].pc = "found" =>
                           /\ acceptor[t].u \notin owned' /\ (Making' => worker'.ns # acceptor[t].u)
                           /\ \A l \in DOMAIN sock' : acceptor[t].u \notin sock'[l].queued
    BY DEF IInv, Accepting
  <2>1. CASE acceptor[t].pc \in {"ready", "waiting"}
    <3>1. Listens(acceptor[t].ls) /\ acceptor[t].ls \in DOMAIN sock
      BY <2>1 DEF IInv, Accepting, Listens
    <3>2. acceptor[t].pc = "waiting" => \/ Torn
                                       \/ /\ sock[acceptor[t].ls].status = "LISTENING"
                                          /\ ~ sock[acceptor[t].ls].broken
      BY DEF IInv, Accepting
    <3>3. Torn => Torn'
      BY DEF Torn, GoesOn, process
    <3> QED
      BY <1>3, <1>6, <2>1, <3>1, <3>2, <3>3
  <2>2. CASE acceptor[t].pc = "found"
    <3>1. /\ acceptor[t].u \notin owned /\ (Making => worker.ns # acceptor[t].u)
          /\ \A l \in DOMAIN sock : acceptor[t].u \notin sock[l].queued
      BY <2>2 DEF IInv, Accepting
    <3>2. acceptor[t].u # n
      BY <1>13, <2>2
    <3> QED
      BY <1>3, <2>2, <3>1, <3>2
  <2> QED
    BY <2>1, <2>2 DEF IInv, TypeOK
<1>11. Failures \/ AcceptorsWake'
  <2> SUFFICES ASSUME ~ Failures, ~ Torn', NEW l \in DOMAIN sock', Waiting(l)' # {}
               PROVE  /\ ~ sock'[l].broken
                      /\ Cardinality(sock'[l].queued) <=
                           Cardinality({t \in Acceptors : acceptor[t].pc = "ready" /\ acceptor[t].ls = l})
                           + IF worker'.pc = "signal" /\ worker'.ls = l THEN 1 ELSE 0
    BY DEF AcceptorsWake
  <2>0. ~ Torn
    BY DEF Torn, GoesOn, process
  <2>1. Waiting(l) # {} /\ l \in DOMAIN sock
    BY <1>2, <1>3 DEF Waiting, IInv, Accepting, Listens
  <2>2. /\ ~ sock[l].broken
        /\ Cardinality(sock[l].queued) <=
             Cardinality({t \in Acceptors : acceptor[t].pc = "ready" /\ acceptor[t].ls = l})
             + IF worker.pc = "signal" /\ worker.ls = l THEN 1 ELSE 0
    BY <2>0, <2>1 DEF IInv, AcceptorsWake
  <2>3. /\ Cardinality({t \in Acceptors : acceptor[t].pc = "ready" /\ acceptor[t].ls = l}) \in Nat
        /\ Cardinality(sock[l].queued) \in Nat
    <3>1. sock[l].queued \in SUBSET Ids
      BY <2>1 DEF IInv, Shape, CUDTSocket
    <3>2. Cardinality(sock[l].queued) \in 0 .. MaxSockets
      BY <3>1, IdsAreFinite
    <3>3. Cardinality({t \in Acceptors : acceptor[t].pc = "ready" /\ acceptor[t].ls = l}) \in Nat
      BY FewerAcceptors
    <3> QED
      BY <3>2, <3>3, SocketLifeAssumption
  <2> QED
    BY <1>3, <2>1, <2>2, <2>3
<1>12. Records'
  <2>1. \A r \in PeerRec : r[2] \in DOMAIN sock' /\ sock'[r[2]].listenSocket # None
    BY <1>3, <1>4 DEF IInv, Records
  <2>2. \A p \in Peers : MadeFor(p) \subseteq DOMAIN sock
    BY <1>2 DEF MadeFor
  <2>3. \A p \in Peers : \A u, v \in MadeFor(p)' : v < u => sock'[u].broken
    BY <1>3, <1>5, <2>2 DEF IInv, Records
  <2> QED
    BY <2>1, <2>3 DEF Records
<1> QED
  BY <1>1, <1>2, <1>3, <1>5, <1>6, <1>7, <1>8, <1>9, <1>10, <1>11, <1>12, <1>13

LEMMA FreshIs == FreshSocket \in CUDTSocket
BY SocketLifeAssumption DEF FreshSocket, CUDTSocket, Status

\* The new socket n uses no multiplexer yet.
LEMMA NoUse ==
  ASSUME IInv, NEW n \in Ids, n \notin DOMAIN sock, DOMAIN sock' = DOMAIN sock \cup {n},
         sock'[n].mux = None, \A v \in DOMAIN sock : sock'[v] = sock[v], UNCHANGED mMultiplexer
  PROVE  Multiplexers'
<1>1. \A m \in DOMAIN mMultiplexer : {v \in DOMAIN sock' : sock'[v].mux = m} = {v \in DOMAIN sock : sock[v].mux = m}
  BY DEF IInv, TypeOK, Ids, None
<1>2. RefCountExact'
  BY <1>1 DEF IInv, Multiplexers, RefCountExact
<1> QED
  BY <1>2 DEF IInv, Multiplexers, Listens

\* While the tables grow, what newConnection relies on stays.
LEMMA NewSocketStep ==
  ASSUME IInv, newSocket
  PROVE  IInv'
<1>1. SocketID > 1 /\ (worker.pc \in {"locate", "create"} => SocketID - 1 > 1)
  BY SocketLifeAssumption DEF newSocket, IInv, TypeOK
<1>2. PICK n : n = SocketID - 1
  OBVIOUS
<1>3. PICK c : c = FreshSocket
  OBVIOUS
<1>4. /\ c \in CUDTSocket /\ c.queued = {} /\ c.status = "INIT" /\ c.mux = None
      /\ ~ c.broken /\ ~ c.connected /\ c.listenSocket = None
  BY <1>3, FreshIs DEF FreshSocket
<1>5. /\ sock' = With(sock, n, c) /\ SocketID' = n /\ Sockets' = Sockets \cup {n}
      /\ owned' = owned \cup {n} /\ ~ bClosing /\ gc = "running"
      /\ UNCHANGED <<ClosedSockets, mMultiplexer, PeerRec, worker, acceptor, closers, bClosing, gc, cleanups>>
      /\ GoesOn /\ worker' = worker
  BY <1>2, <1>3 DEF newSocket, InUse
<1>6. /\ DOMAIN mMultiplexer' = DOMAIN mMultiplexer
      /\ mMultiplexer' \in [DOMAIN mMultiplexer' -> CMultiplexer]
  BY <1>5 DEF IInv, Shape
<1>7. c.status = "INIT" <=> c.listenSocket = None
  BY <1>4
<1>8. Making' => worker'.ns = n \/ (Making /\ worker'.ns = worker.ns)
  BY <1>5 DEF Making
<1>9. Sockets' \in {Sockets, Sockets \cup {n}} /\ owned' \in {owned, owned \cup {n}}
  BY <1>5
<1>10. /\ n \in Ids /\ DOMAIN sock' = DOMAIN sock \cup {n} /\ sock'[n] = c
       /\ \A v \in DOMAIN sock : v # n /\ sock'[v] = sock[v]
       /\ n \notin Sockets \cup ClosedSockets \cup owned \cup DOMAIN mMultiplexer
       /\ \A p : MadeFor(p)' = MadeFor(p)
       /\ \A v \in DOMAIN sock : Listens(v) => Listens(v)'
       /\ (Shape /\ IdsAreFresh /\ Places /\ Queues /\ Accepting /\ Records)'
       /\ \A l \in DOMAIN sock' : n \notin sock'[l].queued
       /\ Failures \/ AcceptorsWake'
  BY <1>1, <1>2, <1>4, <1>5, <1>6, <1>7, <1>8, <1>9, Arrives
<1>11. TypeOK'
  BY <1>2, <1>4, <1>5, <1>10, SocketLifeAssumption DEF IInv, TypeOK, Ids, GoesOn, process
<1>12. Multiplexers'
  <2>1. n \notin DOMAIN sock
    BY <1>10
  <2> QED
    BY <1>4, <1>5, <1>10, <2>1, NoUse
<1>13. Working'
  <2>0. CASE worker.pc = "idle"
    BY <1>5, <2>0 DEF IInv, Working
  <2>. CASE worker.pc # "idle"
    <3>1. Listens(worker.ls) /\ worker.ls \in DOMAIN sock /\ worker.peer \in Peers
      BY DEF IInv, Working, Listens
    <3>2. worker.pc \in {"locate", "create"} => SocketID' > 1
      BY <1>1, <1>2, <1>5
    <3>3. Making => Made(worker.ns)'
      BY <1>4, <1>5, <1>10, <3>1 DEF IInv, Working, Making, Made
    <3>4. \A u \in MadeFor(worker.peer) : u \in DOMAIN sock
      BY DEF MadeFor, IInv, TypeOK
    <3> QED
      BY <1>5, <1>10, <3>1, <3>2, <3>3, <3>4 DEF IInv, Working, Making
  <2> QED
    BY <2>0
<1>14. Ending'
  BY <1>5, <1>10 DEF IInv, Ending
<1>15. Survives'
  BY <1>5 DEF Survives, GoesOn, process
<1> QED
  BY <1>10, <1>11, <1>12, <1>13, <1>14, <1>15 DEF IInv

\* What a worker in newConnection is.
WorkerType ==
  [pc : {"idle", "locate", "create", "insert", "queue", "signal", "rollback"},
   peer : Peers \cup {NoPeer}, ls : Ids \cup {None}, ns : Ids \cup {None}, failed : BOOLEAN]

\* newConnection makes socket n, which nobody knows yet, and goes on or gives it up.
LEMMA Makes ==
  ASSUME IInv, worker.pc = "create", NEW n, n = SocketID - 1, NEW c \in CUDTSocket,
         sock' = With(sock, n, c), c.queued = {}, ~ c.broken, c.status \in {"CONNECTED", "CLOSED"},
         c.listenSocket = worker.ls, SocketID' = n,
         Multiplexers', DOMAIN mMultiplexer' = DOMAIN mMultiplexer,
         mMultiplexer' \in [DOMAIN mMultiplexer' -> CMultiplexer],
         \/ worker' = Idle /\ Failures
         \/ worker' = [worker EXCEPT !.pc = "insert", !.ns = n] /\ c.mux = sock[worker.ls].mux,
         UNCHANGED <<Sockets, ClosedSockets, PeerRec, acceptor>>, WorkerOnly
  PROVE  IInv'
<1>1. /\ worker.ls \in DOMAIN sock /\ SocketID > 1 /\ worker.peer \in Peers /\ Listens(worker.ls)
      /\ worker.ls \in Ids /\ worker.ls # None /\ worker \in WorkerType
      /\ Cardinality(sock[worker.ls].queued) < sock[worker.ls].backLog
      /\ \A u \in MadeFor(worker.peer) : sock[u].broken
      /\ worker.failed => Failures
  BY DEF IInv, TypeOK, Working, Listens, WorkerType, Ids, None
<1>2. /\ UNCHANGED <<Sockets, ClosedSockets, PeerRec, acceptor, closers, owned, bClosing, gc, cleanups>>
      /\ GoesOn /\ closers' = closers /\ owned' = owned /\ bClosing' = bClosing /\ gc' = gc
      /\ orderly' = orderly /\ fate' = fate /\ fate = "runs" /\ cleanups' = cleanups
  BY DEF WorkerOnly, GoesOn, process
<1>3. n \in Ids /\ n \notin DOMAIN sock
  BY <1>1, SocketLifeAssumption DEF IInv, TypeOK, IdsAreFresh, Ids
<1>4. /\ worker' \in WorkerType
      /\ worker'.pc = "idle" => worker' = Idle
      /\ worker'.pc # "idle" =>
           /\ worker'.pc = "insert" /\ worker'.ns = n /\ worker'.ls = worker.ls
           /\ worker'.peer = worker.peer /\ worker'.failed = worker.failed /\ c.mux = sock[worker.ls].mux
      /\ Failures \/ worker'.pc = "insert"
  <2>1. CASE worker' = Idle /\ Failures
    <3>1. Idle \in WorkerType /\ Idle.pc = "idle"
      BY DEF Idle, WorkerType
    <3> QED
      BY <2>1, <3>1
  <2>2. CASE worker' = [worker EXCEPT !.pc = "insert", !.ns = n] /\ c.mux = sock[worker.ls].mux
    BY <1>1, <1>3, <2>2 DEF WorkerType
  <2> QED
    BY <2>1, <2>2
<1>5. c.status = "INIT" <=> c.listenSocket = None
  BY <1>1
<1>6. Making' => worker'.ns = n \/ (Making /\ worker'.ns = worker.ns)
  BY <1>4 DEF Making
<1>7. Sockets' \in {Sockets, Sockets \cup {n}} /\ owned' \in {owned, owned \cup {n}}
  BY <1>2
<1>8. /\ c.connected => c.status \in {"CONNECTED", "CLOSED"}
      /\ c.status \in {"INIT", "CONNECTED", "CLOSED"}
      /\ c.status = "INIT" => c.mux = None
      /\ worker.pc = "signal" => worker' = worker
  OBVIOUS
<1>9. /\ n \in Ids /\ DOMAIN sock' = DOMAIN sock \cup {n} /\ sock'[n] = c
      /\ \A v \in DOMAIN sock : v # n /\ sock'[v] = sock[v]
      /\ n \notin Sockets \cup ClosedSockets \cup owned \cup DOMAIN mMultiplexer
      /\ \A p : MadeFor(p)' = MadeFor(p)
      /\ \A v \in DOMAIN sock : Listens(v) => Listens(v)'
      /\ (Shape /\ IdsAreFresh /\ Places /\ Queues /\ Accepting /\ Records)'
      /\ \A l \in DOMAIN sock' : n \notin sock'[l].queued
      /\ Failures \/ AcceptorsWake'
  BY <1>1, <1>2, <1>5, <1>6, <1>7, <1>8, Arrives
<1>10. TypeOK'
  BY <1>2, <1>4, <1>9, SocketLifeAssumption DEF IInv, TypeOK, Shape, WorkerType, Ids
<1>11. Working'
  <2>0. CASE worker'.pc = "idle"
    BY <1>4, <2>0 DEF Working, Idle
  <2>. CASE worker'.pc # "idle"
    <3>1. \A u \in MadeFor(worker.peer) : u \in DOMAIN sock
      BY DEF MadeFor, IInv, TypeOK
    <3>2. \A r \in PeerRec' : n < r[2]
      BY <1>1, <1>3 DEF IInv, TypeOK, Records, IdsAreFresh, Ids
    <3>3. Made(n)'
      BY <1>1, <1>2, <1>4, <1>9 DEF Made
    <3> QED
      BY <1>1, <1>4, <1>9, <3>1, <3>2, <3>3 DEF Working, Making
  <2> QED
    BY <2>0
<1>12. Ending'
  <2>1. gc' # "running" => Sockets' = {}
    BY <1>2 DEF IInv, Ending
  <2>2. gc' # "running" => \A u \in DOMAIN sock' : sock'[u].status # "LISTENING"
    BY <1>2, <1>9 DEF IInv, Ending
  <2>3. ~ (bClosing /\ orderly)
    BY DEF IInv, Ending, Calm
  <2>4. ASSUME ~ Failures
        PROVE  DOMAIN sock' = Sockets' \cup ClosedSockets' \cup {u \in {worker'.ns} : worker'.pc = "insert"}
    <3>1. DOMAIN sock = Sockets \cup ClosedSockets
      BY <2>4 DEF IInv, Ending
    <3>2. {u \in {worker'.ns} : worker'.pc = "insert"} = {n}
      BY <1>4, <2>4
    <3> QED
      BY <1>9, <3>1, <3>2
  <2> QED
    BY <1>2, <2>1, <2>2, <2>3, <2>4 DEF IInv, Ending
<1>13. Survives'
  BY <1>2 DEF Survives
<1> QED
  BY <1>9, <1>10, <1>11, <1>12, <1>13 DEF IInv

LEMMA Creates ==
  ASSUME IInv, creates
  PROVE  IInv'
<1>1. /\ worker.pc = "create" /\ worker.ls \in DOMAIN sock /\ sock[worker.ls].mux \in DOMAIN mMultiplexer
      /\ worker.peer \in Peers /\ SocketID > 1 /\ worker.ls \in Ids /\ sock[worker.ls].mux \in Ids
  BY DEF IInv, TypeOK, Working, creates
<1>2. PICK n : n = SocketID - 1
  OBVIOUS
<1>3. PICK c : c = [FreshSocket EXCEPT
                 !.mux = sock[worker.ls].mux, !.listenSocket = worker.ls, !.peer = worker.peer,
                 !.status = "CONNECTED", !.opened = TRUE, !.connected = TRUE, !.onList = TRUE]
  OBVIOUS
<1>4. /\ c \in CUDTSocket /\ c.queued = {} /\ ~ c.broken /\ c.status \in {"CONNECTED", "CLOSED"}
      /\ c.mux = sock[worker.ls].mux /\ c.listenSocket = worker.ls
  BY <1>1, <1>3, FreshIs, ZenonT(60) DEF FreshSocket, CUDTSocket, Status
<1>5. /\ sock' = With(sock, n, c) /\ SocketID' = n /\ mMultiplexer' = Joined(sock[worker.ls].mux)
      /\ worker' = [worker EXCEPT !.pc = "insert", !.ns = n]
      /\ UNCHANGED <<Sockets, ClosedSockets, PeerRec, acceptor>> /\ WorkerOnly
  BY <1>2, <1>3 DEF creates
<1>6. n \in Ids /\ n \notin DOMAIN sock
  BY <1>1, <1>2, SocketLifeAssumption DEF IInv, TypeOK, IdsAreFresh, Ids
<1>7. /\ DOMAIN sock' = DOMAIN sock \cup {n} /\ sock'[n] = c
      /\ \A v \in DOMAIN sock : v # n /\ sock'[v] = sock[v]
  BY <1>5, <1>6 DEF With
<1>8. /\ Multiplexers' /\ DOMAIN mMultiplexer' = DOMAIN mMultiplexer
      /\ mMultiplexer' \in [DOMAIN mMultiplexer' -> CMultiplexer]
  <2>1. \A v \in DOMAIN sock : Listens(v) => Listens(v)'
    BY <1>7 DEF Listens
  <2> QED
    BY <1>1, <1>4, <1>5, <1>6, <1>7, <2>1, Joining
<1> QED
  BY <1>1, <1>2, <1>4, <1>5, <1>8, Makes

\* Error 1: the socket is in no table, but it may have joined the multiplexer.
LEMMA CreatesInVain ==
  ASSUME IInv, NEW opened \in BOOLEAN, NEW joins \in BOOLEAN, NEW onList \in BOOLEAN,
         createsInVain(opened, joins, onList)
  PROVE  IInv'
<1>1. /\ worker.pc = "create" /\ worker.ls \in DOMAIN sock /\ sock[worker.ls].mux \in DOMAIN mMultiplexer
      /\ worker.peer \in Peers /\ SocketID > 1 /\ worker.ls \in Ids /\ sock[worker.ls].mux \in Ids
      /\ Failures
  BY DEF IInv, TypeOK, Working, createsInVain
<1>2. PICK n : n = SocketID - 1
  OBVIOUS
<1>3. PICK m : m = IF joins THEN sock[worker.ls].mux ELSE None
  OBVIOUS
<1>4. PICK c : c = [FreshSocket EXCEPT
                 !.mux = m, !.listenSocket = worker.ls, !.peer = worker.peer,
                 !.status = "CLOSED", !.closing = opened, !.onList = onList]
  OBVIOUS
<1>5. m \in Ids \cup {None}
  BY <1>1, <1>3
<1>6. /\ c \in CUDTSocket /\ c.queued = {} /\ ~ c.broken /\ c.status \in {"CONNECTED", "CLOSED"}
      /\ c.mux = m /\ c.listenSocket = worker.ls
  BY <1>1, <1>4, <1>5, FreshIs, ZenonT(60) DEF FreshSocket, CUDTSocket, Status
<1>7. /\ sock' = With(sock, n, c) /\ SocketID' = n /\ worker' = Idle
      /\ mMultiplexer' = IF joins THEN Joined(sock[worker.ls].mux) ELSE mMultiplexer
      /\ UNCHANGED <<Sockets, ClosedSockets, PeerRec, acceptor>> /\ WorkerOnly
  BY <1>2, <1>3, <1>4 DEF createsInVain
<1>8. n \in Ids /\ n \notin DOMAIN sock
  BY <1>1, <1>2, SocketLifeAssumption DEF IInv, TypeOK, IdsAreFresh, Ids
<1>9. /\ DOMAIN sock' = DOMAIN sock \cup {n} /\ sock'[n] = c
      /\ \A v \in DOMAIN sock : v # n /\ sock'[v] = sock[v]
  BY <1>7, <1>8 DEF With
<1>10. /\ Multiplexers' /\ DOMAIN mMultiplexer' = DOMAIN mMultiplexer
       /\ mMultiplexer' \in [DOMAIN mMultiplexer' -> CMultiplexer]
  <2>1. \A v \in DOMAIN sock : Listens(v) => Listens(v)'
    BY <1>9 DEF Listens
  <2>2. CASE joins
    <3>1. mMultiplexer' = Joined(m) /\ m \in DOMAIN mMultiplexer /\ sock'[n].mux = m
      BY <1>1, <1>3, <1>6, <1>7, <1>9, <2>2
    <3>2. \A v \in DOMAIN sock \ {n} : sock'[v].mux = sock[v].mux
      BY <1>9
    <3> QED
      BY <1>8, <1>9, <2>1, <3>1, <3>2, Joining
  <2>3. CASE ~ joins
    <3>1. UNCHANGED mMultiplexer /\ sock'[n].mux = None
      BY <1>3, <1>6, <1>7, <1>9, <2>3
    <3>2. \A v \in DOMAIN sock : sock'[v] = sock[v]
      BY <1>9
    <3>3. Multiplexers'
      BY <1>8, <1>9, <3>1, <3>2, NoUse
    <3> QED
      BY <3>1, <3>3 DEF IInv, Shape
  <2> QED
    BY <2>2, <2>3
<1> QED
  BY <1>1, <1>2, <1>6, <1>7, <1>10, Makes

-----------------------------------------------------------------------------
(* accept                                                                   *)

\* The tables stay, whoever comes and goes.
LEMMA TablesSame ==
  ASSUME IInv, (Torn => Torn') \/ \A l \in DOMAIN sock : sock[l].queued = {},
         \A t \in Acceptors : acceptor'[t].pc = "found" => acceptor'[t] = acceptor[t],
         UNCHANGED <<sock, Sockets, ClosedSockets, mMultiplexer, PeerRec, SocketID, closers, owned>>
  PROVE  /\ (Shape /\ IdsAreFresh /\ Places /\ Queues /\ Multiplexers /\ Records)'
         /\ \A v : Listens(v) <=> Listens(v)'
         /\ \A p : MadeFor(p)' = MadeFor(p)
<1>1. /\ \A v : Listens(v) <=> Listens(v)'
      /\ \A p : MadeFor(p)' = MadeFor(p)
      /\ \A v, l : Came(v, l) <=> Came(v, l)'
  BY DEF Listens, MadeFor, Came
<1>2. (Shape /\ IdsAreFresh /\ Places)'
  BY DEF IInv, Shape, IdsAreFresh, Places
<1>3. Queues'
  BY <1>1 DEF IInv, Queues
<1>4. (Multiplexers /\ Records)'
  BY <1>1 DEF IInv, Multiplexers, RefCountExact, Records
<1> QED
  BY <1>1, <1>2, <1>3, <1>4

\* When nothing changes but fate, all that IInv says of the tables stays.
LEMMA Stays ==
  ASSUME IInv, fate' \in {"runs", "null", "lost"}, Survives',
         UNCHANGED <<sock, Sockets, ClosedSockets, mMultiplexer, PeerRec, SocketID, worker, acceptor,
                     closers, owned, bClosing, gc, cleanups, orderly>>
  PROVE  IInv'
<1>1. Torn' <=> Torn
  BY DEF Torn
<1>2. /\ (Shape /\ IdsAreFresh /\ Places /\ Queues /\ Multiplexers /\ Records)'
      /\ \A v : Listens(v) <=> Listens(v)'
      /\ \A p : MadeFor(p)' = MadeFor(p)
  BY <1>1, TablesSame
<1>3. TypeOK'
  BY DEF IInv, TypeOK
<1>4. Working'
  BY <1>2 DEF IInv, Working, Making, Made
<1>5. Accepting'
  BY <1>1, <1>2 DEF IInv, Accepting, Making
<1>6. Failures \/ AcceptorsWake'
  BY <1>1 DEF IInv, AcceptorsWake, Waiting
<1>7. Ending'
  BY DEF IInv, Ending, Calm
<1> QED
  BY <1>2, <1>3, <1>4, <1>5, <1>6, <1>7 DEF IInv

\* What accept has found is an id.
LEMMA FoundIs ==
  ASSUME IInv, NEW t \in Acceptors, acceptor[t].pc = "found"
  PROVE  acceptor[t].u \in Ids /\ acceptor[t].u # None
<1>1. acceptor[t].u >= SocketID /\ SocketID \in 1 .. MaxSockets + 1 /\ acceptor[t].u \in Ids \cup {None}
  BY DEF IInv, TypeOK, IdsAreFresh
<1> QED
  BY <1>1, SocketLifeAssumption DEF Ids, None

\* What is known of a listener that somebody waits at.
LEMMA WakesUp ==
  ASSUME IInv, ~ Failures, ~ Torn, NEW l \in DOMAIN sock, Waiting(l) # {}
  PROVE  /\ ~ sock[l].broken /\ sock[l].queued \in SUBSET Ids /\ Ready(l) \in SUBSET Acceptors
         /\ Cardinality(sock[l].queued) \in Nat /\ Cardinality(Ready(l)) \in Nat
         /\ IsFiniteSet(sock[l].queued) /\ IsFiniteSet(Ready(l))
         /\ Cardinality(sock[l].queued) <=
              Cardinality(Ready(l)) + IF worker.pc = "signal" /\ worker.ls = l THEN 1 ELSE 0
<1>1. sock[l].queued \in SUBSET Ids
  BY DEF IInv, Shape, CUDTSocket
<1>2. Ready(l) \in SUBSET Acceptors
  BY DEF Ready
<1>3. Cardinality(Ready(l)) \in Nat /\ IsFiniteSet(Ready(l))
  BY <1>2, FewerAcceptors
<1>4. Cardinality(sock[l].queued) \in Nat /\ IsFiniteSet(sock[l].queued)
  BY <1>1, IdsAreFinite, SocketLifeAssumption
<1> QED
  BY <1>1, <1>2, <1>3, <1>4 DEF IInv, AcceptorsWake, Ready

AcceptorType ==
  [pc : {"idle", "ready", "waiting", "found"}, ls : Ids \cup {None}, u : Ids \cup {None}]

LEMMA AcceptBegins ==
  ASSUME IInv, NEW t \in Acceptors, NEW l \in Ids, acceptBegins(t, l)
  PROVE  IInv'
<1>0. /\ ~ bClosing /\ GoesOn /\ fate' = fate /\ orderly' = orderly /\ gc' = gc /\ ~ Torn
      /\ Torn' <=> Torn
  BY DEF acceptBegins, AcceptOnly, InUse, GoesOn, process, Torn
<1>1. /\ ~ bClosing /\ l \in DOMAIN sock /\ sock[l].status = "LISTENING" /\ acceptor[t].pc = "idle"
      /\ acceptor' = [acceptor EXCEPT ![t] = [pc |-> "ready", ls |-> l, u |-> None]]
      /\ UNCHANGED <<sock, owned>> /\ AcceptOnly /\ acceptor \in [Acceptors -> AcceptorType]
  BY DEF IInv, TypeOK, AcceptorType, acceptBegins, InUse, Known
<1>2. /\ acceptor' \in [Acceptors -> AcceptorType]
      /\ acceptor'[t].pc = "ready" /\ acceptor'[t].ls = l /\ acceptor'[t].u = None
      /\ \A t2 \in Acceptors \ {t} : acceptor'[t2] = acceptor[t2]
  BY <1>1 DEF AcceptorType
<1>3. /\ (Shape /\ IdsAreFresh /\ Places /\ Queues /\ Multiplexers /\ Records)'
      /\ \A v : Listens(v) <=> Listens(v)'
      /\ \A p : MadeFor(p)' = MadeFor(p)
  <2>1. \A t2 \in Acceptors : acceptor'[t2].pc = "found" => acceptor'[t2] = acceptor[t2]
    BY <1>2
  <2> QED
    BY <1>0, <1>1, <2>1, TablesSame DEF AcceptOnly
<1>4. TypeOK'
  BY <1>0, <1>1, <1>2 DEF IInv, TypeOK, AcceptOnly, AcceptorType
<1>5. Working'
  BY <1>1, <1>3 DEF IInv, Working, AcceptOnly, Making, Made, Listens
<1>6. Accepting'
  <2>1. Listens(l)
    BY <1>1 DEF IInv, Places, Listens
  <2>2. \A t2 \in Acceptors : acceptor[t2].pc = "found" => acceptor[t2].u # None
    BY FoundIs
  <2> QED
    BY <1>0, <1>1, <1>2, <1>3, <2>1, <2>2 DEF IInv, Accepting, AcceptOnly, Making
<1>7. Failures \/ AcceptorsWake'
  <2> SUFFICES ASSUME ~ Failures, NEW k \in DOMAIN sock', Waiting(k)' # {}
               PROVE  /\ ~ sock'[k].broken
                      /\ Cardinality(sock'[k].queued) <=
                           Cardinality(Ready(k)') + IF worker'.pc = "signal" /\ worker'.ls = k THEN 1 ELSE 0
    BY DEF AcceptorsWake, Ready
  <2>1. Waiting(k) # {} /\ k \in DOMAIN sock
    BY <1>1, <1>2 DEF Waiting
  <2>2. Ready(k) \subseteq Ready(k)' /\ Ready(k)' \in SUBSET Acceptors
    BY <1>1, <1>2 DEF Ready
  <2>3. Cardinality(Ready(k)) <= Cardinality(Ready(k)') /\ Cardinality(Ready(k)') \in Nat
    BY <2>2, FewerAcceptors
  <2> QED
    BY <1>0, <1>1, <2>1, <2>3, WakesUp DEF AcceptOnly
<1>8. Ending'
  BY <1>0, <1>1 DEF IInv, Ending, AcceptOnly
<1>9. Survives'
  BY <1>0 DEF Survives, GoesOn
<1> QED
  BY <1>9, <1>3, <1>4, <1>5, <1>6, <1>7, <1>8 DEF IInv

LEMMA AcceptReturns ==
  ASSUME IInv, NEW t \in Acceptors, acceptReturns(t)
  PROVE  IInv'
<1>0. /\ fate = "runs" /\ fate' = fate /\ orderly' = orderly /\ gc' = gc /\ bClosing' = bClosing
      /\ Torn' <=> Torn
  BY DEF acceptReturns, AcceptOnly, GoesOn, process, Torn
<1>1. PICK u : u = acceptor[t].u
  OBVIOUS
<1>2. /\ acceptor[t].pc = "found" /\ owned' = owned \cup {u}
      /\ acceptor' = [acceptor EXCEPT ![t] = [pc |-> "idle", ls |-> None, u |-> None]]
      /\ UNCHANGED sock /\ AcceptOnly /\ acceptor \in [Acceptors -> AcceptorType]
  BY <1>1 DEF IInv, TypeOK, AcceptorType, acceptReturns
<1>3. /\ acceptor' \in [Acceptors -> AcceptorType]
      /\ acceptor'[t].pc = "idle" /\ acceptor'[t].u = None
      /\ \A t2 \in Acceptors \ {t} : acceptor'[t2] = acceptor[t2]
  BY <1>2 DEF AcceptorType
<1>4. /\ u \notin owned /\ (Making => worker.ns # u) /\ u >= SocketID
      /\ u \in Ids
      /\ \A l \in DOMAIN sock : u \notin sock[l].queued
      /\ \A t2 \in Acceptors \ {t} : acceptor[t2].u # u
  BY <1>1, <1>2, FoundIs DEF IInv, Accepting, IdsAreFresh
<1>5. (Shape /\ Multiplexers /\ Records /\ IdsAreFresh)'
  BY <1>2, <1>3, <1>4 DEF IInv, Shape, Multiplexers, RefCountExact, Records, MadeFor, Listens, IdsAreFresh, AcceptOnly
<1>6. Places'
  BY <1>2 DEF IInv, Places, AcceptOnly
<1>7. Queues'
  BY <1>0, <1>2, <1>4 DEF IInv, Queues, Listens, Came, AcceptOnly
<1>8. TypeOK'
  BY <1>0, <1>2, <1>3, <1>4 DEF IInv, TypeOK, AcceptOnly, AcceptorType
<1>9. Working'
  BY <1>2, <1>4 DEF IInv, Working, AcceptOnly, Making, Made, Listens, MadeFor
<1>10. Accepting'
  <2>1. \A t2 \in Acceptors : acceptor[t2].pc = "found" => acceptor[t2].u # None
    BY FoundIs
  <2> QED
    BY <1>0, <1>2, <1>3, <1>4, <2>1 DEF IInv, Accepting, AcceptOnly, Making, Listens
<1>11. Failures \/ AcceptorsWake'
  <2>1. \A l : Waiting(l)' = Waiting(l)
    BY <1>2, <1>3 DEF Waiting
  <2>2. \A l : Ready(l)' = Ready(l)
    BY <1>2, <1>3 DEF Ready
  <2> QED
    BY <1>0, <1>2, <2>1, <2>2 DEF IInv, AcceptorsWake, Ready, AcceptOnly
<1>12. Ending'
  <2>1. ~ (bClosing /\ orderly)
    BY <1>2 DEF IInv, Ending, Calm
  <2>2. ASSUME gc # "running", NEW v \in Sockets
        PROVE  v \notin owned' /\ \A s \in Acceptors : acceptor'[s].u # v
    <3>1. v \notin owned /\ \A s \in Acceptors : acceptor[s].u # v
      BY <2>2 DEF IInv, Ending
    <3>2. v # None
      BY DEF IInv, TypeOK, Ids, None
    <3> QED
      BY <1>1, <1>2, <1>3, <3>1, <3>2
  <2> QED
    BY <1>0, <1>2, <2>1, <2>2 DEF IInv, Ending, AcceptOnly
<1>13. Survives'
  BY <1>0 DEF Survives
<1> QED
  BY <1>13, <1>5, <1>6, <1>7, <1>8, <1>9, <1>10, <1>11, <1>12 DEF IInv

\* An address taken from a connection that has been closed: the process ends there.
LEMMA AcceptFaults ==
  ASSUME IInv, NEW t \in Acceptors, acceptFaults(t)
  PROVE  IInv'
<1>1. /\ acceptor[t].pc = "found" /\ ~ Known(acceptor[t].u) /\ fate' = "null"
      /\ UNCHANGED <<sock, Sockets, ClosedSockets, mMultiplexer, PeerRec, SocketID, worker, acceptor,
                     closers, owned, bClosing, gc, cleanups, orderly>>
  BY DEF acceptFaults, Dies, united
<1>2. Survives'
  <2>1. acceptor' = acceptor /\ sock' = sock /\ Sockets' = Sockets /\ fate' = "null"
    BY <1>1
  <2> QED
    BY <1>1, <2>1 DEF Survives, Known
<1> QED
  BY <1>1, <1>2, Stays

\* An acceptor that leaves, or stops to look, changes nothing for the others.
LEMMA AcceptorTurns ==
  ASSUME IInv, NEW t \in Acceptors, acceptor[t].pc = "ready",
         NEW a \in AcceptorType, acceptor' = [acceptor EXCEPT ![t] = a],
         \/ /\ a.pc = "idle" /\ a.u = None
            /\ \/ Torn \/ Waiting(acceptor[t].ls) = {}
               \/ sock[acceptor[t].ls].queued = {} /\ ~ sock[acceptor[t].ls].broken
         \/ /\ a.pc = "waiting" /\ a.u = None /\ a.ls = acceptor[t].ls /\ sock[a.ls].queued = {}
            /\ sock[a.ls].status = "LISTENING" /\ ~ sock[a.ls].broken,
         UNCHANGED <<sock, owned>>, AcceptOnly
  PROVE  IInv'
<1>0. /\ fate = "runs" /\ fate' = fate /\ orderly' = orderly /\ gc' = gc /\ bClosing' = bClosing
      /\ Torn' <=> Torn
  BY DEF AcceptOnly, GoesOn, process, Torn
<1>1. /\ acceptor' \in [Acceptors -> AcceptorType] /\ acceptor'[t] = a
      /\ \A t2 \in Acceptors \ {t} : acceptor'[t2] = acceptor[t2]
  BY DEF IInv, TypeOK, AcceptorType
<1>2. /\ (Shape /\ IdsAreFresh /\ Places /\ Queues /\ Multiplexers /\ Records)'
      /\ \A v : Listens(v) <=> Listens(v)'
      /\ \A p : MadeFor(p)' = MadeFor(p)
  <2>1. \A t2 \in Acceptors : acceptor'[t2].pc = "found" => acceptor'[t2] = acceptor[t2]
    BY <1>1
  <2> QED
    BY <1>0, <2>1, TablesSame DEF AcceptOnly
<1>3. TypeOK'
  BY <1>0, <1>1 DEF IInv, TypeOK, AcceptOnly, AcceptorType
<1>4. Working'
  BY <1>2 DEF IInv, Working, AcceptOnly, Making, Made
<1>5. Accepting'
  <2>1. \A t2 \in Acceptors : acceptor[t2].pc = "found" => acceptor[t2].u # None
    BY FoundIs
  <2> QED
    BY <1>0, <1>1, <1>2, <2>1 DEF IInv, Accepting, AcceptOnly, Making
<1>6. Failures \/ AcceptorsWake'
  <2> SUFFICES ASSUME ~ Failures, ~ Torn', NEW k \in DOMAIN sock', Waiting(k)' # {}
               PROVE  /\ ~ sock'[k].broken
                      /\ Cardinality(sock'[k].queued) <=
                           Cardinality(Ready(k)') + IF worker'.pc = "signal" /\ worker'.ls = k THEN 1 ELSE 0
    BY DEF AcceptorsWake, Ready
  <2>1. CASE k = acceptor[t].ls
    <3>1. sock'[k].queued = {} /\ ~ sock'[k].broken
      BY <1>0, <1>1, <2>1 DEF Waiting
    <3>2. Cardinality(sock'[k].queued) = 0
      BY <3>1, FS_EmptySet
    <3>3. Ready(k)' \in SUBSET Acceptors
      BY DEF Ready, AcceptOnly
    <3>4. Cardinality(Ready(k)') \in Nat
      BY <3>3, FewerAcceptors
    <3> QED
      BY <3>1, <3>2, <3>4
  <2>2. CASE k # acceptor[t].ls
    <3>1. Waiting(k) # {} /\ k \in DOMAIN sock
      BY <1>1, <2>2 DEF Waiting
    <3>2. Ready(k)' = Ready(k)
      BY <1>1, <2>2 DEF Ready
    <3> QED
      BY <1>0, <3>1, <3>2, WakesUp DEF AcceptOnly
  <2> QED
    BY <2>1, <2>2
<1>7. Ending'
  <2>1. ~ (bClosing /\ orderly)
    BY DEF IInv, Ending, Calm
  <2>2. \A v \in Sockets : v # None
    BY DEF IInv, TypeOK, Ids, None
  <2>3. gc # "running" => \A v \in Sockets, s \in Acceptors : acceptor'[s].u # v
    BY <1>1, <2>2 DEF IInv, Ending
  <2> QED
    BY <1>0, <2>1, <2>3 DEF IInv, Ending, AcceptOnly
<1>8. Survives'
  BY <1>0 DEF Survives
<1> QED
  BY <1>8, <1>2, <1>3, <1>4, <1>5, <1>6, <1>7 DEF IInv

\* An acceptor takes a connection off the queue.
LEMMA AcceptorTakes ==
  ASSUME IInv, NEW t \in Acceptors, acceptor[t].pc = "ready", NEW l, l = acceptor[t].ls,
         NEW u, u \in sock[l].queued, ~ sock[l].broken, sock[l].status = "LISTENING",
         acceptor' = [acceptor EXCEPT ![t].pc = "found", ![t].u = u],
         sock' = [sock EXCEPT ![l] = Taken(@, u)], UNCHANGED owned, AcceptOnly
  PROVE  IInv'
<1> DEFINE c == Taken(sock[l], u)
<1>0. /\ fate = "runs" /\ fate' = fate /\ orderly' = orderly /\ gc' = gc /\ bClosing' = bClosing
      /\ gc = "running" /\ ~ Torn /\ ~ Torn'
  BY DEF AcceptOnly, GoesOn, process, Torn, IInv, Accepting, Listens, Ending
<1>1. /\ l \in DOMAIN sock /\ sock[l] \in CUDTSocket /\ u \in Ids /\ u # None
      /\ u \in DOMAIN sock /\ u \notin owned /\ sock[u].listenSocket = l /\ u >= SocketID
      /\ \A k \in DOMAIN sock \ {l} : u \notin sock[k].queued
  BY <1>0 DEF IInv, TypeOK, Shape, Accepting, Listens, Queues, Came, IdsAreFresh, Ids, None
<1>2. /\ c \in CUDTSocket /\ c.queued = sock[l].queued \ {u} /\ c.mux = sock[l].mux
      /\ c.listenSocket = sock[l].listenSocket /\ c.backLog = sock[l].backLog
      /\ c.status = sock[l].status /\ c.broken = sock[l].broken /\ c.locked = sock[l].locked
      /\ c.connected = sock[l].connected
  BY <1>1 DEF Taken, CUDTSocket
<1>3. /\ sock' = [sock EXCEPT ![l] = c] /\ acceptor \in [Acceptors -> AcceptorType]
  BY DEF IInv, TypeOK, AcceptorType
<1> HIDE DEF c
<1>4. /\ DOMAIN sock' = DOMAIN sock /\ sock'[l] = c /\ sock' \in [DOMAIN sock' -> CUDTSocket]
      /\ \A v \in DOMAIN sock \ {l} : sock'[v] = sock[v]
  BY <1>1, <1>2, <1>3 DEF IInv, Shape
<1>5. \A v \in DOMAIN sock :
        /\ sock'[v].queued = sock[v].queued \ {u} /\ sock'[v].mux = sock[v].mux
        /\ sock'[v].listenSocket = sock[v].listenSocket /\ sock'[v].backLog = sock[v].backLog
        /\ sock'[v].status = sock[v].status /\ sock'[v].broken = sock[v].broken
        /\ sock'[v].locked = sock[v].locked /\ sock'[v].connected = sock[v].connected
        /\ Listens(v) <=> Listens(v)'
  BY <1>1, <1>2, <1>4 DEF IInv, Queues, Listens
<1>6. /\ acceptor' \in [Acceptors -> AcceptorType]
      /\ acceptor'[t].pc = "found" /\ acceptor'[t].u = u /\ acceptor'[t].ls = l
      /\ \A t2 \in Acceptors \ {t} : acceptor'[t2] = acceptor[t2]
  BY <1>1, <1>3, ZenonT(60) DEF AcceptorType
<1>7. TypeOK'
  BY <1>0, <1>4, <1>6 DEF IInv, TypeOK, AcceptOnly, AcceptorType
<1>8. (Shape /\ IdsAreFresh)'
  <2>1. \A k \in DOMAIN sock' : \A v \in sock'[k].queued : v >= SocketID
    BY <1>4, <1>5 DEF IInv, IdsAreFresh
  <2>2. \A s \in Acceptors : acceptor'[s].pc = "found" => acceptor'[s].u >= SocketID
    BY <1>1, <1>6 DEF IInv, IdsAreFresh
  <2> QED
    BY <1>4, <2>1, <2>2 DEF IInv, Shape, IdsAreFresh, AcceptOnly
<1>9. Places'
  BY <1>4, <1>5 DEF IInv, Places, AcceptOnly
<1>10. ASSUME NEW v \in DOMAIN sock
       PROVE  /\ Cardinality(sock'[v].queued) <= Cardinality(sock[v].queued)
              /\ Cardinality(sock'[v].queued) \in Nat /\ Cardinality(sock[v].queued) \in Nat
              /\ sock[v].backLog \in Nat
  <2>1. /\ sock[v].queued \in SUBSET Ids /\ sock'[v].queued \in SUBSET sock[v].queued
        /\ sock[v].backLog \in Nat
    BY <1>5, SocketLifeAssumption DEF IInv, Shape, CUDTSocket
  <2> QED
    BY <2>1, FewerIds
<1>11. Queues'
  <2> SUFFICES ASSUME NEW k \in DOMAIN sock
               PROVE  /\ \A v \in sock'[k].queued : v \notin owned /\ Came(v, k)'
                      /\ sock'[k].queued # {} => Listens(k)'
                      /\ Cardinality(sock'[k].queued) <= sock'[k].backLog
    BY <1>4 DEF Queues, AcceptOnly
  <2>1. Cardinality(sock'[k].queued) <= sock'[k].backLog
    BY <1>5, <1>10 DEF IInv, Queues
  <2>2. \A v \in sock'[k].queued : v \notin owned /\ Came(v, k)'
    BY <1>0, <1>4, <1>5 DEF IInv, Queues, Came, AcceptOnly
  <2> QED
    BY <1>5, <2>1, <2>2 DEF IInv, Queues
<1>12. Multiplexers'
  BY <1>4, <1>5, CountsStay DEF AcceptOnly
<1>13. \A p : MadeFor(p)' = MadeFor(p)
  BY DEF MadeFor, AcceptOnly
<1>14. Working'
  <2>0. CASE worker.pc = "idle"
    BY <2>0 DEF IInv, Working, AcceptOnly
  <2>. CASE worker.pc # "idle"
    <3>1. Listens(worker.ls) /\ worker.ls \in DOMAIN sock /\ worker.peer \in Peers
      BY DEF IInv, Working, Listens
    <3>2. worker.pc \in {"create", "insert", "queue"} =>
            Cardinality(sock'[worker.ls].queued) < sock'[worker.ls].backLog
      BY <1>5, <1>10, <3>1 DEF IInv, Working
    <3>3. Making => Made(worker.ns)'
      BY <1>0, <1>4, <1>5, <3>1 DEF IInv, Working, Making, Made, AcceptOnly
    <3>4. \A v \in MadeFor(worker.peer) : v \in DOMAIN sock
      BY DEF MadeFor, IInv, TypeOK
    <3>5. worker.pc \in {"insert", "queue", "rollback"} =>
            worker.ns \in DOMAIN sock' /\ sock'[worker.ns].listenSocket = worker.ls
      BY <1>4, <1>5 DEF IInv, Working
    <3> QED
      BY <1>5, <1>13, <3>1, <3>2, <3>3, <3>4, <3>5 DEF IInv, Working, Making, AcceptOnly
  <2> QED
    BY <2>0
<1>15. Accepting'
  <2>1. ~ (Making /\ worker.ns = u)
    BY <1>1 DEF IInv, Working, Making, Made
  <2>2. \A t2 \in Acceptors \ {t} : acceptor[t2].u # u
    BY <1>1 DEF IInv, Accepting
  <2>3. \A k \in DOMAIN sock' : u \notin sock'[k].queued
    BY <1>4, <1>5
  <2> SUFFICES ASSUME NEW s \in Acceptors
               PROVE  /\ acceptor'[s].pc \in {"ready", "waiting"} =>
                           /\ acceptor'[s].ls \in DOMAIN sock'
                           /\ sock'[acceptor'[s].ls].status \in {"LISTENING", "CLOSED"}
                           /\ sock'[acceptor'[s].ls].listenSocket = None
                      /\ acceptor'[s].pc = "waiting" =>
                           \/ Torn'
                           \/ sock'[acceptor'[s].ls].status = "LISTENING" /\ ~ sock'[acceptor'[s].ls].broken
                      /\ acceptor'[s].pc = "found" =>
                           /\ acceptor'[s].u \notin owned' /\ (Making' => worker'.ns # acceptor'[s].u)
                           /\ \A k \in DOMAIN sock' : acceptor'[s].u \notin sock'[k].queued
                           /\ \A t2 \in Acceptors \ {s} : acceptor'[t2].u # acceptor'[s].u
                      /\ acceptor'[s].pc # "found" => acceptor'[s].u = None
    BY DEF Accepting, Listens
  <2>4. owned' = owned /\ worker' = worker /\ (Making' <=> Making)
    BY DEF AcceptOnly, Making
  <2>5. CASE s = t
    BY <1>1, <1>4, <1>6, <2>1, <2>2, <2>3, <2>4, <2>5
  <2>6. CASE s # t
    <3>1. acceptor'[s] = acceptor[s]
      BY <1>6, <2>6
    <3>2. acceptor[s].pc \in {"ready", "waiting"} =>
            Listens(acceptor[s].ls) /\ acceptor[s].ls \in DOMAIN sock
      BY DEF IInv, Accepting, Listens
    <3>3. acceptor[s].pc = "waiting" =>
            sock'[acceptor[s].ls].status = "LISTENING" /\ ~ sock'[acceptor[s].ls].broken
      BY <1>0, <1>5, <3>2 DEF IInv, Accepting
    <3>4. acceptor[s].pc = "found" =>
            /\ acceptor[s].u \notin owned
            /\ Making => worker.ns # acceptor[s].u
            /\ \A k \in DOMAIN sock' : acceptor[s].u \notin sock'[k].queued
            /\ \A t2 \in Acceptors \ {s} : acceptor'[t2].u # acceptor[s].u
      BY <1>4, <1>5, <1>6, <2>2, <2>6 DEF IInv, Accepting
    <3>5. acceptor[s].pc # "found" => acceptor[s].u = None
      BY DEF IInv, Accepting
    <3>6. acceptor[s].pc \in {"ready", "waiting"} =>
            /\ acceptor[s].ls \in DOMAIN sock'
            /\ sock'[acceptor[s].ls].status \in {"LISTENING", "CLOSED"}
            /\ sock'[acceptor[s].ls].listenSocket = None
      BY <1>4, <1>5, <3>2 DEF Listens
    <3>7. acceptor'[s].ls = acceptor[s].ls /\ acceptor'[s].pc = acceptor[s].pc /\ acceptor'[s].u = acceptor[s].u
      BY <3>1
    <3> QED
      BY <2>4, <3>1, <3>3, <3>4, <3>5, <3>6, <3>7
  <2> QED
    BY <2>5, <2>6
<1>16. Failures \/ AcceptorsWake'
  <2> SUFFICES ASSUME ~ Failures, NEW k \in DOMAIN sock', Waiting(k)' # {}
               PROVE  /\ ~ sock'[k].broken
                      /\ Cardinality(sock'[k].queued) <=
                           Cardinality(Ready(k)') + IF worker'.pc = "signal" /\ worker'.ls = k THEN 1 ELSE 0
    BY DEF AcceptorsWake, Ready
  <2>1. Waiting(k) # {} /\ k \in DOMAIN sock
    BY <1>4, <1>6 DEF Waiting
  <2>2. /\ ~ sock[k].broken /\ sock[k].queued \in SUBSET Ids /\ Ready(k) \in SUBSET Acceptors
        /\ Cardinality(sock[k].queued) \in Nat /\ Cardinality(Ready(k)) \in Nat
        /\ IsFiniteSet(sock[k].queued) /\ IsFiniteSet(Ready(k))
        /\ Cardinality(sock[k].queued) <=
             Cardinality(Ready(k)) + IF worker.pc = "signal" /\ worker.ls = k THEN 1 ELSE 0
    BY <1>0, <2>1, WakesUp
  <2>3. CASE k = l
    <3>1. Ready(k)' = Ready(k) \ {t} /\ t \in Ready(k)
      BY <1>6, <2>3 DEF Ready
    <3>2. Cardinality(Ready(k)') = Cardinality(Ready(k)) - 1
      BY <2>2, <3>1, FS_RemoveElement
    <3>3. Cardinality(sock'[k].queued) = Cardinality(sock[k].queued) - 1
      BY <1>5, <2>1, <2>2, <2>3, FS_RemoveElement, SMTT(40)
    <3> QED
      BY <1>5, <2>1, <2>2, <3>2, <3>3 DEF AcceptOnly
  <2>4. CASE k # l
    <3>1. Ready(k)' = Ready(k)
      BY <1>6, <2>4 DEF Ready
    <3>2. sock'[k] = sock[k]
      BY <1>4, <2>1, <2>4
    <3> QED
      BY <2>2, <3>1, <3>2 DEF AcceptOnly
  <2> QED
    BY <2>3, <2>4
<1>17. Records'
  BY <1>4, <1>5, <1>13 DEF IInv, TypeOK, Records, MadeFor, AcceptOnly
<1>18. Ending'
  <2>1. ~ (bClosing /\ orderly)
    BY DEF IInv, Ending, Calm
  <2> QED
    BY <1>0, <1>4, <2>1 DEF IInv, Ending, AcceptOnly
<1>19. Survives'
  BY <1>0 DEF Survives
<1> QED
  BY <1>19, <1>7, <1>8, <1>9, <1>11, <1>12, <1>14, <1>15, <1>16, <1>17, <1>18 DEF IInv

LEMMA AcceptTries ==
  ASSUME IInv, NEW t \in Acceptors, acceptTries(t)
  PROVE  IInv'
<1>1. PICK l : l = acceptor[t].ls
  OBVIOUS
<1>2. /\ acceptor[t].pc = "ready" /\ UNCHANGED owned /\ AcceptOnly /\ l \in DOMAIN sock /\ l \in Ids
      /\ acceptor \in [Acceptors -> AcceptorType] /\ sock[l].queued \in SUBSET Nat
  BY <1>1, SocketLifeAssumption
     DEF IInv, TypeOK, Shape, CUDTSocket, AcceptorType, Accepting, Listens, Ids, acceptTries
<1>3. CASE sock[l].status # "LISTENING" \/ sock[l].broken
  <2>1. PICK a : a = [pc |-> "idle", ls |-> None, u |-> None]
    OBVIOUS
  <2>2. acceptor' = [acceptor EXCEPT ![t] = a] /\ UNCHANGED sock
    BY <1>1, <1>3, <2>1 DEF acceptTries
  <2>3. Torn \/ Waiting(l) = {}
    BY <1>3 DEF IInv, Accepting, Waiting
  <2>4. a \in AcceptorType /\ a.pc = "idle" /\ a.u = None
    BY <2>1 DEF AcceptorType
  <2> QED
    BY <1>1, <1>2, <2>2, <2>3, <2>4, AcceptorTurns
<1>4. CASE ~ (sock[l].status # "LISTENING" \/ sock[l].broken) /\ sock[l].queued # {}
  <2>1. PICK u : u = Least(sock[l].queued)
    OBVIOUS
  <2>2. u \in sock[l].queued
    BY <1>2, <1>4, <2>1, LeastIs
  <2>3. acceptor' = [acceptor EXCEPT ![t].pc = "found", ![t].u = u] /\ sock' = [sock EXCEPT ![l] = Taken(@, u)]
    BY <1>1, <1>4, <2>1 DEF acceptTries
  <2> QED
    BY <1>1, <1>2, <1>4, <2>2, <2>3, AcceptorTakes
<1>5. CASE ~ (sock[l].status # "LISTENING" \/ sock[l].broken) /\ sock[l].queued = {}
  <2>1. CASE acceptor' = [acceptor EXCEPT ![t].pc = "waiting"]
    <3>1. PICK a : a = [acceptor[t] EXCEPT !.pc = "waiting"]
      OBVIOUS
    <3>2. acceptor' = [acceptor EXCEPT ![t] = a] /\ UNCHANGED sock
      BY <1>1, <1>5, <2>1, <3>1 DEF acceptTries
    <3>3. acceptor[t].u = None
      BY <1>2 DEF IInv, Accepting
    <3>4. a \in AcceptorType /\ a.pc = "waiting" /\ a.u = None /\ a.ls = l
      BY <1>1, <1>2, <3>1, <3>3 DEF AcceptorType
    <3> QED
      BY <1>1, <1>2, <1>5, <3>2, <3>4, AcceptorTurns
  <2>2. CASE acceptor' = [acceptor EXCEPT ![t] = [pc |-> "idle", ls |-> None, u |-> None]]
    <3>1. PICK a : a = [pc |-> "idle", ls |-> None, u |-> None]
      OBVIOUS
    <3>2. acceptor' = [acceptor EXCEPT ![t] = a] /\ UNCHANGED sock
      BY <1>1, <1>5, <2>2, <3>1 DEF acceptTries
    <3>3. a \in AcceptorType /\ a.pc = "idle" /\ a.u = None
      BY <3>1 DEF AcceptorType
    <3> QED
      BY <1>1, <1>2, <1>5, <3>2, <3>3, AcceptorTurns
  <2> QED
    BY <1>1, <1>5, <2>1, <2>2 DEF acceptTries
<1> QED
  BY <1>3, <1>4, <1>5

-----------------------------------------------------------------------------
(* newConnection                                                            *)

LEMMA Requested ==
  ASSUME IInv, NEW p \in Peers, requested(p)
  PROVE  IInv'
<1>1. PICK m \in DOMAIN mMultiplexer :
        /\ mMultiplexer[m].listener # None
        /\ worker' = [Idle EXCEPT !.pc = "locate", !.peer = p, !.ls = mMultiplexer[m].listener]
  BY DEF requested
<1>2. PICK l : l = mMultiplexer[m].listener
  OBVIOUS
<1>3. /\ worker.pc = "idle" /\ SocketID > 1 /\ fate = "runs" /\ fate' = "runs"
      /\ orderly' = (orderly /\ ~ bClosing) /\ sock' = sock /\ Sockets' = Sockets
      /\ UNCHANGED <<sock, Sockets, ClosedSockets, mMultiplexer, PeerRec, SocketID, acceptor,
                     closers, owned, bClosing, gc, cleanups>>
  BY DEF requested, united
<1>4. Listens(l) /\ l \in Ids
  BY <1>1, <1>2 DEF IInv, TypeOK, Multiplexers, Listens
<1>5. /\ worker' \in WorkerType /\ worker'.pc = "locate" /\ worker'.peer = p /\ worker'.ls = l
      /\ worker'.failed = FALSE
  BY <1>1, <1>2, <1>4 DEF Idle, WorkerType
<1>6. /\ Torn => Torn'
      /\ (Shape /\ IdsAreFresh /\ Places /\ Queues /\ Multiplexers /\ Records)'
      /\ \A v : Listens(v) <=> Listens(v)'
  <2>1. Torn => Torn'
    BY <1>3 DEF Torn
  <2> QED
    BY <1>3, <2>1, TablesSame
<1>7. TypeOK'
  BY <1>3, <1>5 DEF IInv, TypeOK, WorkerType
<1>8. Working'
  BY <1>3, <1>4, <1>5, <1>6 DEF Working, Making
<1>9. Accepting'
  BY <1>3, <1>5, <1>6 DEF IInv, Accepting, Making
<1>10. Failures \/ AcceptorsWake'
  <2>1. \A k : Waiting(k)' = Waiting(k)
    BY <1>3 DEF Waiting
  <2>2. \A k : Ready(k)' = Ready(k)
    BY <1>3 DEF Ready
  <2> QED
    BY <1>3, <1>5, <1>6, <2>1, <2>2 DEF IInv, AcceptorsWake, Ready
<1>11. Ending'
  BY <1>3, <1>5 DEF IInv, Ending
<1>12. Survives'
  BY <1>3 DEF Survives
<1> QED
  BY <1>6, <1>7, <1>8, <1>9, <1>10, <1>11, <1>12 DEF IInv

\* The new socket joins the tables, as far as memory goes; the others made for its
\* peer are broken.
LEMMA Inserts ==
  ASSUME IInv, NEW stored \in BOOLEAN, NEW recorded \in BOOLEAN, inserts(stored, recorded)
  PROVE  IInv'
<1>1. PICK n, p : n = worker.ns /\ p = worker.peer
  OBVIOUS
<1>0. /\ fate = "runs" /\ fate' = fate /\ orderly' = orderly /\ gc' = gc /\ bClosing' = bClosing
      /\ (Torn' <=> Torn)
      /\ UNCHANGED <<sock, ClosedSockets, mMultiplexer, SocketID, acceptor, closers, owned, cleanups>>
  BY DEF inserts, WorkerOnly, GoesOn, process, Torn
<1>2. /\ worker.pc = "insert" /\ worker \in WorkerType
      /\ (recorded => stored) /\ (recorded \/ Failures)
      /\ Sockets' = IF stored THEN Sockets \cup {n} ELSE Sockets
      /\ PeerRec' = IF recorded THEN PeerRec \cup {<<p, n>>} ELSE PeerRec
      /\ worker' = [worker EXCEPT !.pc = "queue", !.failed = ~ recorded]
  BY <1>1 DEF inserts, IInv, TypeOK, WorkerType
<1>3. /\ worker' \in WorkerType /\ worker'.pc = "queue" /\ worker'.ns = n /\ worker'.peer = p
      /\ worker'.ls = worker.ls /\ (worker'.failed => Failures)
  BY <1>1, <1>2 DEF WorkerType
<1>4. /\ n \in DOMAIN sock /\ n \notin owned /\ n \notin ClosedSockets /\ n \notin Sockets
      /\ gc = "running" => ~ sock[n].broken
      /\ sock[n].listenSocket = worker.ls /\ sock[n].mux = sock[worker.ls].mux
      /\ \A l \in DOMAIN sock : n \notin sock[l].queued
      /\ n \in Ids /\ p \in Peers /\ Listens(worker.ls)
      /\ Cardinality(sock[worker.ls].queued) < sock[worker.ls].backLog
      /\ \A u \in MadeFor(p) : sock[u].broken
      /\ \A r \in PeerRec : n < r[2]
  BY <1>1, <1>2 DEF IInv, TypeOK, Working, Making, Made
<1>5. (Shape /\ IdsAreFresh /\ Multiplexers)'
  BY <1>0 DEF IInv, Shape, IdsAreFresh, Multiplexers, RefCountExact, Listens
<1>13. Queues'
  <2>1. \A v, l : Came(v, l) => Came(v, l)'
    BY <1>0, <1>2 DEF Came
  <2>2. \A l : Listens(l) => Listens(l)'
    BY <1>0 DEF Listens
  <2> QED
    BY <1>0, <2>1, <2>2 DEF IInv, Queues
<1>6. Places'
  BY <1>0, <1>2, <1>4 DEF IInv, Places
<1>7. TypeOK'
  BY <1>0, <1>2, <1>3, <1>4 DEF IInv, TypeOK, WorkerType
<1>8. Working'
  BY <1>0, <1>2, <1>3, <1>4 DEF Working, Making, Made, Listens
<1>9. Accepting'
  BY <1>0, <1>1, <1>2, <1>3 DEF IInv, Accepting, Making, Listens
<1>10. Failures \/ AcceptorsWake'
  <2>1. \A k : Waiting(k)' = Waiting(k)
    BY <1>0 DEF Waiting
  <2>2. \A k : Ready(k)' = Ready(k)
    BY <1>0 DEF Ready
  <2> QED
    BY <1>0, <1>2, <1>3, <2>1, <2>2 DEF IInv, AcceptorsWake, Ready
<1>11. Records'
  <2>1. \A r \in PeerRec' : r[2] \in DOMAIN sock /\ sock[r[2]].listenSocket # None
    <3>1. worker.ls # None
      BY <1>4 DEF IInv, TypeOK, Listens, Ids, None
    <3>2. <<p, n>>[2] = n
      OBVIOUS
    <3> QED
      BY <1>2, <1>4, <3>1, <3>2 DEF IInv, Records
  <2>2. \A q \in Peers : MadeFor(q)' \subseteq MadeFor(q) \cup {v \in {n} : q = p}
    <3> SUFFICES ASSUME NEW q \in Peers, NEW v \in MadeFor(q)'
                 PROVE  v \in MadeFor(q) \/ (v = n /\ q = p)
      OBVIOUS
    <3>1. v \in Sockets \cup {n} /\ (<<q, v>> \in PeerRec \/ <<q, v>> = <<p, n>>)
      BY <1>2 DEF MadeFor
    <3>2. <<q, n>> \notin PeerRec
      <4> SUFFICES ASSUME <<q, n>> \in PeerRec
                   PROVE  FALSE
        OBVIOUS
      <4>1. n < <<q, n>>[2]
        BY <1>4
      <4> QED
        BY <1>4, <4>1, SocketLifeAssumption DEF Ids
    <3>3. CASE <<q, v>> = <<p, n>>
      BY <3>3
    <3>4. CASE <<q, v>> \in PeerRec
      BY <3>1, <3>2, <3>4 DEF MadeFor
    <3> QED
      BY <3>1, <3>3, <3>4
  <2>3. \A q \in Peers : \A v \in MadeFor(q) : n < v
    <3> SUFFICES ASSUME NEW q \in Peers, NEW v \in MadeFor(q)
                 PROVE  n < v
      OBVIOUS
    <3>1. <<q, v>> \in PeerRec
      BY DEF MadeFor
    <3>2. n < <<q, v>>[2]
      BY <1>4, <3>1
    <3> QED
      BY <3>2
  <2>4. ASSUME NEW q \in Peers, NEW u \in MadeFor(q)', NEW v \in MadeFor(q)', v < u
        PROVE  sock'[u].broken
    <3>1. u \in MadeFor(q) \/ (u = n /\ q = p)
      BY <2>2, <2>4
    <3>2. v \in MadeFor(q) \/ (v = n /\ q = p)
      BY <2>2, <2>4
    <3>3. u \in Int /\ v \in Int /\ n \in Int
      BY <1>4, <3>1, <3>2, SocketLifeAssumption DEF MadeFor, IInv, TypeOK, Ids
    <3>4. u \in MadeFor(q)
      BY <2>3, <2>4, <3>1, <3>2, <3>3
    <3>5. sock[u].broken
      BY <1>4, <2>4, <3>2, <3>4 DEF IInv, Records
    <3> QED
      BY <1>0, <3>5
  <2> QED
    BY <1>0, <2>1, <2>4 DEF Records
<1>12. Ending'
  <2>1. ~ (bClosing /\ orderly)
    BY <1>2 DEF IInv, Ending, Calm
  <2>2. \A t \in Acceptors : acceptor[t].u # n
    <3>1. \A t \in Acceptors : acceptor[t].pc = "found" => acceptor[t].u # n
      BY <1>1, <1>2 DEF IInv, Accepting, Making
    <3>2. \A t \in Acceptors : acceptor[t].pc # "found" => acceptor[t].u # n
      BY <1>4 DEF IInv, Accepting, Ids, None
    <3> QED
      BY <3>1, <3>2
  <2>3. gc # "running" => Sockets = {}
    BY <1>2 DEF IInv, Ending
  <2>4. ~ Failures => Sockets' = Sockets \cup {n}
    BY <1>2
  <2> QED
    BY <1>0, <1>1, <1>2, <1>3, <1>4, <2>1, <2>2, <2>3, <2>4 DEF IInv, Ending
<1>14. Survives'
  BY <1>0 DEF Survives
<1> QED
  BY <1>5, <1>6, <1>7, <1>8, <1>9, <1>10, <1>11, <1>12, <1>13, <1>14 DEF IInv

\* A waiting acceptor is woken, if there is one.
LEMMA Signals ==
  ASSUME IInv, signals
  PROVE  IInv'
<1>0. /\ fate = "runs" /\ fate' = fate /\ orderly' = orderly /\ gc' = gc /\ bClosing' = bClosing
      /\ (Torn' <=> Torn)
      /\ UNCHANGED <<sock, Sockets, ClosedSockets, mMultiplexer, PeerRec, SocketID, closers, owned, cleanups>>
  BY DEF signals, united, WorkerOnly, GoesOn, process, Torn
<1>1. PICK l : l = worker.ls
  OBVIOUS
<1>2. /\ worker.pc = "signal" /\ worker' = Idle /\ UNCHANGED <<united, SocketID>> /\ WorkerOnly
      /\ acceptor \in [Acceptors -> AcceptorType]
  BY DEF signals, IInv, TypeOK, AcceptorType
<1>3. \/ Waiting(l) = {} /\ acceptor' = acceptor
      \/ \E t \in Waiting(l) : acceptor' = [acceptor EXCEPT ![t].pc = "ready"]
  BY <1>1 DEF signals
<1>4. /\ acceptor' \in [Acceptors -> AcceptorType]
      /\ \A t \in Acceptors :
           \/ acceptor'[t] = acceptor[t]
           \/ /\ acceptor[t].pc = "waiting" /\ acceptor'[t].pc = "ready"
              /\ acceptor'[t].ls = acceptor[t].ls /\ acceptor'[t].u = acceptor[t].u
  BY <1>2, <1>3 DEF Waiting, AcceptorType
<1>5. worker' \in WorkerType /\ worker'.pc = "idle" /\ worker' = Idle
  BY <1>2 DEF Idle, WorkerType
<1>6. /\ (Shape /\ IdsAreFresh /\ Places /\ Queues /\ Multiplexers /\ Records)'
      /\ \A v : Listens(v) <=> Listens(v)'
  <2>1. \A t \in Acceptors : acceptor'[t].pc = "found" => acceptor'[t] = acceptor[t]
    BY <1>4
  <2> QED
    BY <1>0, <2>1, TablesSame
<1>7. TypeOK'
  BY <1>0, <1>4, <1>5 DEF IInv, TypeOK, WorkerType, AcceptorType
<1>8. Working'
  BY <1>5 DEF Working, Idle
<1>9. Accepting'
  BY <1>0, <1>4, <1>5, <1>6 DEF IInv, Accepting, Making
<1>10. Failures \/ AcceptorsWake'
  <2> SUFFICES ASSUME ~ Failures, ~ Torn', NEW k \in DOMAIN sock', Waiting(k)' # {}
               PROVE  /\ ~ sock'[k].broken
                      /\ Cardinality(sock'[k].queued) <=
                           Cardinality(Ready(k)') + IF worker'.pc = "signal" /\ worker'.ls = k THEN 1 ELSE 0
    BY DEF AcceptorsWake, Ready
  <2>1. Waiting(k) # {} /\ k \in DOMAIN sock /\ sock' = sock
    BY <1>2, <1>4 DEF Waiting, united
  <2>2. /\ ~ sock[k].broken /\ Ready(k) \in SUBSET Acceptors
        /\ Cardinality(sock[k].queued) \in Nat /\ Cardinality(Ready(k)) \in Nat /\ IsFiniteSet(Ready(k))
        /\ Cardinality(sock[k].queued) <= Cardinality(Ready(k)) + IF l = k THEN 1 ELSE 0
    BY <1>0, <1>1, <1>2, <2>1, WakesUp
  <2>3. CASE k = l
    <3>1. PICK t \in Waiting(l) : acceptor' = [acceptor EXCEPT ![t].pc = "ready"]
      BY <1>3, <2>1, <2>3
    <3>2. Ready(k)' = Ready(k) \cup {t} /\ t \notin Ready(k)
      BY <1>2, <2>3, <3>1 DEF Ready, Waiting, AcceptorType
    <3>3. Cardinality(Ready(k)') = Cardinality(Ready(k)) + 1
      BY <2>2, <3>2, FS_AddElement
    <3> QED
      BY <1>5, <2>1, <2>2, <2>3, <3>3
  <2>4. CASE k # l
    <3>1. Ready(k)' = Ready(k)
      BY <1>2, <1>3, <2>4 DEF Ready, Waiting, AcceptorType
    <3> QED
      BY <1>5, <2>1, <2>2, <2>4, <3>1
  <2> QED
    BY <2>3, <2>4
<1>11. Ending'
  <2>1. ~ (bClosing /\ orderly)
    BY <1>2 DEF IInv, Ending, Calm
  <2>2. \A t \in Acceptors : acceptor'[t].u = acceptor[t].u
    BY <1>4
  <2> QED
    BY <1>0, <1>2, <1>5, <2>1, <2>2 DEF IInv, Ending
<1>12. Survives'
  BY <1>0 DEF Survives
<1> QED
  BY <1>12, <1>6, <1>7, <1>8, <1>9, <1>10, <1>11 DEF IInv

\* After cleanup has deleted all that was closed, there are no listeners any more.
LEMMA NobodyListens ==
  ASSUME IInv, gc = "done" \/ (gc = "final" /\ ClosedSockets = {})
  PROVE  /\ \A l : ~ Listens(l)
         /\ \A l \in DOMAIN sock : sock[l].queued = {}
         /\ worker.pc = "idle" /\ worker = Idle
         /\ \A t \in Acceptors : acceptor[t].pc \in {"idle", "found"}
<1>1. \A l : ~ Listens(l)
  BY DEF IInv, Ending, Places, Listens
<1>2. \A l \in DOMAIN sock : sock[l].queued = {}
  BY <1>1 DEF IInv, Queues
<1>3. worker.pc = "idle" /\ worker = Idle
  BY <1>1 DEF IInv, Working
<1>4. \A t \in Acceptors : acceptor[t].pc \in {"idle", "found"}
  BY <1>1 DEF IInv, TypeOK, Accepting
<1> QED
  BY <1>1, <1>2, <1>3, <1>4

\* The connection joins the queue of its listener, with a wakeup on its way.
LEMMA Queued ==
  ASSUME IInv, queues(TRUE)
  PROVE  IInv'
<1>0. /\ fate = "runs" /\ fate' = fate /\ orderly' = orderly /\ gc' = gc /\ bClosing' = bClosing
      /\ (Torn' <=> Torn) /\ ~ (bClosing /\ orderly)
      /\ UNCHANGED <<Sockets, ClosedSockets, mMultiplexer, PeerRec, SocketID, acceptor, closers, owned, cleanups>>
  BY DEF queues, WorkerOnly, GoesOn, process, Torn, IInv, Ending, Calm
<1>1. PICK n, l : n = worker.ns /\ l = worker.ls
  OBVIOUS
<1> DEFINE c == [sock[l] EXCEPT !.queued = @ \cup {n}]
<1>2. /\ worker.pc = "queue" /\ sock' = [sock EXCEPT ![l] = c]
      /\ worker' = [worker EXCEPT !.pc = IF worker.failed THEN "rollback" ELSE "signal"]
      /\ worker \in WorkerType
  BY <1>1 DEF queues, IInv, TypeOK, WorkerType
<1>3. /\ worker' \in WorkerType /\ worker'.pc \in {"signal", "rollback"}
      /\ worker'.ls = l /\ worker'.ns = n /\ worker'.peer = worker.peer
      /\ worker'.pc = "rollback" \/ worker'.failed => Failures
  <2>1. worker.failed => Failures
    BY <1>2 DEF IInv, Working
  <2> QED
    BY <1>1, <1>2, <2>1 DEF WorkerType
<1>4. /\ n \in DOMAIN sock /\ n \notin owned /\ sock[n].listenSocket = l
      /\ \A k \in DOMAIN sock : n \notin sock[k].queued
      /\ gc = "running" => n \notin ClosedSockets /\ (~ Failures => n \in Sockets)
      /\ n \in Ids /\ n >= SocketID /\ Listens(l) /\ l \in DOMAIN sock /\ worker.peer \in Peers
      /\ Cardinality(sock[l].queued) < sock[l].backLog
  BY <1>1, <1>2 DEF IInv, TypeOK, Working, Making, Made, Listens, IdsAreFresh
<1>19. \A t \in Acceptors : acceptor[t].pc = "found" => acceptor[t].u # n
  BY <1>1, <1>2 DEF IInv, Accepting, Making
<1>20. Torn' \/ (n \notin ClosedSockets /\ (~ Failures => n \in Sockets))
  <2>1. CASE gc = "done"
    BY <1>4, <2>1, NobodyListens
  <2>2. CASE gc = "final"
    <3>1. bClosing
      BY <2>2 DEF IInv, Ending
    <3> QED
      BY <1>0, <2>2, <3>1 DEF Torn
  <2>3. CASE gc = "running"
    BY <1>4, <2>3
  <2> QED
    BY <2>1, <2>2, <2>3 DEF IInv, TypeOK
<1>5. /\ sock[l] \in CUDTSocket /\ c \in CUDTSocket /\ c.queued = sock[l].queued \cup {n}
      /\ c.mux = sock[l].mux
      /\ c.listenSocket = sock[l].listenSocket /\ c.backLog = sock[l].backLog
      /\ c.status = sock[l].status /\ c.broken = sock[l].broken /\ c.locked = sock[l].locked
      /\ c.connected = sock[l].connected
  BY <1>4 DEF IInv, Shape, CUDTSocket
<1> HIDE DEF c
<1>6. /\ DOMAIN sock' = DOMAIN sock /\ sock'[l] = c /\ sock' \in [DOMAIN sock' -> CUDTSocket]
      /\ \A v \in DOMAIN sock \ {l} : sock'[v] = sock[v]
  BY <1>2, <1>4, <1>5 DEF IInv, Shape
<1>7. \A v \in DOMAIN sock :
        /\ sock'[v].mux = sock[v].mux
        /\ sock'[v].listenSocket = sock[v].listenSocket /\ sock'[v].backLog = sock[v].backLog
        /\ sock'[v].status = sock[v].status /\ sock'[v].broken = sock[v].broken
        /\ sock'[v].locked = sock[v].locked /\ sock'[v].connected = sock[v].connected
        /\ Listens(v) <=> Listens(v)'
  BY <1>5, <1>6 DEF Listens
<1>8. Cardinality(c.queued) = Cardinality(sock[l].queued) + 1 /\ Cardinality(sock[l].queued) \in Nat
  <2>1. sock[l].queued \in SUBSET Ids
    BY <1>5 DEF CUDTSocket
  <2>2. IsFiniteSet(sock[l].queued) /\ Cardinality(sock[l].queued) \in 0 .. MaxSockets
    BY <2>1, IdsAreFinite
  <2>3. Cardinality(sock[l].queued \cup {n}) = Cardinality(sock[l].queued) + 1
    BY <1>4, <2>2, FS_AddElement
  <2> QED
    BY <1>5, <2>2, <2>3, SocketLifeAssumption
<1>9. TypeOK'
  BY <1>0, <1>3, <1>6 DEF IInv, TypeOK, WorkerType
<1>10. (Shape /\ IdsAreFresh)'
  <2>1. \A k \in DOMAIN sock' : \A v \in sock'[k].queued : v >= SocketID
    BY <1>4, <1>5, <1>6 DEF IInv, IdsAreFresh
  <2> QED
    BY <1>0, <1>6, <2>1 DEF IInv, Shape, IdsAreFresh
<1>11. Places'
  BY <1>0, <1>6, <1>7 DEF IInv, Places
<1>12. Queues'
  <2> SUFFICES ASSUME NEW k \in DOMAIN sock
               PROVE  /\ \A v \in sock'[k].queued : v \notin owned /\ (Torn' \/ Came(v, k)')
                      /\ sock'[k].queued # {} => Listens(k)'
                      /\ Cardinality(sock'[k].queued) <= sock'[k].backLog
    BY <1>0, <1>6 DEF Queues
  <2>0. \A v \in sock[k].queued : v \notin owned /\ (Torn' \/ Came(v, k)')
    BY <1>0, <1>6, <1>7 DEF IInv, Queues, Came
  <2>1. CASE k # l
    <3>1. sock'[k] = sock[k] /\ (Listens(k) => Listens(k)')
      BY <1>6, <1>7, <2>1
    <3> QED
      BY <2>0, <3>1 DEF IInv, Queues
  <2>2. CASE k = l
    <3>1. Torn' \/ Came(n, k)'
      BY <1>0, <1>4, <1>6, <1>7, <1>20, <2>2 DEF Came
    <3>2. sock[l].backLog \in Nat
      BY <1>5, SocketLifeAssumption DEF CUDTSocket
    <3>3. Cardinality(c.queued) <= c.backLog
      BY <1>4, <1>5, <1>8, <3>2
    <3>4. sock'[k].queued = sock[k].queued \cup {n}
      BY <1>5, <1>6, <2>2
    <3>5. \A v \in sock'[k].queued : v \notin owned /\ (Torn' \/ Came(v, k)')
      BY <1>4, <2>0, <3>1, <3>4
    <3>6. Listens(k)'
      BY <1>4, <1>7, <2>2
    <3>7. Cardinality(sock'[k].queued) <= sock'[k].backLog
      BY <1>6, <2>2, <3>3
    <3> QED
      BY <3>5, <3>6, <3>7
  <2> QED
    BY <2>1, <2>2
<1>13. Multiplexers'
  BY <1>0, <1>6, <1>7, CountsStay
<1>14. Working'
  <2>1. n \in DOMAIN sock' /\ sock'[n].listenSocket = l /\ Listens(l)'
    BY <1>4, <1>6, <1>7
  <2> QED
    BY <1>3, <1>4, <2>1 DEF Working, Making
<1>15. Accepting'
  <2>1. \A t \in Acceptors : acceptor[t].pc \in {"ready", "waiting"} => acceptor[t].ls \in DOMAIN sock
    BY DEF IInv, Accepting, Listens
  <2>2. \A t \in Acceptors : acceptor[t].pc = "found" => \A k \in DOMAIN sock' : acceptor[t].u \notin sock'[k].queued
    BY <1>5, <1>6, <1>19 DEF IInv, Accepting
  <2>3. ~ Making'
    BY <1>3 DEF Making
  <2> QED
    BY <1>0, <1>7, <2>1, <2>2, <2>3 DEF IInv, Accepting
<1>16. Failures \/ AcceptorsWake'
  <2> SUFFICES ASSUME ~ Failures, ~ Torn', NEW k \in DOMAIN sock', Waiting(k)' # {}
               PROVE  /\ ~ sock'[k].broken
                      /\ Cardinality(sock'[k].queued) <=
                           Cardinality(Ready(k)') + IF worker'.pc = "signal" /\ worker'.ls = k THEN 1 ELSE 0
    BY DEF AcceptorsWake, Ready
  <2>1. Waiting(k) # {} /\ k \in DOMAIN sock /\ Ready(k)' = Ready(k)
    BY <1>0, <1>6 DEF Waiting, Ready
  <2>2. /\ ~ sock[k].broken /\ Cardinality(Ready(k)) \in Nat
        /\ Cardinality(sock[k].queued) <= Cardinality(Ready(k))
    BY <1>0, <1>2, <2>1, WakesUp
  <2>3. CASE k = l
    <3>1. ~ sock'[k].broken
      BY <1>7, <2>1, <2>2
    <3>2. Cardinality(sock'[k].queued) = Cardinality(sock[k].queued) + 1
      BY <1>5, <1>6, <1>8, <2>3
    <3>3. Cardinality(sock[k].queued) \in Nat
      BY <1>8, <2>3
    <3> QED
      BY <1>3, <2>1, <2>2, <2>3, <3>1, <3>2, <3>3
  <2>4. CASE k # l
    <3>1. sock'[k] = sock[k]
      BY <1>6, <2>1, <2>4
    <3> QED
      BY <1>3, <2>1, <2>2, <2>4, <3>1
  <2> QED
    BY <2>3, <2>4
<1>17. Records'
  <2>1. \A p : MadeFor(p)' = MadeFor(p)
    BY <1>0 DEF MadeFor
  <2>2. \A p : MadeFor(p) \subseteq DOMAIN sock
    BY DEF MadeFor, IInv, TypeOK
  <2> QED
    BY <1>0, <1>6, <1>7, <2>1, <2>2 DEF IInv, Records
<1>18. Ending'
  <2>1. \A u : (worker.ns = u \/ \E k \in DOMAIN sock : u \in sock[k].queued)
               => \E k \in DOMAIN sock' : u \in sock'[k].queued
    BY <1>1, <1>4, <1>5, <1>6
  <2>2. \A v \in DOMAIN sock : sock'[v].status = sock[v].status
    BY <1>7
  <2> QED
    BY <1>0, <1>2, <1>3, <1>6, <2>1, <2>2 DEF IInv, Ending
<1>21. Survives'
  BY <1>0 DEF Survives
<1> QED
  BY <1>21, <1>9, <1>10, <1>11, <1>12, <1>13, <1>14, <1>15, <1>16, <1>17, <1>18 DEF IInv

\* newConnection gives up: nothing changes but the worker.
LEMMA GivesUp ==
  ASSUME IInv, UNCHANGED <<united, SocketID, acceptor>>, WorkerOnly,
         \/ worker.pc \in {"locate", "create"} /\ worker' = Idle
         \/ worker.pc = "queue" /\ worker' = [worker EXCEPT !.pc = "rollback"] /\ Failures
  PROVE  IInv'
<1>0. /\ fate = "runs" /\ fate' = fate /\ orderly' = orderly /\ gc' = gc /\ bClosing' = bClosing
      /\ (Torn' <=> Torn) /\ ~ (bClosing /\ orderly) /\ sock' = sock /\ Sockets' = Sockets
      /\ UNCHANGED <<sock, Sockets, ClosedSockets, mMultiplexer, PeerRec, SocketID, acceptor,
                     closers, owned, cleanups>>
  BY DEF united, WorkerOnly, GoesOn, process, Torn, IInv, Ending, Calm
<1>1. worker' \in WorkerType /\ worker'.pc \in {"idle", "rollback"} /\ worker.pc \in {"locate", "create", "queue"}
  <2>1. worker \in WorkerType
    BY DEF IInv, TypeOK, WorkerType
  <2>2. Idle \in WorkerType /\ Idle.pc = "idle"
    BY DEF Idle, WorkerType
  <2>3. CASE worker.pc \in {"locate", "create"} /\ worker' = Idle
    BY <2>2, <2>3
  <2>4. CASE worker.pc = "queue" /\ worker' = [worker EXCEPT !.pc = "rollback"] /\ Failures
    BY <2>1, <2>4 DEF WorkerType
  <2> QED
    BY <2>3, <2>4
<1>2. /\ (Shape /\ IdsAreFresh /\ Places /\ Queues /\ Multiplexers /\ Records)'
      /\ \A v : Listens(v) <=> Listens(v)'
  BY <1>0, TablesSame
<1>3. TypeOK'
  BY <1>0, <1>1 DEF IInv, TypeOK, WorkerType
<1>4. Working'
  <2>1. CASE worker' = Idle
    BY <2>1 DEF Working, Idle
  <2>2. CASE worker.pc = "queue" /\ worker' = [worker EXCEPT !.pc = "rollback"] /\ Failures
    <3>1. worker \in WorkerType
      BY DEF IInv, TypeOK, WorkerType
    <3>2. /\ worker'.pc = "rollback" /\ worker'.ls = worker.ls /\ worker'.ns = worker.ns
          /\ worker'.peer = worker.peer
      BY <2>2, <3>1 DEF WorkerType
    <3>3. /\ worker.peer \in Peers /\ Listens(worker.ls)
          /\ worker.ns \in DOMAIN sock /\ sock[worker.ns].listenSocket = worker.ls
      BY <2>2 DEF IInv, Working
    <3> QED
      BY <1>0, <1>2, <2>2, <3>2, <3>3 DEF Working, Making
  <2> QED
    BY <2>1, <2>2
<1>5. Accepting'
  <2>1. ~ Making'
    BY <1>1 DEF Making
  <2> QED
    BY <1>0, <1>2, <2>1 DEF IInv, Accepting
<1>6. Failures \/ AcceptorsWake'
  <2>1. \A k : Waiting(k)' = Waiting(k)
    BY <1>0 DEF Waiting
  <2>2. \A k : Ready(k)' = Ready(k)
    BY <1>0 DEF Ready
  <2>3. worker'.pc # "signal" /\ worker.pc # "signal"
    BY <1>1
  <2> QED
    BY <1>0, <2>1, <2>2, <2>3 DEF IInv, AcceptorsWake, Ready
<1>7. Ending'
  BY <1>0, <1>1 DEF IInv, Ending
<1>8. Survives'
  BY <1>0 DEF Survives
<1> QED
  BY <1>2, <1>3, <1>4, <1>5, <1>6, <1>7, <1>8 DEF IInv

LEMMA QueueStep ==
  ASSUME IInv, NEW queued \in BOOLEAN, queues(queued)
  PROVE  IInv'
<1>1. CASE queued
  <2>1. queued = TRUE
    BY <1>1
  <2> QED
    BY <2>1, Queued
<1>2. CASE ~ queued
  <2>1. /\ worker.pc = "queue" /\ worker' = [worker EXCEPT !.pc = "rollback"] /\ Failures
        /\ UNCHANGED <<united, SocketID, acceptor>> /\ WorkerOnly
    BY <1>2 DEF queues, united
  <2> QED
    BY <2>1, GivesUp
<1> QED
  BY <1>1, <1>2

\* ERR_ROLLBACK closes the new socket and leaves it where it is.
LEMMA RollsBack ==
  ASSUME IInv, rollsBack
  PROVE  IInv'
<1>1. PICK n : n = worker.ns
  OBVIOUS
<1>0. /\ fate = "runs" /\ fate' = fate /\ orderly' = orderly /\ gc' = gc /\ bClosing' = bClosing
      /\ (Torn' <=> Torn) /\ ~ (bClosing /\ orderly)
      /\ UNCHANGED <<Sockets, ClosedSockets, mMultiplexer, PeerRec, SocketID, acceptor, closers, owned, cleanups>>
  BY DEF rollsBack, WorkerOnly, GoesOn, process, Torn, IInv, Ending, Calm
<1>2. /\ worker.pc = "rollback" /\ worker' = Idle /\ Failures
      /\ n \in DOMAIN sock /\ sock[n] \in CUDTSocket /\ sock[n].listenSocket # None
  BY <1>1 DEF rollsBack, IInv, Working, Shape, TypeOK, Listens, Ids, None
<1>3. PICK d : d = Shut(sock[n])
  OBVIOUS
<1>4. d \in CUDTSocket /\ Alike(sock[n], d) /\ d.broken = sock[n].broken /\ d.locked = sock[n].locked
  BY <1>2, <1>3, Shutting
<1>5. PICK c : c = Retired(d)
  OBVIOUS
<1>6. /\ c \in CUDTSocket /\ c.status = "CLOSED" /\ c.queued = sock[n].queued /\ c.mux = sock[n].mux
      /\ c.listenSocket = sock[n].listenSocket /\ c.backLog = sock[n].backLog
      /\ c.broken = sock[n].broken /\ c.locked = sock[n].locked
  BY <1>4, <1>5 DEF Alike, Retired, CUDTSocket, Status
<1>7. sock' = [sock EXCEPT ![n] = c]
  BY <1>1, <1>3, <1>5 DEF rollsBack
<1>8. /\ DOMAIN sock' = DOMAIN sock /\ sock'[n] = c /\ sock' \in [DOMAIN sock' -> CUDTSocket]
      /\ \A v \in DOMAIN sock \ {n} : sock'[v] = sock[v]
  BY <1>2, <1>6, <1>7 DEF IInv, Shape
<1>9. \A v \in DOMAIN sock :
        /\ sock'[v].mux = sock[v].mux /\ sock'[v].queued = sock[v].queued
        /\ sock'[v].listenSocket = sock[v].listenSocket /\ sock'[v].backLog = sock[v].backLog
        /\ sock'[v].broken = sock[v].broken /\ sock'[v].locked = sock[v].locked
        /\ Listens(v) => Listens(v)' /\ sock'[v].status = sock[v].status
  BY <1>2, <1>6, <1>8 DEF Listens
<1>10. worker' \in WorkerType /\ worker'.pc = "idle" /\ worker' = Idle
  BY <1>2 DEF Idle, WorkerType
<1>11. TypeOK'
  BY <1>0, <1>8, <1>10 DEF IInv, TypeOK, WorkerType
<1>12. (Shape /\ IdsAreFresh)'
  BY <1>0, <1>8, <1>9 DEF IInv, Shape, IdsAreFresh
<1>13. Places'
  BY <1>0, <1>2, <1>6, <1>8, <1>9 DEF IInv, Places
<1>14. Queues'
  <2>1. \A v, l : Came(v, l) => Came(v, l)'
    BY <1>0, <1>8, <1>9 DEF Came
  <2> QED
    BY <1>0, <1>8, <1>9, <2>1 DEF IInv, Queues
<1>15. Multiplexers'
  BY <1>0, <1>8, <1>9, CountsStay
<1>16. Working'
  BY <1>10 DEF Working, Idle
<1>17. Accepting'
  <2>1. \A t \in Acceptors : acceptor[t].pc \in {"ready", "waiting"} =>
          Listens(acceptor[t].ls) /\ acceptor[t].ls \in DOMAIN sock
    BY DEF IInv, Accepting, Listens
  <2>2. ~ Making'
    BY <1>10 DEF Making
  <2> QED
    BY <1>0, <1>8, <1>9, <2>1, <2>2 DEF IInv, Accepting
<1>18. Records'
  <2>1. \A q : MadeFor(q)' = MadeFor(q)
    BY <1>0 DEF MadeFor
  <2>2. \A q : MadeFor(q) \subseteq DOMAIN sock
    BY DEF MadeFor, IInv, TypeOK
  <2> QED
    BY <1>0, <1>8, <1>9, <2>1, <2>2 DEF IInv, Records
<1>19. Ending'
  <2>1. gc # "running" => \A v \in DOMAIN sock : sock'[v].status # "LISTENING"
    BY <1>6, <1>8 DEF IInv, Ending
  <2> QED
    BY <1>0, <1>2, <1>8, <1>10, <2>1 DEF IInv, Ending
<1>20. Survives'
  BY <1>0 DEF Survives
<1> QED
  BY <1>2, <1>11, <1>12, <1>13, <1>14, <1>15, <1>16, <1>17, <1>18, <1>19, <1>20 DEF IInv

\* A broken connection of the same peer leaves the queue, if one was made before.
LEMMA Locates ==
  ASSUME IInv, locates
  PROVE  IInv'
<1>0. /\ fate = "runs" /\ fate' = fate /\ orderly' = orderly /\ gc' = gc /\ bClosing' = bClosing
      /\ (Torn' <=> Torn) /\ ~ (bClosing /\ orderly) /\ WorkerOnly
      /\ UNCHANGED <<Sockets, ClosedSockets, mMultiplexer, PeerRec, SocketID, acceptor, closers, owned, cleanups>>
  BY DEF locates, WorkerOnly, GoesOn, process, Torn, IInv, Ending, Calm
<1>1. PICK l, p : l = worker.ls /\ p = worker.peer
  OBVIOUS
<1>2. /\ worker.pc = "locate" /\ worker \in WorkerType /\ (worker.failed => Failures)
      /\ p \in Peers /\ Listens(l) /\ l \in DOMAIN sock /\ l \in Ids /\ SocketID > 1
  BY <1>1 DEF locates, IInv, TypeOK, WorkerType, Working, Listens
<1>3. CASE ~ Known(l) \/ Repeated(p)
  <2>1. worker' = Idle /\ UNCHANGED sock
    BY <1>1, <1>3 DEF locates
  <2> QED
    BY <1>0, <1>2, <2>1, GivesUp DEF united
<1>4. CASE Known(l) /\ ~ Repeated(p)
  <2>0. gc = "running" /\ ~ Torn
    BY <1>2, <1>4 DEF Known, Listens, IInv, TypeOK, Ending, Torn
  <2>1. PICK old : old = MadeFor(p)
    OBVIOUS
  <2>2. PICK e : e = Least(old)
    OBVIOUS
  <2>3. /\ sock' = IF old = {} THEN sock
                   ELSE [sock EXCEPT ![e].status = "CLOSED", ![l].queued = @ \ {e}, ![l].accepted = @ \ {e}]
        /\ worker' = IF BackLogFull(sock'[l]) THEN Idle ELSE [worker EXCEPT !.pc = "create"]
    BY <1>1, <1>4, <2>1, <2>2 DEF locates
  <2>4. old \subseteq Sockets /\ old \subseteq DOMAIN sock /\ old \in SUBSET Nat
    BY <2>1, SocketLifeAssumption DEF MadeFor, IInv, TypeOK, Ids
  <2>5. old # {} => e \in old /\ \A v \in old : e <= v
    BY <2>2, <2>4, LeastIs
  <2>6. old # {} => sock[e].broken
    BY <1>4, <2>1, <2>2 DEF Repeated
  <2>7. \A v \in old : sock[v].broken
    <3> SUFFICES ASSUME NEW v \in old
                 PROVE  sock[v].broken
      OBVIOUS
    <3>1. e \in old /\ e <= v /\ e \in Nat /\ v \in Nat
      BY <2>4, <2>5
    <3>2. CASE e = v
      BY <2>6, <3>2
    <3>3. CASE e < v
      BY <1>2, <2>1, <3>1, <3>3 DEF IInv, Records
    <3> QED
      BY <3>1, <3>2, <3>3
  <2>8. old # {} => /\ e \in DOMAIN sock /\ e # l /\ sock[e].status \in {"CONNECTED", "CLOSED"}
                    /\ sock[e].listenSocket # None
    <3> SUFFICES ASSUME old # {}
                 PROVE  /\ e \in DOMAIN sock /\ e # l /\ sock[e].status \in {"CONNECTED", "CLOSED"}
                        /\ sock[e].listenSocket # None
      OBVIOUS
    <3>1. <<p, e>> \in PeerRec /\ e \in DOMAIN sock
      BY <2>1, <2>4, <2>5 DEF MadeFor
    <3>2. sock[<<p, e>>[2]].listenSocket # None
      BY <3>1 DEF IInv, Records
    <3>3. sock[e].status \in {"CONNECTED", "CLOSED"} /\ sock[e].listenSocket # None
      BY <3>1, <3>2 DEF IInv, Places
    <3>4. sock[l].status # "CLOSED" /\ sock[l].status \in {"LISTENING", "CLOSED"}
      BY <1>2, <1>4 DEF Known, Listens
    <3> QED
      BY <3>1, <3>3, <3>4
  <2>9. /\ DOMAIN sock' = DOMAIN sock /\ sock' \in [DOMAIN sock' -> CUDTSocket]
        /\ \A v \in DOMAIN sock :
             /\ sock'[v].queued \subseteq sock[v].queued
             /\ sock'[v].mux = sock[v].mux
             /\ sock'[v].listenSocket = sock[v].listenSocket /\ sock'[v].backLog = sock[v].backLog
             /\ \/ sock'[v].status = sock[v].status
                \/ /\ sock'[v].status = "CLOSED" /\ sock[v].status \in {"CONNECTED", "CLOSED"}
                   /\ sock[v].listenSocket # None
             /\ sock'[v].broken = sock[v].broken
             /\ sock'[v].locked = sock[v].locked /\ sock'[v].connected = sock[v].connected
    <3>1. CASE old = {}
      BY <2>3, <3>1 DEF IInv, Shape
    <3>2. CASE old # {}
      <4>1. PICK c : c = [sock[e] EXCEPT !.status = "CLOSED"]
        OBVIOUS
      <4>2. PICK d : d = [sock[l] EXCEPT !.queued = @ \ {e}, !.accepted = @ \ {e}]
        OBVIOUS
      <4>3. sock[e] \in CUDTSocket /\ sock[l] \in CUDTSocket
        BY <1>2, <2>8, <3>2 DEF IInv, Shape
      <4>4. /\ c \in CUDTSocket /\ c.queued = sock[e].queued /\ c.mux = sock[e].mux
            /\ c.listenSocket = sock[e].listenSocket /\ c.backLog = sock[e].backLog /\ c.status = "CLOSED"
            /\ c.broken = sock[e].broken /\ c.locked = sock[e].locked /\ c.connected = sock[e].connected
        BY <4>1, <4>3 DEF CUDTSocket, Status
      <4>5. /\ d \in CUDTSocket /\ d.queued = sock[l].queued \ {e} /\ d.mux = sock[l].mux
            /\ d.listenSocket = sock[l].listenSocket /\ d.backLog = sock[l].backLog /\ d.status = sock[l].status
            /\ d.broken = sock[l].broken /\ d.locked = sock[l].locked /\ d.connected = sock[l].connected
        BY <4>2, <4>3 DEF CUDTSocket
      <4>6. sock' = [sock EXCEPT ![e] = c, ![l] = d]
        BY <1>2, <2>3, <2>8, <3>2, <4>1, <4>2 DEF IInv, Shape
      <4>7. /\ DOMAIN sock' = DOMAIN sock /\ sock' \in [DOMAIN sock' -> CUDTSocket]
            /\ sock'[e] = c /\ sock'[l] = d /\ \A v \in DOMAIN sock \ {e, l} : sock'[v] = sock[v]
        BY <1>2, <2>8, <3>2, <4>4, <4>5, <4>6 DEF IInv, Shape
      <4> QED
        BY <2>8, <3>2, <4>4, <4>5, <4>7
    <3> QED
      BY <3>1, <3>2
  <2>10. \A v \in DOMAIN sock : Listens(v) => Listens(v)'
    BY <2>9 DEF Listens
  <2>11. \A v \in DOMAIN sock : sock[v].status = "LISTENING" => sock'[v].status = "LISTENING"
    BY <2>9
  <2>12. ASSUME NEW v \in DOMAIN sock
         PROVE  /\ Cardinality(sock'[v].queued) <= Cardinality(sock[v].queued)
                /\ Cardinality(sock'[v].queued) \in Nat /\ Cardinality(sock[v].queued) \in Nat
                /\ sock[v].backLog \in Nat
    <3>1. /\ sock[v].queued \in SUBSET Ids /\ sock'[v].queued \in SUBSET sock[v].queued
          /\ sock[v].backLog \in Nat
      BY <2>9, SocketLifeAssumption DEF IInv, Shape, CUDTSocket
    <3> QED
      BY <3>1, FewerIds
  <2>13. /\ worker' \in WorkerType /\ worker'.pc \in {"idle", "create"}
         /\ worker'.pc = "idle" => worker' = Idle
         /\ worker'.pc = "create" =>
              /\ worker'.ls = l /\ worker'.peer = p /\ worker'.failed = worker.failed
              /\ Cardinality(sock'[l].queued) < sock'[l].backLog
    <3>1. CASE BackLogFull(sock'[l])
      BY <2>3, <3>1 DEF Idle, WorkerType
    <3>2. CASE ~ BackLogFull(sock'[l])
      <4>1. worker' = [worker EXCEPT !.pc = "create"]
        BY <2>3, <3>2
      <4>2. Cardinality(sock'[l].queued) < sock'[l].backLog
        BY <1>2, <2>9, <2>12, <3>2 DEF BackLogFull
      <4> QED
        BY <1>1, <1>2, <4>1, <4>2 DEF WorkerType
    <3> QED
      BY <3>1, <3>2
  <2>14. TypeOK'
    BY <1>0, <1>2, <2>9, <2>13 DEF IInv, TypeOK, WorkerType
  <2>15. (Shape /\ IdsAreFresh)'
    BY <1>0, <1>2, <2>9 DEF IInv, Shape, IdsAreFresh
  <2>16. Places'
    BY <1>0, <1>2, <2>9 DEF IInv, Places
  <2>17. Queues'
    <3> SUFFICES ASSUME NEW k \in DOMAIN sock
                 PROVE  /\ \A v \in sock'[k].queued : v \notin owned /\ (Torn' \/ Came(v, k)')
                        /\ sock'[k].queued # {} => Listens(k)'
                        /\ Cardinality(sock'[k].queued) <= sock'[k].backLog
      BY <1>0, <1>2, <2>9 DEF Queues
    <3>1. \A v \in sock'[k].queued : v \notin owned /\ (Torn' \/ Came(v, k)')
      BY <1>0, <2>0, <2>9 DEF IInv, Queues, Came
    <3>2. sock'[k].queued # {} => Listens(k)'
      BY <2>9, <2>10 DEF IInv, Queues
    <3>3. Cardinality(sock'[k].queued) <= sock'[k].backLog
      BY <2>9, <2>12 DEF IInv, Queues
    <3> QED
      BY <3>1, <3>2, <3>3
  <2>18. Multiplexers'
    BY <1>0, <1>2, <2>9, <2>10, CountsStay
  <2>19. MadeFor(p)' = old
    BY <1>0, <1>2, <2>1 DEF MadeFor
  <2>20. Working'
    <3>1. Listens(l)' /\ l \in DOMAIN sock'
      BY <1>2, <2>9, <2>10
    <3>2. \A v \in old : sock'[v].broken
      BY <2>4, <2>7, <2>9
    <3>3. CASE worker'.pc = "idle"
      BY <2>13, <3>3 DEF Working
    <3>4. CASE worker'.pc = "create"
      BY <1>0, <1>2, <2>13, <2>19, <3>1, <3>2, <3>4 DEF Working, Making
    <3> QED
      BY <2>13, <3>3, <3>4
  <2>21. Accepting'
    <3>1. \A t \in Acceptors : acceptor[t].pc \in {"ready", "waiting"} => acceptor[t].ls \in DOMAIN sock
      BY DEF IInv, Accepting, Listens
    <3>2. \A t \in Acceptors : acceptor[t].pc = "found" => \A k \in DOMAIN sock' : acceptor[t].u \notin sock'[k].queued
      BY <2>9 DEF IInv, Accepting
    <3> QED
      BY <1>0, <1>2, <2>9, <2>10, <2>11, <2>13, <3>1, <3>2 DEF IInv, Accepting, Making
  <2>22. Failures \/ AcceptorsWake'
    <3> SUFFICES ASSUME ~ Failures, ~ Torn', NEW k \in DOMAIN sock', Waiting(k)' # {}
                 PROVE  /\ ~ sock'[k].broken
                        /\ Cardinality(sock'[k].queued) <=
                             Cardinality(Ready(k)') + IF worker'.pc = "signal" /\ worker'.ls = k THEN 1 ELSE 0
      BY DEF AcceptorsWake, Ready
    <3>1. Waiting(k) # {} /\ k \in DOMAIN sock /\ Ready(k)' = Ready(k)
      BY <1>0, <1>2, <2>9 DEF Waiting, Ready
    <3>2. /\ ~ sock[k].broken /\ Cardinality(Ready(k)) \in Nat
          /\ Cardinality(sock[k].queued) <= Cardinality(Ready(k))
      BY <1>0, <1>2, <3>1, WakesUp
    <3>3. ~ sock'[k].broken
      BY <2>9, <3>1, <3>2
    <3> QED
      BY <2>12, <2>13, <3>1, <3>2, <3>3
  <2>23. Records'
    <3>1. \A q : MadeFor(q)' = MadeFor(q)
      BY <1>0, <1>2 DEF MadeFor
    <3>2. \A q : MadeFor(q) \subseteq DOMAIN sock
      BY DEF MadeFor, IInv, TypeOK
    <3> QED
      BY <1>0, <1>2, <2>9, <3>1, <3>2 DEF IInv, Records
  <2>24. Ending'
    BY <1>0, <1>2, <2>0, <2>9, <2>13 DEF IInv, Ending
  <2>25. Survives'
    BY <1>0 DEF Survives
  <2> QED
    BY <2>25, <2>14, <2>15, <2>16, <2>17, <2>18, <2>20, <2>21, <2>22, <2>23, <2>24 DEF IInv
<1> QED
  BY <1>3, <1>4

-----------------------------------------------------------------------------
(* cleanup and startup                                                      *)

\* Nobody is in the middle of newConnection or waits in accept.
LEMMA NothingElseTurns ==
  ASSUME IInv, gc = "done" \/ (gc = "final" /\ ClosedSockets = {}),
         UNCHANGED <<sock, Sockets, ClosedSockets, mMultiplexer, PeerRec, SocketID, worker, acceptor,
                     closers, owned>>
  PROVE  (Shape /\ IdsAreFresh /\ Places /\ Queues /\ Multiplexers /\ Working /\ Accepting /\ Records)'
         /\ (Failures \/ AcceptorsWake')
<1>1. /\ \A l \in DOMAIN sock : sock[l].queued = {}
      /\ worker = Idle /\ worker.pc = "idle"
      /\ \A t \in Acceptors : acceptor[t].pc \in {"idle", "found"}
  BY NobodyListens
<1>2. /\ (Shape /\ IdsAreFresh /\ Places /\ Queues /\ Multiplexers /\ Records)'
      /\ \A v : Listens(v) <=> Listens(v)'
  BY <1>1, TablesSame
<1>3. Working'
  BY <1>1 DEF Working, Idle
<1>4. Accepting'
  BY <1>1 DEF IInv, Accepting, Making
<1>5. AcceptorsWake'
  BY <1>1 DEF AcceptorsWake, Waiting
<1> QED
  BY <1>2, <1>3, <1>4, <1>5

LEMMA Ends ==
  ASSUME IInv, ends
  PROVE  IInv'
<1>1. /\ gc = "final" /\ ClosedSockets = {} /\ gc' = "done" /\ bClosing' = bClosing
      /\ fate = "runs" /\ fate' = fate /\ orderly' = orderly /\ cleanups' = cleanups
      /\ UNCHANGED <<sock, Sockets, ClosedSockets, mMultiplexer, PeerRec, SocketID, worker, acceptor,
                     closers, owned>>
  BY DEF ends, united, CollectorOnly, GoesOn, process
<1>2. /\ (Shape /\ IdsAreFresh /\ Places /\ Queues /\ Multiplexers /\ Working /\ Accepting /\ Records)'
      /\ Failures \/ AcceptorsWake'
  BY <1>1, NothingElseTurns
<1>3. TypeOK'
  BY <1>1 DEF IInv, TypeOK
<1>4. Ending'
  BY <1>1 DEF IInv, Ending, Calm
<1>5. Survives'
  BY <1>1 DEF Survives
<1> QED
  BY <1>2, <1>3, <1>4, <1>5 DEF IInv

LEMMA CleansUp ==
  ASSUME IInv, cleanup
  PROVE  IInv'
<1>1. /\ bClosing' = TRUE /\ gc = "running" /\ gc' = gc /\ orderly' = Calm /\ fate = "runs" /\ fate' = fate
      /\ cleanups \in 0 .. MaxCleanups /\ cleanups < MaxCleanups /\ cleanups' = cleanups + 1
      /\ UNCHANGED <<sock, Sockets, ClosedSockets, mMultiplexer, PeerRec, SocketID, worker, acceptor,
                     closers, owned>>
  BY DEF cleanup, InUse, united, IInv, TypeOK
<1>2. ~ Torn /\ ~ Torn'
  BY <1>1 DEF Torn
<1>3. /\ (Shape /\ IdsAreFresh /\ Places /\ Queues /\ Multiplexers /\ Records)'
      /\ \A v : Listens(v) <=> Listens(v)'
      /\ \A p : MadeFor(p)' = MadeFor(p)
  BY <1>1, <1>2, TablesSame
<1>4. TypeOK'
  <2>1. cleanups' \in 0 .. MaxCleanups
    BY <1>1, SocketLifeAssumption
  <2>2. orderly' \in BOOLEAN
    BY <1>1 DEF Calm
  <2> QED
    BY <1>1, <2>1, <2>2 DEF IInv, TypeOK
<1>5. Working'
  BY <1>1, <1>3 DEF IInv, Working, Making, Made
<1>6. Accepting'
  BY <1>1, <1>2, <1>3 DEF IInv, Accepting, Making
<1>7. Failures \/ AcceptorsWake'
  BY <1>1, <1>2 DEF IInv, AcceptorsWake, Waiting
<1>8. Ending'
  <2>1. Calm' <=> Calm
    BY <1>1 DEF Calm
  <2> QED
    BY <1>1, <2>1 DEF IInv, Ending
<1>9. Survives'
  BY <1>1 DEF Survives
<1> QED
  BY <1>3, <1>4, <1>5, <1>6, <1>7, <1>8, <1>9 DEF IInv

LEMMA StartsUp ==
  ASSUME IInv, startup
  PROVE  IInv'
<1>1. /\ gc = "done" /\ bClosing' = FALSE /\ gc' = "running" /\ orderly' = TRUE
      /\ fate = "runs" /\ fate' = fate /\ cleanups' = cleanups
      /\ UNCHANGED <<sock, Sockets, ClosedSockets, mMultiplexer, PeerRec, SocketID, worker, acceptor,
                     closers, owned>>
  BY DEF startup, united
<1>2. /\ (Shape /\ IdsAreFresh /\ Places /\ Queues /\ Multiplexers /\ Working /\ Accepting /\ Records)'
      /\ Failures \/ AcceptorsWake'
  BY <1>1, NothingElseTurns
<1>3. TypeOK'
  BY <1>1 DEF IInv, TypeOK
<1>4. Ending'
  BY <1>1 DEF IInv, Ending
<1>5. Survives'
  BY <1>1 DEF Survives
<1> QED
  BY <1>2, <1>3, <1>4, <1>5 DEF IInv

-----------------------------------------------------------------------------
(* The ends of the process                                                  *)

\* A queued id without a socket: newConnection ran out of memory, or cleanup tears.
LEMMA LooksUp ==
  ASSUME IInv, NEW due \in SUBSET Delayed, NEW expired \in SUBSET Lingering,
         looksUpInVain(due, expired)
  PROVE  IInv'
<1>1. /\ ~ (QueueClosed(due, expired) \subseteq Sockets) /\ fate' = "null"
      /\ UNCHANGED <<sock, Sockets, ClosedSockets, mMultiplexer, PeerRec, SocketID, worker, acceptor,
                     closers, owned, bClosing, gc, cleanups, orderly>>
  BY DEF looksUpInVain, Dies, united
<1>2. ToBeClosed(due) \in SUBSET Ids /\ ToBeRemoved(due, expired) \subseteq DOMAIN sock
  BY DEF ToBeClosed, ToBeRemoved, IInv, TypeOK
<1>3. PICK l \in DOMAIN sock : \E u \in sock[l].queued : u \notin Sockets
  <2>1. PICK l \in ToBeRemoved(due, expired) :
                \E u \in Unqueued(l, ToBeClosed(due)).queued : u \notin Sockets
    BY <1>1 DEF QueueClosed
  <2> QED
    BY <1>2, <2>1, UnqueuedIs
<1>4. Torn \/ Failures
  BY <1>3 DEF IInv, Queues, Came
<1>5. Survives'
  BY <1>1, <1>4 DEF Survives, Torn
<1> QED
  BY <1>1, <1>5, Stays

LEMMA Pulls ==
  ASSUME IInv, NEW due \in SUBSET Delayed, NEW expired \in SUBSET Lingering, pulls(due, expired)
  PROVE  IInv'
<1>1. /\ gc = "final" /\ fate' = "lost" /\ \E u \in ToBeRemoved(due, expired) : InHand(u)
      /\ UNCHANGED <<sock, Sockets, ClosedSockets, mMultiplexer, PeerRec, SocketID, worker, acceptor,
                     closers, owned, bClosing, gc, cleanups, orderly>>
  BY DEF pulls, Dies, united
<1>2. ~ orderly
  <2> SUFFICES ASSUME orderly
               PROVE  FALSE
    OBVIOUS
  <2>1. Calm /\ worker = Idle
    BY <1>1 DEF IInv, Ending, Working, Calm
  <2>2. \A u \in Ids : ~ InHand(u)
    BY <2>1 DEF InHand, Calm, Idle, Ids, None
  <2>3. ToBeRemoved(due, expired) \subseteq Ids
    BY DEF ToBeRemoved, IInv, TypeOK
  <2> QED
    BY <1>1, <2>2, <2>3
<1>3. Survives'
  BY <1>1, <1>2 DEF Survives
<1> QED
  BY <1>1, <1>3, Stays

LEMMA ClosesStuck ==
  ASSUME IInv, closesStuck
  PROVE  IInv'
<1>1. /\ bClosing /\ fate' = "lost" /\ Connecting # {}
      /\ UNCHANGED <<sock, Sockets, ClosedSockets, mMultiplexer, PeerRec, SocketID, worker, acceptor,
                     closers, owned, bClosing, gc, cleanups, orderly>>
  BY DEF closesStuck, Dies, united
<1>2. ~ orderly
  BY <1>1 DEF IInv, Ending, Calm, Connecting, TypeOK
<1>3. Survives'
  BY <1>1, <1>2 DEF Survives
<1> QED
  BY <1>1, <1>3, Stays

LEMMA Stutters ==
  ASSUME IInv, UNCHANGED vars
  PROVE  IInv'
<1>1. /\ UNCHANGED <<sock, Sockets, ClosedSockets, mMultiplexer, PeerRec, SocketID, worker, acceptor,
                     closers, owned, bClosing, gc, cleanups, orderly>>
      /\ fate' = fate
  BY DEF vars, united, process
<1>2. Survives'
  BY <1>1 DEF IInv, Survives, Known
<1>3. fate' \in {"runs", "null", "lost"}
  BY <1>1 DEF IInv, TypeOK
<1> QED
  BY <1>1, <1>2, <1>3, Stays

-----------------------------------------------------------------------------
(* The invariant                                                            *)

LEMMA Initially == Init => IInv
<1> SUFFICES ASSUME Init
             PROVE  IInv
  OBVIOUS
<1>1. DOMAIN sock = {} /\ DOMAIN mMultiplexer = {}
  BY DEF Init
<1>2. \A t \in Acceptors : acceptor[t].pc = "idle" /\ acceptor[t].u = None
  BY DEF Init
<1>3. TypeOK
  <2>1. SocketID \in 1 .. MaxSockets + 1 /\ cleanups \in 0 .. MaxCleanups
    BY SocketLifeAssumption DEF Init
  <2>2. /\ worker \in WorkerType
        /\ acceptor \in [Acceptors -> AcceptorType]
    BY DEF Init, WorkerType, AcceptorType
  <2>3. \A u \in DOMAIN sock : sock[u] \in CUDTSocket
    BY <1>1
  <2>4. \A m \in DOMAIN mMultiplexer : mMultiplexer[m] \in CMultiplexer
    BY <1>1
  <2>5. /\ DOMAIN sock \subseteq Ids /\ DOMAIN mMultiplexer \subseteq Ids
        /\ Sockets \subseteq DOMAIN sock /\ ClosedSockets \subseteq DOMAIN sock /\ PeerRec \subseteq Peers \X Ids
        /\ closers \subseteq Ids /\ owned \subseteq Ids /\ bClosing \in BOOLEAN
        /\ gc \in {"running", "final", "done"} /\ orderly \in BOOLEAN
        /\ fate \in {"runs", "null", "lost"}
    BY <1>1 DEF Init
  <2> QED
    BY <2>1, <2>2, <2>3, <2>4, <2>5 DEF TypeOK, WorkerType, AcceptorType
<1>4. Shape /\ IdsAreFresh /\ Places /\ Queues /\ Records
  <2>1. sock = [u \in {} |-> sock[u]] /\ mMultiplexer = [m \in {} |-> mMultiplexer[m]]
    BY DEF Init
  <2> QED
    BY <1>1, <2>1 DEF Init, Shape, IdsAreFresh, Places, Queues, Records, MadeFor
<1>5. Multiplexers
  BY <1>1 DEF Multiplexers, RefCountExact
<1>6. Working
  BY DEF Init, Working, Idle
<1>7. Accepting /\ AcceptorsWake
  BY <1>1, <1>2 DEF Init, Accepting, AcceptorsWake, Making
<1>8. Ending
  <2>1. worker.pc = "idle"
    BY DEF Init
  <2> QED
    BY <1>1, <2>1 DEF Init, Ending
<1>9. Survives
  BY DEF Init, Survives
<1> QED
  BY <1>3, <1>4, <1>5, <1>6, <1>7, <1>8, <1>9 DEF IInv

LEMMA Inductive == IInv /\ [Next]_vars => IInv'
<1> SUFFICES ASSUME IInv, [Next]_vars
             PROVE  IInv'
  OBVIOUS
<1>1. CASE Application
  <2>1. CASE newSocket \/ cleanup \/ startup
    BY <2>1, NewSocketStep, CleansUp, StartsUp
  <2>2. CASE \E u \in Ids :
               \/ \E reuse \in BOOLEAN : bind(u, reuse)
               \/ \E n \in 1 .. MaxBackLog : listen(u, n)
               \/ \E blocks \in BOOLEAN : connect(u, blocks)
    BY <2>2, Binds, ListenStep, Connects
  <2>3. CASE \E u \in Ids : connectFails(u) \/ connect_complete(u) \/ Send(u) \/ close(u) \/ closeRetires(u)
    BY <2>3, ConnectFails, ConnectCompletes, SendStep, Closes, CloseRetires
  <2>4. CASE \E t \in Acceptors :
               (\E l \in Ids : acceptBegins(t, l)) \/ acceptTries(t) \/ acceptReturns(t) \/ acceptFaults(t)
    BY <2>4, AcceptBegins, AcceptTries, AcceptReturns, AcceptFaults
  <2> QED
    BY <1>1, <2>1, <2>2, <2>3, <2>4 DEF Application
<1>2. CASE Worker
  <2>1. CASE \E p \in Peers : requested(p)
    BY <2>1, Requested
  <2>2. CASE locates \/ creates \/ rollsBack \/ signals
    BY <2>2, Locates, Creates, RollsBack, Signals
  <2>3. CASE createsNothing
    BY <2>3, GivesUp DEF createsNothing
  <2>4. CASE \E opened, joins, onList \in BOOLEAN : createsInVain(opened, joins, onList)
    BY <2>4, CreatesInVain
  <2>5. CASE \E stored, recorded \in BOOLEAN : inserts(stored, recorded)
    BY <2>5, Inserts
  <2>6. CASE \E queued \in BOOLEAN : queues(queued)
    BY <2>6, QueueStep
  <2>7. CASE \E u \in Ids : breaks(u) \/ drains(u) \/ leavesList(u)
    BY <2>7, Breaks, Drains, LeavesList
  <2> QED
    BY <1>2, <2>1, <2>2, <2>3, <2>4, <2>5, <2>6, <2>7 DEF Worker
<1>3. CASE Collector
  BY <1>3, ChecksBroken, LooksUp, Pulls, ClosesAll, ClosesStuck, Ends DEF Collector
<1>4. CASE UNCHANGED vars
  BY <1>4, Stutters
<1> QED
  BY <1>1, <1>2, <1>3, <1>4 DEF Next

\* The invariant holds, however the application, the receive worker, the acceptors and
\* the garbage collector (api.cpp) interleave.
THEOREM TablesInvariant == Spec => []IInv
BY Initially, Inductive, PTL DEF Spec

-----------------------------------------------------------------------------
(* What the invariant says                                                  *)

\* However often newConnection runs out of memory: a connection is in the queue of its
\* listener or with one caller of accept, never in both nor with two, no queue is longer
\* than listen allowed, and m_PeerRec names only sockets that have not been deleted
\* (newConnection, accept, close and checkBrokenSockets in api.cpp).
THEOREM ConnectionsAreUnique == Spec => [](AcceptedOnce /\ BackLogKept /\ PeerRecAlive)
<1>1. ASSUME IInv
      PROVE  AcceptedOnce /\ BackLogKept /\ PeerRecAlive
  <2>1. BackLogKept
    BY <1>1 DEF IInv, Queues, BackLogKept
  <2>2. AcceptedOnce
    BY <1>1 DEF IInv, Accepting, AcceptedOnce
  <2>3. PeerRecAlive
    BY <1>1 DEF IInv, Records, PeerRecAlive
  <2> QED
    BY <2>1, <2>2, <2>3
<1> QED
  BY <1>1, TablesInvariant, PTL

\* If newConnection does not run out of memory, all tables of CUDTUnited name only
\* sockets that are there: what is queued is in m_Sockets, too, where removeSocket looks
\* it up without a test, unless cleanup has come upon threads at work (api.cpp).
THEOREM TablesAlwaysAgree ==
  ASSUME ~ Failures
  PROVE  Spec => []TablesAgree
<1>1. ASSUME IInv
      PROVE  TypeOK /\ QueuedIsThere
  BY <1>1 DEF IInv, Queues, Came, QueuedIsThere
<1> QED
  BY <1>1, TablesInvariant, ConnectionsAreUnique, PTL DEF TablesAgree

\* If newConnection does not run out of memory, whoever waits in accept is woken for
\* each connection that is queued, and when the listener is closed (m_AcceptCond in
\* newConnection and close), until cleanup closes all sockets, which wakes nobody.
THEOREM AcceptorsAreWoken ==
  ASSUME ~ Failures
  PROVE  Spec => []AcceptorsWake
<1>1. IInv => AcceptorsWake
  BY DEF IInv
<1> QED
  BY <1>1, TablesInvariant, PTL

\* A peer that repeats its request has at most one working connection: newConnection
\* makes another only when what it made before is broken.
THEOREM OneConnectionPerPeer == Spec => []OnePerPeer
<1>1. ASSUME IInv
      PROVE  OnePerPeer
  <2> SUFFICES ASSUME NEW p \in Peers
               PROVE  Cardinality({u \in MadeFor(p) : ~ sock[u].broken}) <= 1
    BY DEF OnePerPeer
  <2>1. PICK S : S = {u \in MadeFor(p) : ~ sock[u].broken}
    OBVIOUS
  <2>2. \A u, v \in S : u = v
    <3> SUFFICES ASSUME NEW u \in S, NEW v \in S
                 PROVE  u = v
      OBVIOUS
    <3>1. u \in Int /\ v \in Int
      BY <1>1, <2>1, SocketLifeAssumption DEF MadeFor, IInv, TypeOK, Ids
    <3>2. ~ (u < v) /\ ~ (v < u)
      BY <1>1, <2>1 DEF IInv, Records
    <3> QED
      BY <3>1, <3>2
  <2>3. CASE S = {}
    BY <2>1, <2>3, FS_EmptySet
  <2>4. CASE S # {}
    <3>1. PICK x : S = {x}
      BY <2>2, <2>4
    <3>2. Cardinality(S) = 1
      BY <3>1, FS_Singleton
    <3> QED
      BY <2>1, <3>2
  <2> QED
    BY <2>3, <2>4
<1> QED
  BY <1>1, TablesInvariant, PTL

\* The uses of a multiplexer are counted exactly, those that a failed newConnection
\* leaves behind included (bind, connect, newConnection and removeSocket).
THEOREM CountsAreExact == Spec => []RefCountExact
<1>1. IInv => RefCountExact
  BY DEF IInv, Multiplexers
<1> QED
  BY <1>1, TablesInvariant, PTL

\* If newConnection does not run out of memory, nothing is left when the garbage
\* collector has ended (garbageCollect), no socket is pulled away from a thread unless
\* cleanup comes upon one at work, and only accept meets a NULL pointer.
THEOREM NothingEverLeaks ==
  ASSUME ~ Failures
  PROVE  Spec => []NothingLeaks
<1>1. ASSUME IInv
      PROVE  NothingLeaks
  <2>1. RefCountExact
    BY <1>1 DEF IInv, Multiplexers
  <2>2. ASSUME gc = "done", bClosing
        PROVE  sock = <<>> /\ mMultiplexer = <<>>
    <3>1. worker.pc = "idle" /\ \A l \in DOMAIN sock : sock[l].queued = {}
      BY <1>1, <2>2, NobodyListens
    <3>2. Sockets = {} /\ ClosedSockets = {}
      BY <1>1, <2>2, <3>1 DEF IInv, Ending
    <3>5. DOMAIN sock = {}
      BY <1>1, <3>1, <3>2 DEF IInv, Ending
    <3>3. DOMAIN mMultiplexer = {}
      <4> SUFFICES ASSUME NEW m \in DOMAIN mMultiplexer
                   PROVE  FALSE
        OBVIOUS
      <4>1. mMultiplexer[m].refCount = Cardinality({u \in DOMAIN sock : sock[u].mux = m})
        BY <2>1 DEF RefCountExact
      <4>2. mMultiplexer[m].refCount = 0
        BY <3>5, <4>1, FS_EmptySet
      <4> QED
        BY <1>1, <4>2, SocketLifeAssumption DEF IInv, TypeOK, CMultiplexer
    <3>4. sock = [u \in {} |-> sock[u]] /\ mMultiplexer = [m \in {} |-> mMultiplexer[m]]
      BY <1>1, <3>3, <3>5 DEF IInv, Shape
    <3> QED
      BY <3>4
  <2> QED
    BY <1>1, <2>1, <2>2 DEF NothingLeaks, NothingLeft, IInv
<1> QED
  BY <1>1, TablesInvariant, PTL

\* A socket is deleted by the garbage collector alone, and then it is on no list of the
\* receive worker, nobody's listener and, until a cleanup that comes upon threads at
\* work, in no queue (checkBrokenSockets and removeSocket in api.cpp).
THEOREM DeletedSocketsAreForgotten == Spec => DeletedIsForgotten
<1> DEFINE Forgotten ==
      \A u \in DOMAIN sock \ DOMAIN sock' :
        /\ ~ sock[u].onList
        /\ Torn \/ \A l \in DOMAIN sock' : u \notin sock'[l].queued
        /\ \A m \in DOMAIN mMultiplexer' : mMultiplexer'[m].listener # u
<1>1. ASSUME IInv, [Next]_vars
      PROVE  Forgotten
  <2>1. ASSUME NEW due \in SUBSET Delayed, NEW expired \in SUBSET Lingering,
               checkBrokenSockets(due, expired)
        PROVE  Forgotten
    <3>1. PICK D : D = ToBeRemoved(due, expired)
      OBVIOUS
    <3>2. DOMAIN sock' = DOMAIN sock \ D /\ mMultiplexer' = Released(Unlistened(D), D)
      BY <2>1, <3>1 DEF checkBrokenSockets
    <3>3. \A u \in D : ~ sock[u].onList /\ u \in Ids
      BY <1>1, <3>1 DEF ToBeRemoved, IInv, TypeOK
    <3>4. Torn \/ \A l \in DOMAIN sock' : sock'[l].queued \subseteq DOMAIN sock'
      <4>1. IInv'
        BY <1>1, <2>1, ChecksBroken
      <4>2. Torn' <=> Torn
        BY <2>1 DEF checkBrokenSockets, CollectorOnly, GoesOn, process, Torn
      <4> QED
        BY <4>1, <4>2 DEF IInv, Queues, Came
    <3>5. \A m \in DOMAIN mMultiplexer' : mMultiplexer'[m].listener \notin D
      <4> SUFFICES ASSUME NEW m \in DOMAIN mMultiplexer'
                   PROVE  mMultiplexer'[m].listener \notin D
        OBVIOUS
      <4>1. m \in DOMAIN Unlistened(D) /\ mMultiplexer'[m].listener = Unlistened(D)[m].listener
        <5>1. PICK mux : mux = Unlistened(D)
          OBVIOUS
        <5>2. \A k \in DOMAIN mMultiplexer : mux[k] \in CMultiplexer
          BY <1>1, <5>1, UnlistenedIs
        <5>3. mMultiplexer' = Released(mux, D)
          BY <3>2, <5>1
        <5>4. m \in DOMAIN mux /\ \E n : mMultiplexer'[m] = [mux[m] EXCEPT !.refCount = n]
          BY <5>3 DEF Released
        <5>5. mux[m] \in CMultiplexer
          BY <1>1, <5>1, <5>2, <5>4, UnlistenedIs
        <5>6. mMultiplexer'[m].listener = mux[m].listener
          BY <5>4, <5>5 DEF CMultiplexer
        <5> QED
          BY <5>1, <5>4, <5>6
      <4>2. Unlistened(D)[m].listener = None \/ Unlistened(D)[m].listener \notin D
        BY <1>1, <4>1, UnlistenedIs
      <4> QED
        BY <3>3, <4>1, <4>2 DEF Ids, None
    <3> QED
      BY <3>2, <3>3, <3>4, <3>5
  <2>2. ASSUME DOMAIN sock \subseteq DOMAIN sock'
        PROVE  Forgotten
    BY <2>2
  <2>3. CASE Application
    <3>1. DOMAIN sock \subseteq DOMAIN sock'
      BY <1>1, <2>3 DEF Application, newSocket, cleanup, startup, bind, listen, connect, connectFails,
           connect_complete, Send, close, closeRetires, acceptBegins, acceptTries, acceptReturns,
           acceptFaults, Dies, With, united
    <3> QED
      BY <2>2, <3>1
  <2>4. CASE Worker
    <3>1. DOMAIN sock \subseteq DOMAIN sock'
      BY <1>1, <2>4, ZenonT(60) DEF Worker, requested, locates, creates, createsNothing,
           createsInVain, inserts, queues, rollsBack, signals, breaks, drains, leavesList, With, united
    <3> QED
      BY <2>2, <3>1
  <2>5. ASSUME NEW due \in SUBSET Delayed, NEW expired \in SUBSET Lingering,
               looksUpInVain(due, expired) \/ pulls(due, expired)
        PROVE  Forgotten
    BY <2>2, <2>5 DEF looksUpInVain, pulls, Dies, united
  <2>6. CASE closesAll \/ closesStuck \/ ends \/ UNCHANGED vars
    BY <2>2, <2>6 DEF closesAll, closesStuck, ends, Dies, united, vars
  <2> QED
    BY <1>1, <2>1, <2>3, <2>4, <2>5, <2>6 DEF Next, Collector
<1> QED
  BY <1>1, TablesInvariant, PTL DEF Spec, DeletedIsForgotten
=============================================================================
