------------------------------ MODULE SocketLife ------------------------------
(***************************************************************************)
(* The life of sockets in CUDTUnited (api.cpp): the application creates,   *)
(* binds, connects, accepts and closes them, the receive worker of a       *)
(* multiplexer adds those that a listener's peers ask for, and the garbage *)
(* collector closes the broken ones, deletes the closed ones after a       *)
(* second and with the last of a multiplexer its queues and workers.       *)
(*                                                                         *)
(* An operation that holds m_ControlLock or an m_AcceptLock to its end is  *)
(* one action; newConnection, accept and close give the locks up in        *)
(* between and are several.  A port that nobody names is a fresh one.      *)
(*                                                                         *)
(* Where the code uses a NULL pointer, deletes what a thread works with or *)
(* locks itself up, fate records it and the model goes no further.         *)
(***************************************************************************)
EXTENDS Integers, FiniteSets

CONSTANTS
  MaxSockets,     \* bound: the sockets ever created
  MaxNew,         \* bound: those of them that the application creates
  Peers,          \* who asks a listener for a connection: address, id and ISN
  Acceptors,      \* the threads that call accept
  MaxBackLog,     \* bound: the argument of listen
  SynSending,     \* BOOLEAN: UDT_SNDSYN; without it close lingers in the background
  Failures,       \* BOOLEAN: may newConnection run out of memory?
  MaxCleanups,    \* bound: calls of cleanup
  NoPeer

ASSUME SocketLifeAssumption ==
  /\ MaxSockets \in Nat \ {0} /\ MaxNew \in 1 .. MaxSockets
  /\ MaxBackLog \in Nat \ {0}
  /\ MaxCleanups \in Nat
  /\ {SynSending, Failures} \subseteq BOOLEAN
  /\ NoPeer \notin Peers
  /\ IsFiniteSet(Acceptors)

VARIABLES
  sock,            \* every CUDTSocket there is, by id
  Sockets,         \* m_Sockets
  ClosedSockets,   \* m_ClosedSockets
  mMultiplexer,    \* m_mMultiplexer, by the id of the socket that made it
  PeerRec,         \* m_PeerRec
  SocketID,        \* m_SocketID: ids count down
  worker,          \* the receive worker that serves the listener, in newConnection
  acceptor,        \* each acceptor's place in accept
  closers,         \* sockets that an application thread is in the middle of closing
  owned,           \* the ids the application has been given
  bClosing,        \* m_bClosing: cleanup has been called
  gc,              \* the garbage collector's place
  cleanups,        \* calls of cleanup so far
  orderly,         \* no call or request was under way when cleanup was called, nor came since
  fate             \* "runs", "null" (a NULL pointer was used) or "lost" (see pulls, closesStuck)

united == <<sock, Sockets, ClosedSockets, mMultiplexer, PeerRec>>
process == <<orderly, fate>>
vars == <<united, SocketID, worker, acceptor, closers, owned, bClosing, gc, cleanups, process>>

Ids    == 1 .. MaxSockets
None   == 0
Status == {"INIT", "OPENED", "LISTENING", "CONNECTING", "CONNECTED", "CLOSED"}
Ports  == {"named", "fresh"}

CUDTSocket ==
  [status : Status, opened : BOOLEAN, connected : BOOLEAN, closing : BOOLEAN,
   broken : BOOLEAN, unsent : BOOLEAN, linger : BOOLEAN, onList : BOOLEAN, locked : BOOLEAN, mux : Ids \cup {None},
   listenSocket : Ids \cup {None}, peer : Peers \cup {NoPeer},
   backLog : 0 .. MaxBackLog, queued : SUBSET Ids, accepted : SUBSET Ids]

CMultiplexer ==
  [port : Ports, refCount : 1 .. MaxSockets, reusable : BOOLEAN, listener : Ids \cup {None}]

TypeOK ==
  /\ DOMAIN sock \subseteq Ids /\ \A u \in DOMAIN sock : sock[u] \in CUDTSocket
  /\ Sockets \subseteq DOMAIN sock /\ ClosedSockets \subseteq DOMAIN sock
  /\ DOMAIN mMultiplexer \subseteq Ids
  /\ \A m \in DOMAIN mMultiplexer : mMultiplexer[m] \in CMultiplexer
  /\ PeerRec \subseteq Peers \X Ids
  /\ SocketID \in 1 .. MaxSockets + 1
  /\ worker \in [pc : {"idle", "locate", "create", "insert", "queue", "signal", "rollback"},
                 peer : Peers \cup {NoPeer}, ls : Ids \cup {None}, ns : Ids \cup {None},
                 failed : BOOLEAN]
  /\ acceptor \in [Acceptors -> [pc : {"idle", "ready", "waiting", "found"},
                                 ls : Ids \cup {None}, u : Ids \cup {None}]]
  /\ closers \subseteq Ids /\ owned \subseteq Ids
  /\ bClosing \in BOOLEAN
  /\ gc \in {"running", "final", "done"}
  /\ cleanups \in 0 .. MaxCleanups
  /\ orderly \in BOOLEAN /\ fate \in {"runs", "null", "lost"}

-----------------------------------------------------------------------------
(* The parts of the operations.                                             *)

FreshSocket ==
  [status |-> "INIT", opened |-> FALSE, connected |-> FALSE, closing |-> FALSE,
   broken |-> FALSE, unsent |-> FALSE, linger |-> FALSE, onList |-> FALSE, locked |-> FALSE, mux |-> None,
   listenSocket |-> None, peer |-> NoPeer, backLog |-> 0, queued |-> {}, accepted |-> {}]

With(f, u, x)  == [v \in DOMAIN f \cup {u} |-> IF v = u THEN x ELSE f[v]]
Least(ids)     == CHOOSE u \in ids : \A v \in ids : u <= v

\* locate(u) finds a socket.
Known(u) == u \in Sockets /\ sock[u].status # "CLOSED"

\* The application has called startup, and not yet cleanup.
InUse == ~ bClosing /\ gc = "running"

\* locate(peer, id, isn): what was made for that peer and is in m_Sockets.
MadeFor(peer) == {u \in Sockets : <<peer, u>> \in PeerRec}

\* updateMux(s, addr): the multiplexers whose port s may use too.
Shared(port, reuse) ==
  {m \in DOMAIN mMultiplexer : reuse /\ mMultiplexer[m].reusable /\ mMultiplexer[m].port = port}

\* updateMux(ns, ls), and the reuse in the other: one more user of multiplexer m.
Joined(m) == [mMultiplexer EXCEPT ![m].refCount = @ + 1]

NewMux(port, reuse) == [port |-> port, refCount |-> 1, reusable |-> reuse, listener |-> None]

Lingers(c) == c.connected /\ ~ c.broken /\ c.unsent /\ ~ SynSending /\ ~ c.linger

\* CUDT::close.  One that still has data to send and does not block only starts
\* the linger time.
Shut(c) ==
  IF ~ c.opened THEN c
  ELSE IF Lingers(c) THEN [c EXCEPT !.linger = TRUE]
  ELSE [c EXCEPT !.opened = FALSE, !.connected = FALSE, !.closing = TRUE]

\* removeListener in CUDT::close
Unlistened(ids) ==
  [m \in DOMAIN mMultiplexer |->
     [mMultiplexer[m] EXCEPT !.listener = IF @ \in ids THEN None ELSE @]]

\* A closed socket moves to m_ClosedSockets and waits for a second.
Retired(c) == [c EXCEPT !.status = "CLOSED"]

\* Mutant: a broken connection stays in the queue of its listener.
UnqueuedLater(l, ids) == sock[l]

\* Listener l forgets those of ids that came from it.
Unqueued(l, ids) ==
  LET its == {u \in ids : sock[u].listenSocket = l}
  IN [sock[l] EXCEPT !.queued = @ \ its, !.accepted = @ \ its]

\* Mutant: a multiplexer goes with the first of its sockets.
ReleasedAtOnce(mux, ids) == [m \in DOMAIN mux \ {sock[u].mux : u \in ids} |-> mux[m]]

\* The sockets ids use their multiplexers no more; with the last use one is deleted.
Released(mux, ids) ==
  LET Left(m) == mux[m].refCount - Cardinality({u \in ids : sock[u].mux = m})
  IN [m \in {n \in DOMAIN mux : Left(n) > 0} |-> [mux[m] EXCEPT !.refCount = Left(m)]]

PeerForgotten(ids) == {r \in PeerRec : r[2] \notin ids}

GoesOn == fate = "runs" /\ UNCHANGED process

\* Nothing more happens.
Dies(how) ==
  /\ fate = "runs" /\ fate' = how
  /\ UNCHANGED <<united, SocketID, worker, acceptor, closers, owned, bClosing, gc, cleanups, orderly>>

-----------------------------------------------------------------------------
(* The application                                                          *)

Init ==
  /\ sock = <<>> /\ Sockets = {} /\ ClosedSockets = {} /\ mMultiplexer = <<>> /\ PeerRec = {}
  /\ SocketID = MaxSockets + 1
  /\ worker = [pc |-> "idle", peer |-> NoPeer, ls |-> None, ns |-> None, failed |-> FALSE]
  /\ acceptor = [t \in Acceptors |-> [pc |-> "idle", ls |-> None, u |-> None]]
  /\ closers = {} /\ owned = {}
  /\ bClosing = FALSE /\ gc = "running" /\ cleanups = 0
  /\ orderly = TRUE /\ fate = "runs"

newSocket ==
  /\ InUse /\ SocketID > MaxSockets + 1 - MaxNew
  /\ worker.pc \in {"locate", "create"} => SocketID > 2
  /\ SocketID' = SocketID - 1
  /\ sock' = With(sock, SocketID', FreshSocket)
  /\ Sockets' = Sockets \cup {SocketID'}
  /\ owned' = owned \cup {SocketID'}
  /\ UNCHANGED <<ClosedSockets, mMultiplexer, PeerRec, worker, acceptor, closers, bClosing, gc, cleanups>>
  /\ GoesOn

\* The application calls an operation on u that takes u's own lock.
Call(u) == InUse /\ u \in owned /\ Known(u) /\ ~ sock[u].locked

AppOnly == GoesOn /\ UNCHANGED <<SocketID, worker, acceptor, owned, bClosing, gc, cleanups>>

Opened(c, m) == [c EXCEPT !.status = "OPENED", !.opened = TRUE, !.mux = m]

\* bind to the named port, alone or together with others.
bind(u, reuse) ==
  /\ Call(u) /\ sock[u].status = "INIT"
  /\ \/ \E m \in Shared("named", reuse) :
          /\ mMultiplexer' = Joined(m)
          /\ sock' = [sock EXCEPT ![u] = Opened(@, m)]
     \/ /\ \A m \in DOMAIN mMultiplexer : mMultiplexer[m].port # "named"
        /\ mMultiplexer' = With(mMultiplexer, u, NewMux("named", reuse))
        /\ sock' = [sock EXCEPT ![u] = Opened(@, u)]
     \/ \* the port is taken: CChannel::open throws
        /\ Shared("named", reuse) = {}
        /\ \E m \in DOMAIN mMultiplexer : mMultiplexer[m].port = "named"
        /\ sock' = [sock EXCEPT ![u].opened = TRUE]
        /\ UNCHANGED mMultiplexer
  /\ UNCHANGED <<Sockets, ClosedSockets, PeerRec, closers>> /\ AppOnly

\* listen; the multiplexer has one listener.
listen(u, backLog) ==
  /\ Call(u) /\ sock[u].status = "OPENED"
  /\ mMultiplexer[sock[u].mux].listener = None
  /\ mMultiplexer' = [mMultiplexer EXCEPT ![sock[u].mux].listener = u]
  /\ sock' = [sock EXCEPT ![u].status = "LISTENING", ![u].backLog = backLog]
  /\ UNCHANGED <<Sockets, ClosedSockets, PeerRec, closers>> /\ AppOnly

\* connect sends its request; a blocking one keeps the socket's lock.
connect(u, blocks) ==
  /\ Call(u) /\ sock[u].status \in {"INIT", "OPENED"}
  /\ IF sock[u].status = "INIT"
       THEN /\ mMultiplexer' = With(mMultiplexer, u, NewMux("fresh", TRUE))
            /\ sock' = [sock EXCEPT ![u] =
                 [Opened(@, u) EXCEPT !.status = "CONNECTING", !.locked = blocks]]
       ELSE /\ sock' = [sock EXCEPT ![u].status = "CONNECTING", ![u].locked = blocks]
            /\ UNCHANGED mMultiplexer
  /\ UNCHANGED <<Sockets, ClosedSockets, PeerRec, closers>> /\ AppOnly

\* A blocking connect gives up.
connectFails(u) ==
  /\ u \in Sockets \ closers /\ sock[u].status = "CONNECTING" /\ sock[u].locked
  /\ sock' = [sock EXCEPT ![u].status = "OPENED", ![u].locked = FALSE]
  /\ UNCHANGED <<Sockets, ClosedSockets, mMultiplexer, PeerRec, closers>> /\ AppOnly

\* The response has come.
connect_complete(u) ==
  /\ u \in Sockets \ closers /\ sock[u].status = "CONNECTING"
  /\ sock' = [sock EXCEPT ![u] = [@ EXCEPT !.status = "CONNECTED", !.connected = TRUE,
                                           !.onList = TRUE, !.locked = FALSE]]
  /\ UNCHANGED <<Sockets, ClosedSockets, mMultiplexer, PeerRec, closers>> /\ AppOnly

Send(u) ==
  /\ InUse /\ u \in owned /\ Known(u)
  /\ sock[u].connected /\ ~ sock[u].broken /\ ~ sock[u].closing /\ ~ sock[u].unsent
  /\ sock' = [sock EXCEPT ![u].unsent = TRUE]
  /\ UNCHANGED <<Sockets, ClosedSockets, mMultiplexer, PeerRec, closers>> /\ AppOnly

\* Mutant: closing a listener wakes nobody.
WokenNever(l) == acceptor

\* m_AcceptCond is broadcast.
Woken(l) ==
  [t \in Acceptors |-> IF acceptor[t].pc = "waiting" /\ acceptor[t].ls = l
                         THEN [acceptor[t] EXCEPT !.pc = "ready"] ELSE acceptor[t]]

\* close, up to m_ControlLock.  A listener is only marked; its acceptors wake.
close(u) ==
  /\ Call(u) /\ ~ (sock[u].status = "LISTENING" /\ sock[u].broken)
  /\ IF sock[u].status = "LISTENING"
       THEN /\ sock' = [sock EXCEPT ![u].broken = TRUE]
            /\ acceptor' = Woken(u)
            /\ UNCHANGED closers
       ELSE /\ sock' = [sock EXCEPT ![u] = [Shut(@) EXCEPT !.locked = TRUE]]
            /\ closers' = closers \cup {u}
            /\ UNCHANGED acceptor
  /\ UNCHANGED <<Sockets, ClosedSockets, mMultiplexer, PeerRec>>
  /\ UNCHANGED <<SocketID, worker, owned, bClosing, gc, cleanups>> /\ GoesOn

\* close, from m_ControlLock on: the socket may have been closed meanwhile.
closeRetires(u) ==
  /\ u \in closers
  /\ closers' = closers \ {u}
  /\ sock' = [sock EXCEPT ![u] = [(IF Known(u) THEN Retired(@) ELSE @) EXCEPT !.locked = FALSE]]
  /\ Sockets' = IF Known(u) THEN Sockets \ {u} ELSE Sockets
  /\ ClosedSockets' = IF Known(u) THEN ClosedSockets \cup {u} ELSE ClosedSockets
  /\ UNCHANGED <<mMultiplexer, PeerRec>> /\ AppOnly

-----------------------------------------------------------------------------
(* accept                                                                   *)

AcceptOnly ==
  /\ UNCHANGED <<Sockets, ClosedSockets, mMultiplexer, PeerRec, SocketID, worker, closers>>
  /\ UNCHANGED <<bClosing, gc, cleanups>> /\ GoesOn

acceptBegins(t, l) ==
  /\ InUse /\ l \in owned /\ Known(l) /\ sock[l].status = "LISTENING"
  /\ acceptor[t].pc = "idle"
  /\ acceptor' = [acceptor EXCEPT ![t] = [pc |-> "ready", ls |-> l, u |-> None]]
  /\ UNCHANGED <<sock, owned>> /\ AcceptOnly

Taken(c, u) == [c EXCEPT !.queued = @ \ {u}, !.accepted = @ \cup {u}]

\* Under m_AcceptLock: the listener is closed, or there is a connection, or wait, or
\* do not (UDT_RCVSYN, which may be set at any time).
acceptTries(t) ==
  LET l == acceptor[t].ls c == sock[l] IN
    /\ acceptor[t].pc = "ready"
    /\ IF c.status # "LISTENING" \/ c.broken
         THEN /\ acceptor' = [acceptor EXCEPT ![t] = [pc |-> "idle", ls |-> None, u |-> None]]
              /\ UNCHANGED sock
       ELSE IF c.queued # {}
         THEN /\ acceptor' = [acceptor EXCEPT ![t].pc = "found", ![t].u = Least(c.queued)]
              /\ sock' = [sock EXCEPT ![l] = Taken(@, Least(c.queued))]
       ELSE /\ \/ acceptor' = [acceptor EXCEPT ![t].pc = "waiting"]
               \/ acceptor' = [acceptor EXCEPT ![t] = [pc |-> "idle", ls |-> None, u |-> None]]
            /\ UNCHANGED sock
    /\ UNCHANGED owned /\ AcceptOnly

\* accept returns, also a connection that has been closed meanwhile ...
acceptReturns(t) ==
  /\ acceptor[t].pc = "found"
  /\ owned' = owned \cup {acceptor[t].u}
  /\ acceptor' = [acceptor EXCEPT ![t] = [pc |-> "idle", ls |-> None, u |-> None]]
  /\ UNCHANGED sock /\ AcceptOnly

\* ... unless the caller wants the peer's address: it is taken from what locate(u)
\* returns, which is NULL then.
acceptFaults(t) ==
  acceptor[t].pc = "found" /\ ~ Known(acceptor[t].u) /\ Dies("null")

-----------------------------------------------------------------------------
(* newConnection, which the receive worker runs for the listener            *)

WorkerOnly == GoesOn /\ UNCHANGED <<closers, owned, bClosing, gc, cleanups>>

Idle == [pc |-> "idle", peer |-> NoPeer, ls |-> None, ns |-> None, failed |-> FALSE]

\* A request with a valid cookie comes for the listener.
requested(p) ==
  /\ worker.pc = "idle" /\ SocketID > 1
  /\ \E m \in DOMAIN mMultiplexer :
       LET l == mMultiplexer[m].listener IN
         /\ l # None /\ ~ sock[l].closing
         /\ worker' = [Idle EXCEPT !.pc = "locate", !.peer = p, !.ls = l]
  /\ orderly' = (orderly /\ ~ bClosing)
  /\ fate = "runs"
  /\ UNCHANGED <<united, SocketID, acceptor, closers, owned, bClosing, gc, cleanups, fate>>

\* Mutant: a repeated request makes another connection.
RepeatedNever(peer) == FALSE

\* The peer repeats the request of a connection that works.
Repeated(peer) == MadeFor(peer) # {} /\ ~ sock[Least(MadeFor(peer))].broken

BackLogFull(c) == Cardinality(c.queued) >= c.backLog

\* A broken connection of the same peer makes room for the new one.
locates ==
  /\ worker.pc = "locate"
  /\ LET l == worker.ls old == MadeFor(worker.peer) e == Least(old) IN
       IF ~ Known(l) \/ Repeated(worker.peer)
         THEN worker' = Idle /\ UNCHANGED sock
       ELSE /\ sock' = IF old = {} THEN sock
                       ELSE [sock EXCEPT ![e].status = "CLOSED",
                                         ![l].queued = @ \ {e}, ![l].accepted = @ \ {e}]
            /\ worker' = IF BackLogFull(sock'[l]) THEN Idle ELSE [worker EXCEPT !.pc = "create"]
  /\ UNCHANGED <<Sockets, ClosedSockets, mMultiplexer, PeerRec, SocketID, acceptor>> /\ WorkerOnly

\* The new socket shares the multiplexer of the listener.
creates ==
  /\ worker.pc = "create"
  /\ worker.ls \in DOMAIN sock /\ sock[worker.ls].mux \in DOMAIN mMultiplexer
  /\ SocketID' = SocketID - 1
  /\ mMultiplexer' = Joined(sock[worker.ls].mux)
  /\ sock' = With(sock, SocketID', [FreshSocket EXCEPT
                 !.mux = sock[worker.ls].mux, !.listenSocket = worker.ls, !.peer = worker.peer,
                 !.status = "CONNECTED", !.opened = TRUE, !.connected = TRUE, !.onList = TRUE])
  /\ worker' = [worker EXCEPT !.pc = "insert", !.ns = SocketID']
  /\ UNCHANGED <<Sockets, ClosedSockets, PeerRec, acceptor>> /\ WorkerOnly

\* Memory runs out before there is a socket.
createsNothing ==
  /\ Failures /\ worker.pc = "create" /\ worker' = Idle
  /\ UNCHANGED <<united, SocketID, acceptor>> /\ WorkerOnly

\* open, updateMux or connect throws (error 1): the new socket is closed, but it is in
\* no table, so it is never deleted, nor is its use of the multiplexer given up.
createsInVain(opened, joins, onList) ==
  /\ Failures /\ worker.pc = "create"
  /\ (onList => joins) /\ (joins => opened)
  /\ worker.ls \in DOMAIN sock /\ sock[worker.ls].mux \in DOMAIN mMultiplexer
  /\ SocketID' = SocketID - 1
  /\ mMultiplexer' = IF joins THEN Joined(sock[worker.ls].mux) ELSE mMultiplexer
  /\ sock' = With(sock, SocketID', [FreshSocket EXCEPT
                 !.mux = IF joins THEN sock[worker.ls].mux ELSE None,
                 !.listenSocket = worker.ls, !.peer = worker.peer,
                 !.status = "CLOSED", !.closing = opened, !.onList = onList])
  /\ worker' = Idle
  /\ UNCHANGED <<Sockets, ClosedSockets, PeerRec, acceptor>> /\ WorkerOnly

\* Either insertion may throw (error 2); newConnection goes on all the same.
inserts(stored, recorded) ==
  /\ worker.pc = "insert"
  /\ (recorded => stored) /\ (recorded \/ Failures)
  /\ Sockets' = IF stored THEN Sockets \cup {worker.ns} ELSE Sockets
  /\ PeerRec' = IF recorded THEN PeerRec \cup {<<worker.peer, worker.ns>>} ELSE PeerRec
  /\ worker' = [worker EXCEPT !.pc = "queue", !.failed = ~ recorded]
  /\ UNCHANGED <<sock, ClosedSockets, mMultiplexer, SocketID, acceptor>> /\ WorkerOnly

\* So may this one (error 3).  A socket that error 2 has kept out of m_Sockets is queued.
queues(queued) ==
  /\ worker.pc = "queue" /\ worker.ls \in DOMAIN sock
  /\ queued \/ Failures
  /\ sock' = IF queued THEN [sock EXCEPT ![worker.ls].queued = @ \cup {worker.ns}] ELSE sock
  /\ worker' = [worker EXCEPT !.pc = IF worker.failed \/ ~ queued THEN "rollback" ELSE "signal"]
  /\ UNCHANGED <<Sockets, ClosedSockets, mMultiplexer, PeerRec, SocketID, acceptor>> /\ WorkerOnly

\* ERR_ROLLBACK closes the socket where it is and wakes nobody.
rollsBack ==
  /\ worker.pc = "rollback" /\ worker' = Idle
  /\ sock' = [sock EXCEPT ![worker.ns] = Retired(Shut(@))]
  /\ UNCHANGED <<Sockets, ClosedSockets, mMultiplexer, PeerRec, SocketID, acceptor>> /\ WorkerOnly

Waiting(l) == {t \in Acceptors : acceptor[t].pc = "waiting" /\ acceptor[t].ls = l}

signals ==
  /\ worker.pc = "signal" /\ worker' = Idle
  /\ \/ Waiting(worker.ls) = {} /\ UNCHANGED acceptor
     \/ \E t \in Waiting(worker.ls) : acceptor' = [acceptor EXCEPT ![t].pc = "ready"]
  /\ UNCHANGED <<united, SocketID>> /\ WorkerOnly

\* The worker that serves u is not busy with a request.
Served(u) ==
  /\ u \in DOMAIN sock /\ sock[u].onList
  /\ worker.pc # "idle" => worker.ls \in DOMAIN sock /\ sock[u].mux # sock[worker.ls].mux

WorkerTurn ==
  UNCHANGED <<Sockets, ClosedSockets, mMultiplexer, PeerRec, SocketID, worker, acceptor>> /\ WorkerOnly

\* A shutdown packet, or the peer is silent for too long.
breaks(u) ==
  /\ Served(u) /\ sock[u].connected /\ ~ sock[u].broken /\ ~ sock[u].closing
  /\ sock' = [sock EXCEPT ![u].broken = TRUE, ![u].closing = TRUE]
  /\ WorkerTurn

\* The peer has acknowledged everything.
drains(u) ==
  /\ Served(u) /\ sock[u].connected /\ ~ sock[u].broken /\ ~ sock[u].closing /\ sock[u].unsent
  /\ sock' = [sock EXCEPT ![u].unsent = FALSE]
  /\ WorkerTurn

\* The worker takes a socket that is no longer connected off its list.
leavesList(u) ==
  /\ Served(u)
  /\ ~ sock[u].connected \/ sock[u].broken \/ sock[u].closing
  /\ sock' = [sock EXCEPT ![u].onList = FALSE]
  /\ WorkerTurn

-----------------------------------------------------------------------------
(* The garbage collector                                                    *)

\* Threads with a pointer to u.  They let go of it before u's second is over
\* (m_pListener, which is read without a lock, even in the instant of the deletion);
\* cleanup does not wait that second.
InHand(u) ==
  \/ u \in {worker.ls, worker.ns} \/ u \in closers
  \/ \E t \in Acceptors : acceptor[t].pc \in {"ready", "waiting"} /\ u = acceptor[t].ls

\* Mutant: a closed listener is left to the application.
ToBeClosedConnections(due) == {u \in Sockets \cap due : sock[u].broken /\ sock[u].status # "LISTENING"}

\* due: whose time is up, be it a listener's three seconds, the 30 rounds that unread
\* data are kept or a closed socket's second; expired: whose linger time is.
ToBeClosed(due) == {u \in Sockets \cap due : sock[u].broken}

Delayed == {u \in DOMAIN sock : sock[u].broken \/ u \in ClosedSockets}
Lingering == {u \in DOMAIN sock : sock[u].linger}

LingerOver(due, expired) ==
  {u \in (ClosedSockets \cup ToBeClosed(due)) \cap Lingering : ~ sock[u].unsent \/ u \in expired}

\* Mutant: a socket is deleted though the worker still has it on its list.
ToBeRemovedListed(due, expired) == (ClosedSockets \cap due) \ LingerOver(due, expired)

\* Mutant: only what has broken is deleted.
ToBeRemovedBroken(due, expired) ==
  {u \in (ClosedSockets \cap due) \ LingerOver(due, expired) : ~ sock[u].onList /\ sock[u].broken}

ToBeRemoved(due, expired) ==
  {u \in (ClosedSockets \cap due) \ LingerOver(due, expired) : ~ sock[u].onList}

\* Mutant: a listener's queue is forgotten with it.
QueueForgotten(due, expired) == {}

\* The connections that wait in a listener's queue, which removeSocket closes with it.
QueueClosed(due, expired) ==
  UNION {Unqueued(l, ToBeClosed(due)).queued : l \in ToBeRemoved(due, expired)}

CollectorOnly == GoesOn /\ UNCHANGED <<SocketID, worker, acceptor, closers, owned, cleanups>>

checkBrokenSockets(due, expired) ==
  LET tbc     == ToBeClosed(due)
      tbr     == ToBeRemoved(due, expired)
      waiting == QueueClosed(due, expired)
      over    == LingerOver(due, expired)
      Ended(c) == [c EXCEPT !.linger = FALSE, !.closing = TRUE]
  IN
    /\ gc # "done"
    /\ \A u \in due \cap ClosedSockets : ~ InHand(u)
    /\ waiting \subseteq Sockets
    /\ sock' = [u \in DOMAIN sock \ tbr |->
                 LET c == IF u \in over THEN Ended(Unqueued(u, tbc)) ELSE Unqueued(u, tbc) IN
                   IF u \in waiting THEN Retired(Shut([c EXCEPT !.broken = TRUE]))
                   ELSE IF u \in tbc THEN Retired(c) ELSE c]
    /\ Sockets' = Sockets \ (tbc \cup waiting)
    /\ ClosedSockets' = (ClosedSockets \cup tbc \cup waiting) \ tbr
    /\ mMultiplexer' = Released(Unlistened(tbr), tbr)
    /\ PeerRec' = PeerForgotten(tbr)
    /\ UNCHANGED <<bClosing, gc>> /\ CollectorOnly

\* m_Sockets[*q] is NULL for a queued id that m_Sockets does not have.
looksUpInVain(due, expired) ==
  /\ gc # "done"
  /\ \A u \in due \cap ClosedSockets : ~ InHand(u)
  /\ ~ (QueueClosed(due, expired) \subseteq Sockets)
  /\ Dies("null")

\* After cleanup sockets are deleted at once, in whatever thread's hands they are: the
\* thread uses what is deleted, or, if it is the receive worker in want of
\* m_ControlLock, never ends and so is joined in vain.
pulls(due, expired) ==
  /\ gc = "final" /\ \E u \in ToBeRemoved(due, expired) : InHand(u)
  /\ Dies("lost")

\* Blocking connects, which hold m_ConnectionLock until they return.
Connecting == {u \in Sockets : sock[u].status = "CONNECTING" /\ sock[u].locked}

\* garbageCollect, after its loop: all sockets are closed, and closed for long.  It
\* wakes nobody in accept, and waits for a blocking connect.
closesAll ==
  /\ bClosing /\ gc = "running" /\ gc' = "final" /\ Connecting = {}
  /\ sock' = [u \in DOMAIN sock |->
               LET c == Unqueued(u, Sockets) IN
                 IF u \in Sockets THEN Retired(Shut([c EXCEPT !.broken = TRUE])) ELSE c]
  /\ Sockets' = {} /\ ClosedSockets' = ClosedSockets \cup Sockets
  /\ mMultiplexer' = Unlistened(Sockets)
  /\ UNCHANGED <<PeerRec, bClosing>> /\ CollectorOnly

\* The response comes at this moment: connect asks for m_ControlLock (connect_complete),
\* which the garbage collector holds while it asks for m_ConnectionLock.
closesStuck == bClosing /\ gc = "running" /\ Connecting # {} /\ Dies("lost")

ends ==
  /\ gc = "final" /\ ClosedSockets = {}
  /\ gc' = "done"
  /\ UNCHANGED <<united, bClosing>> /\ CollectorOnly

\* No thread of the application is in accept, connect or close, nor a worker in
\* newConnection or a connect that a response completes.
Calm ==
  /\ worker.pc = "idle" /\ closers = {} /\ \A t \in Acceptors : acceptor[t].pc = "idle"
  /\ \A u \in DOMAIN sock : sock[u].status # "CONNECTING"

\* The application's last call, at any time; it waits for the garbage collector to end.
cleanup ==
  /\ fate = "runs" /\ InUse /\ cleanups < MaxCleanups
  /\ bClosing' = TRUE /\ cleanups' = cleanups + 1 /\ orderly' = Calm
  /\ UNCHANGED <<united, SocketID, worker, acceptor, closers, owned, gc, fate>>

startup ==
  /\ fate = "runs" /\ gc = "done"
  /\ bClosing' = FALSE /\ gc' = "running" /\ orderly' = TRUE
  /\ UNCHANGED <<united, SocketID, worker, acceptor, closers, owned, cleanups, fate>>

-----------------------------------------------------------------------------
Application ==
  \/ newSocket \/ cleanup \/ startup
  \/ \E u \in Ids :
       \/ \E reuse \in BOOLEAN : bind(u, reuse)
       \/ \E n \in 1 .. MaxBackLog : listen(u, n)
       \/ \E blocks \in BOOLEAN : connect(u, blocks)
       \/ connectFails(u) \/ connect_complete(u) \/ Send(u) \/ close(u) \/ closeRetires(u)
  \/ \E t \in Acceptors :
       (\E l \in Ids : acceptBegins(t, l)) \/ acceptTries(t) \/ acceptReturns(t) \/ acceptFaults(t)

Worker ==
  \/ \E p \in Peers : requested(p)
  \/ locates \/ creates \/ createsNothing
  \/ \E opened, joins, onList \in BOOLEAN : createsInVain(opened, joins, onList)
  \/ \E stored, recorded \in BOOLEAN : inserts(stored, recorded)
  \/ \E queued \in BOOLEAN : queues(queued)
  \/ rollsBack \/ signals
  \/ \E u \in Ids : breaks(u) \/ drains(u) \/ leavesList(u)

Collector ==
  \/ \E due \in SUBSET Delayed, expired \in SUBSET Lingering :
       \/ checkBrokenSockets(due, expired) \/ looksUpInVain(due, expired) \/ pulls(due, expired)
  \/ closesAll \/ closesStuck \/ ends

Next == Application \/ Worker \/ Collector

Spec == Init /\ [][Next]_vars

WorkerGoesOn ==
  locates \/ creates \/ inserts(TRUE, TRUE) \/ queues(TRUE) \/ rollsBack \/ signals

AllDue == {u \in Delayed : u \in ClosedSockets => ~ InHand(u)}

\* The garbage collector wakes every second, at times while no request is handled,
\* and every time is up once; after cleanup it deletes what is in anyone's hands.  A
\* worker's turn and a call that has begun go on, a blocking connect has its timeout.
Fairness ==
  /\ SF_vars(worker.pc = "idle" /\ checkBrokenSockets(AllDue, Lingering))
  /\ WF_vars(looksUpInVain(AllDue, Lingering))
  /\ WF_vars(pulls(Delayed, Lingering))
  /\ WF_vars(closesAll \/ ends) /\ WF_vars(WorkerGoesOn)
  /\ \A t \in Acceptors : WF_vars(acceptTries(t) \/ acceptReturns(t))
  /\ \A u \in Ids : SF_vars(leavesList(u))
  /\ \A u \in Ids : WF_vars(closeRetires(u) \/ connectFails(u))

FairSpec == Spec /\ Fairness

-----------------------------------------------------------------------------
(* Properties                                                               *)

\* cleanup tears down what threads are working with.
Torn == gc = "final" /\ ~ orderly

\* removeSocket looks every queued id up in m_Sockets without a test: a queued
\* connection that breaks leaves the queue before it leaves m_Sockets.
QueuedIsThere == Torn \/ \A l \in DOMAIN sock : sock[l].queued \subseteq Sockets

\* A connection goes to one caller of accept, once.
AcceptedOnce ==
  \A t \in Acceptors : acceptor[t].pc = "found" =>
    LET u == acceptor[t].u IN
      /\ u \notin owned
      /\ \A l \in DOMAIN sock : u \notin sock[l].queued
      /\ \A t2 \in Acceptors \ {t} : acceptor[t2].u # u

\* Nobody waits in accept while connections are queued and no wakeup is on its
\* way, nor on a listener that has been closed; cleanup alone wakes nobody.
AcceptorsWake ==
  Torn \/ \A l \in DOMAIN sock : Waiting(l) # {} =>
    /\ ~ sock[l].broken
    /\ Cardinality(sock[l].queued) <=
         Cardinality({t \in Acceptors : acceptor[t].pc = "ready" /\ acceptor[t].ls = l})
         + IF worker.pc = "signal" /\ worker.ls = l THEN 1 ELSE 0

\* The queue respects the backlog, which is tested long before the insertion.
BackLogKept == \A l \in DOMAIN sock : Cardinality(sock[l].queued) <= sock[l].backLog

\* A multiplexer lives as long as a socket uses it, and no longer: the count is
\* exact, the uses that a failed newConnection leaves behind included.
RefCountExact ==
  /\ \A m \in DOMAIN mMultiplexer :
       mMultiplexer[m].refCount = Cardinality({u \in DOMAIN sock : sock[u].mux = m})
  /\ \A u \in DOMAIN sock : sock[u].mux # None => sock[u].mux \in DOMAIN mMultiplexer

\* A peer that repeats its request has one working connection, however its
\* handshakes, a closing by the application and the garbage collector interleave.
OnePerPeer ==
  \A p \in Peers : Cardinality({u \in MadeFor(p) : ~ sock[u].broken}) <= 1

\* Peer records name sockets that exist.
PeerRecAlive == \A r \in PeerRec : r[2] \in DOMAIN sock

\* A deleted socket is on no list of the worker, nobody's listener and in no queue.
DeletedIsForgotten ==
  [][\A u \in DOMAIN sock \ DOMAIN sock' :
       /\ ~ sock[u].onList
       /\ Torn \/ \A l \in DOMAIN sock' : u \notin sock'[l].queued
       /\ \A m \in DOMAIN mMultiplexer' : mMultiplexer'[m].listener # u]_vars

\* A broken socket is deleted in the end, and a listener with what it has queued.
BrokenGoes ==
  \A u \in Ids : u \in DOMAIN sock /\ sock[u].broken ~> u \notin DOMAIN sock \/ fate # "runs"

\* cleanup returns, if it is called while no call and no request is under way and
\* none comes before all sockets are closed, and no NULL pointer is used.
CleanupReturns == bClosing ~> gc = "done" \/ ~ orderly \/ fate = "null"

\* "remove all sockets and multiplexers" (garbageCollect)
NothingLeft == gc = "done" /\ bClosing => sock = <<>> /\ mMultiplexer = <<>>

\* Only a cleanup that comes upon others' calls pulls anything away from them, and
\* only accept, which looks for a connection closed meanwhile, uses a NULL pointer.
Survives ==
  /\ fate = "lost" => ~ orderly
  /\ fate = "null" => \/ ~ orderly \/ Failures
                      \/ \E t \in Acceptors : acceptor[t].pc = "found" /\ ~ Known(acceptor[t].u)

\* The tables of CUDTUnited name only sockets that are there, each connection is in one
\* queue or with one caller, and no queue is longer than its listener allows.
TablesAgree == TypeOK /\ QueuedIsThere /\ AcceptedOnce /\ BackLogKept /\ PeerRecAlive

\* Multiplexers are neither deleted under a socket nor left behind, and no socket is
\* pulled away from a thread.
NothingLeaks == RefCountExact /\ NothingLeft /\ Survives
=============================================================================
