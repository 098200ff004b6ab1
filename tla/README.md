# UDT and its broadcaster: TLA+ models

The repository holds the UDT 4 reliable transport over UDP (`src/JniUDT/jni/lib`,
C++), its JNI bridge, and an Android audio broadcaster (`src/MockBroadcaster`, Java)
that talks through it. This directory models the transport: TLC checks the models on
small instances, and TLAPS proves their safety properties for every value of their
constants.

## 1. The system

### 1.1 Parts and how they interact

| part | code | state | operations |
|---|---|---|---|
| stream transfer | `core.cpp` | `m_iSndCurrSeqNo`, `m_iSndLastAck`, `m_iSndLastDataAck`, `m_iFlowWindowSize`, `m_iRcvCurrSeqNo`, `m_iRcvLastAck`, `m_iRcvLastAckAck` | `send`, `recv`, `packData`, `processData`, `processCtrl`, `sendCtrl`, `checkTimers` |
| send buffer | `buffer.cpp` | chain of blocks, `m_pFirstBlock`, `m_pCurrBlock`, `m_pLastBlock` | `addBuffer`, `readData`, `ackData` |
| receive buffer | `buffer.cpp` | ring of units, `m_iStartPos`, `m_iLastAckPos` | `addData`, `readBuffer`, `ackData`, `readMsg`, `dropMsg` |
| loss lists | `list.cpp` | linked ranges in arrays | `insert`, `remove`, `getLostSeq`, `getFirstLostSeq` |
| sequence numbers | `common.h` | none | `seqcmp`, `seqlen`, `seqoff`, `incseq`, `decseq` |
| ACK window, rate windows | `window.cpp` | ring of sent ACKs; arrival times | `store`, `acknowledge` |
| send scheduling | `queue.cpp` | `CSndUList`, a heap of sockets by due time | `insert`, `update`, `pop`, `remove`, the worker |
| receive queue | `queue.cpp` | unit queue, list of sockets by last check, hash of ids | the worker, `recvfrom`, `storePkt` |
| connection setup | `core.cpp`, `queue.cpp` | listener, connectors with their deadlines, cookie | `connect`, `listen`, `updateConnStatus` |
| socket life | `api.cpp` | `m_Sockets`, `m_ClosedSockets`, multiplexers, each listener's queued and accepted sets | `newConnection`, `accept`, `close`, `checkBrokenSockets`, `removeSocket` |
| epoll | `epoll.cpp` | per epoll: subscribed and ready sets | `add_usock`, `wait`, `update_events` |
| congestion control | `ccc.cpp` | window and sending period (doubles) | `onACK`, `onLoss`, `onTimeout` |
| JNI bridge | `com_jni_udt_JniUDT.cpp`, `JniUDT.java` | none | one native method per call |
| broadcaster | `MBroadcaster.java`, `mucp/audio` | a packet queue, a flag per thread | capture, encode, send, receive, play |

The application's threads call into `core.cpp` and `api.cpp`. Each multiplexer has a
send worker, which pops a socket from `CSndUList` and lets its `packData` choose the
next packet, and a receive worker, which dispatches every packet to `processData` or
`processCtrl` of its socket and then runs `checkTimers`. A garbage collector thread
closes broken sockets and removes them. Application and workers share the buffers,
the loss lists and the counters, partly under `m_AckLock`, `m_ListLock` and
`m_RecvLock`, partly without a lock.

### 1.2 What is hard

* The three threads of a sender interleave inside `packData` and inside the ACK
  handler, which read and write the window and the acknowledged positions unlocked.
* The network loses, duplicates and delays packets; every handler meets stale ones.
  Two acknowledged positions at the sender (`m_iSndLastAck`, moved by light ACKs, and
  `m_iSndLastDataAck`) and two at the receiver (`m_iRcvLastAck`, `m_iRcvLastAckAck`)
  move at different times.
* The receiver stops repeating an ACK after the ACK2, a window may close, a socket
  leaves the send list when it has nothing to send: in each case somebody must start
  again.
* Rings and lists of fixed size, and numbers that restart.
* Sockets are closed, accepted and collected by different threads under different locks.

The file `PROJECT.json` lists each hazard with its line and the properties that cover it.

### 1.3 What makes each part correct

* Stream transfer: the peer reads a prefix of what was written, everything arrives,
  the buffer drains, nothing is released before the peer has it, no correct peer is
  taken for an attacker.
* Buffers and loss lists: ring and arrays never overflow; the loss list of the
  receiver is the set of gaps; a number named by the sender's is in the send buffer.
* Sequence numbers: comparisons decide as on integers within half the circle.
* Send scheduling: the heap's top is the earliest; a socket with data is in the heap
  or about to be; the worker does not sleep past a due socket.
* Connection setup: both sides agree on the initial numbers; a rejected, late or
  repeated handshake connects nobody; each attempt ends.
* Socket life: an id handed out can be used; a socket is deleted once and after its
  last use; locks are taken in one order; every queued connection is accepted.
* epoll: an event set stays set while its condition holds, and wakes every waiter.
* Broadcaster: stop ends each thread, packets are played in order and unchanged.

## 2. Plan

The order was: the stream transfer, whose properties matter most and are proved; the
numbers and lists it rests on; the life of sockets and their setup; waiting and
waking; messages; the tables of each socket. What is left:

| question | code | why not yet |
|---|---|---|
| does any order of `setOpt` calls leave buffers and lists of sizes that fit together? | `core.cpp:294` | it does not: `UDT_FC` may be lowered after `UDT_RCVBUF`. `RcvLossList` assumes the fit (`Span <= Size`) |
| several losses in one NAK, keep-alive packets | `core.cpp:2116`, `2630` | a NAK of one gap already reorders with every other packet; the lengths of reports are in `RcvLossList` |
| start and stop of the broadcaster | `MBroadcaster.java` | threads share a plain `LinkedList` and plain flags: the outcomes are those of the Java memory model |

`UdtTransfer` is the composition: the sets and sequences it uses for buffers and loss
lists are what `SndBuffer`, `SndLossList`, `RcvLossList` and `SeqNo` implement in detail.
`SocketLife` takes from `Handshake` that a request is answered or not, and from `RcvList`
that the worker lets go of a socket; `Readiness` takes from `UdtTransfer` that data and
acknowledgements arrive.

## 3. Modules

| module | models | extends or instantiates |
|---|---|---|
| `UdtTransfer`, `UdtTransferMC` | one direction of a stream | `ReliablePipe` (refined) |
| `UdtTransferTimer`, `UdtTransferTimerMC` | the silence that the EXP timer waits for, fairness, liveness | `UdtTransfer` |
| `SeqNo`, `UdtSeqNo`, `UdtSeqNoMC` | restarting sequence numbers | `UdtTransfer` |
| `UdtTransferProofs` | the proofs of both | |
| `SndQueue`, `SndQueueMC`, `SndQueueProofs` | send scheduling | |
| `SocketLife`, `SocketLifeMC`, `SocketLifeProofs` | sockets, accept, close, collection | |
| `Handshake`, `HandshakeProofs` | connect, listen, rendezvous | |
| `Readiness`, `ReadinessMC`, `ReadinessProofs` | blocking calls, epoll, select, close | |
| `Messages`, `MessagesProofs` | message mode | |
| `RcvLossList`, `SndLossList` | the loss lists as arrays | `LossSet`, `SndLossSet` (refined) |
| `LossLists`, `LossListProofs` | both lists of a socket | the row above |
| `SndBuffer`, `AckWindow`, `RcvList`, `UnitQueue`, `InfoCache` | one data structure each | |
| `Tables`, `TablesMC`, `TablesProofs` | the last four rows side by side | all of them; the proofs also `LossListProofs` and `MessagesProofs` |

### 3.1 UdtTransfer: one direction of a connection

State. `sender` groups the fields of the sending `CUDT`, `receiver` those of the
receiving one, `net` the packets in flight, one set per kind.

| model | code |
|---|---|
| `sndBuf`, `currBlock` | blocks from `m_pFirstBlock` to `m_pLastBlock`; how many precede `m_pCurrBlock` |
| `sndLoss`, `rcvLoss` | the two loss lists, as sets |
| `inList` | the socket is in `CSndUList` |
| `sndWorker`, `rcvWorker` | local variables of `packData` and of the ACK handler between two accesses |
| `toSchedule` | threads that have changed the buffer or loss list and not yet called `update` |
| `rcvBuf`, `readPos` | occupied units; the number at `m_iStartPos` |

Actions. `AppSend`, `Schedule` are `send` and `CSndUList::update`. `packData` is split
where it reads shared fields unlocked: `PickLost` (`getLostSeq`, before `m_AckLock`)
then `Retransmit`; `ReadWindow` (the window) then `PackNew` (`m_iSndLastAck`). The send
worker holds `m_ListLock` throughout, so `update` waits (`Schedule` needs the worker
idle). The ACK handler is `RecvAck` (up to the write of `m_iFlowWindowSize`),
`SetSndLastAck`, `AckData` (under `m_AckLock`); `RecvLiteAck`, `RecvNak`,
`SndTimeout` and `PeerDead` (EXP) are the rest of the receive worker at the sender,
`RecvData`, `SendAck`, `SendLiteAck`, `RecvAck2` at the receiver, `AppRecv` is `recv`.

Abstractions. A block fills one packet. The congestion window is any value of
`CWndSizes` at each read. Timers may fire at any time, so pacing, the ACK interval, the
SYN interval and the EXP count leave only nondeterminism. The loss list is compressed
nowhere: a NAK reports the new gap; periodic NAKs are not sent (`sendCtrl(3)` of
`checkTimers` is commented out, `core.cpp:2564`). `status` is `timedOut` after
EXP and `insane` after a refused ACK or NAK: both set `m_bBroken`, and the sender then
takes no step of its own except those already begun.

`UdtTransferTimer` adds what liveness needs to know of the EXP timer. It expires when
nothing has come from the peer for an interval (`core.cpp:2583`), and every packet
restarts the interval: the acknowledgements of this direction, which are steps of the
model (`Hears`), and the data and keep-alives of the other, of which one variable says
whether they come without a pause (`peerTalks`). While they do, `SndTimeout` and
`PeerDead` are disabled.

### 3.2 ReliablePipe

The promise: a bounded FIFO of what was written and not yet read.
`UdtTransfer` implements it with `written <- nSent`, `read <- delivered`.

### 3.3 SeqNo and UdtSeqNo

`UdtTransfer` counts with integers that never restart. `SeqNo` holds `CSeqNo` for any
size of the circle; `UdtSeqNo` extends `UdtTransfer` and states, beside each decision,
the comparison as `core.cpp` evaluates it on the numbers it holds, including the -1 that
`ISN - 1` gives for an ISN of 0. It adds no behaviour: its invariants say both decide
alike in every state in which no packet in flight is too old (`Fresh`).

### 3.4 SndQueue

`CSndUList` and the worker of `CSndQueue` for several sockets of one multiplexer.

| model | code |
|---|---|
| `heap`, `timeStamp` | `m_pHeap` up to `m_iLastEntry`; `m_llTimeStamp` of each node. `m_iHeapLoc` is the node's index |
| `signalling` | a thread holds `m_ListLock` inside `insert_` and has not yet signalled `m_WindowCond` |
| `now`, `schedTime`, `due` | the clock, `CTimer::m_ullSchedTime`, the worker's `ts` |
| `worker` | the place of the worker in its loop |
| `closing`, `joining` | `m_bClosing`; the destructor has signalled |

`Update` and `Remove` are the calls of the application threads and the receive worker,
each atomic under `m_ListLock` except the signal (`Signal`): the worker reads
`m_iLastEntry` under `m_WindowLock` only. The worker's turn is `Look` (loop condition and
`getNextProcTime`), `SleepTo` and `Awake` (`sleepto`, whose first assignment may come
after an interrupt), `Pop` or `PopNothing`, or `Wait`. Whether `packData` had a packet,
and the next due time, are nondeterministic. `Close` and `CloseSignal` are the destructor.
Callers stop before that, since a multiplexer is deleted after its last socket.

### 3.5 LossSet and RcvLossList, SndLossSet and SndLossList

`LossSet` is what the receiver's loss list stands for, a set and `m_iRcvCurrSeqNo`, with
the sequence numbers restarting. `RcvLossList` is `CRcvLossList` as it is, `l` being its
four arrays, head, tail and length, driven by `processData` (`Gap`, `Follow`,
`Retransmitted`) and by the message drop request (`Drop`). The refinement mapping is
`lost <- Listed`, the numbers a walk from the head meets. `hung` says that
`remove(seqno1, seqno2)` does not return, and `givenUp` remembers what the last request
named. A packet is at most `Span <= Size` past the first missing number: the receive
buffer accepts no other, if it is not larger than the flight flag size. With
`CrossDrops = TRUE` a drop request may reach across the restart; no run sets it, since
`RemovesAllBetween` then fails (section 7).

`SndLossList` does the same for `CSndLossList`: `insert` for NAKs in any order and for
the EXP timer, `remove` for acknowledgements, `getLostSeq` for the next
retransmission. The search of `insert` starts at `lastInsertPos`, whose node the two others may
have freed. It refines `SndLossSet` with `lost <- Listed`. The code finds a slot by
the distance from the head; so does the model, on an array that wraps around.

`LossLists` is the two side by side, with their steps in any order: the receive worker
changes both, the send worker takes from the sender's, each under `m_ListLock`.

### 3.6 SocketLife

`CUDTUnited`. A section that holds `m_ControlLock` or an `m_AcceptLock` to its end is one
action; `newConnection` (`requested`, `locates`, `creates`, `inserts`, `queues`,
`signals`), `accept` (`acceptBegins`, `acceptTries`, `acceptReturns`) and `close`
(`close`, `closeRetires`) give their locks up in between. `sock` holds every `CUDTSocket`
that has not been deleted; `Sockets`, `ClosedSockets`, `PeerRec` and `mMultiplexer` are
the maps of the code. `checkBrokenSockets(due, expired)` is the collector's pass, with
the times that are up as a parameter: a listener's three seconds, a closed
socket's one second, the linger time.

With `Failures`, `newConnection` runs out of memory wherever the code catches it:
`createsNothing` (378), `createsInVain` (error 1), `inserts` without `m_Sockets` or without
`m_PeerRec` (error 2), `queues` without the queue (error 3), and `rollsBack` for what
`ERR_ROLLBACK` then does to the socket where it is.

`cleanup` may be called at any time. What goes wrong then is part of the model, which
stops there: `fate` becomes `lost` when the collector deletes a socket that a thread works
with, or joins a worker that wants `m_ControlLock` (`pulls`), and when it waits for
the `m_ConnectionLock` of a blocking `connect` that wants `m_ControlLock` in turn
(`closesStuck`). It becomes `null` when `accept` looks for a connection that has been closed
meanwhile (`acceptFaults`) and when `removeSocket` looks up a queued id without a socket
(`looksUpInVain`). `orderly` remembers whether no call or request was under way
when `cleanup` was called (`Calm`) and none has come since; `Torn` is the time after the
closing of all sockets by a cleanup that was not. Properties that fail then are stated
for the other times, and `Survives` states that nothing else makes `fate` bad.

One assumption stands for time: who holds a pointer to a socket lets go of it within the
second between closing and deletion (`InHand`), before `cleanup`, which does not wait it.

### 3.7 Handshake

Two ends: a caller and a listener, or two callers in rendezvous mode, each blocking
(`sync`) or not. A blocking `connect` goes through `connectBegins`, `connectSends`,
`receives`, `finishes` and `returns`, in the caller's thread and from the packets the
worker has stored; otherwise the worker runs `connect(response)` itself (`connector`).
`resends` and `expires` are `updateConnStatus`, `listens` is `CUDT::listen`,
`processCtrl` the answer of an established socket, `closeBegins` and `closeEnds` are
`close`, which waits for the lock of a blocking `connect`. The network is the set of all
packets sent: each may arrive at any time, again, or never. An ISN is the number of the
attempt, so that an answer to an earlier attempt can be told from one to this; a cookie
is the minute it is made of.

### 3.8 Readiness

`pc` holds the place of five threads: a receiving and a sending call, the receive worker,
`close`, and an application thread that uses epoll and select. `sock` has the counted
contents of the buffers and the flags of the `CUDT`, `poll` the sets and results of one
epoll for one socket. `Usages` says which call is used (blocking, with a time limit, not
blocking, of a file, of messages) and how the connection may end. What the code does
under `m_RecvDataLock`, `m_SendBlockLock` or `m_EPollLock` is one step; the flags
that it tests before and the signals that it sends outside of them are others.

### 3.9 Messages

`sendmsg` to `recvmsg`: `snd` has the blocks with their message, the position of
`m_pCurrBlock`, the loss list and the sequence numbers; `rcv` has the ring with the flag of each unit
(received, read ahead, dropped), its positions, and the loss list. `expired` are the messages
whose time to live is over. A lost expired message makes the sender ask for a drop
and skip the rest of it; `scanMsg` searches the ring for a whole message, beyond the acknowledged data if it need
not be in order. After the first drop request the properties are
not claimed (`dropped`): the request names a packet too many (section 7).

### 3.10 SndBuffer, AckWindow, RcvList, UnitQueue, InfoCache

| module | state | actions | property |
|---|---|---|---|
| `SndBuffer` | the ring of blocks, `m_iCount`, a caller half way through `addBuffer` or `addBufferFromFile` | add, grow, count, read, release | the ring is a queue with a reader in it |
| `AckWindow` | the ring of sent ACKs | `store`, `acknowledge` | an ACK2 brings what was stored with its number, if among the last `WindowSize - 1` |
| `RcvList` | `CRcvUList`, `CHash`, the new entries, the life of each `CUDT` | the turn of the worker, connect, close, deletion | list and hash agree, in order of time, and hold nothing deleted |
| `UnitQueue` | the used units, the unlocked count, worker and reader between reading and writing it | `getNextAvailUnit`, `increase`, `addData`, reading | while a unit is free, at most one packet is thrown away in a row |
| `InfoCache` | list, buckets of iterators, size | `lookup`, `update` | what was stored last is found, until the first overflow |

`Tables` puts them, both loss lists and `Messages` side by side. The variable
`exercised` chooses one at the start, and the others stay as they were created, so the
states of one run are the sum of theirs. `TablesMC` gives the values for TLC.

## 4. Runs

| run | instance | shows |
|---|---|---|
| `transfer_duplicates` | 1 packet of each kind in flight, duplicated at will, circle of 14 numbers from ISN 13, a peer that may be given up | stream order, no false alarm, ACK2 and buffer agree, no lost wakeup, acknowledgements only advance, comparisons exact across the restart |
| `transfer_gaps` | 2 data packets in flight, 3 blocks, buffers of 3, two congestion windows | gaps: the loss list is exact, both buffers agree, the two ends are one pipe |
| `transfer_lite` | receive buffer of 2, 5 blocks, light ACKs | the send loss list needs, and has, twice the window |
| `transfer_live` | 2 blocks, buffers of 2, fair threads, a peer that talks for any finite time | every block arrives; the send buffer drains |
| `snd_queue` | 3 sockets, 5 ticks | no lost signal, no sleep longer than a sending period, every socket attended to, the destructor returns |
| `snd_queue_heap` | 6 sockets | expected violation, section 7 |
| `sockets` | 3 sockets, 1 of them made by the application; 2 alike peers, 1 acceptor, backlog 1, one cleanup at any time | tables, queues, peer records and counts of multiplexers agree; nobody waits in accept for nothing; deleted means forgotten; what ends the process |
| `sockets_live` | 2 sockets, both of which the application may make; `newConnection` may fail in every way | what has broken is deleted; an orderly cleanup returns |
| `handshake` | 3 attempts and minutes together, 1 stored packet, refusals; one end may close and run out of time | who is connected has a peer that agrees; connectors are registered; connect, close and rendezvous come to an end |
| `readiness` | buffers of 1, one direction at a time, 10 usages | no lost wakeup, a removed socket stays quiet, worker, close and select go on |
| `messages_ttl` | 3 packets, 1 message with a time to live | expected violation, section 7 |
| `tables` | see below | each table by itself |

Bounds of the transfer runs. `MaxBlocks` bounds what the application sends, `MaxNet` the
packets of each kind in flight. Buffers of 2 or 3 blocks are the smallest with a window
that opens, fills and closes (the code advertises at least 2), and 3 to 5 blocks pass
them at least once. One or two packets in flight let every pair be reordered, since an
old packet may stay while newer ones come and go. What larger instances would add is
what the proofs cover.

`snd_queue` has 3 sockets so that a heap has two levels and a removal moves the last
entry, and a clock of 5 ticks for periods of up to 2; that the heap loses its order needs
6 sockets.

`sockets` has room for a listener and two connections of the same peer or of two, one
after the other or at once, which is what the backlog, the peer records and the
counts can get wrong; a second acceptor would add only who wins. `sockets_live` drops the
second peer and lets memory fail.

`handshake`: two attempts with a minute between them, or one attempt and two minutes.
One stored packet is where `storePkt` starts to throw away. Each behaviour has one end
that closes or gives up, at any moment.

`readiness`: data and space are 0 or 1, since the code tests them for being 0 only; both
directions at once, and larger buffers, are in the proofs.

| table | bounds |
|---|---|
| `RcvLossList` | 5 slots, 14 numbers, every start: a gap is split in the middle, a range that is not the last moves to its next slot, positions and numbers wrap; `MaxGiveUp` bounds the numbers of a drop request |
| `SndLossList` | 3 slots, 10 numbers, every start: a range is extended, merged with the next, cut and freed |
| `Messages` | 3 packets in messages of up to 2, a ring of 4, a window of 3: one message is read ahead of another, and the ring wraps |
| `SndBuffer` | 2 blocks at first, 6 at most, 4 filled: the ring grows twice, with reader and first block anywhere |
| `AckWindow` | 3 places, numbers up to 4, 9 ACKs: overwritten, wrapped and with restarted numbers |
| `RcvList` | 4 sockets in 2 buckets: the middle of a chain and of the list |
| `UnitQueue` | 2 entries of 3 units, growing when half are used, one reader; a count that is off by up to 6 |
| `InfoCache` | limit 3, 5 hosts, two in one bucket, one with an IPv6 address, one with a negative key; up to 4 items in lists or still pointed to |

`CHECK_DEADLOCK` is off where the system may stop: the application stops sending, a
given-up connection or a closed socket stops, so do the clock of `SndQueue`, a hung
worker, and everything whose bound is reached.

Fairness, `transfer_live`. Each worker and application keeps running (weak
fairness of its steps). `CSndUList::update` waits for a mutex that the send worker
releases again and again (strong fairness: a mutex does not starve a waiter). The
network may lose anything for any finite time, and then delivers; an ACK that is repeated
is answered at last, since one of the same number always is (`core.cpp:1987`). The EXP timer
is evaluated by the receive worker's loop after every packet and every 10 ms, but expires
only in silence: the model lets it wait for ever while packets of this direction keep
coming (`Hears`) or the peer talks (`peerTalks`). From this the two properties do not
follow, and the code does not guarantee them: TLC then finds the last packet lost
and never sent again, since nothing but this timer repeats it (the comment at
`core.cpp:2565` says as much). Both are therefore claimed under `PeerIsQuiet`: from some
time on the peer sends nothing of its own. Nothing is assumed of the application's further
sends or of light ACKs.

Fairness, `snd_queue`. The worker's steps and the clock are weakly fair, and so are the
second halves of an insertion and of the destructor, which their threads reach once they
have begun. Nobody has to call `Update` or `Remove`.

Fairness, `sockets_live`. The collector wakes every second, at times while no request is
being handled and every time that can be up is up (strong fairness of that pass), and
runs to its end after `cleanup` (weak), also where it meets a NULL pointer or another's
socket. A worker or acceptor that has begun goes on, a socket leaves the worker's list in
time, `close` finishes and a blocking `connect` has its timeout. No application has to
call. `BrokenGoes` allows for the end of the process (`fate`), and `CleanupReturns` is
claimed for an orderly `cleanup`: both premises are what the code needs, since with
another one the collector joins a worker that waits for it.

Fairness, `handshake`. The worker repeats requests, notices times that are up and
answers; a blocked caller's steps are taken (weak fairness of `Prompt` and `Blocked`). A
request or agreement that the peer repeats for ever is received at last (strong fairness
of `connector` for those two packets only). Nothing else has to arrive.

Fairness, `readiness`. Each of the five threads goes on with what it has begun: its own
steps, weakly. No data has to arrive, nobody has to call, and a connection need not end.

Each property has a mutant of the model in its module, marked `Mutant`: the named
definition changed as a slip in the code would change it. TLC finds each property violated
by its mutant in the same run.

## 5. Proofs

`UdtTransferProofs` proves for every ISN, buffer sizes, windows, number of blocks and
packets in flight: `TypeCorrect`, `OrderedDelivery`, `NoFalseAlarm`,
`AckedUnitsArePresent`, `LossListIsExact`, `NothingReleasedEarly`,
`RetransmissionsAreInBuffer`, `BoundedSpan`, `RingNeverWraps`, `BuffersAlwaysAgree`,
`SilenceMeansReleased`, `AcksAreMonotone`, `LossListFits`, `NoLostWakeup` and `Refinement`.

All but the first follow from one inductive invariant, `IInv`. None of the properties is
inductive alone: that a retransmitted number is in the buffer needs the alignment of
numbers and blocks (`BufferOK`), that needs the order of all counters (`CountersOK`),
also those carried by half-done handlers (`HandlerOK`) and by packets in flight
(`NetDataOK`, `NetAcksOK`); that an acknowledged unit is present needs the exact loss
list; that an ACK2 is never premature (`Ack2MeansReleased`) needs the same of every ACK2
in flight (`NetAck2OK`). `Invariance` has one lemma per action, each with a step per
conjunct the action can disturb. For the refinement, the difference of written and read
blocks is bounded from `BufferOK` and `UnitsOK`, and every action except `AppSend` and
`AppRecv` stutters. Two theorems add to `IInv`. `LossListFits` (`LossListSpan`) needs that
what light ACKs have acknowledged beyond the released blocks was taken from the window, so
that not even a window read before them lets too much out (`SpanOK`). `NoLostWakeup`
(`UnsentIsScheduled`) needs that only light ACKs close the window, and that the send worker takes
a socket with unsent data out of the list only while something is outstanding or an ACK
that came in between is about to call `update` (`ScheduleOK`).

`UdtTransferProofs` also proves `SenderComparisons` and `ReceiverComparisons` from `Invariance`:
numbers less than a circle apart wrap to numbers that are equally far apart, or one
circle less or more (`WrapNear`), hence `seqcmp`, `seqoff` and `seqlen` are exact within
`SeqNoTH` (`CompareExact`, `LengthExact`, `CurrExact`), and `IInv` bounds every distance
the code compares by the send buffer plus `Age`. `ComparisonsExact` is their conjunction,
which `transfer_duplicates` checks.

`ReadinessProofs` proves `TypeCorrect`, `NoLostWakeup` and `RemovedStaysQuiet` for every
size and every usage, in particular with a receiving and a sending call at once, which
the run `readiness` does not combine. The inductive invariant is
`Shape /\ TypeOK /\ WakeupIsComing /\ RemovedIsQuiet /\ Leaving`. `Shape` says which
fields the records have. `Leaving` is the strengthening: `remove_usock` first forgets that
the socket is watched and then erases its results, so between the two steps the worker
must not be able to set a result again. `WakeupIsComing` is inductive with the types:
each step that ends the reason to wait is the step that puts the worker or `close` right
before its signal. There is one lemma per part of the invariant, with one step per action.

`HandshakeProofs` proves `ConnectorsAreRegistered` (`EntriesAgree`),
`ConnectionsAreSecure` (`SecureIsMade`) and `PeersAreReady` (`PeerIsReady`) for any number
of attempts, minutes and stored packets, with refusals, and with both ends closing and
running out of time, which the run allows to one. What an end believes rests on packets it
took earlier, so `IInv` says of every packet sent so far what its sender knew then: an
answer of the listener names a connection that is made (`IsAnswer`), and an answer or data
of a rendezvous caller comes from one that has heard of the other (`IsMeeting`). Both
stay true, since a made connection and what has been heard are never forgotten. `Local`
ties the place of the call to the flags. Each lemma of an action shows what the changed end
`MayBecome` and what it `MaySend`; `EndChanges` and `PacketIsSent` conclude from this.

`SocketLifeProofs` proves `OneConnectionPerPeer` (`OnePerPeer`), `ConnectionsAreUnique`
(`AcceptedOnce`, `BackLogKept`, `PeerRecAlive`), `CountsAreExact` (`RefCountExact`, a part of
`NothingLeaks`) and `DeletedSocketsAreForgotten` (`DeletedIsForgotten`) however
`newConnection` fails, and, if it does not run out of memory (`ASSUME ~ Failures`: each fails
otherwise), `TablesAlwaysAgree` (`TablesAgree`), `AcceptorsAreWoken` (`AcceptorsWake`) and
`NothingEverLeaks` (`NothingLeaks`), for any number of sockets, peers and acceptors, any
backlog and a `cleanup` at any time. The run has one acceptor
and a backlog of one. `IInv` adds what makes them inductive: where a socket of each status
is (`Places`), that what is queued came from its listener (`Queues`), that the socket
`newConnection` makes is known to nobody and older ones of its peer are broken while the
worker is between two locks (`Working`), that a caller of `accept` and `newConnection` keep
their listener from deletion (`Accepting`), and that of the sockets made for a peer only
the newest may work (`Records`), which rests on ids that count down. `Ending` says what is
left once all sockets have been closed, and that an orderly cleanup finds nobody busy, from
which `Survives` follows. There is one lemma for
each kind of change: one socket turns (`SocketTurns`), one arrives (`Arrives`), some are
closed and others deleted (`Sweeps`), one multiplexer gains or loses users (`Joining`,
`MakingMux`, `Releasing`); the lemma of an action shows that it is such a change.

`SndQueueProofs` proves `WorkerSleepsSafely` (`SleepIsSafe`) for any number of sockets,
periods and ticks, and `HeapKeepsSockets`: insertion and removal keep every socket in the
heap once, even in the heap that `remove_` has left out of order. The first rests on the
second, since a lost socket would be waited for. The loops that sift an entry are
recursive functions over the places of the heap. TLAPS has no induction over an
operator here, so `LoopKeeps` argues by the least place at which the claim would fail;
`LeastOf` gets it from the library's well-foundedness of `<`.

`MessagesProofs` proves `MessagesArriveWhole` (`ReadAsSent`) and `NothingIsStranded`
(`NothingStranded`) for any messages and window, and any ring two larger than a message. The
invariant is `TIInv /\ MInv`. `TIInv` bounds the positions. `MInv` says that, until a
message is given up, there is a sequence of all the blocks ever written (`Carried`):

* the sender holds its end (`HoldsEnd`), every packet in flight is a block of it with its
  number, and an ACK is not ahead of the receiver (`Carries`);
* what a slot of the ring holds is a function of its number: nothing if lost or read, the
  block otherwise, marked if read ahead (`Content`, `RingIs`);
* what has been read are whole messages of it, each once, all of those before the ring and
  in order where order was asked for (`HasRead`).

`scanMsg` is the hard step: what it skips has been read before, the slots between a head
and the end it finds are one message, and a message within the acknowledged data is
the first one that is unread.

`LossListProofs` proves, for every size of the lists, of the windows and of the circle of
numbers, that the arrays agree (`LossListsAgree`: `ListsAgree`) and that the two lists are
the sets of numbers they stand for (`ReceiverImplementsLossSet`, `SenderImplementsLossSet`:
`RefinesLossSet`, `RefinesSndLossSet`), step by step. The inductive invariants, `RcvInv` and
`SndInv`, say that there is something the code does not keep, as integers that never restart:

* a set `S` of starts, a function `e` to the end of each range (`Ranges`; `Cover` is the set of
  their numbers, which lie in one window: `RcvHolds`, `SndHolds`), and a rotation `r`;
* a number `u` of `S` has its node at slot `(u - r) % Size`, and its arrays say `u` and
  `e[u]`, reduced to the circle; every other slot is free (`Nodes`);
* the links lead through `S` in order (`Forward`, `Backward`), and `lastInsertPos` is a node or
  nothing (`SndMarked`); the length is the number of numbers;
* the last number seen or sent, and the first unacknowledged one, stand for one integer each
  (`Points`, `SndStands`).

Since the window is no larger than `Size` and smaller than `SeqNoTH`, no two numbers share a
slot, `seqcmp` decides as on the integers and `seqoff` is the difference. Each operation has a
lemma that names the new `S`, `e` and `r`, and so what it does to `Cover`: it adds what is
inserted (`RcvInsertedHolds`, `SndInsertedHolds`) and takes away what is removed
(`SndRemovedHolds`, `SndBeheadedHolds`). Inside `insert` the sender's ranges overlap until they
are joined: there the range just written is `Loose`, and each turn of the joining loop takes in
the next node (`SndJoined`). The loops are recursive functions of the number of turns, and
`TurnByTurn` takes them one turn at a time; that as many turns as slots are enough is part of
the claim. `RcvInv` and `SndInv` quantify over integers, so TLC cannot evaluate them; it checks
what they imply, in the run `tables`.

The receiver's refinement assumes `CrossDrops = FALSE`: with drop requests that reach or cross
the restart it is false, which is a finding (section 7). Its arrays agree with them as well.

`TablesProofs` proves the invariants of the tables as `tables` checks them, each from the
invariant of its table, since a step of the whole is a step of one table (`StepsOfEach`):

| theorem | property | inductive invariant |
|---|---|---|
| `NeverSkipsTwice` | `SkipsOnce` | the counts that threads carry stay in range, and a skip leaves the search at the first unit (`Unt!IInv`) |
| `WindowIsMemory` | `IsAMemory` | the ring holds the last ACKs from its tail on (`HoldsTheLast`) |
| `SweepMeetsTheDue` | `SweepIsSound` | the list is the two-way chain of a sequence of the hashed sockets, in order of time (`ListOK`) |
| `BufferStaysQueue` | `BufferIsQueue` | the ring is a sequence of all blocks, of which the first hold what was added and not released (`QueueOK`), and the count is not behind (`CountOK`) |
| `CacheRemembers` | `CacheIsMemory` | no bucket points to a removed item before the first overflow, and an IPv4 host's last value is in its bucket (`HeldOK`) |
| `TablesListsAgree`, `TablesRefineLossSet`, `TablesRefineSndLossSet` | `ListsAgree`, `RefinesLossSet`, `RefinesSndLossSet` | those of `LossListProofs`: `TablesImplementLossLists` shows that the lists here take the same steps |
| `TablesReadAsSent`, `TablesNothingStranded` | `ReadAsSent`, `NothingStranded` | those of `MessagesProofs`: `SameMessages` shows that the messages here take the same steps |

The walks along a chain are recursive functions; the proofs take the sequence that a
chain spells as part of the invariant and show that the walk meets its elements, again by a
least counterexample.

Assumptions: `SndQueueAssumption` (finitely many sockets, at least one, and a time after the
immediate one), `MessagesAssumption` (a ring with at least two slots more than the largest
message: the code does not enforce it, the application has to keep its messages below the
peer's buffer, and section 7 says what happens if one fills it), `SndBufferAssumption` (a
block added when full is no larger than what the buffer may become),
`RcvLossListAssumption` and `LossListsAssumption` (the window fits into the list, and with the
numbers of a drop request into half the circle), `AckWindowAssumption`
(more numbers than places), `RcvListAssumption` (finitely many sockets with ids from 1),
`UnitQueueAssumption` (in an entry all of whose units but one are used, enough are used for
the queue to grow), `InfoCacheAssumption` (an IPv4 address has only one word),
`HandshakeAssumption` (bounds, and that ends are ends), `TransferAssumption` (sizes; a
receive buffer of at least 2, and the ISN 0 written as a full circle, so that ISN - 1 is a
natural number), `SeqNoAssumption`, `AgeAssumption` (send buffer and packet age fit into
half the circle: 2^30 packets in the code), `ReadinessAssumption` (sizes, and that usages
are usages), `SocketLifeAssumption` (bounds, and finitely many acceptors).

## 6. Only model-checked, not modelled

Liveness (`Delivery`, `Drain`, `Attended`, `Stops`, `BrokenGoes`, `CleanupReturns`,
`CallsReturn`, `RendezvousCompletes`, `NobodyIsLeftWaiting`) rests on TLC: TLAPS has no
proof rule for strong fairness here. Every other property that a passing run checks has a theorem.
Not modelled, and why, is in section 2 and with each component of `PROJECT.json`:
congestion control and packet-pair rates compute with doubles; `channel.cpp` and
`packet.cpp` are I/O and byte order; `md5.cpp` is third-party; the activities and sample
programs hold no protocol state; the broadcaster's threads race on plain Java objects.
Of modelled parts: keep-alive and delay warnings, statistics, the sizes negotiated in a
handshake, IPv6 outside of the cache, several epolls, system sockets in an epoll, the restart of message numbers
after 2^29, and the part of a unit that has been read (`m_iNotch`).

Where a step of a model is coarser than the code:

* `UnitQueue`: `increase` and the scan for a free unit read all flags at once, the code one
  by one without a lock (`queue.cpp:134`, `206`). A flag that changes in between is one that a
  scan a moment earlier or later would see changed.
* `RcvList`: `connect` sets `m_bConnected` and `m_bOnList` and hands the new entry over in one step.
* `Handshake`: the worker finds a connector and calls it in one step, so a `close` that
  removes it in between is left out, as are retries after a rendezvous has timed out.
* `SndLossList`: `insert` joins adjacent ranges also where the code returns early (`list.cpp:147`,
  `189`, `211`) and keeps two nodes; the numbers listed are the same.
* `Readiness`: a result that `close` leaves in an epoll stays there, in the model as in the code;
  no property speaks of it.

## 7. Findings

Two runs end in an expected violation:

* `CSndUList::remove_` (`queue.cpp:414`) sifts the entry it moves only down. With six
  sockets or more the entry may belong above its new place; after that the heap's top need
  not be the earliest socket, and `getNextProcTime` (`queue.h:198`) returns a later time
  (`snd_queue_heap`).
* When a message's time to live is over, `packData` asks the receiver to drop one packet
  too many and sets `m_iSndCurrSeqNo` one number further than the block
  (`core.cpp:2292`, `2300`), against "skip all dropped packets" (`2298`)
  (`messages_ttl`).

Others are visible in the models and have no run of their own:

* `packData` reads `m_iFlowWindowSize` (`core.cpp:2315`) and `m_iSndLastAck`
  (`core.cpp:2316`) without a lock, though the comment at 2008 wants the window updated
  "before and together with" the acknowledgement: a packet may be sent past every limit
  the receiver advertised. It is harmless: `WindowBound` and `RingFits` are proved with the
  race in the model, and the receiver drops what does not fit.
* `sleepto` overwrites an interrupt that came after the worker's decision to sleep
  (`queue.cpp:531`), against the comment at `queue.cpp:386`. The delay is at most one
  sending period (`SleepBounded`).
* `CRcvLossList::remove(seqno1, seqno2)` skips `m_iMaxSeqNo` in a range that crosses the
  restart (`list.cpp:640`), so a number given up by the sender stays lost and the
  acknowledged position stays before it. A range that ends with `m_iMaxSeqNo` never ends
  (`list.cpp:635`). `RcvLossList` shows both with `CrossDrops = TRUE`.
* Handshake: a non-blocking caller that is refused looks connected, since the
  check of 1002 (`core.cpp:683`) follows only the blocking loop; the cookie of the previous
  minute is never accepted (2485); in rendezvous mode a blocking `connect` that the worker has
  given up and that a late packet then wakes leaves its loop (661) without an error; an entry of the rendezvous queue may outlive its connect
  (`queue.cpp:844`, `core.cpp:983`).
* Transfer: a peer that sends without a pause keeps the EXP timer from expiring
  (`core.cpp:2583`, `1960`, `2393`), so a lost last packet is not sent again (section 4).
* Sockets: `accept` takes the newest connection first (`api.cpp:653`) and uses a NULL pointer
  if the connection has been closed since it was taken from the queue (716, 722).
  `m_pListener` is read without a lock (`queue.cpp:1022`).
* `ERR_ROLLBACK` (`api.cpp:444`) cleans nothing up. After error 1 (405) the socket is in no table
  and is leaked, with its use of the multiplexer if it had one. After error 2 (424) its id may be
  queued without a socket: nobody in `accept` is woken, and `removeSocket` of the listener
  uses `m_Sockets[*q]`, which is NULL (1272). After error 3 (435) it stays in
  `m_Sockets`, closed but not broken, which no pass of the collector deletes before `cleanup`.
* `cleanup` upon others' calls: it wakes nobody in `accept` and deletes the listener he waits at
  (1497); it deletes sockets that threads work with, without the second of 1239 (1525); it
  joins a receive worker that may want `m_ControlLock` in `newConnection` or `connect` while
  it holds that lock (1310); and it takes `m_ConnectionLock` under `m_ControlLock`
  (1502, `core.cpp:972`), a blocking `connect` the other way round (`core.cpp:572`, `805`).
* Waiting: `recv` may clear `UDT_EPOLL_IN` although data has just come (`core.cpp:1197`);
  `recvmsg` with a time limit waits before it looks (1372), and leaves a whole message unread if the
  connection breaks meanwhile (1393); an error reported by the peer does not wake a blocked
  `send` (2244); nothing fills `m_sUDTSocksEx`, so exceptions are never reported; `epoll.cpp:182`
  misses a negation.
* Buffers: `dropMsg` compares a message number with the raw header word (`buffer.cpp:494`);
  `scanMsg` reads an empty slot when a message is as large as the ring (645); the
  count of used units drifts (386, 411), for one packet at most at a time (`SkipsOnce`).
* Cache: on overflow the bucket of the removed item is copied over the new one's
  (`cache.h:186`), and an IPv6 clone misses its fourth word (`cache.cpp:91`).
* Comments: the linger comment at `core.cpp:926`, and 5 against 10 seconds at 2589.
