------------------------------- MODULE SndQueue -------------------------------
(***************************************************************************)
(* CSndUList and CSndQueue::worker (queue.cpp): the sockets of a           *)
(* multiplexer that have something to send, in a heap ordered by due time, *)
(* and the thread that serves them.                                        *)
(*                                                                         *)
(* The operations of the list hold m_ListLock.  An insertion is two steps, *)
(* since the worker reads m_iLastEntry under m_WindowLock alone, between   *)
(* the change of the heap and the signal.  The worker's sleep in           *)
(* CTimer::sleepto is separate from the decision how long to sleep.        *)
(*                                                                         *)
(* m_iHeapLoc of a node is its index in the heap.                          *)
(***************************************************************************)
EXTENDS Integers, Sequences, FiniteSets, Functions

CONSTANTS
  Sockets,
  MaxInterval,   \* the longest sending period of a socket, in ticks
  MaxTime        \* bound: the clock stops there

ASSUME SndQueueAssumption ==
  /\ IsFiniteSet(Sockets) /\ Sockets # {}
  /\ MaxInterval \in Nat
  /\ MaxTime \in Nat \ {0, 1}

\* The time stamp with which update() inserts: always in the past.
Immediately == 1

VARIABLES
  heap,        \* m_pHeap up to m_iLastEntry, the first entry at 1
  timeStamp,   \* m_llTimeStamp of each socket's node
  signalling,  \* an insertion holds m_ListLock and has yet to signal m_WindowCond
  now,         \* rdtsc
  schedTime,   \* CTimer::m_ullSchedTime
  worker,      \* where the worker is
  due,         \* its local variable ts
  closing,     \* m_bClosing
  joining      \* the destructor has signalled and waits for the worker

vars == <<heap, timeStamp, signalling, now, schedTime, worker, due, closing, joining>>

Times == 0 .. MaxTime

TypeOK ==
  /\ heap \in Seq(Sockets) /\ IsInjective(heap)
  /\ timeStamp \in [Sockets -> Times]
  /\ signalling \in BOOLEAN
  /\ now \in Times /\ schedTime \in Times /\ due \in Times
  /\ worker \in {"look", "sleepto", "asleep", "pop", "check", "waiting", "stopped"}
  /\ closing \in BOOLEAN /\ joining \in BOOLEAN

Init ==
  /\ heap = <<>>
  /\ timeStamp = [u \in Sockets |-> 0]
  /\ signalling = FALSE
  /\ now = Immediately + 1
  /\ schedTime = 0
  /\ worker = "look"
  /\ due = 0
  /\ closing = FALSE
  /\ joining = FALSE

-----------------------------------------------------------------------------
(* The heap                                                                 *)

Swap(h, i, j) == [h EXCEPT ![i] = h[j], ![j] = h[i]]

\* A heap, the time stamps it is ordered by, and where the node is that moves in it.
Moves == {d \in [heap : Seq(Sockets), stamp : [Sockets -> Times], at : Nat] :
            d.at \in DOMAIN d.heap}

Time(d, i) == d.stamp[d.heap[i]]

MovedTo(d, i) == [d EXCEPT !.heap = Swap(d.heap, i, d.at), !.at = i]

\* The loop of insert_: the node rises past later ones.
Rises(d) == d.at > 1 /\ Time(d, d.at \div 2) > Time(d, d.at)

Risen[d \in Moves] == IF Rises(d) THEN Risen[MovedTo(d, d.at \div 2)] ELSE d.heap

\* The loop of remove_: the node sinks below earlier ones.
Child(d) ==
  LET left == 2 * d.at
  IN IF left < Len(d.heap) /\ Time(d, left) > Time(d, left + 1) THEN left + 1 ELSE left

Sinks(d) == 2 * d.at <= Len(d.heap) /\ Time(d, d.at) > Time(d, Child(d))

Sunk[d \in Moves] == IF Sinks(d) THEN Sunk[MovedTo(d, Child(d))] ELSE d.heap

Listed(u) == u \in Range(heap)

\* insert_ does nothing for a socket that is listed.
Inserted(h, stamp, u) ==
  IF u \in Range(h) THEN h
  ELSE Risen[[heap |-> Append(h, u), stamp |-> stamp, at |-> Len(h) + 1]]

\* remove_: the last entry takes the place of the node, and sinks.
Removed(h, stamp, u) ==
  IF u \notin Range(h) THEN h
  ELSE LET i    == CHOOSE j \in DOMAIN h : h[j] = u
           rest == [j \in 1 .. Len(h) - 1 |-> IF j = i THEN h[Len(h)] ELSE h[j]]
       IN IF i = Len(h) THEN rest ELSE Sunk[[heap |-> rest, stamp |-> stamp, at |-> i]]

\* remove_ interrupts the worker when one entry is left, insert_ when the node has
\* become the first, and it signals when the node is the only one.
InterruptIf(condition) == schedTime' = IF condition THEN now ELSE schedTime

OneLeft(h) == Len(h) = 1

Insert(h, u, t, interrupted) ==
  /\ timeStamp' = [timeStamp EXCEPT ![u] = t]
  /\ heap' = Inserted(h, timeStamp', u)
  /\ InterruptIf(interrupted \/ heap'[1] = u)
  /\ signalling' = OneLeft(heap')

-----------------------------------------------------------------------------
(* Callers: application threads and the receive worker                      *)

\* No caller is left when the multiplexer is deleted.
MayCall == ~ signalling /\ ~ closing

\* CSndUList::update
Update(u, reschedule) ==
  /\ MayCall
  /\ \/ /\ ~ Listed(u)
        /\ Insert(heap, u, Immediately, FALSE)
     \/ /\ Listed(u) /\ reschedule /\ heap[1] = u
        /\ timeStamp' = [timeStamp EXCEPT ![u] = Immediately]
        /\ InterruptIf(TRUE)
        /\ UNCHANGED <<heap, signalling>>
     \/ /\ Listed(u) /\ reschedule /\ heap[1] # u
        /\ LET rest == Removed(heap, timeStamp, u) IN
             Insert(rest, u, Immediately, OneLeft(rest))
  /\ UNCHANGED <<now, worker, due, closing, joining>>

\* pthread_cond_signal at the end of insert_.
Signal ==
  /\ signalling
  /\ signalling' = FALSE
  /\ worker' = IF worker = "waiting" THEN "look" ELSE worker
  /\ UNCHANGED <<heap, timeStamp, now, schedTime, due, closing, joining>>

\* CSndUList::remove, from CUDT::close; it interrupts when one entry is left.
Remove(u) ==
  /\ MayCall
  /\ heap' = Removed(heap, timeStamp, u)
  /\ InterruptIf(OneLeft(heap'))
  /\ UNCHANGED <<timeStamp, signalling, now, worker, due, closing, joining>>

\* ~CSndQueue sets m_bClosing ...
Close ==
  /\ MayCall
  /\ heap = <<>>
  /\ closing' = TRUE
  /\ UNCHANGED <<heap, timeStamp, signalling, now, schedTime, worker, due, joining>>

\* ... and then signals the worker.
CloseSignal ==
  /\ closing /\ ~ joining
  /\ joining' = TRUE
  /\ worker' = IF worker = "waiting" THEN "look" ELSE worker
  /\ UNCHANGED <<heap, timeStamp, signalling, now, schedTime, due, closing>>

-----------------------------------------------------------------------------
(* The worker                                                               *)

\* The loop condition and getNextProcTime.
Look ==
  /\ worker = "look"
  /\ IF closing
       THEN worker' = "stopped" /\ UNCHANGED due
       ELSE /\ ~ signalling
            /\ IF heap = <<>>
                 THEN worker' = "check" /\ UNCHANGED due
                 ELSE /\ due' = timeStamp[heap[1]]
                      /\ worker' = IF now < due' THEN "sleepto" ELSE "pop"
  /\ UNCHANGED <<heap, timeStamp, signalling, now, schedTime, closing, joining>>

\* Mutant: the due time taken for a delay.
SleepForDue == IF now + due < MaxTime THEN now + due ELSE MaxTime

WakeTime == due

\* sleepto writes m_ullSchedTime, which interrupt() may have written before ...
SleepTo ==
  /\ worker = "sleepto"
  /\ schedTime' = WakeTime
  /\ worker' = "asleep"
  /\ UNCHANGED <<heap, timeStamp, signalling, now, due, closing, joining>>

\* ... and returns when that time has come.
Awake ==
  /\ worker = "asleep"
  /\ schedTime <= now
  /\ worker' = "pop"
  /\ UNCHANGED <<heap, timeStamp, signalling, now, schedTime, due, closing, joining>>

\* pop with nothing due.
PopNothing ==
  /\ worker = "pop" /\ ~ signalling
  /\ heap # <<>> => now < timeStamp[heap[1]]
  /\ worker' = "look"
  /\ UNCHANGED <<heap, timeStamp, signalling, now, schedTime, due, closing, joining>>

\* pop: the first socket leaves the list, and comes back with its next due time
\* if packData had a packet for it.
Pop ==
  /\ worker = "pop" /\ ~ signalling
  /\ heap # <<>> /\ timeStamp[heap[1]] <= now
  /\ LET u    == heap[1]
         rest == Removed(heap, timeStamp, u) IN
       \/ /\ heap' = rest
          /\ InterruptIf(OneLeft(rest))
          /\ UNCHANGED <<timeStamp, signalling>>
       \/ \E t \in now .. now + MaxInterval :
            t <= MaxTime /\ Insert(rest, u, t, OneLeft(rest))
  /\ worker' = "look"
  /\ UNCHANGED <<now, due, closing, joining>>

\* Mutants: m_iLastEntry, or m_bClosing, is not read again under m_WindowLock.
WaitsUnread == ~ closing

WaitsThoughClosing == heap = <<>>

Waits == ~ closing /\ heap = <<>>

\* The list was empty: wait, unless that has changed by now.
Wait ==
  /\ worker = "check"
  /\ worker' = IF Waits THEN "waiting" ELSE "look"
  /\ UNCHANGED <<heap, timeStamp, signalling, now, schedTime, due, closing, joining>>

Tick ==
  /\ now < MaxTime
  /\ now' = now + 1
  /\ UNCHANGED <<heap, timeStamp, signalling, schedTime, worker, due, closing, joining>>

-----------------------------------------------------------------------------
CallerStep ==
  \/ \E u \in Sockets, reschedule \in BOOLEAN : Update(u, reschedule)
  \/ \E u \in Sockets : Remove(u)
  \/ Signal \/ Close \/ CloseSignal

WorkerStep == Look \/ SleepTo \/ Awake \/ PopNothing \/ Pop \/ Wait

Next == CallerStep \/ WorkerStep \/ Tick

Spec == Init /\ [][Next]_vars

\* The worker runs, time goes on, and a thread that has begun to insert or to
\* delete the queue ends it.  Nobody has to call.
FairSpec ==
  /\ Spec
  /\ WF_vars(Look) /\ WF_vars(SleepTo) /\ WF_vars(Awake)
  /\ WF_vars(PopNothing) /\ WF_vars(Pop) /\ WF_vars(Wait)
  /\ WF_vars(Tick) /\ WF_vars(Signal) /\ WF_vars(CloseSignal)

-----------------------------------------------------------------------------
(* Properties                                                               *)

\* The worker waits for a signal only while the list is empty or the signal is on
\* its way: m_iLastEntry is read under m_WindowLock, not m_ListLock.
NoLostSignal ==
  worker = "waiting" => (heap = <<>> /\ ~ closing) \/ signalling \/ (closing /\ ~ joining)

\* An interrupt that comes after the worker's decision to sleep is overwritten by
\* sleepto, yet no socket is kept waiting for longer than one sending period.
SleepBounded == worker = "asleep" => schedTime <= now + MaxInterval

\* The worker may always be asleep: the entries are a heap's, each socket once, and
\* whatever others do to the list wakes it in time.
SleepIsSafe == TypeOK /\ NoLostSignal /\ SleepBounded

\* What keeps it so: no due time is further off than a sending period, not even the
\* one that the worker has read before it sleeps.
DueSoon ==
  /\ Immediately <= now
  /\ \A u \in Sockets : timeStamp[u] <= now + MaxInterval
  /\ worker = "sleepto" => due <= now + MaxInterval

IInv == SleepIsSafe /\ DueSoon /\ (joining => closing)

\* A list that stays nonempty has the worker at pop, whatever was signalled or
\* interrupted when.
Attended == heap # <<>> ~> worker = "pop" \/ heap = <<>>

\* The destructor's join ends: m_bClosing is seen in time.
Stops == closing ~> worker = "stopped"

\* "Retrieve the next scheduled processing time" (getNextProcTime): no socket of
\* the list is due before the first.
FirstIsNext ==
  \A u \in Range(heap) : timeStamp[heap[1]] <= timeStamp[u]
=============================================================================
