------------------------------ MODULE UnitQueue ------------------------------
(***************************************************************************)
(* CUnitQueue (queue.cpp): the units into which the receive worker reads   *)
(* packets.  A unit that a buffer has kept is not free until a reading     *)
(* call frees it; worker and reading calls count the used units without a  *)
(* lock, so that the count drifts, and increase puts it right.             *)
(*                                                                         *)
(* Abstracted: the share of used units from which the queue grows is       *)
(* Num / Den, 9 / 10 in the code; memory may be refused at any time.       *)
(***************************************************************************)
EXTENDS Integers, FiniteSets

CONSTANTS
  EntrySize,    \* units of an entry, 32 in the code
  MaxEntries,   \* bound: entries
  Num, Den,     \* the share
  MaxDrift,     \* bound: by how much the count may be wrong for a unit to be counted
  MaxSkips,     \* bound: skips counted
  Readers       \* threads in readBuffer, readBufferToFile or readMsg

\* All units of an entry but its last, which is never given out, are enough to grow.
UnitQueueAssumption ==
  /\ {EntrySize, MaxEntries, Num, Den, MaxDrift, MaxSkips} \subseteq Nat \ {0} /\ Num < Den /\ EntrySize >= 2
  /\ (EntrySize - 1) * Den >= EntrySize * Num

VARIABLES
  used,      \* of each entry: the units with m_iFlag # 0
  curr,      \* m_pCurrQueue
  avail,     \* m_pAvailUnit, within it
  count,     \* m_iCount
  worker,    \* what the worker does, and what it has read of the count
  reader,    \* the same of each reader
  skips      \* ghost: packets thrown away in a row though a unit was free, up to MaxSkips

unitVars == <<used, curr, avail, count, worker, reader, skips>>

Entries == DOMAIN used
Units == 0 .. EntrySize - 1

Total == Cardinality(Entries) * EntrySize

Used == {u \in Entries \X Units : u[2] \in used[u[1]]}

Init ==
  /\ used = [e \in {1} |-> {}]
  /\ curr = 1 /\ avail = 0 /\ count = 0 /\ skips = 0
  /\ worker = [pc |-> "next", count |-> 0]
  /\ reader = [r \in Readers |-> [pc |-> "idle", count |-> 0]]

\* The bound MaxDrift: the count is not further off when the next unit is counted.
NearlyRight == count - Cardinality(Used) \in (- MaxDrift) .. MaxDrift

-----------------------------------------------------------------------------
(* increase: whether to, and whether there is memory                        *)

Crowded(n) == n * Den >= Total * Num

\* Mutant: the count is what it was.
countsOn(memory) ==
  /\ count' = count
  /\ used' = IF Crowded(count) /\ memory /\ Cardinality(Entries) < MaxEntries
             THEN [e \in 1 .. Cardinality(Entries) + 1 |-> IF e \in Entries THEN used[e] ELSE {}]
             ELSE used

increase(memory) ==
  /\ count' = Cardinality(Used)
  /\ used' = IF Crowded(Cardinality(Used)) /\ memory /\ Cardinality(Entries) < MaxEntries
             THEN [e \in 1 .. Cardinality(Entries) + 1 |-> IF e \in Entries THEN used[e] ELSE {}]
             ELSE used

-----------------------------------------------------------------------------
(* getNextAvailUnit and addData, by the receive worker                      *)

looksAtCount(memory) ==
  /\ worker.pc = "next"
  /\ IF count * Den > Total * Num THEN increase(memory) ELSE UNCHANGED <<used, count>>
  /\ worker' = [worker EXCEPT !.pc = "scan"]
  /\ UNCHANGED <<curr, avail, reader, skips>>

\* The units that are looked at, in their order: from m_pAvailUnit on, but not the last,
\* then the first; then those of the other entries.
Free(e) == {u \in Units : u \notin used[e] /\ u < EntrySize - 1 /\ (e = curr => u >= avail \/ u = 0)}

Lowest(S) == CHOOSE u \in S : \A v \in S : u <= v

\* In the current entry the first unit comes last.
Found(e) == IF e = curr /\ Free(e) # {0} THEN Lowest({u \in Free(e) : u >= avail}) ELSE Lowest(Free(e))

\* The entries form a ring.
Ahead(e) == IF e >= curr THEN e - curr ELSE e - curr + Cardinality(Entries)

Chosen == CHOOSE e \in Entries : Free(e) # {} /\ \A d \in Entries : Free(d) # {} => Ahead(e) <= Ahead(d)

Scanned == count < Total

\* No unit that can be given out is free.
Full == \A e \in Entries : Units \ {EntrySize - 1} \subseteq used[e]

findsUnit ==
  /\ worker.pc = "scan" /\ Scanned /\ \E e \in Entries : Free(e) # {}
  /\ curr' = Chosen /\ avail' = Found(Chosen)
  /\ worker' = [worker EXCEPT !.pc = "read"]
  /\ skips' = 0
  /\ UNCHANGED <<used, count, reader>>

\* NULL: the next packet is thrown away.
findsNone(memory) ==
  /\ worker.pc = "scan"
  /\ IF Scanned
     THEN /\ \A e \in Entries : Free(e) = {}
          /\ avail' = 0 /\ increase(memory)
     ELSE UNCHANGED <<used, count, avail>>
  /\ skips' = IF Full \/ skips = MaxSkips THEN skips ELSE skips + 1
  /\ worker' = [worker EXCEPT !.pc = "next"]
  /\ UNCHANGED <<curr, reader>>

\* The packet may not be data that is kept.
dropsPacket ==
  /\ worker.pc = "read"
  /\ worker' = [worker EXCEPT !.pc = "next"]
  /\ UNCHANGED <<used, curr, avail, count, reader, skips>>

\* addData: the count is read, and written.
addData ==
  /\ worker.pc = "read" /\ NearlyRight
  /\ used' = [used EXCEPT ![curr] = @ \cup {avail}]
  /\ worker' = [pc |-> "count", count |-> count]
  /\ UNCHANGED <<curr, avail, count, reader, skips>>

addCounts ==
  /\ worker.pc = "count"
  /\ count' = worker.count + 1
  /\ worker' = [pc |-> "next", count |-> 0]
  /\ UNCHANGED <<used, curr, avail, reader, skips>>

-----------------------------------------------------------------------------
frees(r) ==
  /\ reader[r].pc = "idle" /\ NearlyRight
  /\ \E e \in Entries : \E u \in used[e] : used' = [used EXCEPT ![e] = @ \ {u}]
  /\ reader' = [reader EXCEPT ![r] = [pc |-> "count", count |-> count]]
  /\ UNCHANGED <<curr, avail, count, worker, skips>>

freeCounts(r) ==
  /\ reader[r].pc = "count"
  /\ count' = reader[r].count - 1
  /\ reader' = [reader EXCEPT ![r] = [pc |-> "idle", count |-> 0]]
  /\ UNCHANGED <<used, curr, avail, worker, skips>>

Next ==
  \/ \E memory \in BOOLEAN : looksAtCount(memory) \/ findsNone(memory)
  \/ findsUnit \/ dropsPacket \/ addData \/ addCounts
  \/ \E r \in Readers : frees(r) \/ freeCounts(r)

Spec == Init /\ [][Next]_unitVars
-----------------------------------------------------------------------------
\* The last unit of an entry is never given out.
TypeOK ==
  /\ \E n \in 1 .. MaxEntries : used \in [1 .. n -> SUBSET (0 .. EntrySize - 2)]
  /\ curr \in Entries /\ avail \in 0 .. EntrySize - 2
  /\ count \in Int /\ skips \in 0 .. MaxSkips
  /\ worker \in [pc : {"next", "scan", "read", "count"}, count : Int]
  /\ reader \in [Readers -> [pc : {"idle", "count"}, count : Int]]

\* However stale, no count that is written exceeds the number of units, and the worker
\* searches only with less.
CountsInRange ==
  /\ count <= Total /\ (worker.pc \in {"scan", "read"} => count < Total)
  /\ worker.pc = "count" => worker.count < Total
  /\ \A r \in Readers : reader[r].pc = "count" => reader[r].count <= Total

\* After a skip the search starts at the first unit.
SkipIsRecent ==
  skips # 0 => skips = 1 /\ avail = 0 /\ worker.pc \in {"next", "scan"}

IInv == TypeOK /\ CountsInRange /\ SkipIsRecent

\* A packet is thrown away while a unit is free, because the units before m_pAvailUnit in
\* the entry that the search starts with are not looked at again, but the next packet then
\* finds one, however wrong the count is (queue.cpp:196-222, 144-146): an accounting error
\* never makes the worker throw away one packet after another.
SkipsOnce == skips <= 1
=============================================================================
