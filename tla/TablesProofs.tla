----------------------------- MODULE TablesProofs -----------------------------
(***************************************************************************)
(* Proofs about the tables of a socket and of its queues, each for every   *)
(* value of its constants.                                                 *)
(***************************************************************************)
EXTENDS Tables, LossListProofs

-----------------------------------------------------------------------------
(* A step of the whole is a step of each table, or leaves it alone.         *)

LEMMA StepsOfEach ==
  ASSUME [TablesNext]_tablesVars
  PROVE  /\ [Msg!Next]_(Msg!msgVars) /\ [Buf!Next]_(Buf!sndBufVars)
         /\ [Ack!Next]_(Ack!ackVars) /\ [Rcv!Next]_(Rcv!listVars)
         /\ [Unt!Next]_(Unt!unitVars) /\ [Inf!Next]_(Inf!cacheVars)
<1> USE DEF Msg!msgVars, Buf!sndBufVars, Ack!ackVars, Rcv!listVars, Unt!unitVars, Inf!cacheVars,
            msgVars, sndBufVars, ackVars, listVars, unitVars, cacheVars
<1>1. CASE TablesNext
  BY <1>1 DEF TablesNext, Idle
<1>2. CASE UNCHANGED tablesVars
  BY <1>2 DEF tablesVars
<1> QED
  BY <1>1, <1>2

-----------------------------------------------------------------------------
(* The loss lists, whose theorems are in LossListProofs.                    *)

\* A behaviour of the tables is one of the two loss lists, so that what LossListProofs
\* shows of every behaviour of the lists holds of the tables as well.
THEOREM TablesImplementLossLists == TablesSpec => ListsSpec
<1>1. TablesInit => ListsInit
  <2>1. Init \/ RcvIdle => Init
    <3> SUFFICES ASSUME RcvIdle
                 PROVE  Init
      OBVIOUS
    <3>1. 1 \in 0 .. MaxSeqNo /\ 0 = 1 - 1
      BY SeqNoAssumption DEF MaxSeqNo
    <3> QED
      BY <3>1 DEF RcvIdle, Init
  <2>2. Snd!Init \/ SndIdle => Snd!Init
    <3> SUFFICES ASSUME SndIdle
                 PROVE  Snd!Init
      OBVIOUS
    <3>1. 0 \in 0 .. Snd!MaxSeqNo /\ Snd!None = 0 - 1
      BY LossListsAssumption DEF Snd!MaxSeqNo, Snd!None
    <3> QED
      BY <3>1 DEF SndIdle, Snd!Init, None, Snd!None
  <2> QED
    BY <2>1, <2>2 DEF TablesInit, ListsInit
<1>2. [TablesNext]_tablesVars => [ListsNext]_<<vars, sndLossVars>>
  <2>1. TablesNext => ListsNext \/ UNCHANGED <<vars, sndLossVars>>
    BY DEF TablesNext, Idle, ListsNext
  <2> QED
    BY <2>1 DEF tablesVars
<1> QED
  BY <1>1, <1>2, PTL DEF TablesSpec, ListsSpec

\* So the arrays of the two loss lists (list.cpp) agree in every state of the tables.
THEOREM TablesListsAgree == TablesSpec => []ListsAgree
BY TablesImplementLossLists, LossListsAgree, PTL

\* The receiver's list (CRcvLossList, list.cpp) is the set of lost numbers, if no drop
\* request reaches or crosses the restart.
THEOREM TablesRefineLossSet ==
  ASSUME CrossDrops = FALSE
  PROVE  TablesSpec => RefinesLossSet
<1>1. ListsSpec => RefinesLossSet
  BY ReceiverImplementsLossSet
<1> QED
  BY <1>1, TablesImplementLossLists, PTL

\* The sender's list (CSndLossList, list.cpp) is the set of numbers to send again.
THEOREM TablesRefineSndLossSet == TablesSpec => RefinesSndLossSet
BY TablesImplementLossLists, SenderImplementsLossSet, PTL

-----------------------------------------------------------------------------
(* The units of the receive queue.                                          *)

\* The instance has its own name for the number of elements.
LEMMA SameCount == \A S : Unt!Cardinality(S) = Cardinality(S)
BY DEF Unt!Cardinality, Cardinality

\* Units that may be given out, in n entries, are fewer than all their units.
LEMMA FewerAreGivenOut ==
  ASSUME Unt!UnitQueueAssumption, NEW n \in Nat, n >= 1
  PROVE  /\ IsFiniteSet((1 .. n) \X (0 .. EntrySize - 2))
         /\ Cardinality((1 .. n) \X (0 .. EntrySize - 2)) < n * EntrySize
<1>1. EntrySize \in Nat /\ EntrySize >= 2
  BY DEF Unt!UnitQueueAssumption
<1>2. IsFiniteSet(1 .. n) /\ Cardinality(1 .. n) = n
  BY FS_Interval
<1>3. IsFiniteSet(0 .. EntrySize - 2) /\ Cardinality(0 .. EntrySize - 2) = EntrySize - 1
  <2>1. 0 \in Int /\ EntrySize - 2 \in Int
    BY <1>1
  <2>2. IsFiniteSet(0 .. EntrySize - 2) /\ Cardinality(0 .. EntrySize - 2) = IF 0 > EntrySize - 2 THEN 0 ELSE EntrySize - 2 - 0 + 1
    BY <2>1, FS_Interval
  <2> QED
    BY <1>1, <2>2
<1>4. n * (EntrySize - 1) < n * EntrySize
  BY <1>1
<1>5. /\ IsFiniteSet((1 .. n) \X (0 .. EntrySize - 2))
      /\ Cardinality((1 .. n) \X (0 .. EntrySize - 2)) = Cardinality(1 .. n) * Cardinality(0 .. EntrySize - 2)
  BY <1>2, <1>3, FS_Product
<1> QED
  BY <1>2, <1>3, <1>4, <1>5

\* The entries, and what is counted.
LEMMA EntriesAreCounted ==
  ASSUME Unt!UnitQueueAssumption, Unt!TypeOK
  PROVE  /\ Unt!Entries = 1 .. Cardinality(Unt!Entries)
         /\ Cardinality(Unt!Entries) \in 1 .. MaxEntries
         /\ Unt!Total = Cardinality(Unt!Entries) * EntrySize
         /\ Unt!Total \in Nat
         /\ used \in [1 .. Cardinality(Unt!Entries) -> SUBSET (0 .. EntrySize - 2)]
<1>1. PICK n \in 1 .. MaxEntries : used \in [1 .. n -> SUBSET (0 .. EntrySize - 2)]
  BY DEF Unt!TypeOK
<1>2. MaxEntries \in Nat /\ EntrySize \in Nat /\ n \in Nat /\ n >= 1
  BY DEF Unt!UnitQueueAssumption
<1>3. Unt!Entries = 1 .. n
  BY <1>1 DEF Unt!Entries
<1>4. Cardinality(1 .. n) = n
  BY <1>2, FS_Interval
<1>5. n * EntrySize \in Nat
  BY <1>2
<1> QED
  BY <1>1, <1>2, <1>3, <1>4, <1>5, SameCount DEF Unt!Total

\* increase counts fewer units than there are.
LEMMA UsedAreFewer ==
  ASSUME Unt!UnitQueueAssumption, Unt!TypeOK
  PROVE  Cardinality(Unt!Used) \in Nat /\ Cardinality(Unt!Used) < Unt!Total
<1> DEFINE n == Cardinality(Unt!Entries)
           All == (1 .. n) \X (0 .. EntrySize - 2)
<1>1. /\ Unt!Entries = 1 .. n /\ n \in 1 .. MaxEntries /\ Unt!Total = n * EntrySize
      /\ used \in [1 .. n -> SUBSET (0 .. EntrySize - 2)]
  BY EntriesAreCounted
<1>2. n \in Nat /\ n >= 1 /\ EntrySize \in Nat
  BY <1>1 DEF Unt!UnitQueueAssumption
<1> HIDE DEF n
<1>3. Unt!Used \subseteq All
  BY <1>1, <1>2 DEF Unt!Used, Unt!Units
<1>4. IsFiniteSet(All) /\ Cardinality(All) < n * EntrySize
  BY <1>2, FewerAreGivenOut
<1> HIDE DEF All
<1>5. IsFiniteSet(Unt!Used) /\ Cardinality(Unt!Used) <= Cardinality(All)
  BY <1>3, <1>4, FS_Subset
<1>6. Cardinality(Unt!Used) \in Nat /\ Cardinality(All) \in Nat
  BY <1>4, <1>5, FS_CardinalityType
<1>7. n * EntrySize \in Nat
  BY <1>2
<1> QED
  BY <1>1, <1>4, <1>5, <1>6, <1>7

\* A count that does not ask for more units is less than all of them.
LEMMA UncrowdedIsLess ==
  ASSUME Unt!UnitQueueAssumption, Unt!TypeOK, unitCount <= Unt!Total,
         ~ (unitCount * Den > Unt!Total * Num)
  PROVE  unitCount < Unt!Total
<1>1. Unt!Total \in Nat /\ Unt!Total >= 1
  <2>1. Cardinality(Unt!Used) \in Nat /\ Cardinality(Unt!Used) < Unt!Total
    BY UsedAreFewer
  <2> QED
    BY <2>1, EntriesAreCounted
<1>2. Num \in Nat /\ Den \in Nat /\ Num < Den
  BY DEF Unt!UnitQueueAssumption
<1>3. unitCount \in Int
  BY DEF Unt!TypeOK
<1>4. Unt!Total * Num < Unt!Total * Den
  BY <1>1, <1>2
<1> QED
  BY <1>1, <1>2, <1>3, <1>4

\* The least element of a set of units is one of them.
LEMMA LowestIsIn ==
  ASSUME NEW S \in SUBSET Unt!Units, S # {}, Unt!UnitQueueAssumption
  PROVE  Unt!Lowest(S) \in S
<1>1. EntrySize \in Nat
  BY DEF Unt!UnitQueueAssumption
<1>2. S \in SUBSET Nat
  BY <1>1 DEF Unt!Units
<1>3. \E u \in S : \A v \in S : u <= v
  BY <1>2, LeastOf
<1> QED
  BY <1>3 DEF Unt!Lowest

\* The unit found is one that may be given out.
LEMMA FoundIsFree ==
  ASSUME Unt!UnitQueueAssumption, Unt!TypeOK, NEW e, Unt!Free(e) # {}
  PROVE  Unt!Found(e) \in 0 .. EntrySize - 2
<1>1. Unt!Free(e) \in SUBSET Unt!Units /\ Unt!Free(e) \subseteq 0 .. EntrySize - 2
  BY DEF Unt!Free, Unt!Units, Unt!UnitQueueAssumption
<1>2. CASE e = curr /\ Unt!Free(e) # {0}
  <2>1. {u \in Unt!Free(e) : u >= avail} # {}
    <3>1. PICK u \in Unt!Free(e) : u # 0
      BY <1>2
    <3>2. u >= avail
      BY <1>2, <3>1 DEF Unt!Free
    <3> QED
      BY <3>1, <3>2
  <2>2. Unt!Lowest({u \in Unt!Free(e) : u >= avail}) \in {u \in Unt!Free(e) : u >= avail}
    BY <1>1, <2>1, LowestIsIn
  <2> QED
    BY <1>1, <1>2, <2>2 DEF Unt!Found
<1>3. CASE ~ (e = curr /\ Unt!Free(e) # {0})
  <2>1. Unt!Lowest(Unt!Free(e)) \in Unt!Free(e)
    BY <1>1, LowestIsIn
  <2> QED
    BY <1>1, <1>3, <2>1 DEF Unt!Found
<1> QED
  BY <1>2, <1>3

\* There is a first entry with a free unit.
LEMMA ChosenHasFree ==
  ASSUME Unt!UnitQueueAssumption, Unt!TypeOK, \E e \in Unt!Entries : Unt!Free(e) # {}
  PROVE  Unt!Chosen \in Unt!Entries /\ Unt!Free(Unt!Chosen) # {}
<1> DEFINE n == Cardinality(Unt!Entries)
           S == {Unt!Ahead(e) : e \in {d \in Unt!Entries : Unt!Free(d) # {}}}
<1>1. Unt!Entries = 1 .. n /\ n \in 1 .. MaxEntries /\ MaxEntries \in Nat
  BY EntriesAreCounted DEF Unt!UnitQueueAssumption
<1>2. curr \in 1 .. n
  BY <1>1 DEF Unt!TypeOK
<1>3. \A e \in Unt!Entries : Unt!Ahead(e) \in Nat
  <2>1. Unt!Cardinality(Unt!Entries) = n
    BY SameCount
  <2> HIDE DEF n
  <2> QED
    BY <1>1, <1>2, <2>1 DEF Unt!Ahead
<1>4. S \in SUBSET Nat /\ S # {}
  BY <1>3
<1>5. PICK a \in S : \A b \in S : a <= b
  <2> HIDE DEF S
  <2> QED
    BY <1>4, LeastOf
<1>6. \E e \in Unt!Entries : Unt!Free(e) # {} /\ \A d \in Unt!Entries : Unt!Free(d) # {} => Unt!Ahead(e) <= Unt!Ahead(d)
  BY <1>5
<1> QED
  BY <1>6 DEF Unt!Chosen

\* increase keeps the entries, and counts what is used.
LEMMA IncreaseCounts ==
  ASSUME Unt!UnitQueueAssumption, Unt!TypeOK, NEW memory \in BOOLEAN, Unt!increase(memory)
  PROVE  /\ \E n \in 1 .. MaxEntries : used' \in [1 .. n -> SUBSET (0 .. EntrySize - 2)]
         /\ Unt!Entries \subseteq Unt!Entries' /\ Unt!Total' \in Nat /\ Unt!Total <= Unt!Total'
         /\ unitCount' \in Nat /\ unitCount' < Unt!Total
<1> DEFINE n == Cardinality(Unt!Entries)
<1>1. /\ Unt!Entries = 1 .. n /\ n \in 1 .. MaxEntries /\ Unt!Total = n * EntrySize /\ Unt!Total \in Nat
      /\ used \in [1 .. n -> SUBSET (0 .. EntrySize - 2)]
  BY EntriesAreCounted
<1>2. n \in Nat /\ EntrySize \in Nat /\ EntrySize >= 2 /\ MaxEntries \in Nat
  BY <1>1 DEF Unt!UnitQueueAssumption
<1>3. Cardinality(Unt!Used) \in Nat /\ Cardinality(Unt!Used) < Unt!Total
  BY UsedAreFewer
<1>4. unitCount' = Cardinality(Unt!Used)
  BY SameCount DEF Unt!increase
<1> DEFINE Longer == [e \in 1 .. n + 1 |-> IF e \in Unt!Entries THEN used[e] ELSE {}]
<1>5. (used' = Longer /\ n < MaxEntries) \/ used' = used
  <2>1. Unt!Cardinality(Unt!Entries) = n
    BY SameCount
  <2> QED
    BY <2>1 DEF Unt!increase
<1> HIDE DEF n
<1>6. CASE used' = used
  BY <1>1, <1>3, <1>4, <1>6 DEF Unt!Entries, Unt!Total
<1>7. CASE used' = Longer /\ n < MaxEntries
  <2>1. n + 1 \in 1 .. MaxEntries /\ Longer \in [1 .. n + 1 -> SUBSET (0 .. EntrySize - 2)]
    BY <1>1, <1>2, <1>7
  <2>2. Unt!Entries' = 1 .. n + 1
    BY <1>7 DEF Unt!Entries
  <2>3. Cardinality(1 .. n + 1) = n + 1
    BY <1>2, FS_Interval
  <2>4. Unt!Total' = (n + 1) * EntrySize
    BY <2>2, <2>3, SameCount DEF Unt!Total
  <2>5. (n + 1) * EntrySize \in Nat /\ n * EntrySize <= (n + 1) * EntrySize
    BY <1>2
  <2>6. Unt!Entries \subseteq Unt!Entries'
    BY <1>1, <1>2, <2>2
  <2>7. \E m \in 1 .. MaxEntries : used' \in [1 .. m -> SUBSET (0 .. EntrySize - 2)]
    BY <2>1, <1>7
  <2> QED
    BY <1>1, <1>3, <1>4, <2>4, <2>5, <2>6, <2>7
<1> QED
  BY <1>5, <1>6, <1>7

\* A step that keeps the units keeps what is derived from them.
LEMMA EntriesStay ==
  ASSUME used' = used
  PROVE  Unt!Total' = Unt!Total /\ Unt!Entries' = Unt!Entries
BY DEF Unt!Total, Unt!Entries

LEMMA UnitQueueInit ==
  ASSUME Unt!UnitQueueAssumption, Unt!Init
  PROVE  Unt!IInv
<1>1. EntrySize \in Nat /\ EntrySize >= 2 /\ MaxEntries \in Nat /\ MaxEntries >= 1 /\ MaxSkips \in Nat
  BY DEF Unt!UnitQueueAssumption
<1>2. used \in [1 .. 1 -> SUBSET (0 .. EntrySize - 2)] /\ Unt!Entries = {1}
  BY DEF Unt!Init, Unt!Entries
<1>3. Unt!TypeOK
  BY <1>1, <1>2 DEF Unt!TypeOK, Unt!Init
<1>4. Unt!Total \in Nat
  BY <1>3, EntriesAreCounted
<1>5. Unt!CountsInRange
  BY <1>4 DEF Unt!CountsInRange, Unt!Init
<1>6. Unt!SkipIsRecent
  BY DEF Unt!SkipIsRecent, Unt!Init
<1> QED
  BY <1>3, <1>5, <1>6 DEF Unt!IInv

LEMMA LooksAtCountKeeps ==
  ASSUME Unt!UnitQueueAssumption, Unt!IInv, NEW memory \in BOOLEAN, Unt!looksAtCount(memory)
  PROVE  Unt!IInv'
<1> USE DEF Unt!IInv
<1>1. unitWorker' = [unitWorker EXCEPT !.pc = "scan"] /\ unitWorker.pc = "next" /\ UNCHANGED <<curr, avail, reader, skips>>
  BY DEF Unt!looksAtCount
<1>2. /\ \E n \in 1 .. MaxEntries : used' \in [1 .. n -> SUBSET (0 .. EntrySize - 2)]
      /\ Unt!Entries \subseteq Unt!Entries' /\ Unt!Total' \in Nat /\ Unt!Total \in Nat /\ Unt!Total <= Unt!Total'
      /\ unitCount' \in Int /\ unitCount' < Unt!Total
  <2>1. CASE Unt!increase(memory)
    BY <2>1, IncreaseCounts, EntriesAreCounted
  <2>2. CASE UNCHANGED <<used, unitCount>> /\ ~ (unitCount * Den > Unt!Total * Num)
    <3>1. unitCount < Unt!Total
      BY <2>2, UncrowdedIsLess DEF Unt!CountsInRange
    <3> QED
      BY <2>2, <3>1, EntriesStay, EntriesAreCounted DEF Unt!TypeOK
  <2> QED
    BY <2>1, <2>2 DEF Unt!looksAtCount
<1>3. Unt!TypeOK'
  BY <1>1, <1>2 DEF Unt!TypeOK
<1>4. Unt!CountsInRange'
  <2>1. unitWorker'.pc = "scan"
    BY <1>1 DEF Unt!TypeOK
  <2>2. \A r \in Readers : reader[r].pc = "count" => reader[r].count \in Int /\ reader[r].count <= Unt!Total
    BY DEF Unt!CountsInRange, Unt!TypeOK
  <2> QED
    BY <1>1, <1>2, <2>1, <2>2 DEF Unt!CountsInRange
<1>5. Unt!SkipIsRecent'
  BY <1>1 DEF Unt!SkipIsRecent, Unt!TypeOK
<1> QED
  BY <1>3, <1>4, <1>5

LEMMA FindsUnitKeeps ==
  ASSUME Unt!UnitQueueAssumption, Unt!IInv, Unt!findsUnit
  PROVE  Unt!IInv'
<1> USE DEF Unt!IInv
<1>1. /\ curr' = Unt!Chosen /\ avail' = Unt!Found(Unt!Chosen) /\ skips' = 0
      /\ unitWorker' = [unitWorker EXCEPT !.pc = "read"] /\ unitWorker.pc = "scan"
      /\ UNCHANGED <<used, unitCount, reader>> /\ \E e \in Unt!Entries : Unt!Free(e) # {}
  BY DEF Unt!findsUnit
<1>2. Unt!Chosen \in Unt!Entries /\ Unt!Found(Unt!Chosen) \in 0 .. EntrySize - 2
  BY <1>1, ChosenHasFree, FoundIsFree
<1>3. Unt!Total' = Unt!Total /\ Unt!Entries' = Unt!Entries
  BY <1>1, EntriesStay
<1>4. Unt!TypeOK'
  <2>1. skips' \in 0 .. MaxSkips
    BY <1>1 DEF Unt!UnitQueueAssumption
  <2>2. unitWorker' \in [pc : {"next", "scan", "read", "count"}, count : Int]
    BY <1>1 DEF Unt!TypeOK
  <2> QED
    BY <1>1, <1>2, <1>3, <2>1, <2>2 DEF Unt!TypeOK
<1>5. Unt!CountsInRange'
  BY <1>1, <1>3 DEF Unt!CountsInRange, Unt!TypeOK
<1>6. Unt!SkipIsRecent'
  BY <1>1 DEF Unt!SkipIsRecent
<1> QED
  BY <1>4, <1>5, <1>6

\* A second skip in a row would need a search from the first unit that finds none, and
\* then the queue is full.
LEMMA FindsNoneKeeps ==
  ASSUME Unt!UnitQueueAssumption, Unt!IInv, NEW memory \in BOOLEAN, Unt!findsNone(memory)
  PROVE  Unt!IInv'
<1> USE DEF Unt!IInv
<1>1. Unt!Scanned /\ unitWorker.pc = "scan"
  BY DEF Unt!findsNone, Unt!CountsInRange, Unt!Scanned
<1>2. /\ \A e \in Unt!Entries : Unt!Free(e) = {}
      /\ avail' = 0 /\ Unt!increase(memory)
      /\ skips' = IF Unt!Full \/ skips = MaxSkips THEN skips ELSE skips + 1
      /\ unitWorker' = [unitWorker EXCEPT !.pc = "next"] /\ UNCHANGED <<curr, reader>>
  BY <1>1 DEF Unt!findsNone
<1>3. /\ \E n \in 1 .. MaxEntries : used' \in [1 .. n -> SUBSET (0 .. EntrySize - 2)]
      /\ Unt!Entries \subseteq Unt!Entries' /\ Unt!Total' \in Nat /\ Unt!Total \in Nat /\ Unt!Total <= Unt!Total'
      /\ unitCount' \in Nat /\ unitCount' < Unt!Total
  BY <1>2, IncreaseCounts, EntriesAreCounted
<1>4. skips # 0 => Unt!Full
  <2> SUFFICES ASSUME avail = 0
               PROVE  Unt!Full
    BY DEF Unt!SkipIsRecent
  <2>1. \A e \in Unt!Entries : \A u \in Unt!Units \ {EntrySize - 1} : u \in Unt!Free(e) \/ u \in used[e]
    BY DEF Unt!Free, Unt!Units, Unt!UnitQueueAssumption
  <2> QED
    BY <1>2, <2>1 DEF Unt!Full
<1>5. skips' \in {0, 1}
  BY <1>2, <1>4 DEF Unt!SkipIsRecent
<1>6. Unt!TypeOK'
  <2>1. skips' \in 0 .. MaxSkips
    BY <1>5 DEF Unt!UnitQueueAssumption
  <2>2. avail' \in 0 .. EntrySize - 2
    BY <1>2 DEF Unt!UnitQueueAssumption
  <2> QED
    BY <1>2, <1>3, <2>1, <2>2 DEF Unt!TypeOK
<1>7. unitWorker'.pc = "next"
  BY <1>2 DEF Unt!TypeOK
<1>8. Unt!CountsInRange'
  <2>2. \A r \in Readers : reader[r].pc = "count" => reader[r].count \in Int /\ reader[r].count <= Unt!Total
    BY DEF Unt!CountsInRange, Unt!TypeOK
  <2> QED
    BY <1>2, <1>3, <1>7, <2>2 DEF Unt!CountsInRange
<1>9. Unt!SkipIsRecent'
  BY <1>2, <1>5, <1>7 DEF Unt!SkipIsRecent
<1> QED
  BY <1>6, <1>8, <1>9

LEMMA DropsPacketKeeps ==
  ASSUME Unt!UnitQueueAssumption, Unt!IInv, Unt!dropsPacket
  PROVE  Unt!IInv'
<1> USE DEF Unt!IInv
<1>1. /\ unitWorker' = [unitWorker EXCEPT !.pc = "next"] /\ UNCHANGED <<used, curr, avail, unitCount, reader, skips>>
      /\ Unt!Total' = Unt!Total /\ Unt!Entries' = Unt!Entries
  BY EntriesStay DEF Unt!dropsPacket
<1>2. unitWorker'.pc = "next"
  BY <1>1 DEF Unt!TypeOK
<1> QED
  BY <1>1, <1>2 DEF Unt!TypeOK, Unt!CountsInRange, Unt!SkipIsRecent

LEMMA AddDataKeeps ==
  ASSUME Unt!UnitQueueAssumption, Unt!IInv, Unt!addData
  PROVE  Unt!IInv'
<1> USE DEF Unt!IInv
<1>1. /\ unitWorker.pc = "read" /\ used' = [used EXCEPT ![curr] = @ \cup {avail}]
      /\ unitWorker' = [pc |-> "count", count |-> unitCount] /\ UNCHANGED <<curr, avail, unitCount, reader, skips>>
  BY DEF Unt!addData
<1>2. PICK n \in 1 .. MaxEntries : used \in [1 .. n -> SUBSET (0 .. EntrySize - 2)]
  BY DEF Unt!TypeOK
<1>3. used' \in [1 .. n -> SUBSET (0 .. EntrySize - 2)]
  BY <1>1, <1>2 DEF Unt!TypeOK
<1>4. Unt!Entries' = Unt!Entries
  BY <1>2, <1>3 DEF Unt!Entries
<1>5. Unt!Total' = Unt!Total
  BY <1>4 DEF Unt!Total
<1>6. Unt!TypeOK'
  BY <1>1, <1>3, <1>4 DEF Unt!TypeOK
<1>7. Unt!CountsInRange'
  BY <1>1, <1>5 DEF Unt!CountsInRange
<1>8. Unt!SkipIsRecent'
  BY <1>1 DEF Unt!SkipIsRecent
<1> QED
  BY <1>6, <1>7, <1>8

LEMMA AddCountsKeeps ==
  ASSUME Unt!UnitQueueAssumption, Unt!IInv, Unt!addCounts
  PROVE  Unt!IInv'
<1> USE DEF Unt!IInv
<1>1. /\ unitWorker.pc = "count" /\ unitCount' = unitWorker.count + 1
      /\ unitWorker' = [pc |-> "next", count |-> 0] /\ UNCHANGED <<used, curr, avail, reader, skips>>
      /\ Unt!Total' = Unt!Total /\ Unt!Entries' = Unt!Entries
  BY EntriesStay DEF Unt!addCounts
<1>2. Unt!Total \in Nat /\ unitWorker.count \in Int
  BY EntriesAreCounted DEF Unt!TypeOK
<1>3. Unt!TypeOK'
  BY <1>1, <1>2 DEF Unt!TypeOK
<1>4. Unt!CountsInRange'
  BY <1>1, <1>2 DEF Unt!CountsInRange
<1> QED
  BY <1>1, <1>3, <1>4 DEF Unt!SkipIsRecent

LEMMA FreesKeeps ==
  ASSUME Unt!UnitQueueAssumption, Unt!IInv, NEW r \in Readers, Unt!frees(r)
  PROVE  Unt!IInv'
<1> USE DEF Unt!IInv
<1>1. /\ reader' = [reader EXCEPT ![r] = [pc |-> "count", count |-> unitCount]]
      /\ UNCHANGED <<curr, avail, unitCount, unitWorker, skips>>
  BY DEF Unt!frees
<1>2. PICK e \in Unt!Entries : \E u \in used[e] : used' = [used EXCEPT ![e] = @ \ {u}]
  BY DEF Unt!frees
<1>3. PICK n \in 1 .. MaxEntries : used \in [1 .. n -> SUBSET (0 .. EntrySize - 2)]
  BY DEF Unt!TypeOK
<1>4. used' \in [1 .. n -> SUBSET (0 .. EntrySize - 2)]
  BY <1>2, <1>3 DEF Unt!Entries
<1>5. Unt!Entries' = Unt!Entries
  BY <1>3, <1>4 DEF Unt!Entries
<1>6. Unt!Total' = Unt!Total
  BY <1>5 DEF Unt!Total
<1>7. Unt!TypeOK'
  BY <1>1, <1>4, <1>5 DEF Unt!TypeOK
<1>8. Unt!CountsInRange'
  BY <1>1, <1>6 DEF Unt!CountsInRange, Unt!TypeOK
<1> QED
  BY <1>1, <1>7, <1>8 DEF Unt!SkipIsRecent

LEMMA FreeCountsKeeps ==
  ASSUME Unt!UnitQueueAssumption, Unt!IInv, NEW r \in Readers, Unt!freeCounts(r)
  PROVE  Unt!IInv'
<1> USE DEF Unt!IInv
<1>1. /\ reader[r].pc = "count" /\ unitCount' = reader[r].count - 1
      /\ reader' = [reader EXCEPT ![r] = [pc |-> "idle", count |-> 0]]
      /\ UNCHANGED <<used, curr, avail, unitWorker, skips>>
      /\ Unt!Total' = Unt!Total /\ Unt!Entries' = Unt!Entries
  BY EntriesStay DEF Unt!freeCounts
<1>2. Unt!Total \in Nat /\ reader[r].count \in Int /\ reader[r].count <= Unt!Total
  BY <1>1, EntriesAreCounted DEF Unt!TypeOK, Unt!CountsInRange
<1>3. Unt!TypeOK'
  BY <1>1, <1>2 DEF Unt!TypeOK
<1>4. Unt!CountsInRange'
  BY <1>1, <1>2 DEF Unt!CountsInRange, Unt!TypeOK
<1> QED
  BY <1>1, <1>3, <1>4 DEF Unt!SkipIsRecent

\* However wrong the unlocked count of CUnitQueue becomes, it never makes the receive
\* worker throw away two packets in a row while a unit is free (queue.cpp:196).
THEOREM NeverSkipsTwice == TablesSpec => []SkipsOnce
<1>0. Unt!UnitQueueAssumption
  BY TablesAssumption
<1>1. TablesInit => Unt!IInv
  BY <1>0, UnitQueueInit DEF TablesInit
<1>2. Unt!IInv /\ [TablesNext]_tablesVars => Unt!IInv'
  <2> SUFFICES ASSUME Unt!IInv, [Unt!Next]_(Unt!unitVars)
               PROVE  Unt!IInv'
    BY StepsOfEach
  <2>1. CASE \E memory \in BOOLEAN : Unt!looksAtCount(memory) \/ Unt!findsNone(memory)
    BY <1>0, <2>1, LooksAtCountKeeps, FindsNoneKeeps
  <2>2. CASE Unt!findsUnit \/ Unt!dropsPacket \/ Unt!addData \/ Unt!addCounts
    BY <1>0, <2>2, FindsUnitKeeps, DropsPacketKeeps, AddDataKeeps, AddCountsKeeps
  <2>3. CASE \E r \in Readers : Unt!frees(r) \/ Unt!freeCounts(r)
    BY <1>0, <2>3, FreesKeeps, FreeCountsKeeps
  <2>4. CASE UNCHANGED Unt!unitVars
    BY <2>4 DEF Unt!unitVars, Unt!IInv, Unt!TypeOK, Unt!CountsInRange, Unt!SkipIsRecent, Unt!Total, Unt!Entries
  <2> QED
    BY <2>1, <2>2, <2>3, <2>4 DEF Unt!Next
<1>3. Unt!IInv => SkipsOnce
  BY DEF Unt!IInv, Unt!TypeOK, Unt!SkipIsRecent, Unt!SkipsOnce, SkipsOnce
<1> QED
  BY <1>1, <1>2, <1>3, PTL DEF TablesSpec

-----------------------------------------------------------------------------
(* The ACK window.                                                          *)

\* The last m of the first n ACKs.
Latest(n, m) == [i \in 1 .. m |-> n - m + i]

LEMMA AckSizes ==
  ASSUME Ack!AckWindowAssumption
  PROVE  WindowSize \in Nat /\ WindowSize >= 2 /\ AckTH \in Nat /\ MaxStored \in Nat
BY DEF Ack!AckWindowAssumption

\* Places in the ring, without the remainder.
LEMMA RingPlaces ==
  ASSUME Ack!AckWindowAssumption, NEW n \in 0 .. 2 * WindowSize - 1
  PROVE  n % WindowSize = IF n < WindowSize THEN n ELSE n - WindowSize
BY AckSizes

\* How far the head is from the tail, for the ring of now or of the next state.
LEMMA HeadFromTail ==
  ASSUME Ack!AckWindowAssumption, NEW h \in Ack!Places, NEW t \in Ack!Places
  PROVE  (h - t + WindowSize) % WindowSize = IF h >= t THEN h - t ELSE h - t + WindowSize
<1>1. h \in 0 .. WindowSize - 1 /\ t \in 0 .. WindowSize - 1 /\ WindowSize \in Nat
  BY AckSizes DEF Ack!Places
<1>2. h - t + WindowSize \in 0 .. 2 * WindowSize - 1
  BY <1>1
<1>3. (h - t + WindowSize) % WindowSize = IF h - t + WindowSize < WindowSize THEN h - t + WindowSize ELSE h - t
  BY <1>1, <1>2, RingPlaces
<1> QED
  BY <1>1, <1>3

LEMMA RememberedIs ==
  ASSUME Ack!AckWindowAssumption, Ack!TypeOK
  PROVE  /\ Ack!Remembered = IF head >= tail THEN head - tail ELSE head - tail + WindowSize
         /\ Ack!Remembered \in 0 .. WindowSize - 1
         /\ Ack!Held = tail .. tail + Ack!Remembered - 1
<1>1. head \in 0 .. WindowSize - 1 /\ tail \in 0 .. WindowSize - 1 /\ WindowSize \in Nat
  BY AckSizes DEF Ack!TypeOK, Ack!Places
<1>2. Ack!Remembered = IF head >= tail THEN head - tail ELSE head - tail + WindowSize
  BY HeadFromTail DEF Ack!TypeOK, Ack!Remembered
<1> QED
  BY <1>1, <1>2 DEF Ack!Held

\* The m acknowledgements of a ring r from place t on, and that they are the last of n.
MemoryOf(r, t, m) == [i \in 1 .. m |-> r[(t + i - 1) % WindowSize].ack]

LastAcks(r, t, n, m) == \A k \in 0 .. m - 1 : r[(t + k) % WindowSize].ack = n - m + 1 + k

LEMMA MemoryOfLast ==
  ASSUME NEW r, NEW t \in Nat, NEW n \in Nat, NEW m \in Nat, LastAcks(r, t, n, m)
  PROVE  MemoryOf(r, t, m) = Latest(n, m)
<1>1. ASSUME NEW i \in 1 .. m
      PROVE  r[(t + i - 1) % WindowSize].ack = n - m + i
  <2>1. PICK k \in 0 .. m - 1 : k = i - 1
    OBVIOUS
  <2>2. r[(t + k) % WindowSize].ack = n - m + 1 + k
    BY DEF LastAcks
  <2>3. t + k = t + i - 1 /\ n - m + 1 + k = n - m + i
    BY <2>1
  <2> QED
    BY <2>2, <2>3
<1> QED
  BY <1>1 DEF MemoryOf, Latest

\* What is remembered are the last ACKs.
LEMMA MemoryIsLatest ==
  ASSUME Ack!AckWindowAssumption, Ack!IInv
  PROVE  /\ Ack!Memory = Latest(stored, Ack!Remembered)
         /\ stored \in Nat /\ Ack!Remembered \in Nat
<1>1. Ack!Remembered \in Nat /\ tail \in Nat /\ stored \in Nat
  BY RememberedIs, AckSizes DEF Ack!IInv, Ack!TypeOK, Ack!Places
<1>2. LastAcks(ring, tail, stored, Ack!Remembered)
  <2> SUFFICES ASSUME NEW k \in 0 .. Ack!Remembered - 1
               PROVE  ring[(tail + k) % WindowSize].ack = stored - Ack!Remembered + 1 + k
    BY DEF LastAcks
  <2>1. ring[(tail + k) % WindowSize]
        = [seq |-> Ack!AckNo(stored - Ack!Remembered + 1 + k), ack |-> stored - Ack!Remembered + 1 + k]
    BY DEF Ack!IInv, Ack!HoldsTheLast
  <2> QED
    BY <2>1
<1>3. Ack!Memory = MemoryOf(ring, tail, Ack!Remembered)
  BY DEF Ack!Memory, MemoryOf
<1> QED
  BY <1>1, <1>2, <1>3, MemoryOfLast

\* The same in the next state.
LEMMA MemoryIsLatestNext ==
  ASSUME Ack!AckWindowAssumption, Ack!IInv', NEW m \in Nat, m = Ack!Remembered'
  PROVE  Ack!Memory' = Latest(stored', m)
<1>1. PICK r, t, n : r = ring' /\ t = tail' /\ n = stored'
  OBVIOUS
<1>2. t \in Nat /\ n \in Nat
  BY <1>1, AckSizes DEF Ack!IInv, Ack!TypeOK, Ack!Places
<1>3. LastAcks(r, t, n, m)
  <2> SUFFICES ASSUME NEW k \in 0 .. m - 1
               PROVE  r[(t + k) % WindowSize].ack = n - m + 1 + k
    BY DEF LastAcks
  <2>1. r[(t + k) % WindowSize] = [seq |-> Ack!AckNo(n - m + 1 + k), ack |-> n - m + 1 + k]
    BY <1>1 DEF Ack!IInv, Ack!HoldsTheLast, Ack!AckNo
  <2> QED
    BY <2>1
<1>4. Ack!Memory' = MemoryOf(r, t, m)
  BY <1>1 DEF Ack!Memory, MemoryOf
<1> QED
  BY <1>1, <1>2, <1>3, <1>4, MemoryOfLast

\* What becomes of the last ACKs when one is stored, or some are forgotten.
LEMMA LatestChanges ==
  ASSUME NEW n \in Nat, NEW m \in Nat
  PROVE  /\ Latest(n, m) \in Seq(Int) /\ Len(Latest(n, m)) = m /\ DOMAIN Latest(n, m) = 1 .. m
         /\ Append(Latest(n, m), n + 1) = Latest(n + 1, m + 1)
         /\ m > 0 => Append(Tail(Latest(n, m)), n + 1) = Latest(n + 1, m)
         /\ \A i \in 1 .. m : SubSeq(Latest(n, m), i + 1, m) = Latest(n, m - i)
<1>1. /\ Latest(n, m) \in Seq(Int) /\ Len(Latest(n, m)) = m /\ DOMAIN Latest(n, m) = 1 .. m
      /\ \A i \in 1 .. m : Latest(n, m)[i] = n - m + i
  BY DEF Latest
<1>2. Append(Latest(n, m), n + 1) = Latest(n + 1, m + 1)
  <2>1. Append(Latest(n, m), n + 1) \in Seq(Int) /\ Len(Append(Latest(n, m), n + 1)) = m + 1
    BY <1>1
  <2>2. Latest(n + 1, m + 1) \in Seq(Int) /\ Len(Latest(n + 1, m + 1)) = m + 1
    BY DEF Latest
  <2>3. \A i \in 1 .. m + 1 : Append(Latest(n, m), n + 1)[i] = IF i = m + 1 THEN n + 1 ELSE n - m + i
    BY <1>1
  <2>4. \A i \in 1 .. m + 1 : Latest(n + 1, m + 1)[i] = (n + 1) - (m + 1) + i
    BY DEF Latest
  <2>5. \A i \in 1 .. m + 1 : Append(Latest(n, m), n + 1)[i] = Latest(n + 1, m + 1)[i]
    BY <2>3, <2>4
  <2> QED
    BY <2>1, <2>2, <2>5, SeqEqual
<1>3. ASSUME m > 0
      PROVE  Append(Tail(Latest(n, m)), n + 1) = Latest(n + 1, m)
  <2>1. /\ Tail(Latest(n, m)) \in Seq(Int) /\ Len(Tail(Latest(n, m))) = m - 1
        /\ \A i \in 1 .. m - 1 : Tail(Latest(n, m))[i] = Latest(n, m)[i + 1]
    BY <1>1, <1>3
  <2>2. /\ Append(Tail(Latest(n, m)), n + 1) \in Seq(Int) /\ Len(Append(Tail(Latest(n, m)), n + 1)) = m
        /\ \A i \in 1 .. m : Append(Tail(Latest(n, m)), n + 1)[i] = IF i = m THEN n + 1 ELSE Tail(Latest(n, m))[i]
    BY <1>3, <2>1
  <2>3. Latest(n + 1, m) \in Seq(Int) /\ Len(Latest(n + 1, m)) = m /\ \A i \in 1 .. m : Latest(n + 1, m)[i] = n + 1 - m + i
    BY DEF Latest
  <2>4. \A i \in 1 .. m : Append(Tail(Latest(n, m)), n + 1)[i] = Latest(n + 1, m)[i]
    BY <1>1, <2>1, <2>2, <2>3, SMTT(40)
  <2> QED
    BY <2>2, <2>3, <2>4, SeqEqual
<1>4. ASSUME NEW i \in 1 .. m
      PROVE  SubSeq(Latest(n, m), i + 1, m) = Latest(n, m - i)
  <2>1. SubSeq(Latest(n, m), i + 1, m) = [k \in 1 .. m - (i + 1) + 1 |-> Latest(n, m)[k + (i + 1) - 1]]
    BY <1>1
  <2>2. \A k \in 1 .. m - i : Latest(n, m)[k + (i + 1) - 1] = n - (m - i) + k
    BY <1>1
  <2>3. 1 .. m - (i + 1) + 1 = 1 .. m - i
    OBVIOUS
  <2> QED
    BY <2>1, <2>2, <2>3 DEF Latest
<1> QED
  BY <1>1, <1>2, <1>3, <1>4

LEMMA AckWindowInit ==
  ASSUME Ack!AckWindowAssumption, Ack!Init
  PROVE  Ack!IInv
<1>1. /\ ring = [i \in Ack!Places |-> Ack!Nowhere] /\ head = 0 /\ tail = 0 /\ stored = 0 /\ heard = 0
      /\ WindowSize \in Nat /\ WindowSize >= 2 /\ AckTH \in Nat
  BY AckSizes DEF Ack!Init
<1>2. Ack!Nowhere \in [seq : -1 .. AckTH, ack : Nat]
  BY <1>1 DEF Ack!Nowhere
<1>3. Ack!TypeOK
  BY <1>1, <1>2 DEF Ack!TypeOK, Ack!Places
<1>4. Ack!Remembered = 0
  BY <1>1, <1>3, RememberedIs
<1> QED
  BY <1>1, <1>3, <1>4 DEF Ack!IInv, Ack!HoldsTheLast

\* How many are remembered after a store, and where the tail is.
LEMMA StoreMoves ==
  ASSUME Ack!AckWindowAssumption, Ack!IInv, Ack!store
  PROVE  /\ head' = IF head + 1 = WindowSize THEN 0 ELSE head + 1
         /\ head' \in Ack!Places /\ tail' \in Ack!Places
         /\ \/ Ack!Remembered < WindowSize - 1 /\ tail' = tail /\ head' # tail
            \/ /\ Ack!Remembered = WindowSize - 1 /\ head' = tail
               /\ tail' = IF tail + 1 = WindowSize THEN 0 ELSE tail + 1
<1>1. head \in 0 .. WindowSize - 1 /\ tail \in 0 .. WindowSize - 1 /\ WindowSize \in Nat /\ WindowSize >= 2
  BY AckSizes DEF Ack!IInv, Ack!TypeOK, Ack!Places
<1>2. head' = (head + 1) % WindowSize /\ tail' = IF head' = tail THEN (tail + 1) % WindowSize ELSE tail
  BY DEF Ack!store, Ack!TailAfter
<1>3. (head + 1) % WindowSize = IF head + 1 = WindowSize THEN 0 ELSE head + 1
  BY <1>1, RingPlaces
<1>4. (tail + 1) % WindowSize = IF tail + 1 = WindowSize THEN 0 ELSE tail + 1
  BY <1>1, RingPlaces
<1>5. Ack!Remembered = IF head >= tail THEN head - tail ELSE head - tail + WindowSize
  BY RememberedIs DEF Ack!IInv
<1> QED
  BY <1>1, <1>2, <1>3, <1>4, <1>5 DEF Ack!Places

LEMMA StoreRemembers ==
  ASSUME Ack!AckWindowAssumption, Ack!IInv, Ack!store
  PROVE  /\ Ack!IInv' /\ stored' = stored + 1
         /\ Ack!Remembered' = IF Ack!Remembered < WindowSize - 1 THEN Ack!Remembered + 1 ELSE Ack!Remembered
<1> DEFINE L == Ack!Remembered
           new == [seq |-> Ack!AckNo(stored + 1), ack |-> stored + 1]
<1>1. /\ head \in 0 .. WindowSize - 1 /\ tail \in 0 .. WindowSize - 1 /\ WindowSize \in Nat /\ WindowSize >= 2
      /\ stored \in Nat /\ ring \in [Ack!Places -> [seq : -1 .. AckTH, ack : Nat]] /\ AckTH \in Nat
  BY AckSizes DEF Ack!IInv, Ack!TypeOK, Ack!Places
<1>2. /\ stored' = stored + 1 /\ heard' = heard
      /\ ring' = [ring EXCEPT ![head] = new]
  BY DEF Ack!store
<1>3. new \in [seq : -1 .. AckTH, ack : Nat]
  BY <1>1 DEF Ack!AckNo
<1>4. Ack!TypeOK'
  BY <1>1, <1>2, <1>3, StoreMoves DEF Ack!IInv, Ack!TypeOK
<1>5. /\ L \in 0 .. WindowSize - 1 /\ L <= stored
      /\ L = IF head >= tail THEN head - tail ELSE head - tail + WindowSize
  BY RememberedIs DEF Ack!IInv, Ack!HoldsTheLast
<1>6. L' = IF L < WindowSize - 1 THEN L + 1 ELSE L
  <2>1. PICK h, t : h = head' /\ t = tail'
    OBVIOUS
  <2>2. h \in Ack!Places /\ t \in Ack!Places /\ L' = (h - t + WindowSize) % WindowSize
    BY <2>1, StoreMoves DEF Ack!Remembered
  <2>3. L' = IF h >= t THEN h - t ELSE h - t + WindowSize
    BY <2>2, HeadFromTail
  <2>4. /\ h = IF head + 1 = WindowSize THEN 0 ELSE head + 1
        /\ \/ L < WindowSize - 1 /\ t = tail /\ h # tail
           \/ L = WindowSize - 1 /\ h = tail /\ t = IF tail + 1 = WindowSize THEN 0 ELSE tail + 1
    BY <2>1, StoreMoves
  <2> HIDE DEF L
  <2> QED
    BY <1>1, <1>5, <2>3, <2>4
<1> DEFINE P(k) == (tail + k) % WindowSize
           Q(k) == (tail' + k) % WindowSize
           Old(k) == [seq |-> Ack!AckNo(stored - L + 1 + k), ack |-> stored - L + 1 + k]
<1>7. \A k \in 0 .. L : P(k) \in Ack!Places /\ (P(k) = head <=> k = L)
  <2> SUFFICES ASSUME NEW k \in 0 .. L
               PROVE  P(k) \in Ack!Places /\ (P(k) = head <=> k = L)
    OBVIOUS
  <2> HIDE DEF L
  <2>0. PICK n \in 0 .. 2 * WindowSize - 1 : n = tail + k
    BY <1>1, <1>5
  <2>1. P(k) = IF n < WindowSize THEN n ELSE n - WindowSize
    BY <2>0, RingPlaces
  <2> HIDE DEF P
  <2> QED
    BY <1>1, <1>5, <2>0, <2>1 DEF Ack!Places
<1>8. \A k \in 0 .. L : ring'[P(k)] = Old(k)
  <2> SUFFICES ASSUME NEW k \in 0 .. L
               PROVE  ring'[P(k)] = Old(k)
    OBVIOUS
  <2>1. CASE k = L
    <3>1. P(k) = head /\ head \in Ack!Places
      BY <1>7, <2>1
    <3>2. ring'[P(k)] = new
      BY <1>1, <1>2, <3>1
    <3>3. stored - L + 1 + k = stored + 1
      BY <1>1, <1>5, <2>1
    <3> QED
      BY <3>2, <3>3
  <2>2. CASE k # L
    <3>1. k \in 0 .. L - 1
      BY <1>5, <2>2
    <3>2. ring[P(k)] = Old(k)
      BY <3>1 DEF Ack!IInv, Ack!HoldsTheLast
    <3>3. P(k) # head
      BY <1>7, <2>2
    <3> HIDE DEF P, Old
    <3> QED
      BY <1>1, <1>2, <3>2, <3>3
  <2> QED
    BY <2>1, <2>2
<1>9. PICK m : m = L'
  OBVIOUS
<1>10. ASSUME NEW k \in 0 .. m - 1
       PROVE  \E o \in 0 .. L : Q(k) = P(o) /\ stored' - m + 1 + k = stored - L + 1 + o
  <2>1. CASE L < WindowSize - 1
    <3>1. tail' = tail /\ m = L + 1
      BY <1>5, <1>6, <1>9, <2>1, StoreMoves
    <3>2. k \in 0 .. L /\ Q(k) = P(k) /\ stored' - m + 1 + k = stored - L + 1 + k
      BY <1>1, <1>2, <1>5, <3>1
    <3> QED
      BY <3>2
  <2>2. CASE L = WindowSize - 1
    <3>1. tail' = (IF tail + 1 = WindowSize THEN 0 ELSE tail + 1) /\ m = L
      BY <1>5, <1>6, <1>9, <2>2, StoreMoves
    <3>2. PICK t : t = tail' /\ t \in 0 .. WindowSize - 1
      BY <1>1, <3>1
    <3>3. k \in Nat /\ k + 1 \in 0 .. L /\ stored' - m + 1 + k = stored - L + 1 + (k + 1)
      BY <1>1, <1>2, <1>5, <3>1
    <3>4. PICK n \in 0 .. 2 * WindowSize - 1 : n = t + k
      <4>1. t + k \in 0 .. 2 * WindowSize - 1
        <5> HIDE DEF L
        <5>1. k < WindowSize /\ k \in Nat
          BY <1>1, <1>5, <3>3
        <5>2. t \in Nat /\ t < WindowSize /\ WindowSize \in Nat
          BY <1>1, <3>2
        <5> QED
          BY <5>1, <5>2
      <4> QED
        BY <4>1
    <3>5. PICK o \in 0 .. 2 * WindowSize - 1 : o = tail + (k + 1)
      BY <1>1, <1>5, <3>3
    <3>6. n % WindowSize = o % WindowSize
      <4>1. /\ n % WindowSize = IF n < WindowSize THEN n ELSE n - WindowSize
            /\ o % WindowSize = IF o < WindowSize THEN o ELSE o - WindowSize
        BY RingPlaces
      <4> QED
        BY <1>1, <1>5, <2>2, <3>1, <3>2, <3>3, <3>4, <3>5, <4>1
    <3>7. Q(k) = P(k + 1)
      BY <3>2, <3>4, <3>5, <3>6
    <3> QED
      BY <3>3, <3>7
  <2> QED
    BY <1>1, <1>5, <2>1, <2>2
<1>11. Ack!HoldsTheLast'
  <2>1. m <= stored'
    BY <1>1, <1>2, <1>5, <1>6, <1>9
  <2>2. ASSUME NEW k \in 0 .. m - 1
        PROVE  ring'[Q(k)] = [seq |-> Ack!AckNo(stored' - m + 1 + k), ack |-> stored' - m + 1 + k]
    <3>1. PICK o \in 0 .. L : Q(k) = P(o) /\ stored' - m + 1 + k = stored - L + 1 + o
      BY <1>10
    <3>2. ring'[Q(k)] = Old(o)
      BY <1>8, <3>1
    <3> QED
      BY <3>1, <3>2
  <2> QED
    BY <1>9, <2>1, <2>2 DEF Ack!HoldsTheLast, Ack!AckNo
<1> QED
  BY <1>2, <1>4, <1>6, <1>11 DEF Ack!IInv

\* The step of acknowledge for a number that is found: the place j and its order i.
LEMMA FoundInMemory ==
  ASSUME Ack!AckWindowAssumption, Ack!IInv, NEW seq \in 0 .. AckTH,
         Ack!Matches(seq) # {}, Ack!acknowledge(seq)
  PROVE  \E i \in 1 .. Ack!Remembered :
           /\ Ack!AckNo(stored - Ack!Remembered + i) = seq
           /\ heard' = stored - Ack!Remembered + i /\ stored' = stored
           /\ head' \in Ack!Places /\ tail' \in Ack!Places
           /\ ring' \in [Ack!Places -> [seq : -1 .. AckTH, ack : Nat]]
           /\ Ack!Remembered' = Ack!Remembered - i
           /\ \A k \in 0 .. Ack!Remembered - i - 1 : ring'[(tail' + k) % WindowSize] = ring[(tail + (i + k)) % WindowSize]
<1> DEFINE L == Ack!Remembered
           j == Ack!First(Ack!Matches(seq))
<1>1. /\ head \in 0 .. WindowSize - 1 /\ tail \in 0 .. WindowSize - 1 /\ WindowSize \in Nat /\ WindowSize >= 2
      /\ stored \in Nat /\ ring \in [Ack!Places -> [seq : -1 .. AckTH, ack : Nat]]
  BY AckSizes DEF Ack!IInv, Ack!TypeOK, Ack!Places
<1>2. /\ L \in 0 .. WindowSize - 1 /\ L <= stored
      /\ L = IF head >= tail THEN head - tail ELSE head - tail + WindowSize
      /\ Ack!Held = tail .. tail + L - 1
  BY RememberedIs DEF Ack!IInv, Ack!HoldsTheLast
<1>3. j \in Ack!Matches(seq)
  <2>1. Ack!Matches(seq) \in SUBSET Nat
    BY <1>1, <1>2 DEF Ack!Matches
  <2>2. \E n \in Ack!Matches(seq) : \A o \in Ack!Matches(seq) : n <= o
    BY <2>1, LeastOf
  <2> QED
    BY <2>2 DEF Ack!First
<1>4. /\ heard' = ring[j % WindowSize].ack /\ tail' = Ack!Behind(j) /\ stored' = stored
      /\ head' = IF head >= tail /\ j + 1 = head THEN 0 ELSE head
      /\ ring' = IF head >= tail /\ j + 1 = head THEN [ring EXCEPT ![0].seq = -1] ELSE ring
  BY DEF Ack!acknowledge
<1> HIDE DEF j, L
<1>5. j \in tail .. tail + L - 1 /\ ring[j % WindowSize].seq = seq
  BY <1>2, <1>3 DEF Ack!Matches
<1>6. PICK i \in 1 .. L : i = j - tail + 1
  BY <1>1, <1>2, <1>5
<1>7. Ack!AckNo(stored - L + i) = seq /\ heard' = stored - L + i
  <2>1. PICK k \in 0 .. L - 1 : k = i - 1
    BY <1>2, <1>6
  <2>2. ring[(tail + k) % WindowSize] = [seq |-> Ack!AckNo(stored - L + 1 + k), ack |-> stored - L + 1 + k]
    BY DEF Ack!IInv, Ack!HoldsTheLast, L
  <2>3. tail + k = j /\ stored - L + 1 + k = stored - L + i
    BY <1>1, <1>2, <1>5, <1>6, <2>1
  <2> QED
    BY <1>4, <1>5, <2>2, <2>3
<1>8. CASE head >= tail /\ j + 1 = head
  <2>1. head' = 0 /\ tail' = 0 /\ ring' = [ring EXCEPT ![0].seq = -1]
    BY <1>4, <1>8 DEF Ack!Behind
  <2>2. 0 \in Ack!Places /\ -1 \in -1 .. AckTH
    BY <1>1, AckSizes DEF Ack!Places
  <2>3. ring' \in [Ack!Places -> [seq : -1 .. AckTH, ack : Nat]]
    BY <1>1, <2>1, <2>2
  <2>4. i = L
    <3>1. L = head - tail /\ i = (head - 1) - tail + 1 /\ head \in Nat /\ tail \in Nat
      BY <1>1, <1>2, <1>5, <1>6, <1>8
    <3> QED
      BY <3>1
  <2>5. Ack!Remembered' = 0
    <3>1. (0 - 0 + WindowSize) % WindowSize = 0
      BY <2>2, HeadFromTail
    <3> QED
      BY <2>1, <3>1 DEF Ack!Remembered
  <2>6. Ack!Remembered - i = 0
    BY <1>2, <2>4 DEF L
  <2>7. 0 .. Ack!Remembered - i - 1 = {}
    BY <2>6
  <2> QED
    BY <1>4, <1>6, <1>7, <2>1, <2>2, <2>3, <2>5, <2>6, <2>7 DEF L
<1>9. CASE ~ (head >= tail /\ j + 1 = head)
  <2>1. head' = head /\ tail' = (j + 1) % WindowSize /\ ring' = ring
    BY <1>4, <1>9 DEF Ack!Behind
  <2>2. PICK n \in 0 .. 2 * WindowSize - 1 : n = j + 1
    BY <1>1, <1>2, <1>5
  <2>3. PICK t : t = tail'
    OBVIOUS
  <2>4. t = IF n < WindowSize THEN n ELSE n - WindowSize
    BY <2>1, <2>2, <2>3, RingPlaces
  <2>5. t \in Ack!Places
    BY <1>1, <2>2, <2>4, SMTT(40) DEF Ack!Places
  <2>6. Ack!Remembered' = L - i
    <3>1. Ack!Remembered' = (head - t + WindowSize) % WindowSize
      BY <2>1, <2>3 DEF Ack!Remembered
    <3>2. head \in Ack!Places
      BY <1>1 DEF Ack!Places
    <3>3. Ack!Remembered' = IF head >= t THEN head - t ELSE head - t + WindowSize
      BY <2>5, <3>1, <3>2, HeadFromTail
    <3> QED
      BY <1>1, <1>2, <1>5, <1>6, <1>9, <2>2, <2>4, <3>3
  <2>7. ASSUME NEW k \in 0 .. L - i - 1
        PROVE  ring'[(tail' + k) % WindowSize] = ring[(tail + (i + k)) % WindowSize]
    <3>0. k \in Nat /\ k < WindowSize /\ t \in Nat /\ t < WindowSize /\ i + k < WindowSize /\ i + k \in Nat
      <4>1. L \in Nat /\ L < WindowSize /\ i \in Nat /\ i >= 1 /\ i <= L /\ k \in Int /\ 0 <= k /\ k <= L - i - 1
        BY <1>1, <1>2, <1>6
      <4>2. WindowSize \in Nat /\ t \in Nat /\ t < WindowSize
        BY <1>1, <2>5 DEF Ack!Places
      <4> QED
        BY <4>1, <4>2
    <3>1. PICK p \in 0 .. 2 * WindowSize - 1 : p = t + k
      BY <1>1, <3>0
    <3>2. PICK o \in 0 .. 2 * WindowSize - 1 : o = tail + (i + k)
      BY <1>1, <3>0
    <3>3. p % WindowSize = o % WindowSize
      <4>1. /\ p % WindowSize = IF p < WindowSize THEN p ELSE p - WindowSize
            /\ o % WindowSize = IF o < WindowSize THEN o ELSE o - WindowSize
        BY RingPlaces
      <4>2. n = tail + i
        BY <1>1, <1>5, <1>6, <2>2
      <4> QED
        BY <1>1, <1>6, <2>4, <3>0, <3>1, <3>2, <4>1, <4>2
    <3> QED
      BY <2>1, <2>3, <3>1, <3>2, <3>3
  <2> QED
    BY <1>1, <1>4, <1>6, <1>7, <2>1, <2>3, <2>5, <2>6, <2>7 DEF L, Ack!Places
<1> QED
  BY <1>8, <1>9

LEMMA AcknowledgeRemembers ==
  ASSUME Ack!AckWindowAssumption, Ack!IInv, NEW seq \in 0 .. AckTH,
         Ack!Matches(seq) # {}, Ack!acknowledge(seq)
  PROVE  /\ Ack!IInv' /\ stored' = stored
         /\ \E i \in 1 .. Ack!Remembered :
              /\ Ack!AckNo(stored - Ack!Remembered + i) = seq
              /\ heard' = stored - Ack!Remembered + i
              /\ Ack!Remembered' = Ack!Remembered - i
<1> DEFINE L == Ack!Remembered
<1>1. L \in Nat /\ stored \in Nat /\ L <= stored
  BY AckSizes, RememberedIs DEF Ack!IInv, Ack!TypeOK, Ack!HoldsTheLast
<1>2. PICK i \in 1 .. L :
           /\ Ack!AckNo(stored - L + i) = seq
           /\ heard' = stored - L + i /\ stored' = stored
           /\ head' \in Ack!Places /\ tail' \in Ack!Places
           /\ ring' \in [Ack!Places -> [seq : -1 .. AckTH, ack : Nat]]
           /\ Ack!Remembered' = L - i
           /\ \A k \in 0 .. L - i - 1 : ring'[(tail' + k) % WindowSize] = ring[(tail + (i + k)) % WindowSize]
  BY FoundInMemory
<1>3. \A k \in 0 .. L - 1 : ring[(tail + k) % WindowSize] = [seq |-> Ack!AckNo(stored - L + 1 + k), ack |-> stored - L + 1 + k]
  BY DEF Ack!IInv, Ack!HoldsTheLast
<1> HIDE DEF L
<1>4. Ack!TypeOK'
  <2>1. heard' \in Nat /\ stored' \in Nat
    BY <1>1, <1>2
  <2> QED
    BY <1>2, <2>1 DEF Ack!TypeOK, Ack!Places
<1>5. PICK m : m = L - i /\ m \in Nat
  BY <1>1, <1>2
<1>6. \A k \in 0 .. m - 1 :
        ring'[(tail' + k) % WindowSize] = [seq |-> Ack!AckNo(stored' - m + 1 + k), ack |-> stored' - m + 1 + k]
  <2> SUFFICES ASSUME NEW k \in 0 .. m - 1
               PROVE  ring'[(tail' + k) % WindowSize] = [seq |-> Ack!AckNo(stored' - m + 1 + k), ack |-> stored' - m + 1 + k]
    OBVIOUS
  <2>1. ring'[(tail' + k) % WindowSize] = ring[(tail + (i + k)) % WindowSize]
    BY <1>2, <1>5
  <2>2. PICK o \in 0 .. L - 1 : o = i + k
    BY <1>1, <1>2, <1>5
  <2>3. ring[(tail + o) % WindowSize] = [seq |-> Ack!AckNo(stored - L + 1 + o), ack |-> stored - L + 1 + o]
    BY <1>3
  <2>4. stored - L + 1 + o = stored - m + 1 + k
    BY <1>1, <1>2, <1>5, <2>2
  <2> QED
    BY <1>2, <2>1, <2>2, <2>3, <2>4
<1>7. Ack!HoldsTheLast'
  <2>1. Ack!Remembered' = m /\ m <= stored'
    BY <1>1, <1>2, <1>5
  <2> QED
    BY <1>6, <2>1 DEF Ack!HoldsTheLast, Ack!AckNo
<1> QED
  BY <1>2, <1>4, <1>7 DEF L, Ack!IInv

\* Nothing is found that is not remembered under its number.
LEMMA NoneInMemory ==
  ASSUME Ack!AckWindowAssumption, Ack!IInv, NEW seq \in 0 .. AckTH, Ack!Matches(seq) = {}
  PROVE  \A i \in 1 .. Ack!Remembered : Ack!AckNo(stored - Ack!Remembered + i) # seq
<1> DEFINE L == Ack!Remembered
<1>1. tail \in Nat /\ tail < WindowSize /\ L \in Nat /\ L < WindowSize /\ stored \in Nat /\ Ack!Held = tail .. tail + L - 1 /\ WindowSize \in Nat
  BY AckSizes, RememberedIs, SMTT(40) DEF Ack!IInv, Ack!TypeOK, Ack!Places
<1>2. \A k \in 0 .. L - 1 : ring[(tail + k) % WindowSize] = [seq |-> Ack!AckNo(stored - L + 1 + k), ack |-> stored - L + 1 + k]
  BY DEF Ack!IInv, Ack!HoldsTheLast
<1> HIDE DEF L
<1>3. ASSUME NEW i \in 1 .. L
      PROVE  Ack!AckNo(stored - L + i) # seq
  <2>1. PICK k \in 0 .. L - 1 : k = i - 1
    BY <1>1
  <2>2. tail + k \in Ack!Held
    BY <1>1
  <2>3. ring[(tail + k) % WindowSize].seq # seq
    BY <2>2 DEF Ack!Matches
  <2>4. ring[(tail + k) % WindowSize].seq = Ack!AckNo(stored - L + 1 + k)
    <3>1. ring[(tail + k) % WindowSize] = [seq |-> Ack!AckNo(stored - L + 1 + k), ack |-> stored - L + 1 + k]
      BY <1>2
    <3> QED
      BY <3>1
  <2>5. stored - L + 1 + k = stored - L + i
    BY <1>1, <2>1
  <2> QED
    BY <2>3, <2>4, <2>5
<1> QED
  BY <1>3 DEF L

LEMMA AckWindowSteps ==
  ASSUME Ack!AckWindowAssumption, Ack!IInv, [Ack!Next]_(Ack!ackVars)
  PROVE  Ack!IInv'
<1>1. ASSUME Ack!store
      PROVE  Ack!IInv'
  BY <1>1, StoreRemembers
<1>2. ASSUME NEW seq \in 0 .. AckTH, Ack!acknowledge(seq)
      PROVE  Ack!IInv'
  <2>1. ASSUME Ack!Matches(seq) # {}
        PROVE  Ack!IInv'
    BY <1>2, <2>1, AcknowledgeRemembers
  <2>2. ASSUME Ack!Matches(seq) = {}
        PROVE  Ack!IInv'
    BY <1>2, <2>2 DEF Ack!acknowledge, Ack!IInv, Ack!TypeOK, Ack!HoldsTheLast, Ack!Remembered
  <2> QED
    BY <2>1, <2>2
<1>3. ASSUME UNCHANGED Ack!ackVars
      PROVE  Ack!IInv'
  BY <1>3 DEF Ack!ackVars, Ack!IInv, Ack!TypeOK, Ack!HoldsTheLast, Ack!Remembered
<1> QED
  BY <1>1, <1>2, <1>3 DEF Ack!Next

\* A store adds the newest to the memory, and drops the oldest of WindowSize.
LEMMA StoreIsRemembered ==
  ASSUME Ack!AckWindowAssumption, Ack!IInv, Ack!store
  PROVE  /\ stored' = stored + 1
         /\ Ack!Memory' = Append(IF Len(Ack!Memory) < WindowSize - 1 THEN Ack!Memory ELSE Tail(Ack!Memory), stored')
<1>1. PICK L, n : L = Ack!Remembered /\ n = stored /\ L \in 0 .. WindowSize - 1 /\ n \in Nat
  BY RememberedIs DEF Ack!IInv, Ack!TypeOK
<1>2. WindowSize \in Nat /\ WindowSize >= 2 /\ L \in Nat
  BY <1>1, AckSizes
<1>3. Ack!Memory = Latest(n, L) /\ Len(Latest(n, L)) = L
  BY <1>1, <1>2, MemoryIsLatest, LatestChanges
<1>4. PICK m \in Nat : m = IF L < WindowSize - 1 THEN L + 1 ELSE L
  BY <1>2
<1>5. stored' = n + 1 /\ m = Ack!Remembered' /\ Ack!IInv'
  BY <1>1, <1>4, StoreRemembers
<1>6. Ack!Memory' = Latest(n + 1, m)
  BY <1>5, MemoryIsLatestNext
<1>7. /\ Append(Latest(n, L), n + 1) = Latest(n + 1, L + 1)
      /\ L > 0 => Append(Tail(Latest(n, L)), n + 1) = Latest(n + 1, L)
  BY <1>1, <1>2, LatestChanges
<1>8. CASE L < WindowSize - 1
  BY <1>1, <1>3, <1>4, <1>5, <1>6, <1>7, <1>8
<1>9. CASE ~ (L < WindowSize - 1)
  <2>1. L > 0
    BY <1>1, <1>2, <1>9
  <2> QED
    BY <1>1, <1>3, <1>4, <1>5, <1>6, <1>7, <1>9, <2>1
<1> QED
  BY <1>8, <1>9

\* An ACK2 finds what is remembered under its number, and forgets all up to it.
LEMMA AcknowledgeIsRemembered ==
  ASSUME Ack!AckWindowAssumption, Ack!IInv, NEW seq \in 0 .. AckTH, Ack!acknowledge(seq)
  PROVE  \/ /\ \A i \in DOMAIN Ack!Memory : Ack!AckNo(Ack!Memory[i]) # seq
            /\ heard' = 0 /\ Ack!Memory' = Ack!Memory
         \/ \E i \in DOMAIN Ack!Memory :
              /\ Ack!AckNo(Ack!Memory[i]) = seq /\ heard' = Ack!Memory[i]
              /\ Ack!Memory' = SubSeq(Ack!Memory, i + 1, Len(Ack!Memory))
<1>1. PICK L, n : L = Ack!Remembered /\ n = stored /\ L \in Nat /\ n \in Nat
  BY MemoryIsLatest
<1>2. /\ Ack!Memory = Latest(n, L) /\ DOMAIN Latest(n, L) = 1 .. L /\ Len(Latest(n, L)) = L
      /\ \A i \in 1 .. L : Latest(n, L)[i] = n - L + i
  BY <1>1, MemoryIsLatest, LatestChanges DEF Latest
<1>3. CASE Ack!Matches(seq) = {}
  <2>1. \A i \in 1 .. L : Ack!AckNo(n - L + i) # seq
    BY <1>1, <1>3, NoneInMemory
  <2>2. heard' = 0 /\ Ack!Memory' = Ack!Memory
    BY <1>3 DEF Ack!acknowledge, Ack!Memory, Ack!Remembered
  <2> QED
    BY <1>2, <2>1, <2>2
<1>4. CASE Ack!Matches(seq) # {}
  <2>1. PICK i \in 1 .. L : Ack!AckNo(n - L + i) = seq /\ heard' = n - L + i /\ Ack!Remembered' = L - i
    BY <1>1, <1>4, AcknowledgeRemembers
  <2>2. Ack!IInv' /\ stored' = n
    BY <1>1, <1>4, AcknowledgeRemembers
  <2>3. PICK m \in Nat : m = L - i
    BY <1>1
  <2>4. Ack!Memory' = Latest(n, m)
    BY <2>1, <2>2, <2>3, MemoryIsLatestNext
  <2>5. SubSeq(Latest(n, L), i + 1, L) = Latest(n, L - i)
    BY <1>1, LatestChanges
  <2> QED
    BY <1>2, <2>1, <2>3, <2>4, <2>5
<1> QED
  BY <1>3, <1>4

\* An ACK2 that comes late, twice or out of order brings what was sent with its number,
\* if it is among the last WindowSize - 1 and no later one has been heard of, and nothing
\* else, for every size of the window and however the numbers restart (window.cpp:70, 83).
THEOREM WindowIsMemory == TablesSpec => IsAMemory
<1>0. Ack!AckWindowAssumption
  BY TablesAssumption
<1>1. TablesInit => Ack!IInv
  BY <1>0, AckWindowInit DEF TablesInit
<1>2. Ack!IInv /\ [TablesNext]_tablesVars => Ack!IInv'
  BY <1>0, StepsOfEach, AckWindowSteps
<1> DEFINE A == \/ /\ stored' = stored + 1
                   /\ Ack!Memory' = Append(IF Len(Ack!Memory) < WindowSize - 1 THEN Ack!Memory ELSE Tail(Ack!Memory), stored')
                \/ \E seq \in 0 .. AckTH :
                     \/ /\ \A i \in DOMAIN Ack!Memory : Ack!AckNo(Ack!Memory[i]) # seq
                        /\ heard' = 0 /\ Ack!Memory' = Ack!Memory
                     \/ \E i \in DOMAIN Ack!Memory :
                          /\ Ack!AckNo(Ack!Memory[i]) = seq /\ heard' = Ack!Memory[i]
                          /\ Ack!Memory' = SubSeq(Ack!Memory, i + 1, Len(Ack!Memory))
<1>3. Ack!IInv /\ [TablesNext]_tablesVars => [A]_(Ack!ackVars)
  <2> SUFFICES ASSUME Ack!IInv, [Ack!Next]_(Ack!ackVars)
               PROVE  [A]_(Ack!ackVars)
    BY StepsOfEach
  <2>1. CASE Ack!store
    BY <1>0, <2>1, StoreIsRemembered
  <2>2. CASE \E seq \in 0 .. AckTH : Ack!acknowledge(seq)
    BY <1>0, <2>2, AcknowledgeIsRemembered
  <2> QED
    BY <2>1, <2>2 DEF Ack!Next
<1>4. IsAMemory <=> [][A]_(Ack!ackVars)
  BY DEF IsAMemory, Ack!IsAMemory
<1> HIDE DEF A
<1> QED
  BY <1>1, <1>2, <1>3, <1>4, PTL DEF TablesSpec

-----------------------------------------------------------------------------
(* The list of the receive queue.                                           *)

ListNodes == [Sockets -> [prev : Sockets \cup {0}, next : Sockets \cup {0}, on : BOOLEAN, old : BOOLEAN]]
Ends == [first : Sockets \cup {0}, last : Sockets \cup {0}]

\* The m sockets q are linked in this order, from the first of b to its last.
Chained(n, b, m, q) ==
  /\ \A i, j \in 1 .. m : q[i] = q[j] => i = j
  /\ b.first = IF m = 0 THEN 0 ELSE q[1]
  /\ b.last = IF m = 0 THEN 0 ELSE q[m]
  /\ \A i \in 1 .. m : n[q[i]].prev = IF i = 1 THEN 0 ELSE q[i - 1]
  /\ \A i \in 1 .. m : n[q[i]].next = IF i = m THEN 0 ELSE q[i + 1]

\* None is old behind one that is fresh.
InOrder(n, m, q) == \A i \in 1 .. m - 1 : n[q[i + 1]].old => n[q[i]].old

\* What insert and remove change of the nodes is links and, of the one inserted, the time.
SameFlags(n1, n2) == \A u \in Sockets : n1[u].on = n2[u].on /\ n1[u].old = n2[u].old

Behind(q, m, u) == [i \in 1 .. m + 1 |-> IF i <= m THEN q[i] ELSE u]
Skipping(q, m, k) == [i \in 1 .. m - 1 |-> IF i < k THEN q[i] ELSE q[i + 1]]

LEMMA AppendedIsChained ==
  ASSUME Rcv!RcvListAssumption, NEW n \in ListNodes, NEW b \in Ends, NEW m \in Nat, NEW q \in [1 .. m -> Sockets],
         Chained(n, b, m, q), InOrder(n, m, q), NEW u \in Sockets, \A i \in 1 .. m : q[i] # u
  PROVE  LET a == Rcv!Appended(n, b, u)
         IN  /\ a.node \in ListNodes /\ a.list \in Ends
             /\ Behind(q, m, u) \in [1 .. m + 1 -> Sockets]
             /\ Chained(a.node, a.list, m + 1, Behind(q, m, u))
             /\ InOrder(a.node, m + 1, Behind(q, m, u))
             /\ \A v \in Sockets : a.node[v].on = n[v].on
<1> DEFINE a == Rcv!Appended(n, b, u)
           q2 == Behind(q, m, u)
<1>1. 0 \notin Sockets
  BY DEF Rcv!RcvListAssumption
<1>2. /\ q2 \in [1 .. m + 1 -> Sockets]
      /\ \A i \in 1 .. m : q2[i] = q[i]
      /\ q2[m + 1] = u
  BY DEF Behind
<1>3. \A i, j \in 1 .. m + 1 : q2[i] = q2[j] => i = j
  BY <1>2 DEF Chained
<1> HIDE DEF q2
<1>4. CASE m = 0
  <2>1. b.first = 0
    BY <1>4 DEF Chained
  <2>2. /\ a.node = [n EXCEPT ![u].prev = 0, ![u].next = 0, ![u].old = FALSE]
        /\ a.list = [first |-> u, last |-> u]
    BY <2>1 DEF Rcv!Appended, Rcv!NULL
  <2> HIDE DEF a
  <2>3. a.node \in ListNodes /\ a.list \in Ends
    BY <2>2 DEF ListNodes, Ends
  <2>4. /\ a.node[u].prev = 0 /\ a.node[u].next = 0
        /\ \A v \in Sockets : a.node[v].on = n[v].on
    BY <2>2 DEF ListNodes
  <2>5. Chained(a.node, a.list, m + 1, q2)
    <3>1. m + 1 = 1 /\ q2[1] = u /\ 1 .. 1 = {1}
      BY <1>2, <1>4
    <3>2. m + 1 # 0 /\ \A i \in 1 .. m + 1 : i = 1 /\ i = m + 1
      BY <1>4
    <3>3. \A i \in 1 .. m + 1 : a.node[q2[i]].prev = 0 /\ a.node[q2[i]].next = 0
      BY <2>4, <3>1, <3>2
    <3>4. a.list.first = u /\ a.list.last = u
      BY <2>2
    <3> QED
      BY <1>3, <3>1, <3>2, <3>3, <3>4 DEF Chained
  <2>6. InOrder(a.node, m + 1, q2)
    BY <1>4 DEF InOrder
  <2> QED
    BY <1>2, <2>3, <2>4, <2>5, <2>6 DEF a, q2
<1>5. CASE m # 0
  <2>1. b.first # 0 /\ b.last = q[m] /\ q[m] \in Sockets /\ q[m] # u /\ m \in 1 .. m
    BY <1>1, <1>5 DEF Chained
  <2>2. /\ a.node = [n EXCEPT ![u].prev = b.last, ![u].next = 0, ![u].old = FALSE, ![b.last].next = u]
        /\ a.list = [b EXCEPT !.last = u]
    BY <2>1 DEF Rcv!Appended, Rcv!NULL
  <2> HIDE DEF a
  <2>3. a.node \in ListNodes /\ a.list \in Ends /\ a.list.first = b.first /\ a.list.last = u
    BY <2>1, <2>2 DEF ListNodes, Ends
  <2>4. /\ a.node[u].prev = q[m] /\ a.node[u].next = 0 /\ a.node[u].old = FALSE
        /\ a.node[q[m]].next = u
        /\ \A v \in Sockets \ {u} : a.node[v].prev = n[v].prev /\ a.node[v].old = n[v].old
        /\ \A v \in Sockets \ {u, q[m]} : a.node[v].next = n[v].next
        /\ \A v \in Sockets : a.node[v].on = n[v].on
    <3> DEFINE w == q[m]
    <3>1. w \in Sockets /\ w # u /\ b.last = w
      BY <2>1
    <3> HIDE DEF w
    <3>2. a.node = [n EXCEPT ![u].prev = w, ![u].next = 0, ![u].old = FALSE, ![w].next = u]
      BY <2>2, <3>1
    <3>3. a.node[u] = [n[u] EXCEPT !.prev = w, !.next = 0, !.old = FALSE]
      BY <3>1, <3>2 DEF ListNodes
    <3>4. a.node[w] = [n[w] EXCEPT !.next = u]
      BY <3>1, <3>2 DEF ListNodes
    <3>5. \A v \in Sockets \ {u, w} : a.node[v] = n[v]
      BY <3>1, <3>2 DEF ListNodes
    <3>6. \A v \in Sockets : n[v] \in [prev : Sockets \cup {0}, next : Sockets \cup {0}, on : BOOLEAN, old : BOOLEAN]
      BY DEF ListNodes
    <3>7. /\ a.node[u].prev = w /\ a.node[u].next = 0 /\ a.node[u].old = FALSE
          /\ a.node[u].on = n[u].on
      BY <3>3, <3>6
    <3>8. /\ a.node[w].next = u /\ a.node[w].prev = n[w].prev
          /\ a.node[w].old = n[w].old /\ a.node[w].on = n[w].on
      BY <3>1, <3>4, <3>6
    <3> QED
      BY <3>1, <3>5, <3>7, <3>8 DEF w
  <2>5. \A i \in 1 .. m : q[i] \in Sockets \ {u} /\ (i # m => q[i] # q[m])
    BY <2>1 DEF Chained
  <2>6. \A i \in 1 .. m + 1 : a.node[q2[i]].prev = IF i = 1 THEN 0 ELSE q2[i - 1]
    BY <1>2, <1>5, <2>4, <2>5 DEF Chained
  <2>7. \A i \in 1 .. m + 1 : a.node[q2[i]].next = IF i = m + 1 THEN 0 ELSE q2[i + 1]
    BY <1>2, <1>5, <2>4, <2>5 DEF Chained
  <2>8. Chained(a.node, a.list, m + 1, q2)
    BY <1>2, <1>3, <1>5, <2>3, <2>6, <2>7 DEF Chained
  <2>9. InOrder(a.node, m + 1, q2)
    <3> SUFFICES ASSUME NEW i \in 1 .. (m + 1) - 1, a.node[q2[i + 1]].old
                 PROVE  a.node[q2[i]].old
      BY DEF InOrder
    <3>1. i \in 1 .. m /\ q2[i + 1] # u
      BY <2>4
    <3>2. i \in 1 .. m - 1 /\ i + 1 \in 1 .. m
      BY <1>2, <3>1
    <3>3. q2[i] = q[i] /\ q2[i + 1] = q[i + 1]
      BY <1>2, <3>2
    <3>4. n[q[i + 1]].old => n[q[i]].old
      BY <3>2 DEF InOrder
    <3> QED
      BY <2>4, <2>5, <3>1, <3>2, <3>3, <3>4
  <2> QED
    BY <1>2, <2>3, <2>4, <2>8, <2>9 DEF a, q2
<1> QED
  BY <1>4, <1>5

LEMMA UnlinkedIsChained ==
  ASSUME Rcv!RcvListAssumption, node \in ListNodes, list \in Ends, NEW m \in Nat, NEW q \in [1 .. m -> Sockets],
         Chained(node, list, m, q), InOrder(node, m, q), NEW k \in 1 .. m
  PROVE  LET a == Rcv!Unlinked(q[k])
         IN  /\ a.node \in ListNodes /\ a.list \in Ends
             /\ Skipping(q, m, k) \in [1 .. m - 1 -> Sockets]
             /\ Chained(a.node, a.list, m - 1, Skipping(q, m, k))
             /\ InOrder(a.node, m - 1, Skipping(q, m, k))
             /\ SameFlags(a.node, node)
             /\ \A i \in 1 .. m - 1 : Skipping(q, m, k)[i] # q[k]
<1> DEFINE p == node[q[k]].prev
           x == node[q[k]].next
           a == Rcv!Unlinked(q[k])
           q2 == Skipping(q, m, k)
<1>1. 0 \notin Sockets /\ q[k] \in Sockets
  BY DEF Rcv!RcvListAssumption
<1>2. /\ p = IF k = 1 THEN 0 ELSE q[k - 1]
      /\ x = IF k = m THEN 0 ELSE q[k + 1]
  BY DEF Chained
<1>3. p \in Sockets \cup {0} /\ x \in Sockets \cup {0}
  BY <1>1 DEF ListNodes
<1>4. /\ a.node = [t \in Sockets |-> IF t = p THEN [node[t] EXCEPT !.next = x]
                                    ELSE IF t = x THEN [node[t] EXCEPT !.prev = p]
                                    ELSE node[t]]
      /\ a.list = [first |-> IF p = 0 THEN x ELSE list.first, last |-> IF x = 0 THEN p ELSE list.last]
  BY DEF Rcv!Unlinked, Rcv!NULL
<1> HIDE DEF a, p, x
<1>5. a.node \in ListNodes /\ a.list \in Ends
  BY <1>3, <1>4 DEF ListNodes, Ends
<1>6. SameFlags(a.node, node)
  BY <1>4 DEF SameFlags, ListNodes
<1>7. /\ p \in Sockets => a.node[p].next = x
      /\ x \in Sockets /\ x # p => a.node[x].prev = p
      /\ \A v \in Sockets \ {p} : a.node[v].next = node[v].next
      /\ \A v \in Sockets \ {x} : a.node[v].prev = node[v].prev
  BY <1>4 DEF ListNodes
<1>8. /\ q2 \in [1 .. m - 1 -> Sockets]
      /\ \A i \in 1 .. m - 1 : i < k => q2[i] = q[i]
      /\ \A i \in 1 .. m - 1 : i >= k => q2[i] = q[i + 1]
  BY DEF Skipping
<1> HIDE DEF q2
<1>9. \A i, j \in 1 .. m : q[i] = q[j] => i = j
  BY DEF Chained
<1>10. \A i \in 1 .. m - 1 : q2[i] # q[k]
  BY <1>8, <1>9
<1>11. \A i, j \in 1 .. m - 1 : q2[i] = q2[j] => i = j
  BY <1>8, <1>9
<1>12. \A i \in 1 .. m : /\ (q[i] = p <=> k # 1 /\ i = k - 1)
                         /\ (q[i] = x <=> k # m /\ i = k + 1)
  BY <1>1, <1>2, <1>9
<1>13. \A i \in 1 .. m : /\ node[q[i]].prev = IF i = 1 THEN 0 ELSE q[i - 1]
                         /\ node[q[i]].next = IF i = m THEN 0 ELSE q[i + 1]
  BY DEF Chained
<1>14. \A i \in 1 .. m - 1 : a.node[q2[i]].prev = IF i = 1 THEN 0 ELSE q2[i - 1]
  <2> SUFFICES ASSUME NEW i \in 1 .. m - 1
               PROVE  a.node[q2[i]].prev = IF i = 1 THEN 0 ELSE q2[i - 1]
    OBVIOUS
  <2>1. CASE i < k
    <3>1. q2[i] = q[i] /\ q[i] \in Sockets /\ q[i] # x
      BY <1>8, <1>12, <2>1
    <3>2. a.node[q[i]].prev = node[q[i]].prev
      BY <1>7, <3>1
    <3>3. i # 1 => q2[i - 1] = q[i - 1]
      BY <1>8, <2>1
    <3> QED
      BY <1>13, <3>1, <3>2, <3>3
  <2>2. CASE i = k
    <3>1. q2[i] = q[k + 1] /\ k # m /\ x = q[k + 1] /\ k + 1 \in 1 .. m
      BY <1>2, <1>8, <2>2
    <3>2. x \in Sockets /\ x # p
      BY <1>1, <1>2, <1>9, <3>1
    <3>3. a.node[q2[i]].prev = p
      BY <1>7, <3>1, <3>2
    <3>4. i # 1 => q2[i - 1] = q[k - 1]
      BY <1>8, <2>2
    <3> QED
      BY <1>2, <2>2, <3>3, <3>4
  <2>3. CASE i > k
    <3>1. q2[i] = q[i + 1] /\ q[i + 1] \in Sockets /\ q[i + 1] # x
      BY <1>8, <1>12, <2>3
    <3>2. a.node[q[i + 1]].prev = node[q[i + 1]].prev
      BY <1>7, <3>1
    <3>3. node[q[i + 1]].prev = q[i]
      BY <1>13, <2>3
    <3>4. q2[i - 1] = q[i] /\ i # 1
      BY <1>8, <2>3
    <3> QED
      BY <3>1, <3>2, <3>3, <3>4
  <2> QED
    BY <2>1, <2>2, <2>3
<1>15. \A i \in 1 .. m - 1 : a.node[q2[i]].next = IF i = m - 1 THEN 0 ELSE q2[i + 1]
  <2> SUFFICES ASSUME NEW i \in 1 .. m - 1
               PROVE  a.node[q2[i]].next = IF i = m - 1 THEN 0 ELSE q2[i + 1]
    OBVIOUS
  <2>1. CASE i >= k
    <3>1. q2[i] = q[i + 1] /\ q[i + 1] \in Sockets /\ q[i + 1] # p
      BY <1>8, <1>12, <2>1
    <3>2. a.node[q[i + 1]].next = node[q[i + 1]].next
      BY <1>7, <3>1
    <3>3. i # m - 1 => q2[i + 1] = q[i + 2]
      BY <1>8, <2>1
    <3>4. node[q[i + 1]].next = IF i = m - 1 THEN 0 ELSE q[i + 2]
      BY <1>13
    <3> QED
      BY <3>1, <3>2, <3>3, <3>4
  <2>2. CASE i = k - 1
    <3>1. q2[i] = q[k - 1] /\ k # 1 /\ p = q[k - 1] /\ p \in Sockets
      BY <1>2, <1>8, <2>2
    <3>2. a.node[q2[i]].next = x
      BY <1>7, <3>1
    <3>3. k # m => q2[i + 1] = q[k + 1]
      BY <1>8, <2>2
    <3> QED
      BY <1>2, <2>2, <3>2, <3>3
  <2>3. CASE i < k - 1
    <3>1. q2[i] = q[i] /\ q[i] \in Sockets /\ q[i] # p
      BY <1>8, <1>12, <2>3
    <3>2. a.node[q[i]].next = node[q[i]].next
      BY <1>7, <3>1
    <3>3. node[q[i]].next = q[i + 1]
      BY <1>13, <2>3
    <3>4. q2[i + 1] = q[i + 1] /\ i # m - 1
      BY <1>8, <2>3
    <3> QED
      BY <3>1, <3>2, <3>3, <3>4
  <2> QED
    BY <2>1, <2>2, <2>3
<1>16. a.list.first = IF m - 1 = 0 THEN 0 ELSE q2[1]
  <2>1. CASE k = 1
    <3>1. a.list.first = x
      BY <1>2, <1>4, <2>1
    <3>2. m # 1 => q2[1] = q[2]
      BY <1>8, <2>1
    <3> QED
      BY <1>2, <2>1, <3>1, <3>2
  <2>2. CASE k # 1
    <3>1. p # 0 /\ q2[1] = q[1] /\ m - 1 # 0 /\ list.first = q[1]
      BY <1>1, <1>2, <1>8, <2>2 DEF Chained
    <3> QED
      BY <1>4, <3>1
  <2> QED
    BY <2>1, <2>2
<1>17. a.list.last = IF m - 1 = 0 THEN 0 ELSE q2[m - 1]
  <2>1. CASE k = m
    <3>1. a.list.last = p
      BY <1>2, <1>4, <2>1
    <3>2. m # 1 => q2[m - 1] = q[m - 1]
      BY <1>8, <2>1
    <3> QED
      BY <1>2, <2>1, <3>1, <3>2
  <2>2. CASE k # m
    <3>1. x # 0 /\ q2[m - 1] = q[m] /\ m - 1 # 0 /\ list.last = q[m]
      BY <1>1, <1>2, <1>8, <2>2 DEF Chained
    <3> QED
      BY <1>4, <3>1
  <2> QED
    BY <2>1, <2>2
<1>18. Chained(a.node, a.list, m - 1, q2)
  BY <1>11, <1>14, <1>15, <1>16, <1>17 DEF Chained
<1>19. InOrder(a.node, m - 1, q2)
  <2> SUFFICES ASSUME NEW i \in 1 .. (m - 1) - 1, a.node[q2[i + 1]].old
               PROVE  a.node[q2[i]].old
    BY DEF InOrder
  <2>1. i \in 1 .. m - 1 /\ i + 1 \in 1 .. m - 1 /\ i + 1 \in 1 .. m /\ i + 2 \in 1 .. m
    OBVIOUS
  <2>2. \A j \in 1 .. m - 1 : a.node[q2[j]].old = node[q2[j]].old
    BY <1>6, <1>8 DEF SameFlags
  <2>3. node[q2[i + 1]].old
    BY <2>1, <2>2
  <2>4. \A j \in 1 .. m - 1 : node[q[j + 1]].old => node[q[j]].old
    BY DEF InOrder
  <2>5. node[q2[i]].old
    <3>1. CASE i + 1 < k
      BY <1>8, <2>1, <2>3, <2>4, <3>1
    <3>2. CASE i + 1 = k
      <4>1. q2[i + 1] = q[i + 2] /\ q2[i] = q[i]
        BY <1>8, <2>1, <3>2
      <4>2. node[q[(i + 1) + 1]].old => node[q[i + 1]].old
        BY <2>1, <2>4
      <4>3. (i + 1) + 1 = i + 2
        OBVIOUS
      <4>4. node[q[i + 1]].old => node[q[i]].old
        BY <2>1, <2>4
      <4> QED
        BY <2>3, <4>1, <4>2, <4>3, <4>4
    <3>3. CASE i + 1 > k
      <4>1. q2[i + 1] = q[i + 2] /\ q2[i] = q[i + 1]
        BY <1>8, <2>1, <3>3
      <4>2. node[q[(i + 1) + 1]].old => node[q[i + 1]].old
        BY <2>1, <2>4
      <4>3. (i + 1) + 1 = i + 2
        OBVIOUS
      <4> QED
        BY <2>3, <4>1, <4>2, <4>3
    <3> QED
      BY <3>1, <3>2, <3>3
  <2> QED
    BY <2>1, <2>2, <2>5
<1> QED
  BY <1>5, <1>6, <1>8, <1>10, <1>18, <1>19 DEF a, q2

LEMMA BehindHolds ==
  ASSUME NEW m \in Nat, NEW q \in [1 .. m -> Sockets], NEW u \in Sockets, NEW v \in Sockets
  PROVE  (\E i \in 1 .. m + 1 : Behind(q, m, u)[i] = v) <=> v = u \/ \E i \in 1 .. m : q[i] = v
<1>1. \A i \in 1 .. m : i \in 1 .. m + 1 /\ Behind(q, m, u)[i] = q[i]
  BY DEF Behind
<1>2. m + 1 \in 1 .. m + 1 /\ Behind(q, m, u)[m + 1] = u
  BY DEF Behind
<1>3. \A i \in 1 .. m + 1 : i \in 1 .. m \/ i = m + 1
  OBVIOUS
<1> QED
  BY <1>1, <1>2, <1>3

LEMMA SkippingHolds ==
  ASSUME NEW m \in Nat, NEW q \in [1 .. m -> Sockets], NEW k \in 1 .. m, NEW v \in Sockets,
         \A i, j \in 1 .. m : q[i] = q[j] => i = j
  PROVE  (\E i \in 1 .. m - 1 : Skipping(q, m, k)[i] = v) <=> v # q[k] /\ \E i \in 1 .. m : q[i] = v
<1>1. \A i \in 1 .. m - 1 : \E j \in 1 .. m : Skipping(q, m, k)[i] = q[j] /\ j # k
  <2> TAKE i \in 1 .. m - 1
  <2>1. CASE i < k
    BY <2>1 DEF Skipping
  <2>2. CASE i >= k
    <3>1. i + 1 \in 1 .. m /\ i + 1 # k /\ Skipping(q, m, k)[i] = q[i + 1]
      BY <2>2 DEF Skipping
    <3> QED
      BY <3>1
  <2> QED
    BY <2>1, <2>2
<1>2. \A j \in 1 .. m : j # k => \E i \in 1 .. m - 1 : Skipping(q, m, k)[i] = q[j]
  <2> SUFFICES ASSUME NEW j \in 1 .. m, j # k
               PROVE  \E i \in 1 .. m - 1 : Skipping(q, m, k)[i] = q[j]
    OBVIOUS
  <2>1. CASE j < k
    BY <2>1 DEF Skipping
  <2>2. CASE j > k
    <3>1. j - 1 \in 1 .. m - 1 /\ Skipping(q, m, k)[j - 1] = q[(j - 1) + 1] /\ (j - 1) + 1 = j
      BY <2>2 DEF Skipping
    <3> QED
      BY <3>1
  <2> QED
    BY <2>1, <2>2
<1>3. ASSUME NEW i \in 1 .. m - 1, Skipping(q, m, k)[i] = v
      PROVE  v # q[k] /\ \E j \in 1 .. m : q[j] = v
  BY <1>1, <1>3
<1>4. ASSUME v # q[k], NEW j \in 1 .. m, q[j] = v
      PROVE  \E i \in 1 .. m - 1 : Skipping(q, m, k)[i] = v
  BY <1>2, <1>4
<1> QED
  BY <1>3, <1>4

\* The chain holds the sockets of the hash table, the one behind which all have waited
\* less first.
Linked(m, q) ==
  /\ Chained(node, list, m, q) /\ InOrder(node, m, q)
  /\ \A u \in Sockets : u \in Rcv!Hashed <=> \E i \in 1 .. m : q[i] = u

ListOK == \E m \in Nat : \E q \in [1 .. m -> Sockets] : Linked(m, q)

RcvIInv == Rcv!TypeOK /\ Rcv!OnListOK /\ ListOK

LEMMA UpdateKeepsList ==
  ASSUME Rcv!RcvListAssumption, RcvIInv, NEW u \in Sockets, u \in Rcv!Hashed, Rcv!update(u), UNCHANGED hash
  PROVE  ListOK' /\ node' \in ListNodes /\ list' \in Ends /\ \A v \in Sockets : node'[v].on = node[v].on
<1>1. PICK m \in Nat : \E q \in [1 .. m -> Sockets] : Linked(m, q)
  BY DEF RcvIInv, ListOK
<1>2. PICK q \in [1 .. m -> Sockets] : Linked(m, q)
  BY <1>1
<1>3. PICK k \in 1 .. m : q[k] = u
  BY <1>2 DEF Linked
<1>4. node \in ListNodes /\ list \in Ends /\ node[u].on /\ 0 \notin Sockets
  BY DEF RcvIInv, Rcv!TypeOK, Rcv!OnListOK, ListNodes, Ends, Rcv!NULL, Rcv!RcvListAssumption
<1>5. Chained(node, list, m, q) /\ InOrder(node, m, q)
  BY <1>2 DEF Linked
<1>6. Rcv!Hashed' = Rcv!Hashed
  BY DEF Rcv!Hashed, Rcv!Bucket
<1>7. CASE node[u].next = 0
  <2>1. node' = [node EXCEPT ![u].old = FALSE] /\ list' = list
    BY <1>4, <1>7 DEF Rcv!update, Rcv!NULL
  <2>2. k = m
    <3>1. k # m => node[u].next = q[k + 1] /\ q[k + 1] \in Sockets
      BY <1>3, <1>5 DEF Chained
    <3> QED
      BY <1>4, <1>7, <3>1
  <2>3. /\ node' \in ListNodes /\ list' \in Ends
        /\ \A v \in Sockets : node'[v].on = node[v].on /\ node'[v].prev = node[v].prev /\ node'[v].next = node[v].next
        /\ \A v \in Sockets \ {u} : node'[v].old = node[v].old
        /\ node'[u].old = FALSE
    BY <1>4, <2>1 DEF ListNodes
  <2>4. Chained(node', list', m, q)
    BY <1>5, <2>1, <2>3 DEF Chained
  <2>5. InOrder(node', m, q)
    <3> SUFFICES ASSUME NEW i \in 1 .. m - 1, node'[q[i + 1]].old
                 PROVE  node'[q[i]].old
      BY DEF InOrder
    <3>1. i \in 1 .. m /\ i + 1 \in 1 .. m /\ q[i] # q[m]
      BY <1>5 DEF Chained
    <3>2. q[i + 1] # u /\ q[i] # u
      BY <1>3, <2>2, <2>3, <3>1
    <3> QED
      BY <1>5, <2>3, <3>1, <3>2 DEF InOrder
  <2>6. Linked(m, q)'
    BY <1>2, <1>6, <2>4, <2>5 DEF Linked
  <2> QED
    BY <2>3, <2>6 DEF ListOK
<1>8. CASE node[u].next # 0
  <2> DEFINE a == Rcv!Unlinked(u)
             q2 == Skipping(q, m, k)
             c == Rcv!Appended(a.node, a.list, u)
             q3 == Behind(q2, m - 1, u)
  <2>1. node' = c.node /\ list' = c.list
    BY <1>4, <1>8 DEF Rcv!update, Rcv!NULL
  <2>2. /\ a.node \in ListNodes /\ a.list \in Ends /\ q2 \in [1 .. m - 1 -> Sockets]
        /\ Chained(a.node, a.list, m - 1, q2) /\ InOrder(a.node, m - 1, q2)
        /\ SameFlags(a.node, node) /\ \A i \in 1 .. m - 1 : q2[i] # u
    BY <1>3, <1>4, <1>5, UnlinkedIsChained
  <2>3. m - 1 \in Nat
    OBVIOUS
  <2>4. \A v \in Sockets : (\E i \in 1 .. m - 1 : q2[i] = v) <=> v # u /\ \E i \in 1 .. m : q[i] = v
    <3>1. \A i, j \in 1 .. m : q[i] = q[j] => i = j
      BY <1>5 DEF Chained
    <3> QED
      BY <1>3, <3>1, SkippingHolds
  <2> HIDE DEF a, q2
  <2>5. /\ c.node \in ListNodes /\ c.list \in Ends /\ q3 \in [1 .. (m - 1) + 1 -> Sockets]
        /\ Chained(c.node, c.list, (m - 1) + 1, q3) /\ InOrder(c.node, (m - 1) + 1, q3)
        /\ \A v \in Sockets : c.node[v].on = a.node[v].on
    BY <2>2, <2>3, AppendedIsChained
  <2>6. \A v \in Sockets : (\E i \in 1 .. (m - 1) + 1 : q3[i] = v) <=> v = u \/ \E i \in 1 .. m - 1 : q2[i] = v
    BY <2>2, <2>3, BehindHolds
  <2> HIDE DEF c, q3
  <2>7. (m - 1) + 1 = m
    OBVIOUS
  <2>8. \A v \in Sockets : v \in Rcv!Hashed <=> \E i \in 1 .. m : q3[i] = v
    BY <1>2, <1>3, <2>4, <2>6, <2>7 DEF Linked
  <2>9. Linked(m, q3)'
    BY <1>6, <2>1, <2>5, <2>7, <2>8 DEF Linked
  <2>10. \A v \in Sockets : node'[v].on = node[v].on
    BY <2>1, <2>2, <2>5 DEF SameFlags
  <2> QED
    BY <2>1, <2>5, <2>7, <2>9, <2>10 DEF ListOK
<1> QED
  BY <1>7, <1>8

\* CHash::remove takes the id out of its chain, where it is once.
LEMMA WithoutDrops ==
  ASSUME NEW c \in Seq(Sockets), NEW u \in Sockets, \A i, j \in DOMAIN c : c[i] = c[j] => i = j
  PROVE  /\ Rcv!Without(c, u) \in Seq(Sockets)
         /\ \A i, j \in DOMAIN Rcv!Without(c, u) : Rcv!Without(c, u)[i] = Rcv!Without(c, u)[j] => i = j
         /\ \A v \in Sockets : (\E i \in DOMAIN Rcv!Without(c, u) : Rcv!Without(c, u)[i] = v)
                               <=> v # u /\ \E i \in DOMAIN c : c[i] = v
<1> DEFINE Is(i) == c[i] = u /\ \A j \in 1 .. i - 1 : c[j] # u
           k == CHOOSE i \in DOMAIN c : Is(i)
           d == SubSeq(c, 1, k - 1) \o SubSeq(c, k + 1, Len(c))
<1>1. Rcv!Without(c, u) = IF \E i \in DOMAIN c : Is(i) THEN d ELSE c
  BY DEF Rcv!Without
<1>2. DOMAIN c = 1 .. Len(c) /\ Len(c) \in Nat
  OBVIOUS
<1>3. CASE ~ \E i \in DOMAIN c : Is(i)
  <2>1. \A i \in DOMAIN c : c[i] # u
    <3> SUFFICES ASSUME NEW i \in DOMAIN c, c[i] = u
                 PROVE  FALSE
      OBVIOUS
    <3>1. \A j \in 1 .. i - 1 : c[j] # u
      <4>1. \A j \in 1 .. i - 1 : j \in DOMAIN c /\ j # i
        BY <1>2
      <4> QED
        BY <4>1
    <3> QED
      BY <1>3, <3>1
  <2> QED
    BY <1>1, <1>3, <2>1
<1>4. CASE \E i \in DOMAIN c : Is(i)
  <2>1. k \in 1 .. Len(c) /\ c[k] = u
    BY <1>2, <1>4
  <2>2. Rcv!Without(c, u) = d
    BY <1>1, <1>4
  <2> HIDE DEF Is, k
  <2> DEFINE L == Len(c)
             a == SubSeq(c, 1, k - 1)
             b == SubSeq(c, k + 1, L)
  <2>3. L \in Nat /\ k \in 1 .. L /\ DOMAIN c = 1 .. L /\ \A i \in 1 .. L : c[i] \in Sockets
    BY <1>2, <2>1
  <2>4. /\ a \in Seq(Sockets) /\ Len(a) = k - 1
        /\ \A i \in 1 .. k - 1 : a[i] = c[i]
    <3>1. 1 \in Int /\ k - 1 \in Int /\ \A i \in 1 .. k - 1 : c[i] \in Sockets
      BY <2>3
    <3>2. /\ a \in Seq(Sockets) /\ Len(a) = IF 1 <= k - 1 THEN (k - 1) - 1 + 1 ELSE 0
          /\ \A i \in 1 .. (k - 1) - 1 + 1 : a[i] = c[1 + i - 1]
      BY <3>1, SubSeqProperties
    <3> QED
      BY <2>3, <3>2
  <2>5. /\ b \in Seq(Sockets) /\ Len(b) = L - k
        /\ \A i \in 1 .. L - k : b[i] = c[k + i]
    <3>1. k + 1 \in Int /\ L \in Int /\ \A i \in k + 1 .. L : c[i] \in Sockets
      BY <2>3
    <3>2. /\ b \in Seq(Sockets) /\ Len(b) = IF k + 1 <= L THEN L - (k + 1) + 1 ELSE 0
          /\ \A i \in 1 .. L - (k + 1) + 1 : b[i] = c[(k + 1) + i - 1]
      BY <3>1, SubSeqProperties
    <3> QED
      BY <2>3, <3>2
  <2> HIDE DEF a, b, L, d
  <2>6. /\ d \in Seq(Sockets) /\ Len(d) = L - 1 /\ DOMAIN d = 1 .. L - 1
        /\ \A i \in 1 .. L - 1 : d[i] = IF i < k THEN c[i] ELSE c[i + 1]
    <3>1. d = a \o b
      BY DEF a, b, L, d
    <3>2. /\ d \in Seq(Sockets) /\ Len(d) = Len(a) + Len(b)
          /\ \A i \in 1 .. Len(a) + Len(b) : d[i] = IF i <= Len(a) THEN a[i] ELSE b[i - Len(a)]
      BY <2>4, <2>5, <3>1, ConcatProperties
    <3>3. Len(d) = L - 1 /\ DOMAIN d = 1 .. Len(d)
      BY <2>3, <2>4, <2>5, <3>2
    <3>4. ASSUME NEW i \in 1 .. L - 1
          PROVE  d[i] = IF i < k THEN c[i] ELSE c[i + 1]
      <4>1. d[i] = IF i <= k - 1 THEN a[i] ELSE b[i - (k - 1)]
        BY <2>3, <2>4, <2>5, <3>2
      <4>2. CASE i < k
        BY <2>3, <2>4, <4>1, <4>2
      <4>3. CASE i >= k
        <5>1. i - (k - 1) \in 1 .. L - k /\ k + (i - (k - 1)) = i + 1
          BY <2>3, <4>3
        <5> QED
          BY <2>3, <2>5, <4>1, <4>3, <5>1
      <4> QED
        BY <2>3, <4>2, <4>3
    <3> QED
      BY <3>2, <3>3, <3>4
  <2>7. ASSUME NEW i \in 1 .. L - 1, NEW j \in 1 .. L - 1, d[i] = d[j]
        PROVE  i = j
    <3> DEFINE At(n) == IF n < k THEN n ELSE n + 1
    <3>1. At(i) \in 1 .. L /\ At(j) \in 1 .. L /\ d[i] = c[At(i)] /\ d[j] = c[At(j)]
      BY <2>3, <2>6
    <3>2. At(i) = At(j)
      BY <2>3, <2>7, <3>1
    <3> QED
      BY <2>3, <3>2
  <2>8. ASSUME NEW v \in Sockets, NEW i \in 1 .. L - 1, d[i] = v
        PROVE  v # u /\ \E j \in 1 .. L : c[j] = v
    <3> DEFINE At(n) == IF n < k THEN n ELSE n + 1
    <3>1. At(i) \in 1 .. L /\ At(i) # k /\ k \in 1 .. L /\ c[At(i)] = v
      BY <2>3, <2>6, <2>8
    <3> HIDE DEF At
    <3>2. v # u
      BY <2>1, <2>3, <3>1
    <3> QED
      BY <3>1, <3>2
  <2>9. ASSUME NEW v \in Sockets, v # u, NEW j \in 1 .. L, c[j] = v
        PROVE  \E i \in 1 .. L - 1 : d[i] = v
    <3>1. CASE j < k
      BY <2>3, <2>6, <2>9, <3>1
    <3>2. CASE j > k
      <4>1. j - 1 \in 1 .. L - 1 /\ ~ (j - 1 < k) /\ (j - 1) + 1 = j
        BY <2>3, <3>2
      <4> QED
        BY <2>6, <2>9, <4>1
    <3>3. j # k
      BY <2>1, <2>9
    <3> QED
      BY <2>3, <3>1, <3>2, <3>3
  <2> QED
    BY <2>2, <2>3, <2>6, <2>7, <2>8, <2>9
<1> QED
  BY <1>3, <1>4

LEMMA RcvListInit ==
  ASSUME Rcv!RcvListAssumption, Rcv!Init
  PROVE  RcvIInv
<1> USE DEF Rcv!Init, Rcv!NULL
<1>1. Rcv!TypeOK
  BY DEF Rcv!TypeOK
<1>2. Rcv!Hashed = {} /\ Rcv!Waiting = {}
  <2>1. \A u \in Sockets : Rcv!Bucket(u) \in 0 .. ListHashSize - 1
    BY DEF Rcv!Bucket, Rcv!RcvListAssumption
  <2> QED
    BY <2>1 DEF Rcv!Hashed, Rcv!Waiting
<1>3. Rcv!OnListOK
  BY <1>2 DEF Rcv!OnListOK
<1>4. ListOK
  <2> DEFINE q == [i \in 1 .. 0 |-> 0]
  <2>1. q \in [1 .. 0 -> Sockets]
    OBVIOUS
  <2>2. Linked(0, q)
    BY <1>2 DEF Linked, Chained, InOrder
  <2> HIDE DEF q
  <2> QED
    BY <2>1, <2>2 DEF ListOK
<1> QED
  BY <1>1, <1>3, <1>4 DEF RcvIInv

\* What leaves list and hash alone, and of the nodes changes at most the flag of one that
\* is not linked, keeps the list.
LEMMA ListStays ==
  ASSUME ListOK, UNCHANGED <<list, hash>>,
         \A u \in Rcv!Hashed : node'[u].prev = node[u].prev /\ node'[u].next = node[u].next /\ node'[u].old = node[u].old
  PROVE  ListOK' /\ Rcv!Hashed' = Rcv!Hashed
<1>1. Rcv!Hashed' = Rcv!Hashed
  BY DEF Rcv!Hashed, Rcv!Bucket
<1>2. PICK m \in Nat : \E q \in [1 .. m -> Sockets] : Linked(m, q)
  BY DEF ListOK
<1>3. PICK q \in [1 .. m -> Sockets] : Linked(m, q)
  BY <1>2
<1>4. \A i \in 1 .. m : q[i] \in Rcv!Hashed
  BY <1>3 DEF Linked
<1>5. Chained(node', list', m, q)
  BY <1>3, <1>4 DEF Linked, Chained
<1>6. InOrder(node', m, q)
  BY <1>3, <1>4 DEF Linked, InOrder
<1>7. Linked(m, q)'
  BY <1>1, <1>3, <1>5, <1>6 DEF Linked
<1> QED
  BY <1>1, <1>7 DEF ListOK

LEMMA ConnectKeeps ==
  ASSUME Rcv!RcvListAssumption, RcvIInv, NEW u \in Sockets, Rcv!connect(u)
  PROVE  RcvIInv'
<1> USE DEF RcvIInv
<1>1. /\ life[u] = "opened" /\ life' = [life EXCEPT ![u] = "connected"]
      /\ node' = [node EXCEPT ![u].on = TRUE] /\ newEntry' = Append(newEntry, u)
      /\ UNCHANGED <<list, hash, listWorker>>
  BY DEF Rcv!connect
<1>2. ~ node[u].on /\ u \notin Rcv!Hashed /\ u \notin Rcv!Waiting
  BY <1>1 DEF Rcv!OnListOK
<1>3. /\ newEntry' \in Seq(Sockets) /\ DOMAIN newEntry' = 1 .. Len(newEntry) + 1 /\ Len(newEntry) \in Nat
      /\ DOMAIN newEntry = 1 .. Len(newEntry)
      /\ \A i \in 1 .. Len(newEntry) : newEntry'[i] = newEntry[i]
      /\ newEntry'[Len(newEntry) + 1] = u
  BY <1>1 DEF Rcv!TypeOK
<1>4. Rcv!TypeOK'
  BY <1>1, <1>3, ZenonT(60) DEF Rcv!TypeOK
<1>5. \A v \in Sockets : /\ node'[v].prev = node[v].prev /\ node'[v].next = node[v].next /\ node'[v].old = node[v].old
                         /\ node'[v].on = (v = u \/ node[v].on)
  BY <1>1 DEF Rcv!TypeOK
<1>6. ListOK' /\ Rcv!Hashed' = Rcv!Hashed
  BY <1>1, <1>5, ListStays DEF Rcv!Hashed
<1>7. Rcv!Waiting' = Rcv!Waiting \cup {u}
  BY <1>3 DEF Rcv!Waiting
<1>8. \A i, j \in DOMAIN newEntry' : newEntry'[i] = newEntry'[j] => i = j
  <2>1. \A i \in DOMAIN newEntry : newEntry[i] # u
    BY <1>2 DEF Rcv!Waiting
  <2> QED
    BY <1>3, <2>1 DEF Rcv!OnListOK
<1>9. Rcv!OnListOK'
  <2>1. \A b \in DOMAIN hash' : \A i, j \in DOMAIN hash'[b] : hash'[b][i] = hash'[b][j] => i = j
    BY <1>1 DEF Rcv!OnListOK
  <2>2. Rcv!Hashed' \cap Rcv!Waiting' = {} /\ Rcv!Hashed' \cup Rcv!Waiting' = {v \in Sockets : node'[v].on}
    BY <1>2, <1>5, <1>6, <1>7 DEF Rcv!OnListOK
  <2>3. \A v \in Sockets : node'[v].on => life'[v] \in {"connected", "ended"}
    BY <1>1, <1>5 DEF Rcv!OnListOK, Rcv!TypeOK
  <2> QED
    BY <1>8, <2>1, <2>2, <2>3 DEF Rcv!OnListOK
<1> QED
  BY <1>4, <1>6, <1>9

\* Other steps of the life of a socket.
LEMMA LifeKeeps ==
  ASSUME Rcv!RcvListAssumption, RcvIInv, NEW u \in Sockets, Rcv!ends(u) \/ Rcv!deletes(u)
  PROVE  RcvIInv'
<1> USE DEF RcvIInv
<1>1. /\ UNCHANGED <<node, list, hash, newEntry, listWorker>>
      /\ life' \in [Sockets -> {"opened", "connected", "ended", "deleted"}]
      /\ \A v \in Sockets : node[v].on => life'[v] \in {"connected", "ended"}
  BY DEF Rcv!ends, Rcv!deletes, Rcv!TypeOK, Rcv!OnListOK
<1>2. ListOK' /\ Rcv!Hashed' = Rcv!Hashed
  BY <1>1, ListStays
<1>3. Rcv!Waiting' = Rcv!Waiting
  BY <1>1 DEF Rcv!Waiting
<1>4. Rcv!TypeOK'
  BY <1>1 DEF Rcv!TypeOK
<1>5. Rcv!OnListOK'
  BY <1>1, <1>2, <1>3 DEF Rcv!OnListOK
<1> QED
  BY <1>2, <1>4, <1>5

LEMMA TimePassesKeeps ==
  ASSUME Rcv!RcvListAssumption, RcvIInv, Rcv!timePasses
  PROVE  RcvIInv'
<1> USE DEF RcvIInv
<1>1. /\ node' = [v \in Sockets |-> [node[v] EXCEPT !.old = TRUE]]
      /\ UNCHANGED <<list, hash, newEntry, life, listWorker>>
  BY DEF Rcv!timePasses
<1>2. Rcv!Waiting' = Rcv!Waiting /\ Rcv!Hashed' = Rcv!Hashed
  BY <1>1 DEF Rcv!Waiting, Rcv!Hashed, Rcv!Bucket
<1>3. Rcv!TypeOK'
  BY <1>1, ZenonT(60) DEF Rcv!TypeOK
<1>4. \A v \in Sockets : /\ node'[v].prev = node[v].prev /\ node'[v].next = node[v].next
                         /\ node'[v].on = node[v].on /\ node'[v].old = TRUE
  BY <1>1 DEF Rcv!TypeOK
<1>5. Rcv!OnListOK'
  BY <1>1, <1>2, <1>4, ZenonT(60) DEF Rcv!OnListOK
<1>6. PICK m \in Nat : \E q \in [1 .. m -> Sockets] : Linked(m, q)
  BY DEF ListOK
<1>7. PICK q \in [1 .. m -> Sockets] : Linked(m, q)
  BY <1>6
<1>8. Chained(node', list', m, q)
  BY <1>1, <1>4, <1>7 DEF Linked, Chained
<1>9. InOrder(node', m, q)
  BY <1>4 DEF InOrder
<1>10. Linked(m, q)'
  BY <1>2, <1>7, <1>8, <1>9 DEF Linked
<1> QED
  BY <1>3, <1>5, <1>10 DEF ListOK

\* Chain c of a bucket, and the one that is there, differ at most in u.
SameBut(c, u) ==
  \A v \in Sockets \ {u} : (\E i \in DOMAIN c : c[i] = v) <=> (\E i \in DOMAIN hash[Rcv!Bucket(u)] : hash[Rcv!Bucket(u)][i] = v)

\* The sockets of the hash table, when the chain of one bucket changes.
LEMMA HashedAfter ==
  ASSUME Rcv!RcvListAssumption, Rcv!TypeOK, NEW u \in Sockets, NEW c \in Seq(Sockets),
         hash' = [hash EXCEPT ![Rcv!Bucket(u)] = c],
         SameBut(c, u)
  PROVE  /\ hash' \in [0 .. ListHashSize - 1 -> Seq(Sockets)]
         /\ Rcv!Hashed' = IF \E i \in DOMAIN c : c[i] = u THEN Rcv!Hashed \cup {u} ELSE Rcv!Hashed \ {u}
<1>1. hash \in [0 .. ListHashSize - 1 -> Seq(Sockets)] /\ Rcv!Bucket(u) \in 0 .. ListHashSize - 1
  BY DEF Rcv!TypeOK, Rcv!Bucket, Rcv!RcvListAssumption
<1>2. hash' \in [0 .. ListHashSize - 1 -> Seq(Sockets)] /\ hash'[Rcv!Bucket(u)] = c
  BY <1>1
<1>3. \A v \in Sockets : Rcv!Bucket(v) \in 0 .. ListHashSize - 1
  BY DEF Rcv!Bucket, Rcv!RcvListAssumption
<1>4. \A v \in Sockets : Rcv!Bucket(v) # Rcv!Bucket(u) => hash'[Rcv!Bucket(v)] = hash[Rcv!Bucket(v)]
  BY <1>1, <1>3
<1>5. \A v \in Sockets : v \in Rcv!Hashed <=> \E i \in DOMAIN hash[Rcv!Bucket(v)] : hash[Rcv!Bucket(v)][i] = v
  BY DEF Rcv!Hashed
<1>6. \A v \in Sockets : v \in Rcv!Hashed' <=> \E i \in DOMAIN hash'[Rcv!Bucket(v)] : hash'[Rcv!Bucket(v)][i] = v
  BY DEF Rcv!Hashed, Rcv!Bucket
<1>7. \A v \in Sockets \ {u} : v \in Rcv!Hashed' <=> v \in Rcv!Hashed
  <2> TAKE v \in Sockets \ {u}
  <2>1. CASE Rcv!Bucket(v) = Rcv!Bucket(u)
    BY <1>2, <1>5, <1>6, <2>1 DEF SameBut
  <2>2. CASE Rcv!Bucket(v) # Rcv!Bucket(u)
    BY <1>4, <1>5, <1>6, <2>2
  <2> QED
    BY <2>1, <2>2
<1>8. u \in Rcv!Hashed' <=> \E i \in DOMAIN c : c[i] = u
  BY <1>2, <1>6
<1>9. Rcv!Hashed \subseteq Sockets /\ Rcv!Hashed' \subseteq Sockets
  BY DEF Rcv!Hashed
<1> QED
  BY <1>2, <1>7, <1>8, <1>9

LEMMA TakesEntryKeeps ==
  ASSUME Rcv!RcvListAssumption, RcvIInv, Rcv!takesEntry
  PROVE  RcvIInv'
<1> USE DEF RcvIInv
<1>0. PICK u \in Sockets : u = Head(newEntry)
  <2>1. newEntry \in Seq(Sockets) /\ newEntry # <<>>
    BY DEF Rcv!TypeOK, Rcv!takesEntry
  <2> QED
    BY <2>1
<1> DEFINE c == <<u>> \o hash[Rcv!Bucket(u)]
<1>1. /\ newEntry # <<>> /\ Rcv!insert(u) /\ hash' = [hash EXCEPT ![Rcv!Bucket(u)] = c]
      /\ newEntry' = Tail(newEntry) /\ UNCHANGED <<life, listWorker>>
  BY <1>0 DEF Rcv!takesEntry
<1>2. /\ newEntry \in Seq(Sockets) /\ Len(newEntry) \in Nat /\ Len(newEntry) >= 1
      /\ DOMAIN newEntry = 1 .. Len(newEntry)
      /\ newEntry' \in Seq(Sockets) /\ DOMAIN newEntry' = 1 .. Len(newEntry) - 1
      /\ \A i \in 1 .. Len(newEntry) - 1 : newEntry'[i] = newEntry[i + 1]
      /\ u = newEntry[1] /\ u \in Sockets
  BY <1>0, <1>1 DEF Rcv!TypeOK
<1>3. u \in Rcv!Waiting /\ u \notin Rcv!Hashed /\ node[u].on
  BY <1>2 DEF Rcv!Waiting, Rcv!OnListOK
<1>4. /\ hash \in [0 .. ListHashSize - 1 -> Seq(Sockets)] /\ Rcv!Bucket(u) \in 0 .. ListHashSize - 1
      /\ hash[Rcv!Bucket(u)] \in Seq(Sockets)
  BY <1>2 DEF Rcv!TypeOK, Rcv!Bucket, Rcv!RcvListAssumption
<1>5. Rcv!Waiting' = Rcv!Waiting \ {u}
  <2>1. \A i, j \in 1 .. Len(newEntry) : newEntry[i] = newEntry[j] => i = j
    BY <1>2 DEF Rcv!OnListOK
  <2>2. ASSUME NEW v \in Sockets, NEW i \in 1 .. Len(newEntry) - 1, newEntry'[i] = v
        PROVE  v # u /\ \E j \in 1 .. Len(newEntry) : newEntry[j] = v
    <3>1. i + 1 \in 1 .. Len(newEntry) /\ i + 1 # 1 /\ 1 \in 1 .. Len(newEntry) /\ newEntry[i + 1] = v
      BY <1>2, <2>2
    <3> QED
      BY <1>2, <2>1, <3>1
  <2>3. ASSUME NEW v \in Sockets, v # u, NEW j \in 1 .. Len(newEntry), newEntry[j] = v
        PROVE  \E i \in 1 .. Len(newEntry) - 1 : newEntry'[i] = v
    <3>1. j # 1 /\ j - 1 \in 1 .. Len(newEntry) - 1 /\ (j - 1) + 1 = j
      BY <1>2, <2>3
    <3> QED
      BY <1>2, <2>3, <3>1
  <2> QED
    <3>1. \A v \in Sockets : v \in Rcv!Waiting <=> \E j \in 1 .. Len(newEntry) : newEntry[j] = v
      BY <1>2 DEF Rcv!Waiting
    <3>2. \A v \in Sockets : v \in Rcv!Waiting' <=> \E i \in 1 .. Len(newEntry) - 1 : newEntry'[i] = v
      BY <1>2 DEF Rcv!Waiting
    <3>3. Rcv!Waiting \subseteq Sockets /\ Rcv!Waiting' \subseteq Sockets
      BY DEF Rcv!Waiting
    <3> QED
      BY <2>2, <2>3, <3>1, <3>2, <3>3
<1>6. /\ c \in Seq(Sockets) /\ DOMAIN c = 1 .. Len(hash[Rcv!Bucket(u)]) + 1 /\ c[1] = u
      /\ \A i \in 2 .. Len(hash[Rcv!Bucket(u)]) + 1 : c[i] = hash[Rcv!Bucket(u)][i - 1]
      /\ DOMAIN hash[Rcv!Bucket(u)] = 1 .. Len(hash[Rcv!Bucket(u)]) /\ Len(hash[Rcv!Bucket(u)]) \in Nat
  <2> DEFINE h == hash[Rcv!Bucket(u)]
  <2>1. h \in Seq(Sockets) /\ DOMAIN h = 1 .. Len(h) /\ Len(h) \in Nat
    BY <1>4
  <2> HIDE DEF h
  <2>2. <<u>> \in Seq(Sockets) /\ Len(<<u>>) = 1 /\ <<u>>[1] = u
    BY <1>2
  <2>3. /\ <<u>> \o h \in Seq(Sockets) /\ Len(<<u>> \o h) = 1 + Len(h)
        /\ \A i \in 1 .. 1 + Len(h) : (<<u>> \o h)[i] = IF i <= 1 THEN <<u>>[i] ELSE h[i - 1]
    BY <2>1, <2>2, ConcatProperties
  <2>4. c = <<u>> \o h
    BY DEF h
  <2> HIDE DEF c
  <2>5. c \in Seq(Sockets) /\ Len(c) = Len(h) + 1 /\ DOMAIN c = 1 .. Len(c)
    BY <2>1, <2>3, <2>4
  <2>6. c[1] = u /\ \A i \in 2 .. Len(h) + 1 : c[i] = h[i - 1]
    BY <2>1, <2>2, <2>3, <2>4
  <2> QED
    BY <2>1, <2>5, <2>6 DEF h
<1> DEFINE h == hash[Rcv!Bucket(u)]
<1>7. \A v \in Sockets \ {u} : (\E i \in DOMAIN c : c[i] = v) <=> (\E i \in DOMAIN h : h[i] = v)
  <2>1. ASSUME NEW v \in Sockets \ {u}, NEW i \in DOMAIN c, c[i] = v
        PROVE  \E j \in DOMAIN h : h[j] = v
    <3>1. i \in 2 .. Len(h) + 1 /\ i - 1 \in DOMAIN h
      BY <1>6, <2>1
    <3> QED
      BY <1>6, <2>1, <3>1
  <2>2. ASSUME NEW v \in Sockets \ {u}, NEW j \in DOMAIN h, h[j] = v
        PROVE  \E i \in DOMAIN c : c[i] = v
    <3>1. j + 1 \in 2 .. Len(h) + 1 /\ j + 1 \in DOMAIN c /\ (j + 1) - 1 = j
      BY <1>6
    <3> QED
      BY <1>6, <2>2, <3>1
  <2> QED
    BY <2>1, <2>2
<1>8. \A i \in DOMAIN h : h[i] # u
  BY <1>2, <1>3 DEF Rcv!Hashed
<1>9. \A i, j \in DOMAIN c : c[i] = c[j] => i = j
  <2>1. \A i, j \in DOMAIN h : h[i] = h[j] => i = j
    BY <1>4 DEF Rcv!OnListOK
  <2> SUFFICES ASSUME NEW i \in DOMAIN c, NEW j \in DOMAIN c, c[i] = c[j]
               PROVE  i = j
    OBVIOUS
  <2>2. \A k \in DOMAIN c : k = 1 \/ (k \in 2 .. Len(h) + 1 /\ k - 1 \in DOMAIN h /\ c[k] = h[k - 1])
    BY <1>6
  <2>3. i \in Int /\ j \in Int
    BY <1>6
  <2> HIDE DEF c, h
  <2>4. CASE i = 1 \/ j = 1
    BY <1>6, <1>8, <2>2, <2>4
  <2>5. CASE i # 1 /\ j # 1
    <3>1. i - 1 = j - 1
      BY <2>1, <2>2, <2>5
    <3> QED
      BY <2>3, <3>1
  <2> QED
    BY <2>4, <2>5
<1> HIDE DEF c
<1>10. hash' \in [0 .. ListHashSize - 1 -> Seq(Sockets)] /\ Rcv!Hashed' = Rcv!Hashed \cup {u}
  <2>1. \E i \in DOMAIN c : c[i] = u
    BY <1>6
  <2>2. SameBut(c, u)
    BY <1>7 DEF SameBut
  <2> QED
    BY <1>1, <1>6, <2>1, <2>2, HashedAfter
<1>11. PICK m \in Nat : \E q \in [1 .. m -> Sockets] : Linked(m, q)
  BY DEF ListOK
<1>12. PICK q \in [1 .. m -> Sockets] : Linked(m, q)
  BY <1>11
<1> DEFINE a == Rcv!Appended(node, list, u)
<1>13. /\ a.node \in ListNodes /\ a.list \in Ends /\ Behind(q, m, u) \in [1 .. m + 1 -> Sockets]
       /\ Chained(a.node, a.list, m + 1, Behind(q, m, u)) /\ InOrder(a.node, m + 1, Behind(q, m, u))
       /\ \A v \in Sockets : a.node[v].on = node[v].on
  <2>1. node \in ListNodes /\ list \in Ends
    BY DEF Rcv!TypeOK, ListNodes, Ends, Rcv!NULL
  <2>2. Chained(node, list, m, q) /\ InOrder(node, m, q) /\ \A i \in 1 .. m : q[i] # u
    BY <1>3, <1>12 DEF Linked
  <2> QED
    BY <1>2, <2>1, <2>2, AppendedIsChained
<1>14. node' = a.node /\ list' = a.list
  BY <1>1 DEF Rcv!insert
<1> HIDE DEF a
<1>15. ListOK'
  <2>1. \A v \in Sockets : v \in Rcv!Hashed' <=> \E i \in 1 .. m + 1 : Behind(q, m, u)[i] = v
    <3>1. \A v \in Sockets : (\E i \in 1 .. m + 1 : Behind(q, m, u)[i] = v) <=> v = u \/ \E i \in 1 .. m : q[i] = v
      BY BehindHolds
    <3>2. \A v \in Sockets : v \in Rcv!Hashed' <=> v = u \/ v \in Rcv!Hashed
      BY <1>10
    <3>3. \A v \in Sockets : v \in Rcv!Hashed <=> \E i \in 1 .. m : q[i] = v
      BY <1>12 DEF Linked
    <3> QED
      BY <3>1, <3>2, <3>3
  <2>2. Linked(m + 1, Behind(q, m, u))'
    BY <1>13, <1>14, <2>1 DEF Linked
  <2>3. m + 1 \in Nat
    OBVIOUS
  <2> QED
    BY <1>13, <2>2, <2>3 DEF ListOK
<1>16. Rcv!TypeOK'
  BY <1>1, <1>2, <1>10, <1>13, <1>14 DEF Rcv!TypeOK, ListNodes, Ends, Rcv!NULL
<1>17. Rcv!OnListOK'
  <2>1. ASSUME NEW i \in DOMAIN newEntry', NEW j \in DOMAIN newEntry', newEntry'[i] = newEntry'[j]
        PROVE  i = j
    <3>1. \A k, o \in 1 .. Len(newEntry) : newEntry[k] = newEntry[o] => k = o
      BY <1>2 DEF Rcv!OnListOK
    <3>2. i + 1 \in 1 .. Len(newEntry) /\ j + 1 \in 1 .. Len(newEntry) /\ newEntry[i + 1] = newEntry[j + 1]
      BY <1>2, <2>1
    <3>3. i + 1 = j + 1 /\ i \in Int /\ j \in Int
      BY <1>2, <3>1, <3>2
    <3> QED
      BY <3>3
  <2>2. \A b \in DOMAIN hash' : \A i, j \in DOMAIN hash'[b] : hash'[b][i] = hash'[b][j] => i = j
    <3>1. DOMAIN hash' = DOMAIN hash
      BY <1>1
    <3>2. \A b \in DOMAIN hash : b # Rcv!Bucket(u) => hash'[b] = hash[b]
      BY <1>1
    <3>3. hash'[Rcv!Bucket(u)] = c
      BY <1>1, <1>4
    <3> QED
      BY <1>9, <3>1, <3>2, <3>3 DEF Rcv!OnListOK
  <2>3. Rcv!Hashed' \cap Rcv!Waiting' = {} /\ Rcv!Hashed' \cup Rcv!Waiting' = {v \in Sockets : node'[v].on}
    BY <1>3, <1>5, <1>10, <1>13, <1>14 DEF Rcv!OnListOK
  <2>4. \A v \in Sockets : node'[v].on => life'[v] \in {"connected", "ended"}
    BY <1>1, <1>13, <1>14 DEF Rcv!OnListOK
  <2> QED
    BY <2>1, <2>2, <2>3, <2>4 DEF Rcv!OnListOK
<1> QED
  BY <1>15, <1>16, <1>17

LEMMA UpdateKeeps ==
  ASSUME Rcv!RcvListAssumption, RcvIInv, NEW u \in Sockets, u \in Rcv!Hashed, Rcv!update(u),
         UNCHANGED <<hash, newEntry, life>>, listWorker' \in {"entries", "timers"}
  PROVE  RcvIInv'
<1>1. ListOK' /\ node' \in ListNodes /\ list' \in Ends /\ \A v \in Sockets : node'[v].on = node[v].on
  BY UpdateKeepsList
<1>2. Rcv!Hashed' = Rcv!Hashed /\ Rcv!Waiting' = Rcv!Waiting
  BY DEF Rcv!Hashed, Rcv!Waiting, Rcv!Bucket
<1>3. Rcv!TypeOK'
  BY <1>1 DEF RcvIInv, Rcv!TypeOK, ListNodes, Ends, Rcv!NULL
<1>4. Rcv!OnListOK'
  BY <1>1, <1>2 DEF RcvIInv, Rcv!OnListOK
<1> QED
  BY <1>1, <1>3, <1>4 DEF RcvIInv

\* Steps of the worker that leave list and hash alone.
LEMMA IdleWorkerKeeps ==
  ASSUME RcvIInv, UNCHANGED <<node, list, hash, newEntry, life>>, listWorker' \in {"entries", "timers"}
  PROVE  RcvIInv'
<1>1. Rcv!Hashed' = Rcv!Hashed /\ Rcv!Waiting' = Rcv!Waiting
  BY DEF Rcv!Hashed, Rcv!Waiting, Rcv!Bucket
<1>2. Rcv!TypeOK' /\ Rcv!OnListOK'
  BY <1>1 DEF RcvIInv, Rcv!TypeOK, Rcv!OnListOK
<1>3. ListOK'
  BY ListStays DEF RcvIInv
<1> QED
  BY <1>2, <1>3 DEF RcvIInv

LEMMA FirstIsLinked ==
  ASSUME Rcv!RcvListAssumption, ListOK, list.first # 0
  PROVE  /\ list.first \in Rcv!Hashed
         /\ \E m \in Nat \ {0} : \E q \in [1 .. m -> Sockets] : Linked(m, q) /\ q[1] = list.first
<1>1. PICK m \in Nat : \E q \in [1 .. m -> Sockets] : Linked(m, q)
  BY DEF ListOK
<1>2. PICK q \in [1 .. m -> Sockets] : Linked(m, q)
  BY <1>1
<1>3. m # 0 /\ q[1] = list.first /\ 1 \in 1 .. m
  BY <1>2 DEF Linked, Chained
<1> QED
  BY <1>2, <1>3 DEF Linked

LEMMA HashRemoves ==
  ASSUME Rcv!RcvListAssumption, Rcv!TypeOK, Rcv!OnListOK, NEW u \in Sockets,
         hash' = [hash EXCEPT ![Rcv!Bucket(u)] = Rcv!Without(hash[Rcv!Bucket(u)], u)]
  PROVE  /\ hash' \in [0 .. ListHashSize - 1 -> Seq(Sockets)] /\ Rcv!Hashed' = Rcv!Hashed \ {u}
         /\ \A b \in DOMAIN hash' : \A i, j \in DOMAIN hash'[b] : hash'[b][i] = hash'[b][j] => i = j
<1> DEFINE h == hash[Rcv!Bucket(u)]
           c == Rcv!Without(h, u)
<1>1. /\ hash \in [0 .. ListHashSize - 1 -> Seq(Sockets)] /\ Rcv!Bucket(u) \in 0 .. ListHashSize - 1
      /\ h \in Seq(Sockets) /\ \A i, j \in DOMAIN h : h[i] = h[j] => i = j
  BY DEF Rcv!TypeOK, Rcv!Bucket, Rcv!RcvListAssumption, Rcv!OnListOK
<1>2. /\ c \in Seq(Sockets)
      /\ \A i, j \in DOMAIN c : c[i] = c[j] => i = j
      /\ \A v \in Sockets : (\E i \in DOMAIN c : c[i] = v) <=> v # u /\ \E i \in DOMAIN h : h[i] = v
  <2> HIDE DEF h
  <2> QED
    BY <1>1, WithoutDrops
<1>3. hash' = [hash EXCEPT ![Rcv!Bucket(u)] = c]
  OBVIOUS
<1> HIDE DEF c
<1>4. hash' \in [0 .. ListHashSize - 1 -> Seq(Sockets)] /\ Rcv!Hashed' = Rcv!Hashed \ {u}
  <2>1. SameBut(c, u)
    BY <1>2 DEF SameBut
  <2>2. c \in Seq(Sockets) /\ ~ \E i \in DOMAIN c : c[i] = u
    BY <1>2
  <2> QED
    BY <1>3, <2>1, <2>2, HashedAfter
<1>5. \A b \in DOMAIN hash' : \A i, j \in DOMAIN hash'[b] : hash'[b][i] = hash'[b][j] => i = j
  <2>1. DOMAIN hash' = DOMAIN hash /\ hash'[Rcv!Bucket(u)] = c
    BY <1>1, <1>3
  <2>2. \A b \in DOMAIN hash : b # Rcv!Bucket(u) => hash'[b] = hash[b]
    BY <1>3
  <2> QED
    BY <1>2, <2>1, <2>2 DEF Rcv!OnListOK
<1> QED
  BY <1>4, <1>5

LEMMA RemovesKeeps ==
  ASSUME Rcv!RcvListAssumption, RcvIInv, NEW u \in Sockets, list.first = u,
         hash' = [hash EXCEPT ![Rcv!Bucket(u)] = Rcv!Without(hash[Rcv!Bucket(u)], u)], Rcv!removes(u),
         UNCHANGED <<newEntry, life, listWorker>>
  PROVE  RcvIInv'
<1> USE DEF RcvIInv
<1> DEFINE a == Rcv!Unlinked(u)
<1>1. u # 0
  BY DEF Rcv!RcvListAssumption
<1>2. PICK m \in Nat \ {0} : \E q \in [1 .. m -> Sockets] : Linked(m, q) /\ q[1] = u
  BY <1>1, FirstIsLinked
<1>3. PICK q \in [1 .. m -> Sockets] : Linked(m, q) /\ q[1] = u
  BY <1>2
<1>4. u \in Rcv!Hashed
  BY <1>1, FirstIsLinked
<1>8. /\ hash' \in [0 .. ListHashSize - 1 -> Seq(Sockets)] /\ Rcv!Hashed' = Rcv!Hashed \ {u}
      /\ \A b \in DOMAIN hash' : \A i, j \in DOMAIN hash'[b] : hash'[b][i] = hash'[b][j] => i = j
  BY HashRemoves
<1>9. /\ a.node \in ListNodes /\ a.list \in Ends /\ Skipping(q, m, 1) \in [1 .. m - 1 -> Sockets]
      /\ Chained(a.node, a.list, m - 1, Skipping(q, m, 1)) /\ InOrder(a.node, m - 1, Skipping(q, m, 1))
      /\ SameFlags(a.node, node) /\ \A i \in 1 .. m - 1 : Skipping(q, m, 1)[i] # u
  <2>1. node \in ListNodes /\ list \in Ends
    BY DEF Rcv!TypeOK, ListNodes, Ends, Rcv!NULL
  <2>2. Chained(node, list, m, q) /\ InOrder(node, m, q) /\ 1 \in 1 .. m /\ m \in Nat
    BY <1>3 DEF Linked
  <2> QED
    BY <1>3, <2>1, <2>2, UnlinkedIsChained
<1>10. /\ node' = [a.node EXCEPT ![u] = [@ EXCEPT !.next = 0, !.prev = 0, !.on = FALSE]]
       /\ list' = a.list
  BY DEF Rcv!removes, Rcv!NULL
<1> HIDE DEF a
<1>11. /\ node' \in ListNodes /\ list' \in Ends
       /\ \A v \in Sockets \ {u} : node'[v] = a.node[v]
       /\ node'[u].on = FALSE
  BY <1>9, <1>10 DEF ListNodes
<1>12. \A v \in Sockets : node'[v].on <=> v # u /\ node[v].on
  BY <1>9, <1>11 DEF SameFlags
<1>13. m - 1 \in Nat
  OBVIOUS
<1> DEFINE q2 == Skipping(q, m, 1)
<1>14. \A v \in Sockets : (\E i \in 1 .. m - 1 : q2[i] = v) <=> v # u /\ \E i \in 1 .. m : q[i] = v
  <2>1. m \in Nat /\ 1 \in 1 .. m /\ \A i, j \in 1 .. m : q[i] = q[j] => i = j
    BY <1>3 DEF Linked, Chained
  <2> SUFFICES ASSUME NEW v \in Sockets
               PROVE  (\E i \in 1 .. m - 1 : q2[i] = v) <=> v # u /\ \E i \in 1 .. m : q[i] = v
    OBVIOUS
  <2>2. PICK k \in 1 .. m : k = 1
    BY <2>1
  <2>3. (\E i \in 1 .. m - 1 : Skipping(q, m, k)[i] = v) <=> v # q[k] /\ \E i \in 1 .. m : q[i] = v
    BY <2>1, SkippingHolds
  <2>4. q2 = Skipping(q, m, k) /\ q[k] = u
    BY <1>3, <2>2
  <2> HIDE DEF q2
  <2> QED
    BY <2>3, <2>4
<1> HIDE DEF q2
<1>15. \A i \in 1 .. m - 1 : node'[q2[i]] = a.node[q2[i]]
  BY <1>9, <1>11 DEF q2
<1>16. Chained(node', list', m - 1, q2)
  BY <1>9, <1>10, <1>15 DEF Chained, q2
<1>17. InOrder(node', m - 1, q2)
  <2>1. InOrder(a.node, m - 1, q2)
    BY <1>9 DEF q2
  <2>2. \A i \in 1 .. (m - 1) - 1 : i \in 1 .. m - 1 /\ i + 1 \in 1 .. m - 1
    OBVIOUS
  <2> QED
    BY <1>15, <2>1, <2>2 DEF InOrder
<1>18. ListOK'
  <2>1. \A v \in Sockets : v \in Rcv!Hashed' <=> \E i \in 1 .. m - 1 : q2[i] = v
    BY <1>3, <1>8, <1>14 DEF Linked
  <2>2. Linked(m - 1, q2)'
    BY <1>16, <1>17, <2>1 DEF Linked
  <2>3. q2 \in [1 .. m - 1 -> Sockets]
    BY <1>9 DEF q2
  <2> QED
    BY <1>13, <2>2, <2>3 DEF ListOK
<1>19. Rcv!TypeOK'
  BY <1>8, <1>11 DEF Rcv!TypeOK, ListNodes, Ends, Rcv!NULL
<1>20. Rcv!OnListOK'
  <2>1. \A b \in DOMAIN hash' : \A i, j \in DOMAIN hash'[b] : hash'[b][i] = hash'[b][j] => i = j
    BY <1>8
  <2>2. Rcv!Waiting' = Rcv!Waiting
    BY DEF Rcv!Waiting
  <2>3. u \notin Rcv!Waiting
    BY <1>4 DEF Rcv!OnListOK
  <2>4. Rcv!Hashed' \cap Rcv!Waiting' = {} /\ Rcv!Hashed' \cup Rcv!Waiting' = {v \in Sockets : node'[v].on}
    BY <1>8, <1>12, <2>2, <2>3 DEF Rcv!OnListOK
  <2>5. \A v \in Sockets : node'[v].on => life'[v] \in {"connected", "ended"}
    BY <1>12 DEF Rcv!OnListOK
  <2> QED
    BY <2>1, <2>2, <2>4, <2>5 DEF Rcv!OnListOK
<1> QED
  BY <1>18, <1>19, <1>20

LEMMA SweepsKeeps ==
  ASSUME Rcv!RcvListAssumption, RcvIInv, Rcv!sweeps
  PROVE  RcvIInv'
<1>1. list.first # 0 /\ listWorker = "timers" /\ UNCHANGED <<newEntry, life, listWorker>>
  BY DEF Rcv!sweeps, Rcv!SweepOn, Rcv!NULL
<1>2. list.first \in Rcv!Hashed /\ list.first \in Sockets
  BY <1>1, FirstIsLinked DEF RcvIInv, Rcv!Hashed
<1>3. PICK u \in Sockets : u = list.first
  BY <1>2
<1>4. CASE Rcv!update(u) /\ UNCHANGED hash
  BY <1>1, <1>2, <1>3, <1>4, UpdateKeeps
<1>5. CASE /\ hash' = [hash EXCEPT ![Rcv!Bucket(u)] = Rcv!Without(hash[Rcv!Bucket(u)], u)]
           /\ Rcv!removes(u)
  BY <1>1, <1>3, <1>5, RemovesKeeps
<1>6. \/ Rcv!update(u) /\ UNCHANGED hash
      \/ hash' = [hash EXCEPT ![Rcv!Bucket(u)] = Rcv!Without(hash[Rcv!Bucket(u)], u)] /\ Rcv!removes(u)
  BY <1>3 DEF Rcv!sweeps
<1> QED
  BY <1>4, <1>5, <1>6

LEMMA RcvListAllSteps ==
  ASSUME Rcv!RcvListAssumption, RcvIInv, [Rcv!Next]_(Rcv!listVars)
  PROVE  RcvIInv'
<1>1. CASE \E u \in Sockets : Rcv!connect(u) \/ Rcv!ends(u) \/ Rcv!deletes(u)
  BY <1>1, ConnectKeeps, LifeKeeps
<1>2. CASE Rcv!takesEntry
  BY <1>2, TakesEntryKeeps
<1>3. CASE Rcv!readsPacket
  <2>1. /\ listWorker' = "timers" /\ UNCHANGED <<hash, newEntry, life>>
        /\ (\E u \in Sockets : u \in Rcv!Hashed /\ Rcv!update(u)) \/ UNCHANGED <<node, list>>
    BY <1>3 DEF Rcv!readsPacket, Rcv!Hashed
  <2>2. CASE \E u \in Sockets : u \in Rcv!Hashed /\ Rcv!update(u)
    BY <2>1, <2>2, UpdateKeeps
  <2>3. CASE UNCHANGED <<node, list>>
    BY <2>1, <2>3, IdleWorkerKeeps
  <2> QED
    BY <2>1, <2>2, <2>3
<1>4. CASE Rcv!timePasses
  BY <1>4, TimePassesKeeps
<1>5. CASE Rcv!sweeps
  BY <1>5, SweepsKeeps
<1>6. CASE Rcv!sweepEnds
  BY <1>6, IdleWorkerKeeps DEF Rcv!sweepEnds
<1>7. CASE UNCHANGED Rcv!listVars
  <2>1. UNCHANGED <<node, list, hash, newEntry, life>> /\ listWorker' \in {"entries", "timers"}
    BY <1>7 DEF Rcv!listVars, RcvIInv, Rcv!TypeOK
  <2> QED
    BY <2>1, IdleWorkerKeeps
<1> QED
  BY <1>1, <1>2, <1>3, <1>4, <1>5, <1>6, <1>7 DEF Rcv!Next

LEMMA SameRcvCount == \A S : Rcv!Cardinality(S) = Cardinality(S)
BY DEF Rcv!Cardinality, Cardinality

\* As many sockets as the chain has are there to be linked.
LEMMA ChainFits ==
  ASSUME Rcv!RcvListAssumption, NEW m \in Nat, NEW q \in [1 .. m -> Sockets],
         \A i, j \in 1 .. m : q[i] = q[j] => i = j
  PROVE  Cardinality(Sockets) \in Nat /\ m <= Cardinality(Sockets)
<1>1. IsFiniteSet(Sockets)
  BY DEF Rcv!RcvListAssumption, Rcv!IsFiniteSet, IsFiniteSet
<1>2. Cardinality(Sockets) \in Nat
  BY <1>1, FS_CardinalityType
<1>3. IsFiniteSet(1 .. m) /\ Cardinality(1 .. m) = m
  <2>1. 1 \in Int /\ m \in Int
    OBVIOUS
  <2>2. IsFiniteSet(1 .. m) /\ Cardinality(1 .. m) = IF 1 > m THEN 0 ELSE m - 1 + 1
    BY <2>1, FS_Interval
  <2> QED
    BY <2>2
<1>4. ASSUME m > Cardinality(Sockets)
      PROVE  FALSE
  <2>1. \E i, j \in 1 .. m : i # j /\ q[i] = q[j]
    BY <1>1, <1>3, <1>4, FS_PigeonHole
  <2> QED
    BY <2>1
<1> QED
  BY <1>2, <1>4

\* Who follows the links from the first of the list meets the chain, and then NULL.
LEMMA FollowMeetsChain ==
  ASSUME Rcv!RcvListAssumption, NEW m \in Nat, NEW q \in [1 .. m -> Sockets], Chained(node, list, m, q)
  PROVE  LET last == Cardinality(Sockets)
         IN  /\ last \in Nat /\ m <= last
             /\ \A i \in 0 .. last : Rcv!Follow[i] = IF i < m THEN q[i + 1] ELSE 0
<1> DEFINE C == Cardinality(Sockets)
           Along(f) == [i \in 0 .. C |-> IF i = 0 THEN list.first ELSE IF f[i - 1] = 0 THEN 0 ELSE node[f[i - 1]].next]
           w == [i \in 0 .. C |-> IF i < m THEN q[i + 1] ELSE 0]
           F == Rcv!Follow
<1>1. C \in Nat /\ m <= C
  BY ChainFits DEF Chained
<1>2. F = CHOOSE f : f = Along(f)
  BY SameRcvCount DEF Rcv!Follow, Rcv!NULL
<1> HIDE DEF F, C
<1>3. 0 \notin Sockets
  BY DEF Rcv!RcvListAssumption
<1>4. w = Along(w)
  <2> SUFFICES ASSUME NEW i \in 0 .. C
               PROVE  w[i] = IF i = 0 THEN list.first ELSE IF w[i - 1] = 0 THEN 0 ELSE node[w[i - 1]].next
    OBVIOUS
  <2>1. CASE i = 0
    BY <1>1, <2>1 DEF Chained
  <2>2. CASE i # 0 /\ i - 1 < m
    <3>1. w[i - 1] = q[i] /\ q[i] \in Sockets /\ i \in 1 .. m
      BY <1>1, <2>2
    <3>2. node[q[i]].next = IF i = m THEN 0 ELSE q[i + 1]
      BY <3>1 DEF Chained
    <3> QED
      BY <1>1, <1>3, <2>2, <3>1, <3>2
  <2>3. CASE i # 0 /\ i - 1 >= m
    <3>1. w[i - 1] = 0 /\ w[i] = 0
      BY <1>1, <2>3
    <3> QED
      BY <2>3, <3>1
  <2> QED
    BY <1>1, <2>1, <2>2, <2>3
<1> HIDE DEF w
<1>5. F = Along(F)
  <2> HIDE DEF Along
  <2>1. \E f : f = Along(f)
    BY <1>4
  <2> QED
    BY <1>2, <2>1
<1>6. \A i \in 0 .. C : F[i] = IF i = 0 THEN list.first ELSE IF F[i - 1] = 0 THEN 0 ELSE node[F[i - 1]].next
  BY <1>5
<1>7. \A i \in 0 .. C : w[i] = IF i = 0 THEN list.first ELSE IF w[i - 1] = 0 THEN 0 ELSE node[w[i - 1]].next
  BY <1>4
<1>8. \A i \in 0 .. C : F[i] = w[i]
  <2> DEFINE Bad == {i \in 0 .. C : F[i] # w[i]}
  <2> SUFFICES ASSUME Bad # {}
               PROVE  FALSE
    OBVIOUS
  <2>1. Bad \in SUBSET Nat
    BY <1>1
  <2>2. PICK i \in Bad : \A j \in Bad : i <= j
    <3> HIDE DEF Bad
    <3> QED
      BY <2>1, LeastOf
  <2>3. i \in 0 .. C /\ F[i] # w[i]
    BY <2>2
  <2>4. i # 0
    BY <1>6, <1>7, <2>3
  <2>5. i - 1 \in 0 .. C /\ i - 1 \notin Bad
    BY <1>1, <2>2, <2>3, <2>4
  <2>6. F[i - 1] = w[i - 1]
    BY <2>5
  <2> QED
    BY <1>6, <1>7, <2>3, <2>4, <2>6
<1> QED
  BY <1>1, <1>8 DEF w, F, C

LEMMA SweepSound ==
  ASSUME Rcv!RcvListAssumption, RcvIInv
  PROVE  Rcv!SweepIsSound
<1> USE DEF RcvIInv
<1>1. PICK m \in Nat : \E q \in [1 .. m -> Sockets] : Linked(m, q)
  BY DEF ListOK
<1>2. PICK q \in [1 .. m -> Sockets] : Linked(m, q)
  BY <1>1
<1> DEFINE C == Cardinality(Sockets)
<1>3. /\ C \in Nat /\ m <= C
      /\ \A i \in 0 .. C : Rcv!Follow[i] = IF i < m THEN q[i + 1] ELSE 0
  BY <1>2, FollowMeetsChain DEF Linked
<1>4. Rcv!Cardinality(Sockets) = C
  BY SameRcvCount
<1> HIDE DEF C
<1>5. 0 \notin Sockets
  BY DEF Rcv!RcvListAssumption
<1>6. /\ list.first = IF m = 0 THEN 0 ELSE q[1]
      /\ list.last = IF m = 0 THEN 0 ELSE q[m]
      /\ \A i, j \in 1 .. m : q[i] = q[j] => i = j
      /\ \A i \in 1 .. m : node[q[i]].prev = IF i = 1 THEN 0 ELSE q[i - 1]
      /\ \A i \in 1 .. m : node[q[i]].next = IF i = m THEN 0 ELSE q[i + 1]
  BY <1>2 DEF Linked, Chained
<1>7. \A u : u \in Rcv!Listed <=> \E i \in 1 .. m : q[i] = u
  <2>1. Rcv!Listed = {Rcv!Follow[i] : i \in 0 .. C} \ {0}
    BY <1>4 DEF Rcv!Listed, Rcv!NULL
  <2>2. ASSUME NEW i \in 0 .. C, Rcv!Follow[i] # 0
        PROVE  \E j \in 1 .. m : q[j] = Rcv!Follow[i]
    <3>1. i < m /\ i + 1 \in 1 .. m /\ Rcv!Follow[i] = q[i + 1]
      BY <1>3, <2>2
    <3> QED
      BY <3>1
  <2>3. ASSUME NEW j \in 1 .. m
        PROVE  q[j] \in {Rcv!Follow[i] : i \in 0 .. C} \ {0}
    <3>1. j - 1 \in 0 .. C /\ j - 1 < m /\ (j - 1) + 1 = j
      BY <1>3
    <3>2. Rcv!Follow[j - 1] = q[j] /\ q[j] # 0
      BY <1>3, <1>5, <3>1
    <3> QED
      BY <3>1, <3>2
  <2> QED
    BY <2>1, <2>2, <2>3
<1>8. Rcv!Listed = Rcv!Hashed
  <2>1. \A u \in Sockets : u \in Rcv!Hashed <=> \E i \in 1 .. m : q[i] = u
    BY <1>2 DEF Linked
  <2>2. Rcv!Hashed \subseteq Sockets
    BY DEF Rcv!Hashed
  <2> QED
    BY <1>7, <2>1, <2>2
<1>9. Rcv!ListIsLinked
  <2>1. Rcv!Follow[Rcv!Cardinality(Sockets)] = 0
    BY <1>3, <1>4
  <2>2. ASSUME NEW u \in Rcv!Listed
        PROVE  /\ node[u].prev = 0 <=> u = list.first
               /\ node[u].next = 0 <=> u = list.last
               /\ node[u].next # 0 => node[node[u].next].prev = u
    <3>1. PICK i \in 1 .. m : q[i] = u
      BY <1>7
    <3>2. node[u].prev = 0 <=> i = 1
      BY <1>5, <1>6, <3>1
    <3>3. node[u].next = 0 <=> i = m
      BY <1>5, <1>6, <3>1
    <3>4. u = list.first <=> i = 1
      <4>1. list.first = q[1] /\ 1 \in 1 .. m
        BY <1>6
      <4> QED
        BY <1>6, <3>1, <4>1
    <3>5. u = list.last <=> i = m
      <4>1. list.last = q[m] /\ m \in 1 .. m
        BY <1>6
      <4> QED
        BY <1>6, <3>1, <4>1
    <3>6. ASSUME i # m
          PROVE  node[node[u].next].prev = u
      <4>1. node[u].next = q[i + 1] /\ i + 1 \in 1 .. m /\ i + 1 # 1 /\ (i + 1) - 1 = i
        BY <1>6, <3>1, <3>6
      <4> QED
        BY <1>6, <3>1, <4>1
    <3> QED
      BY <3>2, <3>3, <3>4, <3>5, <3>6
  <2>3. Rcv!Listed = {u \in Sockets : node[u].on} \ Rcv!Waiting
    BY <1>8 DEF Rcv!OnListOK
  <2> QED
    BY <1>8, <2>1, <2>2, <2>3 DEF Rcv!ListIsLinked, Rcv!NULL
<1>10. Rcv!OldestFirst
  <2> SUFFICES ASSUME NEW u \in Rcv!Listed, node[u].next # 0, node[node[u].next].old
               PROVE  node[u].old
    BY DEF Rcv!OldestFirst, Rcv!NULL
  <2>1. PICK i \in 1 .. m : q[i] = u
    BY <1>7
  <2>2. i \in 1 .. m - 1 /\ node[u].next = q[i + 1]
    BY <1>6, <2>1
  <2> QED
    BY <1>2, <2>1, <2>2 DEF Linked, InOrder
<1>11. Rcv!DeletedIsGone
  <2>1. \A u \in Rcv!Hashed \cup Rcv!Waiting : u \in Sockets /\ node[u].on
    BY DEF Rcv!OnListOK
  <2> QED
    BY <1>8, <2>1 DEF Rcv!DeletedIsGone, Rcv!OnListOK
<1> QED
  BY <1>9, <1>10, <1>11 DEF Rcv!SweepIsSound

\* However sockets connect, end and are deleted while the worker inserts, moves and removes
\* them, its list stays one chain, linked both ways, of the sockets of the hash table, with
\* the longest waiting first and without one that was deleted: the sweep, which ends at the
\* first fresh one, passes over none that is due (queue.cpp:1069, 1080).
THEOREM SweepMeetsTheDue == TablesSpec => []SweepIsSound
<1>0. Rcv!RcvListAssumption
  BY TablesAssumption
<1>1. TablesInit => RcvIInv
  BY <1>0, RcvListInit DEF TablesInit
<1>2. RcvIInv /\ [TablesNext]_tablesVars => RcvIInv'
  BY <1>0, StepsOfEach, RcvListAllSteps
<1>3. RcvIInv => SweepIsSound
  BY <1>0, SweepSound DEF SweepIsSound
<1> QED
  BY <1>1, <1>2, <1>3, PTL DEF TablesSpec

-----------------------------------------------------------------------------
(* The chain of the send buffer.                                            *)

\* A place on a ring of n, k further on and less than twice around.
At(n, q, k) == IF k < n THEN q[k] ELSE q[k - n]

\* The n blocks in the order in which links x lead around.
Ring(x, n, q) ==
  /\ x \in [1 .. n -> 1 .. n] /\ q \in [0 .. n - 1 -> 1 .. n]
  /\ \A i, j \in 0 .. n - 1 : q[i] = q[j] => i = j
  /\ \A b \in 1 .. n : \E i \in 0 .. n - 1 : q[i] = b
  /\ \A i \in 0 .. n - 1 : x[q[i]] = IF i = n - 1 THEN q[0] ELSE q[i + 1]

\* Walks of up to m steps.
Here(n) == [b \in 1 .. n |-> b]
Further(n, x, f) == [b \in 1 .. n |-> x[f[b]]]
IsRound(f, n, x, m) == f = [i \in 0 .. m |-> IF i = 0 THEN Here(n) ELSE Further(n, x, f[i - 1])]

\* A recursive function on an interval exists: the shortest for which it does not would
\* be one longer than one for which it does.
LEMMA RoundExists ==
  ASSUME NEW n, NEW x, NEW m \in Nat
  PROVE  \E f : IsRound(f, n, x, m)
<1> DEFINE Bad == {i \in Nat : ~ \E f : IsRound(f, n, x, i)}
<1> SUFFICES ASSUME Bad # {}
             PROVE  FALSE
  OBVIOUS
<1>1. PICK k \in Bad : \A j \in Bad : k <= j
  <2>1. Bad \in SUBSET Nat
    OBVIOUS
  <2> HIDE DEF Bad
  <2> QED
    BY <2>1, LeastOf
<1>2. k \in Nat /\ ~ \E f : IsRound(f, n, x, k)
  BY <1>1
<1>3. k # 0
  <2> DEFINE f == [i \in 0 .. 0 |-> Here(n)]
  <2>1. f = [i \in 0 .. 0 |-> IF i = 0 THEN Here(n) ELSE Further(n, x, f[i - 1])]
    BY \A i \in 0 .. 0 : i = 0
  <2>2. IsRound(f, n, x, 0)
    BY <2>1 DEF IsRound
  <2> QED
    BY <1>2, <2>2
<1>4. k - 1 \in Nat /\ k - 1 \notin Bad
  BY <1>1, <1>2, <1>3
<1>5. PICK f : IsRound(f, n, x, k - 1)
  BY <1>4
<1> DEFINE g == [i \in 0 .. k |-> IF i = k THEN Further(n, x, f[k - 1]) ELSE f[i]]
<1>6. \A i \in 0 .. k - 1 : f[i] = IF i = 0 THEN Here(n) ELSE Further(n, x, f[i - 1])
  BY <1>5 DEF IsRound
<1>7. \A i \in 0 .. k : g[i] = IF i = 0 THEN Here(n) ELSE Further(n, x, g[i - 1])
  <2> TAKE i \in 0 .. k
  <2>1. CASE i = 0
    BY <1>2, <1>3, <1>6, <2>1
  <2>2. CASE i # 0
    <3>1. i - 1 \in 0 .. k - 1 /\ g[i - 1] = f[i - 1]
      BY <1>2, <2>2
    <3>2. g[i] = Further(n, x, f[i - 1])
      <4>1. CASE i = k
        BY <1>2, <4>1
      <4>2. CASE i # k
        BY <1>2, <1>6, <2>2, <4>2
      <4> QED
        BY <4>1, <4>2
    <3> HIDE DEF g
    <3> QED
      BY <2>2, <3>1, <3>2
  <2> QED
    BY <2>1, <2>2
<1>8. g = [i \in 0 .. k |-> IF i = 0 THEN Here(n) ELSE Further(n, x, g[i - 1])]
  <2> DEFINE h == [i \in 0 .. k |-> IF i = 0 THEN Here(n) ELSE Further(n, x, g[i - 1])]
  <2>1. g = [i \in 0 .. k |-> g[i]]
    OBVIOUS
  <2>2. h = [i \in 0 .. k |-> h[i]]
    OBVIOUS
  <2>3. \A i \in 0 .. k : g[i] = h[i]
    BY <1>7
  <2> HIDE DEF g, h
  <2>4. g = h
    BY <2>1, <2>2, <2>3
  <2> QED
    BY <2>4 DEF h
<1> HIDE DEF g
<1>9. IsRound(g, n, x, k)
  BY <1>8 DEF IsRound
<1> QED
  BY <1>2, <1>9

\* Less than a round from a place of the ring.
LEMMA WalkOnRing ==
  ASSUME NEW n \in Nat \ {0}, NEW x, NEW q, Ring(x, n, q), NEW m \in Nat, n <= m, NEW f, IsRound(f, n, x, m)
  PROVE  \A k, i \in 0 .. n - 1 : f[k][q[i]] = At(n, q, i + k)
<1> DEFINE Bad == {k \in 0 .. n - 1 : \E i \in 0 .. n - 1 : f[k][q[i]] # At(n, q, i + k)}
<1>0. \A i \in 0 .. n - 1 : q[i] \in 1 .. n
  BY DEF Ring
<1> SUFFICES ASSUME Bad # {}
             PROVE  FALSE
  OBVIOUS
<1>1. PICK k \in Bad : \A j \in Bad : k <= j
  <2>1. Bad \in SUBSET Nat
    BY <1>0
  <2> HIDE DEF Bad
  <2> QED
    BY <2>1, LeastOf
<1>2. PICK i \in 0 .. n - 1 : f[k][q[i]] # At(n, q, i + k)
  BY <1>1
<1>3. \A j \in 0 .. m : f[j] = IF j = 0 THEN Here(n) ELSE Further(n, x, f[j - 1])
  BY DEF IsRound
<1>4. k \in 0 .. n - 1 /\ k \in 0 .. m /\ q[i] \in 1 .. n
  BY <1>0, <1>1
<1>5. k # 0
  <2>1. f[0] = Here(n)
    <3>1. 0 \in 0 .. m
      OBVIOUS
    <3> QED
      BY <1>3, <3>1
  <2>2. f[0][q[i]] = q[i]
    BY <1>4, <2>1 DEF Here
  <2> QED
    BY <1>2, <2>2 DEF At
<1>6. k - 1 \in 0 .. n - 1 /\ k - 1 \notin Bad
  <2>1. k - 1 \in 0 .. n - 1
    BY <1>0, <1>4, <1>5
  <2>2. k \in Int /\ ~ (k <= k - 1)
    BY <1>4
  <2> HIDE DEF Bad
  <2> QED
    BY <1>1, <2>1, <2>2
<1>7. f[k - 1][q[i]] = At(n, q, i + (k - 1))
  BY <1>6
<1>8. f[k][q[i]] = x[At(n, q, i + (k - 1))]
  <2>1. f[k] = Further(n, x, f[k - 1])
    BY <1>3, <1>4, <1>5
  <2> QED
    BY <1>0, <1>4, <1>7, <2>1 DEF Further
<1>9. x[At(n, q, i + (k - 1))] = At(n, q, i + k)
  <2>1. \A j \in 0 .. n - 1 : x[q[j]] = IF j = n - 1 THEN q[0] ELSE q[j + 1]
    BY DEF Ring
  <2> DEFINE o == i + (k - 1)
  <2>2. o \in Nat /\ i + k = o + 1 /\ o < n + n - 1
    BY <1>0, <1>4, <1>5
  <2> HIDE DEF o
  <2>3. CASE o < n
    <3>1. At(n, q, o) = q[o] /\ o \in 0 .. n - 1
      BY <1>0, <2>2, <2>3 DEF At
    <3>2. At(n, q, o + 1) = IF o = n - 1 THEN q[0] ELSE q[o + 1]
      BY <1>0, <2>2, <2>3 DEF At
    <3> QED
      BY <1>0, <2>1, <2>2, <3>1, <3>2 DEF o
  <2>4. CASE o >= n
    <3>1. At(n, q, o) = q[o - n] /\ o - n \in 0 .. n - 1 /\ o - n # n - 1
      <4>1. ~ (o < n) /\ o - n \in 0 .. n - 1 /\ o - n # n - 1
        BY <1>0, <2>2, <2>4
      <4> QED
        BY <4>1 DEF At
    <3>2. At(n, q, o + 1) = q[(o - n) + 1]
      <4>1. (o + 1) - n = (o - n) + 1 /\ ~ (o + 1 < n)
        BY <1>0, <2>2, <2>4
      <4> QED
        BY <4>1 DEF At
    <3> QED
      BY <1>0, <2>1, <2>2, <3>1, <3>2 DEF o
  <2> QED
    BY <1>0, <2>2, <2>3, <2>4
<1> QED
  BY <1>2, <1>8, <1>9

\* The n blocks of the chain in the order q from the first, c of them read.
Queued(n, q, c) ==
  /\ n \in Unit .. MaxBlocks /\ chain \in Buf!Chains(n) /\ Ring(chain.next, n, q)
  /\ added - acked < n /\ c \in 0 .. added - acked
  /\ chain.first = q[0] /\ chain.curr = q[c] /\ chain.last = q[added - acked]
  /\ \A i \in 0 .. added - acked - 1 : chain.data[q[i]] = acked + i + 1

QueueOK == \E n \in Nat \ {0} : \E q : \E c \in Nat : Queued(n, q, c)

BufIInv == Buf!TypeOK /\ Buf!CountOK /\ QueueOK

\* How far it is from one place of the ring to another.
Between(n, i, j) == IF i <= j THEN j - i ELSE j - i + n

LEMMA WalkedAndMeasured ==
  ASSUME Buf!SndBufferAssumption, NEW n \in Nat \ {0}, NEW q, NEW c \in Nat, Queued(n, q, c)
  PROVE  /\ n \in Nat \ {0} /\ chain.size = n
         /\ \A i, k \in 0 .. n - 1 : Buf!After(q[i], k) = At(n, q, i + k)
         /\ \A i, j \in 0 .. n - 1 : /\ Buf!Distance(q[i], q[j]) = Between(n, i, j)
                                     /\ Between(n, i, j) \in 0 .. n - 1
<1> DEFINE W == Buf!Walk
           x == chain.next
<1>1. n \in Nat \ {0} /\ MaxBlocks \in Nat /\ n <= MaxBlocks
  BY DEF Buf!SndBufferAssumption, Queued
<1>2. x \in [1 .. n -> 1 .. n] /\ chain.size = n /\ Ring(x, n, q)
  BY DEF Queued, Buf!Chains
<1>3. IsRound(W, n, x, MaxBlocks)
  <2>1. DOMAIN x = 1 .. n
    BY <1>2
  <2>2. W = CHOOSE f : IsRound(f, n, x, MaxBlocks)
    BY <2>1 DEF Buf!Walk, IsRound, Here, Further
  <2> HIDE DEF W, x
  <2>3. \E f : IsRound(f, n, x, MaxBlocks)
    BY <1>1, RoundExists
  <2> QED
    BY <2>2, <2>3
<1> HIDE DEF W, x
<1>4. \A k, i \in 0 .. n - 1 : W[k][q[i]] = At(n, q, i + k)
  BY <1>1, <1>2, <1>3, WalkOnRing
<1>5. \A i, k \in 0 .. n - 1 : Buf!After(q[i], k) = At(n, q, i + k)
  BY <1>4 DEF Buf!After, W
<1>6. ASSUME NEW i \in 0 .. n - 1, NEW j \in 0 .. n - 1
      PROVE  Buf!Distance(q[i], q[j]) = Between(n, i, j) /\ Between(n, i, j) \in 0 .. n - 1
  <2> DEFINE d == Between(n, i, j)
  <2>1. d \in 0 .. n - 1 /\ At(n, q, i + d) = q[j]
    <3>1. CASE i <= j
      <4>1. d = j - i /\ d \in 0 .. n - 1 /\ i + d = j /\ j < n
        BY <1>1, <3>1 DEF Between
      <4> QED
        BY <4>1 DEF At
    <3>2. CASE i > j
      <4>1. d = j - i + n /\ d \in 0 .. n - 1 /\ (i + d) - n = j /\ ~ (i + d < n)
        BY <1>1, <3>2 DEF Between
      <4> QED
        BY <4>1 DEF At
    <3> QED
      BY <1>1, <3>1, <3>2
  <2>2. ASSUME NEW k \in 0 .. n - 1, At(n, q, i + k) = q[j]
        PROVE  k = d
    <3>1. \A o, u \in 0 .. n - 1 : q[o] = q[u] => o = u
      BY <1>2 DEF Ring
    <3>2. CASE i + k < n
      <4>1. i + k = j
        <5>1. At(n, q, i + k) = q[i + k] /\ i + k \in 0 .. n - 1
          BY <1>1, <3>2 DEF At
        <5> QED
          BY <2>2, <3>1, <5>1
      <4> QED
        BY <1>1, <4>1 DEF Between
    <3>3. CASE i + k >= n
      <4>1. i + k - n = j
        <5>1. ~ (i + k < n) /\ i + k - n \in 0 .. n - 1
          BY <1>1, <3>3
        <5>2. At(n, q, i + k) = q[i + k - n]
          BY <5>1 DEF At
        <5> QED
          BY <2>2, <3>1, <5>1, <5>2
      <4>2. j < i
        BY <1>1, <4>1
      <4> QED
        BY <1>1, <4>1, <4>2 DEF Between
    <3> QED
      BY <1>1, <3>2, <3>3
  <2> HIDE DEF d
  <2>3. Buf!Distance(q[i], q[j]) = CHOOSE k \in 0 .. n - 1 : Buf!After(q[i], k) = q[j]
    BY <1>2 DEF Buf!Distance
  <2>4. Buf!After(q[i], d) = q[j] /\ \A k \in 0 .. n - 1 : Buf!After(q[i], k) = q[j] => k = d
    BY <1>5, <2>1, <2>2
  <2>5. (CHOOSE k \in 0 .. n - 1 : Buf!After(q[i], k) = q[j]) = d
    BY <2>1, <2>4
  <2> QED
    BY <2>1, <2>3, <2>5 DEF d
<1> QED
  BY <1>1, <1>2, <1>5, <1>6

\* The invariant is enough.
LEMMA QueueIsKept ==
  ASSUME Buf!SndBufferAssumption, BufIInv
  PROVE  Buf!BufferIsQueue
<1>1. PICK n \in Nat \ {0} : \E q : \E c \in Nat : Queued(n, q, c)
  BY DEF BufIInv, QueueOK
<1>2. PICK q : \E c \in Nat : Queued(n, q, c)
  BY <1>1
<1>3. PICK c \in Nat : Queued(n, q, c)
  BY <1>2
<1>4. /\ n \in Nat \ {0} /\ chain.size = n
      /\ \A i, k \in 0 .. n - 1 : Buf!After(q[i], k) = At(n, q, i + k)
      /\ \A i, j \in 0 .. n - 1 : Buf!Distance(q[i], q[j]) = Between(n, i, j)
  BY <1>3, WalkedAndMeasured
<1>5. /\ chain.first = q[0] /\ chain.curr = q[c] /\ chain.last = q[added - acked]
      /\ added - acked < n /\ c \in 0 .. added - acked /\ added - acked \in Int
      /\ \A i \in 0 .. added - acked - 1 : chain.data[q[i]] = acked + i + 1
  BY <1>3 DEF Queued, BufIInv, Buf!TypeOK
<1>6. \A k \in 0 .. n - 1 : Buf!After(chain.first, k) = q[k]
  <2>1. \A k \in 0 .. n - 1 : k < n /\ 0 + k = k /\ 0 \in 0 .. n - 1
    BY <1>4
  <2> QED
    BY <1>4, <1>5, <2>1 DEF At
<1>7. Buf!Distance(chain.first, chain.last) = added - acked /\ Buf!Distance(chain.first, chain.curr) = c
  <2>1. 0 \in 0 .. n - 1 /\ c \in 0 .. n - 1 /\ added - acked \in 0 .. n - 1
    BY <1>4, <1>5
  <2>2. Between(n, 0, c) = c /\ Between(n, 0, added - acked) = added - acked
    BY <2>1 DEF Between
  <2> QED
    BY <1>4, <1>5, <2>1, <2>2
<1>8. Buf!ChainIsQueue
  <2>1. {Buf!After(chain.first, k) : k \in 0 .. chain.size - 1} = 1 .. chain.size
    <3>1. \A b \in 1 .. n : \E i \in 0 .. n - 1 : q[i] = b
      BY <1>3 DEF Queued, Ring
    <3>2. \A k \in 0 .. n - 1 : Buf!After(chain.first, k) \in 1 .. n
      <4>1. \A k \in 0 .. n - 1 : q[k] \in 1 .. n
        BY <1>3 DEF Queued, Ring
      <4> QED
        BY <1>6, <4>1
    <3>3. \A b \in 1 .. n : \E k \in 0 .. n - 1 : Buf!After(chain.first, k) = b
      BY <1>6, <3>1
    <3>4. {Buf!After(chain.first, k) : k \in 0 .. n - 1} = 1 .. n
      BY <3>2, <3>3
    <3> QED
      BY <1>4, <3>4
  <2>2. ASSUME NEW k \in 0 .. added - acked - 1
        PROVE  chain.data[Buf!After(chain.first, k)] = acked + k + 1
    <3>1. k \in 0 .. n - 1
      BY <1>4, <1>5
    <3> QED
      BY <1>5, <1>6, <3>1
  <2> QED
    BY <1>7, <2>1, <2>2 DEF Buf!ChainIsQueue
<1>9. Buf!CurrIsBetween
  BY <1>5, <1>7 DEF Buf!CurrIsBetween
<1>10. Buf!CountIsUsed
  BY DEF Buf!CountIsUsed, BufIInv, Buf!CountOK
<1> QED
  BY <1>8, <1>9, <1>10 DEF Buf!BufferIsQueue

LEMMA SndBufferInit ==
  ASSUME Buf!SndBufferAssumption, Buf!Init
  PROVE  BufIInv
<1> DEFINE q == [i \in 0 .. Unit - 1 |-> i + 1]
           x == [b \in 1 .. Unit |-> IF b = Unit THEN 1 ELSE b + 1]
<1>1. Unit \in Nat \ {0} /\ MaxBlocks \in Nat /\ Unit \in Unit .. MaxBlocks
  BY DEF Buf!SndBufferAssumption
<1>2. /\ chain = [next |-> x, data |-> [b \in 1 .. Unit |-> 0], first |-> 1, curr |-> 1, last |-> 1, size |-> Unit]
      /\ blockCount = 0 /\ caller = [pc |-> "idle", size |-> 0, have |-> 0]
      /\ added = 0 /\ acked = 0 /\ short = FALSE
  BY DEF Buf!Init, Buf!Idle
<1>3. chain \in Buf!Chains(Unit)
  BY <1>1, <1>2 DEF Buf!Chains
<1>4. Buf!TypeOK /\ Buf!CountOK
  <2> HIDE DEF x
  <2>1. Buf!TypeOK
    <3>1. \E n \in Unit .. MaxBlocks : chain \in Buf!Chains(n)
      BY <1>1, <1>3
    <3>2. caller \in [pc : {"idle", "grow", "count"}, size : Nat, have : Nat]
      BY <1>2
    <3>3. blockCount \in Int /\ {added, acked} \subseteq Nat /\ short \in BOOLEAN
      <4>1. blockCount = 0 /\ added = 0 /\ acked = 0 /\ short = FALSE
        BY <1>2
      <4>2. blockCount \in Int
        BY <4>1
      <4>3. added \in Nat /\ acked \in Nat
        BY <4>1
      <4>4. short \in BOOLEAN
        BY <4>1
      <4> QED
        BY <4>2, <4>3, <4>4
    <3> QED
      BY <3>1, <3>2, <3>3 DEF Buf!TypeOK
  <2>2. Buf!CountOK
    BY <1>2 DEF Buf!CountOK
  <2> QED
    BY <2>1, <2>2
<1>5. Ring(x, Unit, q)
  <2>1. x \in [1 .. Unit -> 1 .. Unit] /\ q \in [0 .. Unit - 1 -> 1 .. Unit]
    BY <1>1
  <2>2. \A i \in 0 .. Unit - 1 : q[i] = i + 1 /\ q[i] \in 1 .. Unit
    BY <1>1
  <2>3. \A b \in 1 .. Unit : b - 1 \in 0 .. Unit - 1 /\ (b - 1) + 1 = b
    BY <1>1
  <2>4. \A b \in 1 .. Unit : x[b] = IF b = Unit THEN 1 ELSE b + 1
    OBVIOUS
  <2> HIDE DEF q, x
  <2>5. \A i, j \in 0 .. Unit - 1 : q[i] = q[j] => i = j
    BY <1>1, <2>2
  <2>6. \A b \in 1 .. Unit : q[b - 1] = b
    BY <2>2, <2>3
  <2>7. ASSUME NEW i \in 0 .. Unit - 1
        PROVE  x[q[i]] = IF i = Unit - 1 THEN q[0] ELSE q[i + 1]
    <3>1. q[i] = i + 1 /\ q[0] = 1 /\ i + 1 \in 1 .. Unit /\ (i + 1 = Unit <=> i = Unit - 1)
      BY <1>1, <2>2
    <3>2. i # Unit - 1 => q[i + 1] = (i + 1) + 1
      BY <1>1, <2>2
    <3> QED
      BY <2>4, <3>1, <3>2
  <2> QED
    BY <2>1, <2>3, <2>5, <2>6, <2>7 DEF Ring
<1>6. Queued(Unit, q, 0)
  <2>1. q[0] = 1
    BY <1>1
  <2> HIDE DEF q, x
  <2> QED
    BY <1>1, <1>2, <1>3, <1>5, <2>1 DEF Queued
<1> HIDE DEF q
<1>7. QueueOK
  BY <1>1, <1>6 DEF QueueOK
<1> QED
  BY <1>4, <1>7 DEF BufIInv

\* What leaves the chain, and what it holds, alone.
LEMMA QueueStays ==
  ASSUME BufIInv, UNCHANGED <<chain, added, acked>>
  PROVE  QueueOK'
BY DEF BufIInv, QueueOK, Queued

LEMMA AddBeginsKeeps ==
  ASSUME BufIInv, NEW n \in 1 .. MaxAdded, NEW k \in 0 .. n, Buf!addBegins(n, k), Buf!SndBufferAssumption
  PROVE  BufIInv'
<1>1. /\ caller.pc = "idle" /\ caller' = [pc |-> "grow", size |-> n, have |-> k]
      /\ UNCHANGED <<chain, blockCount, added, acked, short>>
  BY DEF Buf!addBegins
<1>2. n \in Nat /\ k \in Nat /\ k <= n
  BY DEF Buf!SndBufferAssumption
<1>3. Buf!TypeOK'
  BY <1>1, <1>2 DEF Buf!TypeOK, BufIInv
<1>4. Buf!CountOK'
  BY <1>1, <1>2 DEF Buf!CountOK, BufIInv
<1>5. QueueOK'
  BY <1>1, QueueStays
<1> QED
  BY <1>3, <1>4, <1>5 DEF BufIInv

LEMMA CountsKeeps ==
  ASSUME BufIInv, Buf!counts
  PROVE  BufIInv'
<1>1. /\ caller.pc = "count" /\ blockCount' = blockCount + caller.size
      /\ caller' = [pc |-> "idle", size |-> 0, have |-> 0]
      /\ UNCHANGED <<chain, added, acked, short>>
  BY DEF Buf!counts, Buf!Counted, Buf!Idle
<1>2. Buf!TypeOK'
  BY <1>1 DEF Buf!TypeOK, BufIInv
<1>3. Buf!CountOK'
  BY <1>1 DEF Buf!CountOK, BufIInv
<1>4. QueueOK'
  BY <1>1, QueueStays
<1> QED
  BY <1>2, <1>3, <1>4 DEF BufIInv

\* The ring with u more blocks behind place k.
Widened(n, q, k, u) ==
  [i \in 0 .. n + u - 1 |-> IF i <= k THEN q[i] ELSE IF i <= k + u THEN n + (i - k) ELSE q[i - u]]

\* Links y: u blocks come behind block p among the n of links x.
Longer(y, x, n, u, p) ==
  /\ y \in [1 .. n + u -> 1 .. n + u]
  /\ \A b \in 1 .. n + u : y[b] = IF b = p THEN n + 1 ELSE IF b = n + u THEN x[p] ELSE IF b > n THEN b + 1 ELSE x[b]

LEMMA WidenedIsRing ==
  ASSUME NEW n \in Nat \ {0}, NEW u \in Nat \ {0}, NEW x, NEW y, NEW q, NEW k \in 0 .. n - 1,
         Ring(x, n, q), Longer(y, x, n, u, q[k])
  PROVE  Ring(y, n + u, Widened(n, q, k, u)) /\ \A i \in 0 .. k : Widened(n, q, k, u)[i] = q[i]
<1> DEFINE w == Widened(n, q, k, u)
<1>0. \A i \in 0 .. n - 1 : q[i] \in 1 .. n
  BY DEF Ring
<1>1. /\ \A i \in 0 .. n + u - 1 : i <= k => w[i] = q[i] /\ i \in 0 .. n - 1
      /\ \A i \in 0 .. n + u - 1 : i > k /\ i <= k + u => w[i] = n + (i - k)
      /\ \A i \in 0 .. n + u - 1 : i > k + u => w[i] = q[i - u] /\ i - u \in 0 .. n - 1
  BY DEF Widened
<1>2. w \in [0 .. n + u - 1 -> 1 .. n + u]
  <2>1. w = [i \in 0 .. n + u - 1 |-> w[i]]
    BY DEF Widened
  <2>2. \A i \in 0 .. n - 1 : q[i] \in 1 .. n + u
    BY <1>0
  <2> HIDE DEF w
  <2>3. \A i \in 0 .. n + u - 1 : w[i] \in 1 .. n + u
    BY <1>1, <2>2
  <2> QED
    BY <2>1, <2>3
<1> HIDE DEF w
<1>3. \A i \in 0 .. n - 1 : q[i] <= n /\ q[i] \in Int
  BY <1>0
<1>4. \A i, j \in 0 .. n - 1 : q[i] = q[j] => i = j
  BY DEF Ring
<1>5. ASSUME NEW i \in 0 .. n + u - 1, NEW j \in 0 .. n + u - 1, w[i] = w[j]
      PROVE  i = j
  <2>1. CASE i <= k
    BY <1>1, <1>3, <1>4, <1>5, <2>1
  <2>2. CASE i > k /\ i <= k + u
    BY <1>1, <1>3, <1>4, <1>5, <2>2
  <2>3. CASE i > k + u
    <3>1. w[i] = q[i - u] /\ i - u \in 0 .. n - 1
      BY <1>1, <2>3
    <3>2. CASE j > k + u
      <4>1. w[j] = q[j - u] /\ j - u \in 0 .. n - 1
        BY <1>1, <3>2
      <4>2. i - u = j - u
        BY <1>4, <1>5, <3>1, <4>1
      <4> QED
        BY <4>2
    <3>3. CASE j <= k
      <4>1. i - u = j
        BY <1>1, <1>4, <1>5, <3>1, <3>3
      <4> QED
        BY <2>3, <3>3, <4>1
    <3>4. CASE j > k /\ j <= k + u
      <4>1. w[j] = n + (j - k) /\ n + (j - k) > n
        BY <1>1, <3>4
      <4>2. q[i - u] <= n /\ q[i - u] \in Int
        BY <1>3, <3>1
      <4>3. q[i - u] = n + (j - k)
        BY <1>5, <3>1, <4>1
      <4> QED
        BY <4>1, <4>2, <4>3
    <3> QED
      BY <3>2, <3>3, <3>4
  <2> QED
    BY <2>1, <2>2, <2>3
<1>6. ASSUME NEW b \in 1 .. n + u
      PROVE  \E i \in 0 .. n + u - 1 : w[i] = b
  <2>1. CASE b > n
    <3>1. (b - n) + k \in 0 .. n + u - 1 /\ (b - n) + k > k /\ (b - n) + k <= k + u /\ n + (((b - n) + k) - k) = b
      BY <2>1
    <3> QED
      BY <1>1, <3>1
  <2>2. CASE b <= n
    <3>1. PICK i \in 0 .. n - 1 : q[i] = b
      BY <2>2 DEF Ring
    <3>2. CASE i <= k
      <4>1. i \in 0 .. n + u - 1
        OBVIOUS
      <4> QED
        BY <1>1, <3>1, <3>2, <4>1
    <3>3. CASE i > k
      <4>1. i + u \in 0 .. n + u - 1 /\ i + u > k + u /\ (i + u) - u = i
        BY <3>3
      <4> QED
        BY <1>1, <3>1, <4>1
    <3> QED
      BY <3>2, <3>3
  <2> QED
    BY <2>1, <2>2
<1>7. /\ y[q[k]] = n + 1 /\ y[n + u] = x[q[k]]
       /\ \A b \in 1 .. n : b # q[k] => y[b] = x[b]
  <2>1. PICK p \in 1 .. n : p = q[k]
    BY <1>0
  <2>2. \A b \in 1 .. n + u : y[b] = IF b = p THEN n + 1 ELSE IF b = n + u THEN x[p] ELSE IF b > n THEN b + 1 ELSE x[b]
    BY <2>1 DEF Longer
  <2>3. /\ p \in 1 .. n + u /\ n + u \in 1 .. n + u /\ n + u # p
        /\ \A b \in 1 .. n : b \in 1 .. n + u /\ b # n + u /\ ~ (b > n)
    OBVIOUS
  <2>4. y[p] = n + 1 /\ y[n + u] = x[p]
    BY <2>2, <2>3
  <2>5. \A b \in 1 .. n : b # p => y[b] = x[b]
    BY <2>2, <2>3
  <2> QED
    BY <2>1, <2>4, <2>5
<1>8. \A o \in n + 1 .. n + u - 1 : y[o] = o + 1
  <2> TAKE o \in n + 1 .. n + u - 1
  <2>1. PICK p \in 1 .. n : p = q[k]
    BY <1>0
  <2>2. o \in 1 .. n + u /\ o # p /\ o # n + u /\ o > n
    OBVIOUS
  <2>3. y[o] = IF o = p THEN n + 1 ELSE IF o = n + u THEN x[p] ELSE IF o > n THEN o + 1 ELSE x[o]
    BY <2>1, <2>2 DEF Longer
  <2> QED
    BY <2>2, <2>3
<1>9. \A j \in 0 .. n - 1 : x[q[j]] = IF j = n - 1 THEN q[0] ELSE q[j + 1]
  BY DEF Ring
<1>10. ASSUME NEW i \in 0 .. n + u - 1
      PROVE  y[w[i]] = IF i = n + u - 1 THEN w[0] ELSE w[i + 1]
  <2>0. w[0] = q[0]
    <3>1. 0 \in 0 .. n + u - 1 /\ 0 <= k
      OBVIOUS
    <3> QED
      BY <1>1, <3>1
  <2>1. CASE i < k
    <3>1. w[i] = q[i] /\ i \in 0 .. n - 1 /\ w[i] # q[k] /\ w[i] <= n
      BY <1>1, <1>3, <1>4, <2>1
    <3>2. y[w[i]] = x[q[i]]
      BY <1>0, <1>7, <3>1
    <3>3. w[i + 1] = q[i + 1] /\ i # n - 1 /\ i # n + u - 1
      BY <1>1, <2>1
    <3> QED
      BY <1>9, <2>0, <3>1, <3>2, <3>3
  <2>2. CASE i = k
    <3>1. w[i] = q[k]
      BY <1>1, <2>2
    <3>2. y[w[i]] = n + 1
      BY <1>0, <1>7, <3>1
    <3>3. i + 1 \in 0 .. n + u - 1 /\ i + 1 > k /\ i + 1 <= k + u /\ i # n + u - 1 /\ n + ((i + 1) - k) = n + 1
      BY <2>2
    <3> QED
      BY <1>1, <3>2, <3>3
  <2>3. CASE i > k /\ i < k + u
    <3>1. w[i] = n + (i - k) /\ n + (i - k) \in n + 1 .. n + u - 1
      BY <1>1, <2>3
    <3>2. y[w[i]] = n + (i - k) + 1
      <4>1. PICK o \in n + 1 .. n + u - 1 : o = w[i] /\ o = n + (i - k)
        BY <3>1
      <4>2. y[o] = o + 1
        BY <1>8
      <4> QED
        BY <4>1, <4>2
    <3>3. i + 1 \in 0 .. n + u - 1 /\ i + 1 > k /\ i + 1 <= k + u /\ i # n + u - 1 /\ n + ((i + 1) - k) = n + (i - k) + 1
      BY <2>3
    <3> QED
      BY <1>1, <3>2, <3>3
  <2>4. CASE i = k + u
    <3>1. w[i] = n + u /\ w[i] # q[k]
      BY <1>1, <1>3, <2>4
    <3>2. y[w[i]] = x[q[k]]
      BY <1>0, <1>7, <3>1
    <3>3. CASE k = n - 1
      <4>1. i = n + u - 1
        BY <2>4, <3>3
      <4> QED
        BY <1>9, <2>0, <3>2, <3>3, <4>1
    <3>4. CASE k # n - 1
      <4>1. i + 1 \in 0 .. n + u - 1 /\ i + 1 > k + u /\ (i + 1) - u = k + 1 /\ i # n + u - 1
        BY <2>4, <3>4
      <4>2. w[i + 1] = q[k + 1]
        BY <1>1, <4>1
      <4> QED
        BY <1>9, <2>0, <3>2, <3>4, <4>1, <4>2
    <3> QED
      BY <3>3, <3>4
  <2>5. CASE i > k + u
    <3>1. w[i] = q[i - u] /\ i - u \in 0 .. n - 1 /\ i - u # k
      BY <1>1, <2>5
    <3>2. w[i] # q[k] /\ w[i] <= n /\ w[i] # n + u
      BY <1>3, <1>4, <3>1
    <3>3. y[w[i]] = x[q[i - u]]
      BY <1>0, <1>7, <3>1, <3>2
    <3>4. CASE i = n + u - 1
      <4>1. i - u = n - 1
        BY <3>4
      <4> QED
        BY <1>9, <2>0, <3>1, <3>3, <3>4, <4>1
    <3>5. CASE i # n + u - 1
      <4>1. i + 1 \in 0 .. n + u - 1 /\ i + 1 > k + u /\ (i + 1) - u = (i - u) + 1 /\ i - u # n - 1
        BY <2>5, <3>5
      <4>2. w[i + 1] = q[(i - u) + 1]
        BY <1>1, <4>1
      <4> QED
        BY <1>9, <2>0, <3>1, <3>3, <3>5, <4>1, <4>2
    <3> QED
      BY <3>4, <3>5
  <2> QED
    BY <2>1, <2>2, <2>3, <2>4, <2>5
<1>11. Ring(y, n + u, w)
  <2>1. (n + u) - 1 = n + u - 1 /\ y \in [1 .. n + u -> 1 .. n + u]
    BY DEF Longer
  <2> HIDE DEF w
  <2> QED
    BY <1>2, <1>5, <1>6, <1>10, <2>1 DEF Ring
<1>12. \A i \in 0 .. k : w[i] = q[i]
  BY <1>1
<1> QED
  BY <1>2, <1>11, <1>12 DEF w

LEMMA IncreaseKeeps ==
  ASSUME Buf!SndBufferAssumption, BufIInv, Buf!increase
  PROVE  BufIInv'
<1>1. PICK n \in Nat \ {0} : \E q : \E c \in Nat : Queued(n, q, c)
  BY DEF BufIInv, QueueOK
<1>2. PICK q : \E c \in Nat : Queued(n, q, c)
  BY <1>1
<1>3. PICK c \in Nat : Queued(n, q, c)
  BY <1>2
<1>4. PICK k \in 0 .. n - 1 : k = added - acked
  BY <1>3 DEF Queued, BufIInv, Buf!TypeOK
<1>5. PICK u \in Nat \ {0} : u = Unit
  BY DEF Buf!SndBufferAssumption
<1>6. chain \in Buf!Chains(n) /\ chain.size = n /\ chain.last = q[k] /\ Ring(chain.next, n, q)
  BY <1>3, <1>4 DEF Queued, Buf!Chains
<1> DEFINE y == [b \in 1 .. n + u |-> IF b = q[k] THEN n + 1 ELSE IF b = n + u THEN chain.next[q[k]]
                                      ELSE IF b > n THEN b + 1 ELSE chain.next[b]]
           d == [b \in 1 .. n + u |-> IF b <= n THEN chain.data[b] ELSE 0]
           w == Widened(n, q, k, u)
<1>7. /\ n + u <= MaxBlocks
      /\ chain' = [chain EXCEPT !.next = y, !.size = n + u, !.data = d]
      /\ UNCHANGED <<blockCount, caller, added, acked, short>>
  BY <1>5, <1>6 DEF Buf!increase, Buf!Grown
<1>8. y \in [1 .. n + u -> 1 .. n + u]
  <2>1. chain.next \in [1 .. n -> 1 .. n] /\ q[k] \in 1 .. n
    BY <1>6 DEF Ring
  <2>2. PICK x : x = chain.next /\ \A b \in 1 .. n : x[b] \in 1 .. n + u
    <3>1. \A b \in 1 .. n : chain.next[b] \in 1 .. n
      BY <2>1
    <3>2. \A b \in 1 .. n : chain.next[b] \in 1 .. n + u
      BY <3>1
    <3> QED
      BY <3>2
  <2>3. PICK p \in 1 .. n : p = q[k]
    BY <2>1
  <2>4. y = [b \in 1 .. n + u |-> y[b]]
    OBVIOUS
  <2>5. \A b \in 1 .. n + u : y[b] = IF b = p THEN n + 1 ELSE IF b = n + u THEN x[p] ELSE IF b > n THEN b + 1 ELSE x[b]
    BY <2>2, <2>3
  <2> HIDE DEF y
  <2>6. ASSUME NEW b \in 1 .. n + u
        PROVE  y[b] \in 1 .. n + u
    <3>1. y[b] = IF b = p THEN n + 1 ELSE IF b = n + u THEN x[p] ELSE IF b > n THEN b + 1 ELSE x[b]
      BY <2>5
    <3>2. n + 1 \in 1 .. n + u /\ x[p] \in 1 .. n + u
      BY <2>2
    <3>3. CASE b > n /\ b # n + u
      <4>1. b + 1 \in 1 .. n + u
        BY <3>3
      <4> QED
        BY <3>1, <3>2, <3>3, <4>1
    <3>4. CASE b <= n
      <4>1. b \in 1 .. n /\ ~ (b > n) /\ b # n + u
        BY <3>4
      <4>2. x[b] \in 1 .. n + u
        BY <2>2, <4>1
      <4>3. y[b] = IF b = p THEN n + 1 ELSE x[b]
        BY <3>1, <4>1
      <4> QED
        BY <3>2, <4>2, <4>3
    <3>5. CASE b = n + u
      BY <3>1, <3>2, <3>5
    <3> QED
      BY <3>3, <3>4, <3>5
  <2> QED
    BY <2>4, <2>6
<1>9. d \in [1 .. n + u -> Nat] /\ \A b \in 1 .. n : d[b] = chain.data[b]
  <2>1. chain.data \in [1 .. n -> Nat]
    BY <1>6 DEF Buf!Chains
  <2> QED
    BY <2>1
<1>10. Longer(y, chain.next, n, u, q[k])
  BY <1>8 DEF Longer
<1> HIDE DEF y, d, w
<1>11. Ring(y, n + u, w) /\ \A i \in 0 .. k : w[i] = q[i]
  BY <1>6, <1>10, WidenedIsRing DEF w
<1>12. n + u \in Nat \ {0} /\ n + u \in Unit .. MaxBlocks
  BY <1>5, <1>7 DEF Buf!SndBufferAssumption
<1>13. /\ chain'.next = y /\ chain'.data = d /\ chain'.size = n + u
       /\ chain'.first = chain.first /\ chain'.curr = chain.curr /\ chain'.last = chain.last
       /\ chain' \in Buf!Chains(n + u)
  <2>1. chain.first \in 1 .. n + u /\ chain.curr \in 1 .. n + u /\ chain.last \in 1 .. n + u
    <3>1. chain.first \in 1 .. n /\ chain.curr \in 1 .. n /\ chain.last \in 1 .. n
      BY <1>6 DEF Buf!Chains
    <3> QED
      BY <3>1
  <2>2. chain' = [next |-> y, data |-> d, first |-> chain.first, curr |-> chain.curr, last |-> chain.last, size |-> n + u]
    BY <1>6, <1>7 DEF Buf!Chains
  <2> QED
    BY <1>8, <1>9, <2>1, <2>2 DEF Buf!Chains
<1>14. Buf!TypeOK' /\ Buf!CountOK'
  <2>1. Buf!TypeOK'
    BY <1>7, <1>12, <1>13 DEF Buf!TypeOK, BufIInv
  <2>2. Buf!CountOK'
    BY <1>7 DEF Buf!CountOK, BufIInv
  <2> QED
    BY <2>1, <2>2
<1>15. Queued(n + u, w, c)'
  <2>1. c \in 0 .. k /\ chain.first = q[0] /\ chain.curr = q[c] /\ chain.last = q[k]
    BY <1>3, <1>4 DEF Queued
  <2>2. w[0] = q[0] /\ w[c] = q[c] /\ w[k] = q[k]
    BY <1>11, <2>1
  <2>3. ASSUME NEW i \in 0 .. k - 1
        PROVE  d[w[i]] = acked + i + 1
    <3>1. w[i] = q[i] /\ q[i] \in 1 .. n
      <4>1. q \in [0 .. n - 1 -> 1 .. n]
        BY <1>6 DEF Ring
      <4>2. i \in 0 .. k /\ i \in 0 .. n - 1
        OBVIOUS
      <4> QED
        BY <1>11, <4>1, <4>2
    <3>2. chain.data[q[i]] = acked + i + 1
      BY <1>3, <1>4 DEF Queued
    <3> QED
      BY <1>9, <3>1, <3>2
  <2>4. k < n + u /\ added' - acked' = k
    BY <1>4, <1>7
  <2> QED
    BY <1>7, <1>11, <1>12, <1>13, <2>1, <2>2, <2>3, <2>4 DEF Queued
<1>16. QueueOK'
  BY <1>12, <1>15 DEF QueueOK
<1> QED
  BY <1>14, <1>16 DEF BufIInv

LEMMA FillsKeeps ==
  ASSUME Buf!SndBufferAssumption, BufIInv, Buf!fills
  PROVE  BufIInv'
<1>1. PICK n \in Nat \ {0} : \E q : \E c \in Nat : Queued(n, q, c)
  BY DEF BufIInv, QueueOK
<1>2. PICK q : \E c \in Nat : Queued(n, q, c)
  BY <1>1
<1>3. PICK c \in Nat : Queued(n, q, c)
  BY <1>2
<1>4. PICK k \in 0 .. n - 1 : k = added - acked
  BY <1>3 DEF Queued, BufIInv, Buf!TypeOK
<1>5. chain \in Buf!Chains(n) /\ chain.size = n /\ chain.last = q[k] /\ Ring(chain.next, n, q)
  BY <1>3, <1>4 DEF Queued, Buf!Chains
<1>6. PICK have \in Nat : have = caller.have
  BY DEF BufIInv, Buf!TypeOK
<1>7. k + have < n
  <2>1. caller.pc = "grow" /\ ~ (caller.size + blockCount >= n) /\ have <= caller.size
    BY <1>5, <1>6 DEF Buf!fills, Buf!Full, BufIInv, Buf!CountOK
  <2>2. blockCount >= added - acked
    BY <2>1 DEF BufIInv, Buf!CountOK, Buf!TypeOK
  <2>3. caller.size \in Nat /\ blockCount \in Int
    BY DEF BufIInv, Buf!TypeOK
  <2> QED
    BY <1>4, <2>1, <2>2, <2>3
<1>8. /\ \A i, o \in 0 .. n - 1 : Buf!After(q[i], o) = At(n, q, i + o)
      /\ \A i, j \in 0 .. n - 1 : Buf!Distance(q[i], q[j]) = Between(n, i, j)
  BY <1>3, WalkedAndMeasured, SMTT(40)
<1>9. Buf!After(chain.last, have) = q[k + have]
  <2>1. have \in 0 .. n - 1
    BY <1>7
  <2> QED
    BY <1>5, <1>7, <1>8, <2>1 DEF At
<1> DEFINE d == [b \in 1 .. n |-> IF Buf!Distance(chain.last, b) < have THEN added + Buf!Distance(chain.last, b) + 1 ELSE chain.data[b]]
<1>10. /\ chain' = [chain EXCEPT !.last = q[k + have], !.data = d]
       /\ added' = added + have /\ short' = (short \/ have < caller.size)
       /\ caller' = [caller EXCEPT !.pc = "count"] /\ UNCHANGED <<blockCount, acked>>
       /\ caller.pc = "grow"
  BY <1>5, <1>6, <1>9 DEF Buf!fills
<1>11. added \in Nat /\ acked \in Nat /\ blockCount \in Int /\ short \in BOOLEAN
  BY DEF BufIInv, Buf!TypeOK
<1>12. \A j \in 0 .. n - 1 : /\ q[j] \in 1 .. n
                             /\ j < k => d[q[j]] = chain.data[q[j]]
                             /\ j >= k /\ j < k + have => d[q[j]] = added + (j - k) + 1
                             /\ d[q[j]] \in Nat
  <2> TAKE j \in 0 .. n - 1
  <2>1. q[j] \in 1 .. n
    BY <1>5 DEF Ring
  <2>2. Buf!Distance(chain.last, q[j]) = Between(n, k, j)
    BY <1>5, <1>8
  <2>3. d[q[j]] = IF Between(n, k, j) < have THEN added + Between(n, k, j) + 1 ELSE chain.data[q[j]]
    BY <2>1, <2>2
  <2> HIDE DEF d
  <2>4. Between(n, k, j) \in Nat /\ (j >= k => Between(n, k, j) = j - k) /\ (j < k => ~ (Between(n, k, j) < have))
    BY <1>7 DEF Between
  <2>5. chain.data[q[j]] \in Nat
    BY <1>5, <2>1 DEF Buf!Chains
  <2>6. j < k => d[q[j]] = chain.data[q[j]]
    BY <2>3, <2>4
  <2>7. j >= k /\ j < k + have => d[q[j]] = added + (j - k) + 1
    <3>1. j >= k /\ j < k + have => j - k < have
      OBVIOUS
    <3> QED
      BY <2>3, <2>4, <3>1
  <2>8. d[q[j]] \in Nat
    BY <1>11, <2>3, <2>4, <2>5
  <2> QED
    BY <2>1, <2>6, <2>7, <2>8
<1>13. d \in [1 .. n -> Nat]
  <2>1. d = [b \in 1 .. n |-> d[b]]
    OBVIOUS
  <2> HIDE DEF d
  <2>2. \A b \in 1 .. n : d[b] \in Nat
    <3>1. \A b \in 1 .. n : \E j \in 0 .. n - 1 : q[j] = b
      BY <1>5 DEF Ring
    <3> QED
      BY <1>12, <3>1
  <2> QED
    BY <2>1, <2>2
<1> HIDE DEF d
<1>14. k + have \in 0 .. n - 1 /\ q[k + have] \in 1 .. n
  BY <1>7, <1>12
<1>15. /\ chain'.next = chain.next /\ chain'.data = d /\ chain'.size = n
       /\ chain'.first = chain.first /\ chain'.curr = chain.curr /\ chain'.last = q[k + have]
       /\ chain' \in Buf!Chains(n)
  BY <1>5, <1>10, <1>13, <1>14 DEF Buf!Chains
<1>16. Buf!TypeOK'
  <2>1. n \in Unit .. MaxBlocks
    BY <1>3 DEF Queued
  <2>2. caller' \in [pc : {"idle", "grow", "count"}, size : Nat, have : Nat]
    BY <1>10 DEF BufIInv, Buf!TypeOK
  <2>3. added' \in Nat /\ acked' \in Nat /\ blockCount' \in Int /\ short' \in BOOLEAN
    BY <1>10, <1>11
  <2> QED
    BY <1>15, <2>1, <2>2, <2>3 DEF Buf!TypeOK
<1>17. Buf!CountOK'
  <2>1. caller'.pc = "count" /\ caller'.size = caller.size /\ caller'.have = have /\ caller.size \in Nat
    BY <1>6, <1>10 DEF BufIInv, Buf!TypeOK
  <2>2. acked <= added /\ have <= caller.size
    BY <1>6 DEF BufIInv, Buf!CountOK
  <2>3. IF short THEN blockCount >= added - acked ELSE blockCount = added - acked
    BY <1>10 DEF BufIInv, Buf!CountOK
  <2>4. IF short' THEN blockCount' + caller'.size >= added' - acked' ELSE blockCount' + caller'.size = added' - acked'
    <3>0. /\ added' = added + have /\ acked' = acked /\ blockCount' = blockCount /\ caller'.size = caller.size
          /\ (short' <=> (short \/ have < caller.size))
      BY <1>10, <2>1
    <3>1. CASE short
      <4>1. blockCount >= added - acked /\ short'
        BY <2>3, <3>0, <3>1
      <4>2. blockCount + caller.size >= (added + have) - acked
        BY <1>11, <2>1, <2>2, <4>1
      <4> QED
        BY <3>0, <4>1, <4>2
    <3>2. CASE ~ short
      <4>1. blockCount = added - acked
        BY <2>3, <3>2
      <4>2. blockCount + caller.size >= (added + have) - acked
        BY <1>11, <2>1, <2>2, <4>1
      <4>3. ~ (have < caller.size) => blockCount + caller.size = (added + have) - acked
        BY <1>11, <2>1, <2>2, <4>1
      <4> QED
        BY <3>0, <3>2, <4>2, <4>3
    <3> QED
      BY <3>1, <3>2
  <2>5. acked' <= added' /\ caller'.have <= caller'.size
    BY <1>10, <1>11, <2>1, <2>2
  <2> QED
    BY <2>1, <2>4, <2>5 DEF Buf!CountOK
<1>18. Queued(n, q, c)'
  <2>1. c \in 0 .. k /\ chain.first = q[0] /\ chain.curr = q[c] /\ n \in Unit .. MaxBlocks
    BY <1>3, <1>4 DEF Queued
  <2>2. added' - acked' = k + have
    BY <1>4, <1>10, <1>11
  <2>3. ASSUME NEW i \in 0 .. k + have - 1
        PROVE  d[q[i]] = acked + i + 1
    <3>1. i \in 0 .. n - 1
      BY <1>7
    <3>2. CASE i < k
      <4>1. chain.data[q[i]] = acked + i + 1
        BY <1>3, <1>4, <3>2 DEF Queued
      <4> QED
        BY <1>12, <3>1, <3>2, <4>1
    <3>3. CASE i >= k
      <4>1. d[q[i]] = added + (i - k) + 1
        BY <1>12, <3>1, <3>3
      <4>2. added = acked + k
        BY <1>4, <1>11
      <4> QED
        BY <1>11, <4>1, <4>2
    <3> QED
      BY <3>2, <3>3
  <2>4. c \in 0 .. k + have
    BY <2>1
  <2> QED
    BY <1>5, <1>7, <1>10, <1>15, <2>1, <2>2, <2>3, <2>4 DEF Queued
<1>19. QueueOK'
  BY <1>18 DEF QueueOK
<1> QED
  BY <1>16, <1>17, <1>19 DEF BufIInv

LEMMA ReadDataKeeps ==
  ASSUME Buf!SndBufferAssumption, BufIInv, Buf!readData
  PROVE  BufIInv'
<1>1. PICK n \in Nat \ {0} : \E q : \E c \in Nat : Queued(n, q, c)
  BY DEF BufIInv, QueueOK
<1>2. PICK q : \E c \in Nat : Queued(n, q, c)
  BY <1>1
<1>3. PICK c \in Nat : Queued(n, q, c)
  BY <1>2
<1>4. PICK k \in 0 .. n - 1 : k = added - acked
  BY <1>3 DEF Queued, BufIInv, Buf!TypeOK
<1>5. /\ chain \in Buf!Chains(n) /\ Ring(chain.next, n, q) /\ c \in 0 .. k /\ n \in Unit .. MaxBlocks
      /\ chain.first = q[0] /\ chain.curr = q[c] /\ chain.last = q[k]
      /\ \A i \in 0 .. k - 1 : chain.data[q[i]] = acked + i + 1
  BY <1>3, <1>4 DEF Queued
<1>6. /\ chain.curr # chain.last /\ chain' = [chain EXCEPT !.curr = chain.next[chain.curr]]
      /\ UNCHANGED <<blockCount, caller, added, acked, short>>
  BY DEF Buf!readData, Buf!NoMore
<1>7. c + 1 \in 0 .. k /\ c \in 0 .. n - 1 /\ c # n - 1
  <2>1. c # k
    BY <1>5, <1>6
  <2> QED
    BY <1>5, <2>1
<1>8. chain.next[chain.curr] = q[c + 1] /\ q[c + 1] \in 1 .. n
  <2>1. \A i \in 0 .. n - 1 : chain.next[q[i]] = IF i = n - 1 THEN q[0] ELSE q[i + 1]
    BY <1>5 DEF Ring
  <2>2. c + 1 \in 0 .. n - 1
    BY <1>7
  <2>3. q[c + 1] \in 1 .. n
    BY <1>5, <2>2 DEF Ring
  <2> QED
    BY <1>5, <1>7, <2>1, <2>3
<1>9. /\ chain'.next = chain.next /\ chain'.data = chain.data /\ chain'.size = n
      /\ chain'.first = chain.first /\ chain'.curr = q[c + 1] /\ chain'.last = chain.last
      /\ chain' \in Buf!Chains(n)
  BY <1>5, <1>6, <1>8 DEF Buf!Chains
<1>10. Buf!TypeOK'
  BY <1>5, <1>6, <1>9 DEF Buf!TypeOK, BufIInv
<1>11. Buf!CountOK'
  BY <1>6 DEF Buf!CountOK, BufIInv
<1>12. Queued(n, q, c + 1)'
  <2>1. added' - acked' = k /\ acked' = acked /\ k < n
    BY <1>4, <1>6
  <2> QED
    BY <1>5, <1>7, <1>9, <2>1 DEF Queued
<1>13. QueueOK'
  <2>1. c + 1 \in Nat
    OBVIOUS
  <2> QED
    BY <1>12, <2>1 DEF QueueOK
<1> QED
  BY <1>10, <1>11, <1>13 DEF BufIInv

\* The ring from place k on.
Turned(n, q, k) == [i \in 0 .. n - 1 |-> At(n, q, i + k)]

LEMMA TurnedIsRing ==
  ASSUME NEW n \in Nat \ {0}, NEW x, NEW q, NEW k \in 0 .. n - 1, Ring(x, n, q)
  PROVE  Ring(x, n, Turned(n, q, k))
<1> DEFINE w == Turned(n, q, k)
           At1(i) == IF i + k < n THEN i + k ELSE i + k - n
<1>1. \A i \in 0 .. n - 1 : At1(i) \in 0 .. n - 1 /\ w[i] = q[At1(i)]
  <2> TAKE i \in 0 .. n - 1
  <2>1. w[i] = IF i + k < n THEN q[i + k] ELSE q[i + k - n]
    BY DEF Turned, At
  <2> HIDE DEF w
  <2> QED
    BY <2>1
<1>2. /\ x \in [1 .. n -> 1 .. n] /\ \A i \in 0 .. n - 1 : q[i] \in 1 .. n
      /\ \A i, j \in 0 .. n - 1 : q[i] = q[j] => i = j
      /\ \A b \in 1 .. n : \E i \in 0 .. n - 1 : q[i] = b
      /\ \A i \in 0 .. n - 1 : x[q[i]] = IF i = n - 1 THEN q[0] ELSE q[i + 1]
  BY DEF Ring
<1>3. w \in [0 .. n - 1 -> 1 .. n]
  <2>1. w = [i \in 0 .. n - 1 |-> w[i]]
    BY DEF Turned
  <2> HIDE DEF w, At1
  <2>2. \A i \in 0 .. n - 1 : w[i] \in 1 .. n
    BY <1>1, <1>2
  <2> QED
    BY <2>1, <2>2
<1> HIDE DEF w
<1>4. \A i, j \in 0 .. n - 1 : w[i] = w[j] => i = j
  <2> TAKE i, j \in 0 .. n - 1
  <2>1. w[i] = w[j] => At1(i) = At1(j)
    <3>1. PICK a \in 0 .. n - 1 : a = At1(i) /\ w[i] = q[a]
      BY <1>1
    <3>2. PICK b \in 0 .. n - 1 : b = At1(j) /\ w[j] = q[b]
      BY <1>1
    <3>3. q[a] = q[b] => a = b
      BY <1>2
    <3>4. w[i] = w[j] => a = b
      BY <3>1, <3>2, <3>3
    <3> QED
      BY <3>1, <3>2, <3>4
  <2>2. At1(i) = At1(j) => i = j
    OBVIOUS
  <2> QED
    BY <2>1, <2>2
<1>5. ASSUME NEW b \in 1 .. n
      PROVE  \E i \in 0 .. n - 1 : w[i] = b
  <2>1. PICK j \in 0 .. n - 1 : q[j] = b
    BY <1>2
  <2>2. PICK i \in 0 .. n - 1 : At1(i) = j
    <3>1. CASE j >= k
      <4>1. j - k \in 0 .. n - 1 /\ (j - k) + k = j /\ j < n
        BY <3>1
      <4>2. At1(j - k) = j
        BY <4>1
      <4> QED
        BY <4>1, <4>2
    <3>2. CASE j < k
      <4>1. j - k + n \in 0 .. n - 1 /\ (j - k + n) + k - n = j /\ ~ ((j - k + n) + k < n)
        BY <3>2
      <4>2. At1(j - k + n) = j
        BY <4>1
      <4> QED
        BY <4>1, <4>2
    <3> QED
      BY <3>1, <3>2
  <2> HIDE DEF At1
  <2> QED
    BY <1>1, <2>1, <2>2
<1>6. ASSUME NEW i \in 0 .. n - 1
      PROVE  x[w[i]] = IF i = n - 1 THEN w[0] ELSE w[i + 1]
  <2>1. x[w[i]] = IF At1(i) = n - 1 THEN q[0] ELSE q[At1(i) + 1]
    <3> HIDE DEF At1
    <3> QED
      BY <1>1, <1>2
  <2>2. CASE i = n - 1
    <3>1. 0 \in 0 .. n - 1 /\ w[0] = q[At1(0)] /\ At1(0) = k
      <4>1. 0 \in 0 .. n - 1 /\ At1(0) = k
        OBVIOUS
      <4> QED
        BY <1>1, <4>1
    <3>2. CASE k = 0
      <4>1. At1(i) = n - 1
        BY <2>2, <3>2
      <4> QED
        BY <2>1, <2>2, <3>1, <3>2, <4>1
    <3>3. CASE k # 0
      <4>1. At1(i) = k - 1 /\ k - 1 # n - 1 /\ (k - 1) + 1 = k
        BY <2>2, <3>3
      <4> QED
        BY <2>1, <2>2, <3>1, <4>1
    <3> QED
      BY <3>2, <3>3
  <2>3. CASE i # n - 1
    <3>1. i + 1 \in 0 .. n - 1 /\ w[i + 1] = q[At1(i + 1)]
      <4>1. i + 1 \in 0 .. n - 1
        BY <2>3
      <4> QED
        BY <1>1, <4>1
    <3>2. CASE At1(i) = n - 1
      <4>1. At1(i + 1) = 0
        BY <2>3, <3>2
      <4> QED
        BY <2>1, <2>3, <3>1, <3>2, <4>1
    <3>3. CASE At1(i) # n - 1
      <4>1. At1(i + 1) = At1(i) + 1
        BY <2>3, <3>3
      <4> QED
        BY <2>1, <2>3, <3>1, <3>3, <4>1
    <3> QED
      BY <3>2, <3>3
  <2> QED
    BY <2>2, <2>3
<1>7. Ring(x, n, w)
  BY <1>2, <1>3, <1>4, <1>5, <1>6 DEF Ring
<1> QED
  BY <1>7 DEF w

LEMMA AckDataKeeps ==
  ASSUME Buf!SndBufferAssumption, BufIInv, NEW o, Buf!ackData(o)
  PROVE  BufIInv'
<1>1. PICK n \in Nat \ {0} : \E q : \E c \in Nat : Queued(n, q, c)
  BY DEF BufIInv, QueueOK
<1>2. PICK q : \E c \in Nat : Queued(n, q, c)
  BY <1>1
<1>3. PICK c \in Nat : Queued(n, q, c)
  BY <1>2
<1>4. PICK k \in 0 .. n - 1 : k = added - acked
  BY <1>3 DEF Queued, BufIInv, Buf!TypeOK
<1>5. /\ chain \in Buf!Chains(n) /\ Ring(chain.next, n, q) /\ c \in 0 .. k /\ n \in Unit .. MaxBlocks
      /\ chain.first = q[0] /\ chain.curr = q[c] /\ chain.last = q[k]
      /\ \A i \in 0 .. k - 1 : chain.data[q[i]] = acked + i + 1
  BY <1>3, <1>4 DEF Queued
<1>6. /\ \A i, j \in 0 .. n - 1 : Buf!After(q[i], j) = At(n, q, i + j)
      /\ \A i, j \in 0 .. n - 1 : Buf!Distance(q[i], q[j]) = Between(n, i, j)
  BY <1>3, WalkedAndMeasured, SMTT(40)
<1>7. o \in 1 .. c
  <2>1. 0 \in 0 .. n - 1 /\ c \in 0 .. n - 1
    BY <1>5
  <2>2. Buf!Distance(chain.first, chain.curr) = c
    BY <1>5, <1>6, <2>1 DEF Between
  <2> QED
    BY <2>2 DEF Buf!ackData
<1>8. o \in 0 .. n - 1 /\ o <= k /\ c - o \in 0 .. k - o /\ k - o \in 0 .. n - 1
  BY <1>5, <1>7
<1>9. Buf!After(chain.first, o) = q[o] /\ q[o] \in 1 .. n
  <2>1. 0 \in 0 .. n - 1 /\ 0 + o = o /\ o < n
    BY <1>8
  <2>2. q[o] \in 1 .. n
    BY <1>5, <1>8 DEF Ring
  <2> QED
    BY <1>5, <1>6, <1>8, <2>1, <2>2 DEF At
<1>10. /\ chain' = [chain EXCEPT !.first = q[o]] /\ blockCount' = blockCount - o /\ acked' = acked + o
       /\ UNCHANGED <<caller, added, short>>
  BY <1>9 DEF Buf!ackData
<1>11. /\ chain'.next = chain.next /\ chain'.data = chain.data /\ chain'.size = n
       /\ chain'.first = q[o] /\ chain'.curr = chain.curr /\ chain'.last = chain.last
       /\ chain' \in Buf!Chains(n)
  BY <1>5, <1>9, <1>10 DEF Buf!Chains
<1>12. added \in Nat /\ acked \in Nat /\ blockCount \in Int /\ short \in BOOLEAN /\ o \in Nat
  BY <1>7 DEF BufIInv, Buf!TypeOK
<1>13. Buf!TypeOK'
  <2>1. caller' \in [pc : {"idle", "grow", "count"}, size : Nat, have : Nat]
    BY <1>10 DEF BufIInv, Buf!TypeOK
  <2>2. added' \in Nat /\ acked' \in Nat /\ blockCount' \in Int /\ short' \in BOOLEAN
    BY <1>10, <1>12
  <2> QED
    BY <1>5, <1>11, <2>1, <2>2 DEF Buf!TypeOK
<1>14. Buf!CountOK'
  <2>1. caller.size \in Nat /\ caller' = caller /\ added' = added /\ short' = short
    BY <1>10 DEF BufIInv, Buf!TypeOK
  <2>2. acked' <= added'
    BY <1>4, <1>8, <1>10, <1>12
  <2>3. caller.have <= caller.size
    BY DEF BufIInv, Buf!CountOK
  <2>4. CASE caller.pc = "count"
    <3>1. IF short THEN blockCount + caller.size >= added - acked ELSE blockCount + caller.size = added - acked
      BY <2>4 DEF BufIInv, Buf!CountOK
    <3>2. IF short THEN (blockCount - o) + caller.size >= added - (acked + o)
          ELSE (blockCount - o) + caller.size = added - (acked + o)
      BY <1>12, <2>1, <3>1
    <3> QED
      BY <1>10, <2>1, <2>2, <2>3, <2>4, <3>2 DEF Buf!CountOK
  <2>5. CASE caller.pc # "count"
    <3>1. IF short THEN blockCount >= added - acked ELSE blockCount = added - acked
      BY <2>5 DEF BufIInv, Buf!CountOK
    <3>2. IF short THEN blockCount - o >= added - (acked + o) ELSE blockCount - o = added - (acked + o)
      BY <1>12, <3>1
    <3> QED
      BY <1>10, <2>1, <2>2, <2>3, <2>5, <3>2 DEF Buf!CountOK
  <2> QED
    BY <2>4, <2>5
<1> DEFINE w == Turned(n, q, o)
<1>15. Ring(chain.next, n, w)
  BY <1>5, <1>8, TurnedIsRing
<1>16. \A i \in 0 .. k - o : w[i] = q[i + o] /\ i + o \in 0 .. n - 1
  <2> TAKE i \in 0 .. k - o
  <2>1. i \in 0 .. n - 1 /\ i + o < n /\ i + o \in 0 .. n - 1
    BY <1>7, <1>8
  <2> QED
    BY <2>1 DEF Turned, At
<1> HIDE DEF w
<1>17. Queued(n, w, c - o)'
  <2>1. w[0] = q[o] /\ w[c - o] = q[c] /\ w[k - o] = q[k]
    <3>1. 0 \in 0 .. k - o /\ k - o \in 0 .. k - o /\ 0 + o = o /\ (c - o) + o = c /\ (k - o) + o = k
      BY <1>7, <1>8
    <3> QED
      BY <1>8, <1>16, <3>1
  <2>2. ASSUME NEW i \in 0 .. k - o - 1
        PROVE  chain.data[w[i]] = acked' + i + 1
    <3>1. i \in 0 .. k - o /\ i + o \in 0 .. k - 1 /\ acked + (i + o) + 1 = (acked + o) + i + 1
      BY <1>7, <1>12
    <3> QED
      BY <1>5, <1>10, <1>16, <3>1
  <2>3. added' - acked' = k - o /\ k - o < n
    BY <1>4, <1>8, <1>10, <1>12
  <2> QED
    BY <1>5, <1>8, <1>11, <1>15, <2>1, <2>2, <2>3 DEF Queued
<1>18. QueueOK'
  <2>1. c - o \in Nat
    BY <1>7
  <2> QED
    BY <1>17, <2>1 DEF QueueOK
<1> QED
  BY <1>13, <1>14, <1>18 DEF BufIInv

LEMMA SndBufferSteps ==
  ASSUME Buf!SndBufferAssumption, BufIInv, [Buf!Next]_(Buf!sndBufVars)
  PROVE  BufIInv'
<1>1. CASE UNCHANGED Buf!sndBufVars
  <2>1. UNCHANGED <<chain, blockCount, caller, added, acked, short>>
    BY <1>1 DEF Buf!sndBufVars
  <2>2. Buf!TypeOK' /\ Buf!CountOK'
    <3>1. Buf!TypeOK /\ Buf!CountOK
      BY DEF BufIInv
    <3>2. Buf!TypeOK'
      BY <2>1, <3>1 DEF Buf!TypeOK
    <3>3. Buf!CountOK'
      BY <2>1, <3>1 DEF Buf!CountOK
    <3> QED
      BY <3>2, <3>3
  <2>3. QueueOK'
    BY <2>1, QueueStays
  <2> QED
    BY <2>2, <2>3 DEF BufIInv
<1>2. ASSUME NEW n \in 1 .. MaxAdded, NEW k \in 0 .. n, Buf!addBegins(n, k)
      PROVE  BufIInv'
  BY <1>2, AddBeginsKeeps
<1>3. CASE Buf!increase
  BY <1>3, IncreaseKeeps
<1>4. CASE Buf!fills
  BY <1>4, FillsKeeps
<1>5. CASE Buf!counts
  BY <1>5, CountsKeeps
<1>6. CASE Buf!readData
  BY <1>6, ReadDataKeeps
<1>7. ASSUME NEW o, Buf!ackData(o)
      PROVE  BufIInv'
  BY <1>7, AckDataKeeps
<1> QED
  BY <1>1, <1>2, <1>3, <1>4, <1>5, <1>6, <1>7 DEF Buf!Next

\* However the chain grows behind its last block while the send worker reads ahead and the
\* receive worker releases, it stays one ring that holds in order what was added and has
\* not been released, the reader is never past what is filled, and m_iCount, moved after
\* the blocks are filled and by another amount where a file is short, never claims fewer
\* blocks than are used (buffer.cpp:86, 129).
THEOREM BufferStaysQueue == TablesSpec => []BufferIsQueue
<1>0. Buf!SndBufferAssumption
  BY TablesAssumption
<1>1. TablesInit => BufIInv
  BY <1>0, SndBufferInit DEF TablesInit
<1>2. BufIInv /\ [TablesNext]_tablesVars => BufIInv'
  BY <1>0, StepsOfEach, SndBufferSteps
<1>3. BufIInv => BufferIsQueue
  BY <1>0, QueueIsKept DEF BufferIsQueue
<1> QED
  BY <1>1, <1>2, <1>3, PTL DEF TablesSpec

-----------------------------------------------------------------------------
(* The cache.                                                               *)

LEMMA InfRange == \A f : Inf!Range(f) = {f[x] : x \in DOMAIN f}
BY DEF Inf!Range

LEMMA TakenOut ==
  ASSUME NEW S, NEW t \in Seq(S), NEW n \in 1 .. Len(t)
  PROVE  /\ Inf!RemoveAt(t, n) \in Seq(S) /\ Len(Inf!RemoveAt(t, n)) = Len(t) - 1
         /\ \A i \in 1 .. Len(t) - 1 : Inf!RemoveAt(t, n)[i] = IF i < n THEN t[i] ELSE t[i + 1]
<1> DEFINE a == SubSeq(t, 1, n - 1)
           b == SubSeq(t, n + 1, Len(t))
<1>1. a \in Seq(S) /\ Len(a) = n - 1 /\ \A i \in 1 .. n - 1 : a[i] = t[i]
  <2>1. \A i \in 1 .. n - 1 : t[i] \in S
    BY ElementOfSeq
  <2> QED
    BY <2>1, SubSeqProperties
<1>2. b \in Seq(S) /\ Len(b) = Len(t) - n /\ \A i \in 1 .. Len(t) - n : b[i] = t[n + i]
  <2>1. \A i \in n + 1 .. Len(t) : t[i] \in S
    BY ElementOfSeq
  <2>2. \A i \in 1 .. Len(t) - n : (n + 1) + i - 1 = n + i
    OBVIOUS
  <2> QED
    BY <2>1, <2>2, SubSeqProperties
<1> HIDE DEF a, b
<1>3. /\ a \o b \in Seq(S) /\ Len(a \o b) = (n - 1) + (Len(t) - n)
      /\ \A i \in 1 .. (n - 1) + (Len(t) - n) : (a \o b)[i] = IF i <= n - 1 THEN a[i] ELSE b[i - (n - 1)]
  <2>1. /\ a \o b \in Seq(S) /\ Len(a \o b) = Len(a) + Len(b)
        /\ \A i \in 1 .. Len(a) + Len(b) : (a \o b)[i] = IF i <= Len(a) THEN a[i] ELSE b[i - Len(a)]
    BY <1>1, <1>2, ConcatProperties
  <2> QED
    BY <1>1, <1>2, <2>1
<1>4. Inf!RemoveAt(t, n) = a \o b
  BY DEF Inf!RemoveAt, a, b
<1> DEFINE r == a \o b
<1> HIDE DEF r
<1>5. Len(t) \in Nat /\ (n - 1) + (Len(t) - n) = Len(t) - 1
  OBVIOUS
<1>6. ASSUME NEW i \in 1 .. Len(t) - 1
      PROVE  r[i] = IF i < n THEN t[i] ELSE t[i + 1]
  <2>1. r[i] = IF i <= n - 1 THEN a[i] ELSE b[i - (n - 1)]
    BY <1>3, <1>5 DEF r
  <2>2. CASE i < n
    <3>1. i \in 1 .. n - 1
      BY <1>5, <2>2
    <3> QED
      BY <1>1, <2>1, <2>2, <3>1
  <2>3. CASE i >= n
    <3>1. i - (n - 1) \in 1 .. Len(t) - n /\ n + (i - (n - 1)) = i + 1
      BY <1>5, <2>3
    <3> QED
      BY <1>2, <2>1, <2>3, <3>1
  <2> QED
    BY <1>5, <2>2, <2>3
<1>7. r \in Seq(S) /\ Len(r) = Len(t) - 1
  BY <1>3, <1>5 DEF r
<1> QED
  BY <1>4, <1>6, <1>7 DEF r

LEMMA PutInFront ==
  ASSUME NEW S, NEW t \in Seq(S), NEW e \in S
  PROVE  <<e>> \o t \in Seq(S) /\ Len(<<e>> \o t) = Len(t) + 1 /\ Inf!Range(<<e>> \o t) = {e} \cup Inf!Range(t)
<1>1. <<e>> \in Seq(S) /\ Len(<<e>>) = 1 /\ <<e>>[1] = e
  OBVIOUS
<1> DEFINE r == <<e>> \o t
<1>2. r \in Seq(S) /\ Len(r) = 1 + Len(t) /\ \A i \in 1 .. 1 + Len(t) : r[i] = IF i <= 1 THEN <<e>>[i] ELSE t[i - 1]
  BY <1>1, ConcatProperties
<1> HIDE DEF r
<1>3. Len(t) \in Nat /\ DOMAIN t = 1 .. Len(t) /\ DOMAIN r = 1 .. Len(t) + 1
  <2>1. Len(t) \in Nat /\ 1 + Len(t) = Len(t) + 1
    OBVIOUS
  <2> QED
    BY <1>2, <2>1
<1>4. r[1] = e /\ \A i \in 1 .. Len(t) : r[i + 1] = t[i]
  <2>1. r[1] = e
    BY <1>1, <1>2, <1>3
  <2>2. ASSUME NEW i \in 1 .. Len(t)
        PROVE  r[i + 1] = t[i]
    <3>1. i + 1 \in 1 .. 1 + Len(t) /\ ~ (i + 1 <= 1) /\ (i + 1) - 1 = i
      BY <1>3
    <3> QED
      BY <1>2, <3>1
  <2> QED
    BY <2>1, <2>2
<1>5. ASSUME NEW i \in 1 .. Len(t) + 1
      PROVE  r[i] = e \/ \E j \in 1 .. Len(t) : r[i] = t[j]
  <2>1. CASE i = 1
    BY <1>4, <2>1
  <2>2. CASE i # 1
    <3>1. i - 1 \in 1 .. Len(t) /\ (i - 1) + 1 = i
      BY <1>3, <2>2
    <3> QED
      BY <1>4, <3>1
  <2> QED
    BY <2>1, <2>2
<1>6. 1 \in 1 .. Len(t) + 1 /\ \A i \in 1 .. Len(t) : i + 1 \in 1 .. Len(t) + 1
  BY <1>3
<1>7. \A z : z \in Inf!Range(r) <=> z = e \/ z \in Inf!Range(t)
  <2>1. \A z : z \in Inf!Range(r) <=> \E i \in 1 .. Len(t) + 1 : r[i] = z
    BY <1>3, InfRange
  <2>2. \A z : z \in Inf!Range(t) <=> \E i \in 1 .. Len(t) : t[i] = z
    BY <1>3, InfRange
  <2> QED
    BY <1>4, <1>5, <1>6, <2>1, <2>2
<1> QED
  BY <1>2, <1>3, <1>7 DEF r

\* An entry is put in front: the same entries.
LEMMA MovedToFront ==
  ASSUME NEW S, NEW t \in Seq(S), NEW n \in 1 .. Len(t)
  PROVE  /\ <<t[n]>> \o Inf!RemoveAt(t, n) \in Seq(S) /\ Len(<<t[n]>> \o Inf!RemoveAt(t, n)) = Len(t)
         /\ Inf!Range(<<t[n]>> \o Inf!RemoveAt(t, n)) = Inf!Range(t)
<1>1. PICK r : r = Inf!RemoveAt(t, n)
  OBVIOUS
<1>2. /\ r \in Seq(S) /\ Len(r) = Len(t) - 1
      /\ \A i \in 1 .. Len(t) - 1 : r[i] = IF i < n THEN t[i] ELSE t[i + 1]
  BY <1>1, TakenOut
<1>3. t[n] \in S
  BY ElementOfSeq
<1>4. /\ <<t[n]>> \o r \in Seq(S) /\ Len(<<t[n]>> \o r) = Len(r) + 1
      /\ Inf!Range(<<t[n]>> \o r) = {t[n]} \cup Inf!Range(r)
  BY <1>2, <1>3, PutInFront
<1>5. Len(t) \in Nat /\ DOMAIN t = 1 .. Len(t) /\ DOMAIN r = 1 .. Len(t) - 1 /\ (Len(t) - 1) + 1 = Len(t)
  <2>1. Len(t) \in Nat
    OBVIOUS
  <2> QED
    BY <1>2, <2>1
<1>6. ASSUME NEW i \in 1 .. Len(t) - 1
      PROVE  \E j \in 1 .. Len(t) : r[i] = t[j]
  <2>1. i \in 1 .. Len(t) /\ i + 1 \in 1 .. Len(t)
    BY <1>5
  <2> QED
    BY <1>2, <2>1
<1>7. ASSUME NEW j \in 1 .. Len(t), j # n
      PROVE  \E i \in 1 .. Len(t) - 1 : r[i] = t[j]
  <2>1. CASE j < n
    <3>1. j \in 1 .. Len(t) - 1
      BY <1>5, <2>1
    <3> QED
      BY <1>2, <2>1, <3>1
  <2>2. CASE j > n
    <3>1. j - 1 \in 1 .. Len(t) - 1 /\ ~ (j - 1 < n) /\ (j - 1) + 1 = j
      BY <1>5, <2>2
    <3> QED
      BY <1>2, <3>1
  <2> QED
    BY <1>5, <1>7, <2>1, <2>2
<1>8. \A z : z \in {t[n]} \cup Inf!Range(r) <=> z \in Inf!Range(t)
  <2>1. \A z : z \in Inf!Range(r) <=> \E i \in 1 .. Len(t) - 1 : r[i] = z
    BY <1>5, InfRange
  <2>2. \A z : z \in Inf!Range(t) <=> \E i \in 1 .. Len(t) : t[i] = z
    BY <1>5, InfRange
  <2> QED
    BY <1>6, <1>7, <2>1, <2>2
<1> QED
  BY <1>1, <1>2, <1>4, <1>5, <1>8

CacheIInv == Inf!TypeOK /\ Inf!SizeIsLength /\ Inf!HeldOK

LEMMA InfConstants ==
  ASSUME Inf!InfoCacheAssumption
  PROVE  /\ Hosts # {} /\ V6 \subseteq Hosts /\ MaxSize \in Nat \ {0} /\ 0 \notin Values /\ 0 \in LastWords
         /\ \A h \in Hosts : Word[h] \in Int /\ FourthWord[h] \in LastWords
         /\ \A u \in LastWords : u \in Int
BY DEF Inf!InfoCacheAssumption, Inf!NoValue

\* A bucket of the table, for every address whose key is not negative.
LEMMA BucketOfAll ==
  ASSUME Inf!InfoCacheAssumption, NEW h \in Hosts
  PROVE  /\ Inf!Address(h) \in [host : Hosts, last : LastWords] /\ Inf!Address(h).host = h
         /\ Inf!getKey(Inf!Address(h)) \in Int
         /\ Inf!getKey(Inf!Address(h)) >= 0 => Inf!BucketOf(Inf!Address(h)) \in Inf!Keys
<1>1. Inf!Address(h) = [host |-> h, last |-> FourthWord[h]] /\ FourthWord[h] \in LastWords
  BY InfConstants DEF Inf!Address
<1>2. Inf!getKey(Inf!Address(h)) = Word[h] + FourthWord[h] /\ Word[h] \in Int /\ FourthWord[h] \in Int
  BY <1>1, InfConstants DEF Inf!getKey
<1>3. PICK k \in Int : k = Inf!getKey(Inf!Address(h))
  BY <1>2
<1>4. k >= 0 => Inf!BucketOf(Inf!Address(h)) \in Inf!Keys
  <2>1. MaxSize \in Nat \ {0} /\ 3 * MaxSize \in Nat \ {0}
    BY InfConstants
  <2>2. k % (3 * MaxSize) \in 0 .. 3 * MaxSize - 1
    BY <2>1
  <2>3. k >= 0 /\ ~ (k >= MaxSize) => k \in 0 .. 3 * MaxSize - 1
    BY <2>1
  <2> QED
    BY <1>3, <2>2, <2>3 DEF Inf!BucketOf, Inf!Keys, Inf!HashSize
<1> QED
  BY <1>1, <1>2, <1>3, <1>4

LEMMA FirstIsIn ==
  ASSUME NEW S \in SUBSET Nat, S # {}
  PROVE  Inf!First(S) \in S
BY LeastOf DEF Inf!First

\* Before the cache first overflows, what ends a search for an IPv4 host is its item.
LEMMA EndsAtHeld ==
  ASSUME Inf!InfoCacheAssumption, CacheIInv, ~ overflown, NEW h \in Hosts \ V6, NEW k \in Inf!Keys,
         k = Inf!BucketOf(Inf!Address(h))
  PROVE  /\ Inf!Ends(buckets[k], Inf!Address(h)) \in SUBSET Nat
         /\ \A n \in Inf!Ends(buckets[k], Inf!Address(h)) :
              n \in DOMAIN buckets[k] /\ buckets[k][n] \in Inf!Held(h) /\ buckets[k][n] \in Inf!Range(storage)
         /\ Inf!Ends(buckets[k], Inf!Address(h)) = {} <=> Inf!Held(h) = {}
<1>1. PICK t : t = buckets[k]
  OBVIOUS
<1>2. t \in Seq(Inf!Items) /\ DOMAIN t = 1 .. Len(t) /\ Len(t) \in Nat
  BY <1>1 DEF CacheIInv, Inf!TypeOK
<1>3. \A n \in DOMAIN t : t[n] \in Inf!Range(t) /\ t[n] \in Inf!Range(storage)
  <2>1. Inf!Range(t) \subseteq Inf!Range(storage)
    BY <1>1 DEF CacheIInv, Inf!HeldOK
  <2> QED
    BY <2>1, InfRange
<1>4. \A a : Inf!Same(a, Inf!Address(h)) <=> a.host = h
  BY BucketOfAll DEF Inf!Same
<1>5. Inf!Ends(t, Inf!Address(h)) = {n \in DOMAIN t : item[t[n]].address.host = h}
  BY <1>3, <1>4 DEF Inf!Ends
<1>6. Inf!Held(h) = {i \in Inf!Range(t) : item[i].address.host = h}
  BY <1>1 DEF Inf!Held
<1>7. \A i \in Inf!Range(t) : \E n \in DOMAIN t : t[n] = i
  BY InfRange
<1> QED
  BY <1>1, <1>2, <1>3, <1>5, <1>6, <1>7

LEMMA HeldIsFound ==
  ASSUME Inf!InfoCacheAssumption, CacheIInv
  PROVE  Inf!CacheIsMemory
<1> SUFFICES ASSUME ~ overflown, NEW h \in Hosts \ V6, Inf!getKey(Inf!Address(h)) >= 0
             PROVE  Inf!lookup(h) = IF latest[h] = 0 THEN {} ELSE {latest[h]}
  BY DEF Inf!CacheIsMemory, CacheIInv, Inf!LatestIsFound, Inf!NoValue
<1>1. PICK k \in Inf!Keys : k = Inf!BucketOf(Inf!Address(h))
  BY BucketOfAll
<1>2. PICK t, E : t = buckets[k] /\ E = Inf!Ends(t, Inf!Address(h))
  OBVIOUS
<1>3. /\ E \in SUBSET Nat /\ (E = {} <=> Inf!Held(h) = {})
      /\ \A n \in E : t[n] \in Inf!Held(h) /\ t[n] \in Inf!Range(storage)
  BY <1>1, <1>2, EndsAtHeld
<1>4. Inf!lookup(h) = {IF t[n] \in Inf!Range(storage) THEN item[t[n]].value ELSE 0 : n \in Inf!Meets(t, Inf!Address(h))}
  <2>1. Inf!getKey(Inf!Address(h)) \in Int
    BY BucketOfAll
  <2> QED
    BY <1>1, <1>2, <2>1 DEF Inf!lookup, Inf!NoValue
<1>5. IF latest[h] = 0 THEN Inf!Held(h) = {} ELSE \E i \in Inf!Items : Inf!Held(h) = {i} /\ item[i].value = latest[h]
  BY DEF CacheIInv, Inf!HeldOK, Inf!NoValue
<1>6. CASE latest[h] = 0
  <2>1. Inf!Meets(t, Inf!Address(h)) = {}
    BY <1>2, <1>3, <1>5, <1>6 DEF Inf!Meets
  <2> QED
    BY <1>4, <1>6, <2>1
<1>7. CASE latest[h] # 0
  <2>1. PICK i : Inf!Held(h) = {i} /\ item[i].value = latest[h]
    BY <1>5, <1>7
  <2>2. PICK n : n = Inf!First(E)
    OBVIOUS
  <2>3. E # {}
    BY <1>3, <2>1
  <2>4. n \in E
    BY <1>3, <2>2, <2>3, FirstIsIn
  <2>5. Inf!Meets(t, Inf!Address(h)) = {n}
    BY <1>2, <2>2, <2>3 DEF Inf!Meets
  <2>6. t[n] = i /\ t[n] \in Inf!Range(storage)
    BY <1>3, <2>1, <2>4
  <2> QED
    BY <1>4, <1>7, <2>1, <2>5, <2>6
<1> QED
  BY <1>6, <1>7

LEMMA InfoCacheInit ==
  ASSUME Inf!InfoCacheAssumption, Inf!Init
  PROVE  CacheIInv
<1>1. /\ storage = <<>> /\ cacheSize = 0 /\ item = [i \in Inf!Items |-> Inf!Blank]
      /\ buckets = [k \in Inf!Keys |-> <<>>] /\ latest = [h \in Hosts |-> 0]
  BY DEF Inf!Init, Inf!NoneStored, Inf!NoValue
<1>2. undefined = FALSE /\ overflown = FALSE
  BY DEF Inf!Init
<1>3. Inf!Blank \in [address : [host : Hosts, last : LastWords], value : Values \cup {0}]
  <2>1. (CHOOSE h \in Hosts : TRUE) \in Hosts
    BY InfConstants
  <2> QED
    BY <2>1, BucketOfAll DEF Inf!Blank, Inf!NoValue
<1>4. Inf!TypeOK
  <2>1. item \in [Inf!Items -> [address : [host : Hosts, last : LastWords], value : Values \cup {0}]]
    BY <1>1, <1>3
  <2>2. buckets \in [Inf!Keys -> Seq(Inf!Items)] /\ storage \in Seq(Inf!Items)
    BY <1>1
  <2>3. latest \in [Hosts -> Values \cup {0}]
    BY <1>1
  <2>4. undefined \in BOOLEAN /\ overflown \in BOOLEAN
    BY <1>2
  <2> QED
    BY <2>1, <2>2, <2>3, <2>4 DEF Inf!TypeOK, Inf!NoValue
<1>5. Inf!SizeIsLength
  BY <1>1, InfConstants DEF Inf!SizeIsLength
<1>6. Inf!HeldOK
  <2>1. \A k \in Inf!Keys : Inf!Range(buckets[k]) = {}
    BY <1>1, InfRange
  <2>2. \A h \in Hosts : Inf!getKey(Inf!Address(h)) >= 0 => Inf!Held(h) = {} /\ latest[h] = 0
    BY <1>1, <2>1, BucketOfAll DEF Inf!Held
  <2> QED
    BY <2>1, <2>2 DEF Inf!HeldOK, Inf!NoValue
<1> QED
  BY <1>4, <1>5, <1>6 DEF CacheIInv

LEMMA CacheTypes ==
  ASSUME Inf!InfoCacheAssumption, CacheIInv
  PROVE  /\ storage \in Seq(Inf!Items) /\ Len(storage) = cacheSize /\ cacheSize \in Nat /\ cacheSize < MaxSize
         /\ \A k \in Inf!Keys : buckets[k] \in Seq(Inf!Items)
         /\ item \in [Inf!Items -> [address : [host : Hosts, last : LastWords], value : Values \cup {0}]]
         /\ buckets \in [Inf!Keys -> Seq(Inf!Items)]
         /\ latest \in [Hosts -> Values \cup {0}] /\ undefined \in BOOLEAN /\ overflown \in BOOLEAN
BY DEF CacheIInv, Inf!TypeOK, Inf!SizeIsLength, Inf!NoValue

\* latest after an update.
LEMMA LatestTyped ==
  ASSUME Inf!InfoCacheAssumption, CacheIInv, NEW h \in Hosts, NEW v \in Values,
         latest' = IF overflown' THEN Inf!NoneStored ELSE [latest EXCEPT ![h] = v]
  PROVE  /\ latest' \in [Hosts -> Values \cup {0}]
         /\ ~ overflown' => \A g \in Hosts : latest'[g] = IF g = h THEN v ELSE latest[g]
<1>1. latest \in [Hosts -> Values \cup {0}]
  BY CacheTypes
<1>2. Inf!NoneStored = [g \in Hosts |-> 0]
  BY DEF Inf!NoneStored, Inf!NoValue
<1>3. CASE overflown'
  BY <1>2, <1>3
<1>4. CASE ~ overflown'
  BY <1>1, <1>4
<1> QED
  BY <1>3, <1>4

LEMMA RefreshedKeeps ==
  ASSUME Inf!InfoCacheAssumption, CacheIInv, NEW h \in Hosts, NEW v \in Values, NEW k \in Inf!Keys,
         k = Inf!BucketOf(Inf!Address(h)),
         NEW n \in Inf!Ends(buckets[k], Inf!Address(h)), buckets[k][n] \in Inf!Range(storage),
         Inf!Refreshed(k, n, v),
         latest' = IF overflown' THEN Inf!NoneStored ELSE [latest EXCEPT ![h] = v]
  PROVE  CacheIInv'
<1>1. PICK t : t = buckets[k] /\ t \in Seq(Inf!Items)
  BY CacheTypes
<1>2. n \in 1 .. Len(t) /\ DOMAIN t = 1 .. Len(t)
  BY <1>1 DEF Inf!Ends
<1>3. PICK i \in Inf!Items : i = t[n] /\ i \in Inf!Range(storage)
  BY <1>1, <1>2, ElementOfSeq
<1>4. PICK p \in 1 .. Len(storage) : p = Inf!Place(i) /\ storage[p] = i
  <2>1. DOMAIN storage = 1 .. Len(storage)
    BY CacheTypes
  <2>2. \E p \in DOMAIN storage : storage[p] = i
    BY <1>3, InfRange
  <2> QED
    BY <2>1, <2>2 DEF Inf!Place
<1> DEFINE t1 == <<t[n]>> \o Inf!RemoveAt(t, n)
           s1 == <<storage[p]>> \o Inf!RemoveAt(storage, p)
<1>5. /\ storage' = s1 /\ buckets' = [buckets EXCEPT ![k] = t1] /\ item' = [item EXCEPT ![i].value = v]
      /\ UNCHANGED <<cacheSize, undefined, overflown>>
  BY <1>1, <1>3, <1>4 DEF Inf!Refreshed
<1>6. t1 \in Seq(Inf!Items) /\ Inf!Range(t1) = Inf!Range(t)
  BY <1>1, <1>2, MovedToFront
<1>7. s1 \in Seq(Inf!Items) /\ Len(s1) = Len(storage) /\ Inf!Range(s1) = Inf!Range(storage)
  BY CacheTypes, MovedToFront
<1> HIDE DEF t1, s1
<1>8. /\ item' \in [Inf!Items -> [address : [host : Hosts, last : LastWords], value : Values \cup {0}]]
      /\ item'[i].value = v /\ \A j \in Inf!Items : item'[j].address = item[j].address
      /\ \A j \in Inf!Items : j # i => item'[j].value = item[j].value
  <2>1. item \in [Inf!Items -> [address : [host : Hosts, last : LastWords], value : Values \cup {0}]]
    BY CacheTypes
  <2>2. item' = [item EXCEPT ![i] = [item[i] EXCEPT !.value = v]]
    BY <1>5
  <2>3. item[i] \in [address : [host : Hosts, last : LastWords], value : Values \cup {0}]
    BY <2>1
  <2>4. PICK e : e = [item[i] EXCEPT !.value = v]
    OBVIOUS
  <2>5. /\ e \in [address : [host : Hosts, last : LastWords], value : Values \cup {0}]
        /\ e.value = v /\ e.address = item[i].address
    BY <2>3, <2>4
  <2>6. item' = [item EXCEPT ![i] = e]
    BY <2>2, <2>4
  <2> QED
    BY <2>1, <2>5, <2>6
<1>9. \A b \in Inf!Keys : buckets'[b] = IF b = k THEN t1 ELSE buckets[b]
  BY <1>5, CacheTypes
<1>10. \A b \in Inf!Keys : Inf!Range(buckets'[b]) = Inf!Range(buckets[b])
  BY <1>1, <1>6, <1>9
<1>11. Inf!TypeOK'
  <2>1. buckets' \in [Inf!Keys -> Seq(Inf!Items)]
    BY <1>5, <1>6, CacheTypes
  <2>2. undefined' \in BOOLEAN /\ overflown' \in BOOLEAN
    BY <1>5, CacheTypes
  <2>3. latest' \in [Hosts -> Values \cup {0}]
    BY LatestTyped
  <2> QED
    BY <1>5, <1>7, <1>8, <2>1, <2>2, <2>3 DEF Inf!TypeOK, Inf!NoValue
<1>12. Inf!SizeIsLength'
  BY <1>5, <1>7, CacheTypes DEF Inf!SizeIsLength
<1>13. Inf!HeldOK'
  <2> SUFFICES ASSUME ~ overflown'
               PROVE  /\ \A b \in Inf!Keys : Inf!Range(buckets'[b]) \subseteq Inf!Range(storage')
                      /\ \A g \in Hosts \ V6 : Inf!getKey(Inf!Address(g)) >= 0 =>
                           IF latest'[g] = 0 THEN Inf!Held(g)' = {}
                           ELSE \E j \in Inf!Items : Inf!Held(g)' = {j} /\ item'[j].value = latest'[g]
    BY DEF Inf!HeldOK, Inf!NoValue
  <2>1. ~ overflown
    BY <1>5
  <2>2. \A b \in Inf!Keys : Inf!Range(buckets'[b]) \subseteq Inf!Range(storage')
    BY <1>5, <1>7, <1>10, <2>1 DEF CacheIInv, Inf!HeldOK
  <2> SUFFICES ASSUME NEW g \in Hosts \ V6, Inf!getKey(Inf!Address(g)) >= 0
               PROVE  IF latest'[g] = 0 THEN Inf!Held(g)' = {}
                      ELSE \E j \in Inf!Items : Inf!Held(g)' = {j} /\ item'[j].value = latest'[g]
    BY <2>2
  <2>3. Inf!Held(g)' = Inf!Held(g)
    <3>1. PICK b \in Inf!Keys : b = Inf!BucketOf(Inf!Address(g))
      BY BucketOfAll
    <3>2. \A j \in Inf!Range(buckets[b]) : j \in Inf!Items
      BY CacheTypes, InfRange, ElementOfSeq
    <3>3. Inf!Held(g) = {j \in Inf!Range(buckets[b]) : item[j].address.host = g}
      BY <3>1 DEF Inf!Held
    <3>4. Inf!Held(g)' = {j \in Inf!Range(buckets'[b]) : item'[j].address.host = g}
      BY <3>1 DEF Inf!Held
    <3> QED
      BY <1>8, <1>10, <3>2, <3>3, <3>4
  <2>4. IF latest[g] = 0 THEN Inf!Held(g) = {} ELSE \E j \in Inf!Items : Inf!Held(g) = {j} /\ item[j].value = latest[g]
    BY <2>1 DEF CacheIInv, Inf!HeldOK, Inf!NoValue
  <2>5. item[i].address.host = h
    <3>1. Inf!Same(item[i].address, Inf!Address(h))
      BY <1>1, <1>3 DEF Inf!Ends
    <3> QED
      BY <3>1, BucketOfAll DEF Inf!Same
  <2>6. CASE g = h
    <3>1. i \in Inf!Held(g)
      BY <1>1, <1>2, <1>3, <2>5, <2>6, InfRange DEF Inf!Held
    <3>2. Inf!Held(g) = {i}
      BY <2>4, <3>1
    <3>3. latest'[g] = v /\ v # 0
      BY <2>6, LatestTyped, InfConstants
    <3> QED
      BY <1>8, <2>3, <3>2, <3>3
  <2>7. CASE g # h
    <3>1. latest'[g] = latest[g]
      BY <2>7, LatestTyped
    <3>2. i \notin Inf!Held(g)
      BY <2>5, <2>7 DEF Inf!Held
    <3> QED
      BY <1>8, <2>3, <2>4, <3>1, <3>2
  <2> QED
    BY <2>6, <2>7
<1> QED
  BY <1>11, <1>12, <1>13 DEF CacheIInv

\* A new item, while there is room.
LEMMA AddedKeeps ==
  ASSUME Inf!InfoCacheAssumption, CacheIInv, NEW h \in Hosts, NEW v \in Values, NEW k \in Inf!Keys,
         k = Inf!BucketOf(Inf!Address(h)), Inf!Ends(buckets[k], Inf!Address(h)) = {},
         NEW i \in Inf!Items, NEW e, e \in [address : [host : Hosts, last : LastWords], value : Values \cup {0}],
         e.address.host = h, e.value = v, \A b \in Inf!Keys : i \notin Inf!Range(buckets[b]),
         cacheSize + 1 < MaxSize, item' = [item EXCEPT ![i] = e], storage' = <<i>> \o storage,
         cacheSize' = cacheSize + 1, buckets' = [buckets EXCEPT ![k] = <<i>> \o buckets[k]],
         UNCHANGED <<undefined, overflown>>,
         latest' = IF overflown' THEN Inf!NoneStored ELSE [latest EXCEPT ![h] = v]
  PROVE  CacheIInv'
<1>1. PICK t : t = buckets[k] /\ t \in Seq(Inf!Items)
  BY CacheTypes
<1>2. <<i>> \o t \in Seq(Inf!Items) /\ Inf!Range(<<i>> \o t) = {i} \cup Inf!Range(t)
  BY <1>1, PutInFront
<1>3. /\ storage' \in Seq(Inf!Items) /\ Len(storage') = Len(storage) + 1
      /\ Inf!Range(storage') = {i} \cup Inf!Range(storage)
  BY CacheTypes, PutInFront
<1>4. \A b \in Inf!Keys : buckets'[b] = IF b = k THEN <<i>> \o t ELSE buckets[b]
  BY <1>1, CacheTypes
<1>5. /\ item' \in [Inf!Items -> [address : [host : Hosts, last : LastWords], value : Values \cup {0}]]
      /\ item'[i] = e /\ \A j \in Inf!Items : j # i => item'[j] = item[j]
  BY CacheTypes
<1>6. ~ overflown' => \A g \in Hosts : latest'[g] = IF g = h THEN v ELSE latest[g]
  BY LatestTyped
<1>7. Inf!TypeOK'
  <2>1. buckets' \in [Inf!Keys -> Seq(Inf!Items)]
    BY <1>1, <1>2, CacheTypes
  <2>2. undefined' \in BOOLEAN /\ overflown' \in BOOLEAN
    BY CacheTypes
  <2>3. latest' \in [Hosts -> Values \cup {0}]
    BY LatestTyped
  <2> QED
    BY <1>3, <1>5, <2>1, <2>2, <2>3 DEF Inf!TypeOK, Inf!NoValue
<1>8. Inf!SizeIsLength'
  BY <1>3, CacheTypes DEF Inf!SizeIsLength
<1>9. Inf!HeldOK'
  <2> SUFFICES ASSUME ~ overflown'
               PROVE  /\ \A b \in Inf!Keys : Inf!Range(buckets'[b]) \subseteq Inf!Range(storage')
                      /\ \A g \in Hosts \ V6 : Inf!getKey(Inf!Address(g)) >= 0 =>
                           IF latest'[g] = 0 THEN Inf!Held(g)' = {}
                           ELSE \E j \in Inf!Items : Inf!Held(g)' = {j} /\ item'[j].value = latest'[g]
    BY DEF Inf!HeldOK, Inf!NoValue
  <2>1. ~ overflown
    OBVIOUS
  <2>2. \A b \in Inf!Keys : Inf!Range(buckets'[b]) = IF b = k THEN {i} \cup Inf!Range(t) ELSE Inf!Range(buckets[b])
    <3> TAKE b \in Inf!Keys
    <3>1. CASE b = k
      <4>1. buckets'[b] = <<i>> \o t
        BY <1>4, <3>1
      <4> QED
        BY <1>2, <3>1, <4>1
    <3>2. CASE b # k
      <4>1. buckets'[b] = buckets[b]
        BY <1>4, <3>2
      <4> QED
        BY <3>2, <4>1
    <3> QED
      BY <3>1, <3>2
  <2>3. \A b \in Inf!Keys : Inf!Range(buckets'[b]) \subseteq Inf!Range(storage')
    <3> TAKE b \in Inf!Keys
    <3>1. Inf!Range(buckets[b]) \subseteq Inf!Range(storage)
      BY <2>1 DEF CacheIInv, Inf!HeldOK
    <3> QED
      BY <1>1, <1>3, <2>2, <3>1
  <2> SUFFICES ASSUME NEW g \in Hosts \ V6, Inf!getKey(Inf!Address(g)) >= 0
               PROVE  IF latest'[g] = 0 THEN Inf!Held(g)' = {}
                      ELSE \E j \in Inf!Items : Inf!Held(g)' = {j} /\ item'[j].value = latest'[g]
    BY <2>3
  <2>4. PICK b \in Inf!Keys : b = Inf!BucketOf(Inf!Address(g))
    BY BucketOfAll
  <2>5. \A j \in Inf!Range(buckets[b]) : j \in Inf!Items /\ j # i
    BY CacheTypes, InfRange, ElementOfSeq
  <2>6. Inf!Held(g) = {j \in Inf!Range(buckets[b]) : item[j].address.host = g}
    BY <2>4 DEF Inf!Held
  <2>7. Inf!Held(g)' = {j \in Inf!Range(buckets'[b]) : item'[j].address.host = g}
    BY <2>4 DEF Inf!Held
  <2>8. IF latest[g] = 0 THEN Inf!Held(g) = {} ELSE \E j \in Inf!Items : Inf!Held(g) = {j} /\ item[j].value = latest[g]
    BY <2>1 DEF CacheIInv, Inf!HeldOK, Inf!NoValue
  <2>9. CASE g = h
    <3>1. Inf!Held(g) = {}
      BY <2>1, <2>4, <2>9, EndsAtHeld
    <3>2. b = k /\ Inf!Range(buckets'[b]) = {i} \cup Inf!Range(buckets[b])
      BY <1>1, <2>2, <2>4, <2>9
    <3>3. Inf!Held(g)' = {i}
      BY <1>5, <2>5, <2>6, <2>7, <2>9, <3>1, <3>2
    <3>4. latest'[g] = v /\ v # 0
      BY <1>6, <2>9, InfConstants
    <3> QED
      BY <1>5, <3>3, <3>4
  <2>10. CASE g # h
    <3>1. latest'[g] = latest[g]
      BY <1>6, <2>10
    <3>2. Inf!Held(g)' = Inf!Held(g)
      <4>1. \A j \in Inf!Range(buckets'[b]) : j = i \/ j \in Inf!Range(buckets[b])
        BY <1>1, <2>2
      <4>2. \A j \in Inf!Range(buckets[b]) : j \in Inf!Range(buckets'[b]) /\ item'[j] = item[j]
        BY <1>1, <1>5, <2>2, <2>5
      <4>3. item'[i].address.host # g
        BY <1>5, <2>10
      <4> QED
        BY <2>6, <2>7, <4>1, <4>2, <4>3
    <3>3. \A j \in Inf!Held(g) : item'[j] = item[j]
      BY <1>5, <2>5, <2>6
    <3> QED
      BY <2>8, <3>1, <3>2, <3>3
  <2> QED
    BY <2>9, <2>10
<1> QED
  BY <1>7, <1>8, <1>9 DEF CacheIInv

\* A new item, with the oldest taken out for it.
LEMMA OverflowKeeps ==
  ASSUME Inf!InfoCacheAssumption, CacheIInv, NEW h \in Hosts, NEW v \in Values, NEW k \in Inf!Keys,
         NEW i \in Inf!Items, NEW e, e \in [address : [host : Hosts, last : LastWords], value : Values \cup {0}],
         Inf!Overflow(k, [item EXCEPT ![i] = e], <<i>> \o storage),
         latest' = IF overflown' THEN Inf!NoneStored ELSE [latest EXCEPT ![h] = v]
  PROVE  CacheIInv'
<1> DEFINE Records == [address : [host : Hosts, last : LastWords], value : Values \cup {0}]
<1>1. PICK z, kept : z = <<i>> \o storage /\ kept = [item EXCEPT ![i] = e]
  OBVIOUS
<1> DEFINE old == Inf!Last(z)
           j == Inf!getKey(kept[old].address) % Inf!HashSize
           copied == [buckets EXCEPT ![k] = <<Head(z)>> \o @][j]
           gone == {n \in DOMAIN copied : copied[n] \notin Inf!Range(z)
                                           \/ Inf!Same(kept[copied[n]].address, kept[old].address)}
<1>2. /\ storage' = Inf!Front(z)
      /\ undefined' = (gone # {} /\ copied[Inf!First(gone)] \notin Inf!Range(z))
      /\ buckets' = [buckets EXCEPT ![j] = copied,
                                    ![k] = IF gone = {} THEN copied ELSE Inf!RemoveAt(copied, Inf!First(gone))]
      /\ item' = [kept EXCEPT ![old] = Inf!Blank] /\ cacheSize' = cacheSize /\ overflown' = TRUE
  <2>1. Inf!Overflow(k, kept, z)
    BY <1>1
  <2> QED
    BY <2>1, Zenon DEF Inf!Overflow
<1>3. z \in Seq(Inf!Items) /\ Len(z) = Len(storage) + 1 /\ Len(z) \in Nat
  BY <1>1, CacheTypes, PutInFront
<1>4. kept \in [Inf!Items -> Records]
  BY <1>1, CacheTypes
<1>5. old \in Inf!Items
  <2>1. Len(z) \in 1 .. Len(z)
    BY <1>3, CacheTypes
  <2>2. z[Len(z)] \in Inf!Items
    BY <1>3, <2>1, ElementOfSeq
  <2> QED
    BY <2>2 DEF Inf!Last
<1> HIDE DEF old
<1>6. j \in Inf!Keys
  <2>1. kept[old].address \in [host : Hosts, last : LastWords]
    BY <1>4, <1>5
  <2>2. Inf!getKey(kept[old].address) \in Int
    BY <2>1, InfConstants DEF Inf!getKey
  <2>3. 3 * MaxSize \in Nat \ {0}
    BY InfConstants
  <2>4. PICK y \in Int : y = Inf!getKey(kept[old].address)
    BY <2>2
  <2>5. y % (3 * MaxSize) \in 0 .. 3 * MaxSize - 1
    BY <2>3
  <2> QED
    BY <2>4, <2>5 DEF Inf!Keys, Inf!HashSize
<1> HIDE DEF j
<1>7. copied \in Seq(Inf!Items)
  <2>1. z # <<>>
    BY <1>3, CacheTypes
  <2>2. Head(z) \in Inf!Items
    BY <1>3, <2>1, HeadTailProperties
  <2>3. <<Head(z)>> \o buckets[k] \in Seq(Inf!Items)
    BY <2>2, CacheTypes, PutInFront
  <2>4. buckets[j] \in Seq(Inf!Items) /\ buckets \in [Inf!Keys -> Seq(Inf!Items)]
    BY <1>6, CacheTypes
  <2> QED
    BY <1>6, <2>3, <2>4
<1> HIDE DEF copied
<1>8. storage' \in Seq(Inf!Items) /\ Len(storage') = Len(storage)
  <2>1. \A n \in 1 .. Len(z) - 1 : z[n] \in Inf!Items
    BY <1>3, ElementOfSeq
  <2>2. SubSeq(z, 1, Len(z) - 1) \in Seq(Inf!Items) /\ Len(SubSeq(z, 1, Len(z) - 1)) = Len(z) - 1
    BY <1>3, <2>1, SubSeqProperties, CacheTypes
  <2> QED
    BY <1>3, <1>2, <2>2, CacheTypes DEF Inf!Front
<1>9. item' \in [Inf!Items -> Records]
  <2>1. (CHOOSE g \in Hosts : TRUE) \in Hosts
    BY InfConstants
  <2>2. Inf!Blank \in Records
    BY <2>1, BucketOfAll DEF Inf!Blank, Inf!NoValue
  <2> HIDE DEF Records
  <2> QED
    BY <1>4, <1>2, <2>2
<1>10. (IF gone = {} THEN copied ELSE Inf!RemoveAt(copied, Inf!First(gone))) \in Seq(Inf!Items)
  <2>1. DOMAIN copied = 1 .. Len(copied) /\ Len(copied) \in Nat
    BY <1>7
  <2>2. gone \in SUBSET Nat /\ gone \subseteq 1 .. Len(copied)
    BY <2>1
  <2>3. gone # {} => Inf!First(gone) \in 1 .. Len(copied)
    BY <2>2, FirstIsIn
  <2> QED
    BY <1>7, <2>3, TakenOut
<1> HIDE DEF gone
<1>11. buckets' \in [Inf!Keys -> Seq(Inf!Items)]
  BY <1>6, <1>7, <1>2, <1>10, CacheTypes
<1>12. Inf!TypeOK'
  <2>1. undefined' \in BOOLEAN /\ overflown' \in BOOLEAN
    BY <1>2
  <2>2. latest' \in [Hosts -> Values \cup {0}]
    BY LatestTyped
  <2> QED
    BY <1>8, <1>9, <1>11, <2>1, <2>2 DEF Inf!TypeOK, Inf!NoValue
<1>13. Inf!SizeIsLength'
  BY <1>2, <1>8, CacheTypes DEF Inf!SizeIsLength
<1>14. Inf!HeldOK'
  BY <1>2 DEF Inf!HeldOK
<1> QED
  BY <1>12, <1>13, <1>14 DEF CacheIInv

LEMMA InsertedKeeps ==
  ASSUME Inf!InfoCacheAssumption, CacheIInv, NEW h \in Hosts, NEW v \in Values, NEW k \in Inf!Keys,
         k = Inf!BucketOf(Inf!Address(h)), Inf!Ends(buckets[k], Inf!Address(h)) = {}, Inf!Inserted(h, k, v),
         latest' = IF overflown' THEN Inf!NoneStored ELSE [latest EXCEPT ![h] = v]
  PROVE  CacheIInv'
<1>1. PICK i \in Inf!Items, u \in LastWords :
        LET e == [address |-> [host |-> h, last |-> IF h \in V6 THEN u ELSE 0], value |-> v]
        IN  /\ \A b \in Inf!Keys : i \notin Inf!Range(buckets[b])
            /\ IF cacheSize + 1 >= MaxSize THEN Inf!Overflow(k, [item EXCEPT ![i] = e], <<i>> \o storage)
               ELSE /\ item' = [item EXCEPT ![i] = e] /\ storage' = <<i>> \o storage /\ cacheSize' = cacheSize + 1
                    /\ buckets' = [buckets EXCEPT ![k] = <<i>> \o @]
                    /\ UNCHANGED <<undefined, overflown>>
  BY DEF Inf!Inserted
<1>2. PICK e : e = [address |-> [host |-> h, last |-> IF h \in V6 THEN u ELSE 0], value |-> v]
  OBVIOUS
<1>3. e \in [address : [host : Hosts, last : LastWords], value : Values \cup {0}] /\ e.address.host = h /\ e.value = v
  BY <1>2, InfConstants
<1>4. CASE cacheSize + 1 >= MaxSize
  <2>1. Inf!Overflow(k, [item EXCEPT ![i] = e], <<i>> \o storage)
    BY <1>1, <1>2, <1>4
  <2> QED
    BY <1>3, <2>1, OverflowKeeps
<1>5. CASE ~ (cacheSize + 1 >= MaxSize)
  <2>1. /\ \A b \in Inf!Keys : i \notin Inf!Range(buckets[b])
        /\ item' = [item EXCEPT ![i] = e] /\ storage' = <<i>> \o storage /\ cacheSize' = cacheSize + 1
        /\ buckets' = [buckets EXCEPT ![k] = <<i>> \o buckets[k]] /\ UNCHANGED <<undefined, overflown>>
    BY <1>1, <1>2, <1>5
  <2>2. cacheSize + 1 < MaxSize
    BY <1>5, CacheTypes, InfConstants
  <2> QED
    BY <1>3, <2>1, <2>2, AddedKeeps
<1> QED
  BY <1>4, <1>5

LEMMA InfoCacheSteps ==
  ASSUME Inf!InfoCacheAssumption, CacheIInv, [Inf!Next]_(Inf!cacheVars)
  PROVE  CacheIInv'
<1>1. CASE UNCHANGED Inf!cacheVars
  <2>1. UNCHANGED <<storage, item, buckets, cacheSize, undefined, latest, overflown>>
    BY <1>1 DEF Inf!cacheVars
  <2>2. Inf!TypeOK' /\ Inf!SizeIsLength'
    BY <2>1 DEF CacheIInv, Inf!TypeOK, Inf!SizeIsLength
  <2>3. Inf!HeldOK'
    <3>1. \A h : Inf!Held(h)' = Inf!Held(h)
      BY <2>1 DEF Inf!Held
    <3> QED
      BY <2>1, <3>1 DEF CacheIInv, Inf!HeldOK
  <2> QED
    BY <2>2, <2>3 DEF CacheIInv
<1>2. ASSUME NEW h \in Hosts, NEW v \in Values, Inf!update(h, v)
      PROVE  CacheIInv'
  <2>1. Inf!getKey(Inf!Address(h)) >= 0
    BY <1>2 DEF Inf!update
  <2>2. PICK k \in Inf!Keys : k = Inf!BucketOf(Inf!Address(h))
    BY <2>1, BucketOfAll
  <2>3. PICK met : met = Inf!Meets(buckets[k], Inf!Address(h))
    OBVIOUS
  <2>4. /\ \/ met = {} /\ Inf!Inserted(h, k, v)
           \/ \E n \in met :
                \/ buckets[k][n] \in Inf!Range(storage) /\ Inf!Refreshed(k, n, v)
                \/ /\ buckets[k][n] \notin Inf!Range(storage) /\ undefined' = TRUE
                   /\ UNCHANGED <<storage, item, buckets, cacheSize, overflown>>
        /\ latest' = IF overflown' THEN Inf!NoneStored ELSE [latest EXCEPT ![h] = v]
    BY <1>2, <2>2, <2>3 DEF Inf!update
  <2>5. met = {} => Inf!Ends(buckets[k], Inf!Address(h)) = {}
    BY <2>3 DEF Inf!Meets
  <2>6. \A n \in met : n \in Inf!Ends(buckets[k], Inf!Address(h))
    <3>1. Inf!Ends(buckets[k], Inf!Address(h)) \in SUBSET Nat
      <4>1. DOMAIN buckets[k] \subseteq Nat
        <5>1. buckets[k] \in Seq(Inf!Items)
          BY CacheTypes
        <5>2. DOMAIN buckets[k] = 1 .. Len(buckets[k]) /\ Len(buckets[k]) \in Nat
          BY <5>1
        <5> QED
          BY <5>2
      <4> QED
        BY <4>1 DEF Inf!Ends
    <3> QED
      BY <2>3, <3>1, FirstIsIn DEF Inf!Meets
  <2>7. CASE met = {} /\ Inf!Inserted(h, k, v)
    BY <2>2, <2>4, <2>5, <2>7, InsertedKeeps
  <2>8. ASSUME NEW n \in met, buckets[k][n] \in Inf!Range(storage), Inf!Refreshed(k, n, v)
        PROVE  CacheIInv'
    BY <2>2, <2>4, <2>6, <2>8, RefreshedKeeps
  <2>9. ASSUME NEW n \in met, buckets[k][n] \notin Inf!Range(storage), undefined' = TRUE,
               UNCHANGED <<storage, item, buckets, cacheSize, overflown>>
        PROVE  CacheIInv'
    <3>1. overflown
      <4>1. n \in DOMAIN buckets[k]
        BY <2>6 DEF Inf!Ends
      <4>2. buckets[k][n] \in Inf!Range(buckets[k])
        BY <4>1, InfRange
      <4>3. ~ overflown => Inf!Range(buckets[k]) \subseteq Inf!Range(storage)
        BY DEF CacheIInv, Inf!HeldOK
      <4> QED
        BY <2>9, <4>2, <4>3
    <3>2. latest' \in [Hosts -> Values \cup {0}]
      BY <2>4, LatestTyped
    <3>3. Inf!TypeOK'
      BY <2>9, <3>2 DEF CacheIInv, Inf!TypeOK, Inf!NoValue
    <3>4. Inf!SizeIsLength'
      BY <2>9 DEF CacheIInv, Inf!SizeIsLength
    <3>5. Inf!HeldOK'
      BY <2>9, <3>1 DEF Inf!HeldOK
    <3> QED
      BY <3>3, <3>4, <3>5 DEF CacheIInv
  <2> QED
    BY <2>4, <2>7, <2>8, <2>9
<1> QED
  BY <1>1, <1>2 DEF Inf!Next

\* For any hosts, whatever they have as addresses and however they share buckets, the count
\* is the length of the list and stays below the limit, and what close stored for an IPv4
\* host is what the next connect to it finds, until the cache first overflows
\* (cache.h:110-202).
THEOREM CacheRemembers == TablesSpec => []CacheIsMemory
<1>0. Inf!InfoCacheAssumption
  BY TablesAssumption
<1>1. TablesInit => CacheIInv
  BY <1>0, InfoCacheInit DEF TablesInit
<1>2. CacheIInv /\ [TablesNext]_tablesVars => CacheIInv'
  BY <1>0, StepsOfEach, InfoCacheSteps
<1>3. CacheIInv => CacheIsMemory
  BY <1>0, HeldIsFound DEF CacheIsMemory
<1> QED
  BY <1>1, <1>2, <1>3, PTL DEF TablesSpec
-----------------------------------------------------------------------------
(* The messages, whose theorems are in MessagesProofs: what is said there of   *)
(* the same definitions is said of the instance here, one action at a time.    *)

MsgP == INSTANCE MessagesProofs WITH MaxSize <- MaxMessage

LEMMA SameInit ==
  ASSUME Msg!Init
  PROVE  MsgP!Init
BY DEF Msg!Init, MsgP!Init, Msg!NULL, MsgP!NULL, Msg!Slots, MsgP!Slots

LEMMA SameSendmsg ==
  ASSUME NEW size, NEW order, Msg!sendmsg(size, order)
  PROVE  MsgP!sendmsg(size, order)
BY DEF Msg!sendmsg, MsgP!sendmsg, Msg!Added, MsgP!Added

LEMMA SamePackNew ==
  ASSUME Msg!packNew
  PROVE  MsgP!packNew
BY DEF Msg!packNew, MsgP!packNew, Msg!Data, MsgP!Data

LEMMA SamePackLost ==
  ASSUME Msg!packLost
  PROVE  MsgP!packLost
BY DEF Msg!packLost, MsgP!packLost, Msg!Least, MsgP!Least, Msg!Data, MsgP!Data,
       Msg!LostOffset, MsgP!LostOffset, Msg!LostBlock, MsgP!LostBlock

LEMMA SamePackDrop ==
  ASSUME Msg!packDrop
  PROVE  MsgP!packDrop
BY DEF Msg!packDrop, MsgP!packDrop, Msg!LostOffset, MsgP!LostOffset, Msg!Least,
       MsgP!Least, Msg!LostBlock, MsgP!LostBlock, Msg!CurrBehind, MsgP!CurrBehind,
       Msg!Remaining, MsgP!Remaining, Msg!DropTo, MsgP!DropTo, Msg!DropRequest,
       MsgP!DropRequest

LEMMA SameTimePasses ==
  ASSUME NEW msg, Msg!timePasses(msg)
  PROVE  MsgP!timePasses(msg)
BY DEF Msg!timePasses, MsgP!timePasses

LEMMA SameProcessAck ==
  ASSUME NEW m, Msg!processAck(m)
  PROVE  MsgP!processAck(m)
BY DEF Msg!processAck, MsgP!processAck

LEMMA SameProcessNak ==
  ASSUME Msg!processNak
  PROVE  MsgP!processNak
BY DEF Msg!processNak, MsgP!processNak

LEMMA SameCheckTimers ==
  ASSUME Msg!checkTimers
  PROVE  MsgP!checkTimers
BY DEF Msg!checkTimers, MsgP!checkTimers

LEMMA SameProcessData ==
  ASSUME NEW m, Msg!processData(m)
  PROVE  MsgP!processData(m)
BY DEF Msg!processData, MsgP!processData, Msg!NULL, MsgP!NULL, Msg!AvailBufSize,
       MsgP!AvailBufSize, Msg!DataSize, MsgP!DataSize

LEMMA SameSendAck ==
  ASSUME Msg!sendAck
  PROVE  MsgP!sendAck
BY DEF Msg!sendAck, MsgP!sendAck, Msg!AckNumber, MsgP!AckNumber, Msg!Least, MsgP!Least,
       Msg!MaxPosAfter, MsgP!MaxPosAfter

LEMMA SameProcessDrop ==
  ASSUME NEW m, Msg!processDrop(m)
  PROVE  MsgP!processDrop(m)
BY DEF Msg!processDrop, MsgP!processDrop, Msg!Slots, MsgP!Slots, Msg!Marked,
       MsgP!Marked, Msg!Tails, MsgP!Tails, Msg!NULL, MsgP!NULL, Msg!Pos, MsgP!Pos,
       Msg!DataSize, MsgP!DataSize

LEMMA SameRecvmsg ==
  ASSUME Msg!recvmsg
  PROVE  MsgP!recvmsg
BY DEF Msg!recvmsg, MsgP!recvmsg, Msg!Least, MsgP!Least, Msg!Pos, MsgP!Pos,
       Msg!DataSize, MsgP!DataSize, Msg!Block, MsgP!Block, Msg!Skipped, MsgP!Skipped,
       Msg!Good, MsgP!Good, Msg!Tails, MsgP!Tails, Msg!Readable, MsgP!Readable,
       Msg!NULL, MsgP!NULL, Msg!Heads, MsgP!Heads, Msg!Complete, MsgP!Complete,
       Msg!Takeable, MsgP!Takeable, Msg!Greatest, MsgP!Greatest, Msg!Emptied,
       MsgP!Emptied, Msg!Slots, MsgP!Slots, Msg!Ahead, MsgP!Ahead

LEMMA SameMessages == TablesSpec => MsgP!Spec
<1>1. TablesInit => MsgP!Init
  BY SameInit DEF TablesInit
<1>2. [TablesNext]_tablesVars => [MsgP!Next]_(MsgP!msgVars)
  <2> SUFFICES ASSUME [TablesNext]_tablesVars
               PROVE  [MsgP!Next]_(MsgP!msgVars)
    OBVIOUS
  <2>1. [Msg!Next]_(Msg!msgVars)
    BY StepsOfEach
  <2>2. CASE UNCHANGED Msg!msgVars
    BY <2>2 DEF Msg!msgVars, MsgP!msgVars
  <2>3. CASE Msg!Next
    BY <2>3, SameSendmsg, SamePackNew, SamePackLost, SamePackDrop, SameTimePasses,
       SameProcessAck, SameProcessNak, SameCheckTimers, SameProcessData, SameSendAck,
       SameProcessDrop, SameRecvmsg
       DEF Msg!Next, MsgP!Next
  <2> QED
    BY <2>1, <2>2, <2>3
<1> QED
  BY <1>1, <1>2, PTL DEF TablesSpec, MsgP!Spec

\* recvmsg returns what sendmsg was given, each message whole, once, and in order where
\* order was asked for, until a message is given up (buffer.cpp:498-655).
THEOREM TablesReadAsSent == TablesSpec => []ReadAsSent
<1>1. MsgP!MessagesAssumption
  BY TablesAssumption DEF Msg!MessagesAssumption, MsgP!MessagesAssumption
<1>2. MsgP!Spec => []MsgP!ReadAsSent
  BY <1>1, MsgP!MessagesArriveWhole
<1>3. MsgP!ReadAsSent => ReadAsSent
  BY DEF ReadAsSent, Msg!ReadAsSent, MsgP!ReadAsSent, Msg!ReadIsWhole, MsgP!ReadIsWhole,
       Msg!ReadOnce, MsgP!ReadOnce, Msg!OrderKept, MsgP!OrderKept
<1> QED
  BY <1>2, <1>3, SameMessages, PTL

\* What has been acknowledged has been read or can still be, and no unit is left in the
\* ring where neither scanMsg nor addData comes by (buffer.cpp:374-389, 498-655).
THEOREM TablesNothingStranded == TablesSpec => []NothingStranded
<1>1. MsgP!MessagesAssumption
  BY TablesAssumption DEF Msg!MessagesAssumption, MsgP!MessagesAssumption
<1>2. MsgP!Spec => []MsgP!NothingStranded
  BY <1>1, MsgP!NothingIsStranded
<1>3. MsgP!NothingStranded => NothingStranded
  BY DEF NothingStranded, Msg!NothingStranded, MsgP!NothingStranded, Msg!NothingSkipped,
       MsgP!NothingSkipped, Msg!Units, MsgP!Units, Msg!NULL, MsgP!NULL, Msg!Slots,
       MsgP!Slots, Msg!NothingLeaks, MsgP!NothingLeaks, Msg!DataSize, MsgP!DataSize,
       Msg!TypeOK, MsgP!TypeOK, Msg!Blocks, MsgP!Blocks
<1> QED
  BY <1>2, <1>3, SameMessages, PTL
=============================================================================
