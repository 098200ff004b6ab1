------------------------------ MODULE SndBuffer ------------------------------
(***************************************************************************)
(* The blocks of CSndBuffer (buffer.cpp): a circular chain that grows      *)
(* behind its last block while the send worker reads ahead in it and the   *)
(* receive worker releases it from the front.  The caller moves            *)
(* m_pLastBlock before it takes the lock to count, and reads m_iCount      *)
(* without it.                                                             *)
(*                                                                         *)
(* Abstracted: the data of a block is the number of its insertion.         *)
(***************************************************************************)
EXTENDS Integers, Sequences, FiniteSets

CONSTANTS
  Unit,       \* blocks of the first buffer, and of each that is added
  MaxSize,    \* bound: blocks
  MaxAdded    \* bound: blocks ever filled

SndBufferAssumption == {Unit, MaxSize, MaxAdded} \subseteq Nat \ {0} /\ Unit <= MaxSize

VARIABLES
  chain,     \* next: m_pNext; data: what a block holds; m_pFirstBlock, m_pCurrBlock, m_pLastBlock; m_iSize
  count,     \* m_iCount
  caller,    \* what the caller is adding: size, and from a file how much there is
  added,     \* ghost: number of blocks filled so far
  acked,     \* ghost: number of them released
  short      \* ghost: a file ended early

sndBufVars == <<chain, count, caller, added, acked, short>>

Idle == [pc |-> "idle", size |-> 0, have |-> 0]

\* n steps along the chain.
Walk[n \in 0 .. MaxSize] ==
  IF n = 0 THEN [b \in DOMAIN chain.next |-> b]
  ELSE [b \in DOMAIN chain.next |-> chain.next[Walk[n - 1][b]]]

After(b, n) == Walk[n][b]

Distance(b, c) == CHOOSE n \in 0 .. chain.size - 1 : After(b, n) = c

Init ==
  /\ chain = [next |-> [b \in 1 .. Unit |-> IF b = Unit THEN 1 ELSE b + 1], data |-> [b \in 1 .. Unit |-> 0],
              first |-> 1, curr |-> 1, last |-> 1, size |-> Unit]
  /\ count = 0 /\ caller = Idle /\ added = 0 /\ acked = 0 /\ short = FALSE

-----------------------------------------------------------------------------
\* addBuffer, or addBufferFromFile for a file that has as much as asked for or less.
addBegins(size, have) ==
  /\ caller.pc = "idle" /\ added + size <= MaxAdded
  /\ caller' = [pc |-> "grow", size |-> size, have |-> have]
  /\ UNCHANGED <<chain, count, added, acked, short>>

Full == caller.size + count >= chain.size

\* Mutant: the ring is closed at the first block, past those that are free.
GrownOpen ==
  [b \in 1 .. chain.size + Unit |->
     IF b = chain.last THEN chain.size + 1
     ELSE IF b = chain.size + Unit THEN chain.first
     ELSE IF b > chain.size THEN b + 1
     ELSE chain.next[b]]

\* The new blocks come behind m_pLastBlock, which is free itself.
Grown ==
  [b \in 1 .. chain.size + Unit |->
     IF b = chain.last THEN chain.size + 1
     ELSE IF b = chain.size + Unit THEN chain.next[chain.last]
     ELSE IF b > chain.size THEN b + 1
     ELSE chain.next[b]]

increase ==
  /\ caller.pc = "grow" /\ Full /\ chain.size + Unit <= MaxSize
  /\ chain' = [chain EXCEPT !.next = Grown, !.size = @ + Unit,
                            !.data = [b \in 1 .. chain.size + Unit |-> IF b <= chain.size THEN @[b] ELSE 0]]
  /\ UNCHANGED <<count, caller, added, acked, short>>

fills ==
  /\ caller.pc = "grow" /\ ~ Full
  /\ chain' = [chain EXCEPT !.last = After(@, caller.have),
        !.data = [b \in 1 .. chain.size |->
           IF Distance(chain.last, b) < caller.have THEN added + Distance(chain.last, b) + 1 ELSE @[b]]]
  /\ added' = added + caller.have
  /\ short' = (short \/ caller.have < caller.size)
  /\ caller' = [caller EXCEPT !.pc = "count"]
  /\ UNCHANGED <<count, acked>>

Counted == count + caller.size

counts ==
  /\ caller.pc = "count"
  /\ count' = Counted
  /\ caller' = Idle
  /\ UNCHANGED <<chain, added, acked, short>>

-----------------------------------------------------------------------------
NoMore == chain.curr = chain.last

\* The send worker: readData of the next block.
readData ==
  /\ ~ NoMore
  /\ chain' = [chain EXCEPT !.curr = chain.next[@]]
  /\ UNCHANGED <<count, caller, added, acked, short>>

\* The receive worker, for an ACK of blocks that have been sent.
ackData(offset) ==
  /\ offset \in 1 .. Distance(chain.first, chain.curr)
  /\ chain' = [chain EXCEPT !.first = After(@, offset)]
  /\ count' = count - offset
  /\ acked' = acked + offset
  /\ UNCHANGED <<caller, added, short>>

Next ==
  \/ \E size \in 1 .. MaxAdded : \E have \in 0 .. size : addBegins(size, have)
  \/ increase \/ fills \/ counts \/ readData
  \/ \E offset \in 1 .. MaxSize : ackData(offset)

Spec == Init /\ [][Next]_sndBufVars

-----------------------------------------------------------------------------
(* Properties                                                               *)

\* Chains of n blocks.
Chains(n) ==
  [next : [1 .. n -> 1 .. n], data : [1 .. n -> Nat], first : 1 .. n, curr : 1 .. n, last : 1 .. n, size : {n}]

TypeOK ==
  /\ \E n \in Unit .. MaxSize : chain \in Chains(n)
  /\ count \in Int /\ {added, acked} \subseteq Nat /\ short \in BOOLEAN
  /\ caller \in [pc : {"idle", "grow", "count"}, size : Nat, have : Nat]

\* What will have been counted once the caller is done; part of what is inductive.
CountOK ==
  LET counted == IF caller.pc = "count" THEN count + caller.size ELSE count
  IN  /\ acked <= added /\ caller.have <= caller.size
      /\ IF short THEN counted >= added - acked ELSE counted = added - acked

\* The chain stays one ring however it grows, and holds, from the first block to the
\* last, exactly what was added and has not been released, in its order.
ChainIsQueue ==
  /\ {After(chain.first, n) : n \in 0 .. chain.size - 1} = 1 .. chain.size
  /\ Distance(chain.first, chain.last) = added - acked
  /\ \A n \in 0 .. added - acked - 1 : chain.data[After(chain.first, n)] = acked + n + 1

\* What has been read lies in between: a new block is never read before it is filled.
CurrIsBetween == Distance(chain.first, chain.curr) <= Distance(chain.first, chain.last)

\* Between two calls m_iCount is the number of used blocks, unless a file ended early;
\* it is never less, so that the chain grows in time.
CountIsUsed ==
  caller.pc # "count" => IF short THEN count >= added - acked ELSE count = added - acked

\* The ring of blocks is a queue with a reader in it, and is grown in time.
BufferIsQueue == ChainIsQueue /\ CurrIsBetween /\ CountIsUsed
=============================================================================
