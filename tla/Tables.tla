-------------------------------- MODULE Tables --------------------------------
(***************************************************************************)
(* The tables of a socket and of its queues: the loss lists, the buffers,  *)
(* the ACK window, the list of the receive queue, its units and the cache. *)
(* They share nothing here, so a behaviour exercises one of them and the   *)
(* others stay as they are created.                                        *)
(***************************************************************************)
EXTENDS LossLists

CONSTANTS
  MaxPackets, MaxMessage, RcvSize, Window, Mortal,          \* Messages
  Unit, MaxBlocks, MaxAdded,                                \* SndBuffer
  WindowSize, AckTH, MaxStored,                             \* AckWindow
  Sockets, ListHashSize,                                     \* RcvList
  EntrySize, MaxEntries, Num, Den, MaxDrift, MaxSkips, Readers,   \* UnitQueue
  Hosts, V6, Word, LastWords, FourthWord, Values, MaxSize, MaxItems   \* InfoCache

VARIABLES
  snd, expired, dropped, rcv, net, read,
  chain, blockCount, caller, added, acked, short,
  ring, head, tail, stored, heard,
  node, list, hash, newEntry, life, listWorker,
  used, curr, avail, unitCount, unitWorker, reader, skips,
  storage, item, buckets, cacheSize, undefined, latest, overflown,
  exercised

msgVars == <<snd, expired, dropped, rcv, net, read>>
sndBufVars == <<chain, blockCount, caller, added, acked, short>>
ackVars == <<ring, head, tail, stored, heard>>
listVars == <<node, list, hash, newEntry, life, listWorker>>
unitVars == <<used, curr, avail, unitCount, unitWorker, reader, skips>>
cacheVars == <<storage, item, buckets, cacheSize, undefined, latest, overflown>>

Msg == INSTANCE Messages WITH MaxSize <- MaxMessage
Buf == INSTANCE SndBuffer WITH MaxSize <- MaxBlocks, count <- blockCount
Ack == INSTANCE AckWindow
Rcv == INSTANCE RcvList WITH HashSize <- ListHashSize, worker <- listWorker
Unt == INSTANCE UnitQueue WITH count <- unitCount, worker <- unitWorker
Inf == INSTANCE InfoCache WITH size <- cacheSize

ASSUME TablesAssumption ==
  /\ Msg!MessagesAssumption /\ Buf!SndBufferAssumption
  /\ Ack!AckWindowAssumption /\ Rcv!RcvListAssumption /\ Unt!UnitQueueAssumption /\ Inf!InfoCacheAssumption

RcvIdle == l = EmptyList /\ RcvCurrSeqNo = 0 /\ hung = FALSE /\ givenUp = {}

SndIdle == s = Snd!EmptyList /\ SndLastDataAck = 0 /\ SndCurrSeqNo = None

TablesInit ==
  /\ exercised \in {"receiver", "sender", "messages", "buffer", "window", "list", "units", "cache"}
  /\ IF exercised = "receiver" THEN Init ELSE RcvIdle
  /\ IF exercised = "sender" THEN Snd!Init ELSE SndIdle
  /\ Msg!Init /\ Buf!Init /\ Ack!Init /\ Rcv!Init /\ Unt!Init /\ Inf!Init

\* What the structures but the named one keep.
Idle(but) ==
  /\ UNCHANGED exercised
  /\ but # "receiver" => UNCHANGED vars
  /\ but # "sender" => UNCHANGED sndLossVars
  /\ but # "messages" => UNCHANGED msgVars
  /\ but # "buffer" => UNCHANGED sndBufVars
  /\ but # "window" => UNCHANGED ackVars
  /\ but # "list" => UNCHANGED listVars
  /\ but # "units" => UNCHANGED unitVars
  /\ but # "cache" => UNCHANGED cacheVars

TablesNext ==
  \/ exercised = "receiver" /\ Next /\ Idle("receiver")
  \/ exercised = "sender" /\ Snd!Next /\ Idle("sender")
  \/ exercised = "messages" /\ Msg!Next /\ Idle("messages")
  \/ exercised = "buffer" /\ Buf!Next /\ Idle("buffer")
  \/ exercised = "window" /\ Ack!Next /\ Idle("window")
  \/ exercised = "list" /\ Rcv!Next /\ Idle("list")
  \/ exercised = "units" /\ Unt!Next /\ Idle("units")
  \/ exercised = "cache" /\ Inf!Next /\ Idle("cache")

tablesVars ==
  <<vars, sndLossVars, msgVars, sndBufVars, ackVars, listVars, unitVars, cacheVars, exercised>>

TablesSpec == TablesInit /\ [][TablesNext]_tablesVars

\* What recvmsg returns, and what it leaves in the ring.
ReadAsSent      == exercised = "messages" => Msg!ReadAsSent
NothingStranded == exercised = "messages" => Msg!NothingStranded

\* The chain of the send buffer, the ACK window, the list and the units of the receive
\* queue, the cache.
BufferIsQueue == exercised = "buffer" => Buf!BufferIsQueue
IsAMemory     == Ack!IsAMemory
SweepIsSound  == exercised = "list" => Rcv!SweepIsSound
SkipsOnce     == exercised = "units" => Unt!SkipsOnce
CacheIsMemory == exercised = "cache" => Inf!CacheIsMemory
=============================================================================
