SPECIFICATION TablesSpec
CONSTANTS
  SeqNoTH = 6
  Size = 5
  Span = 4
  MaxGiveUp = 1
  CrossDrops = FALSE
  SndSeqNoTH = 4
  SndSize = 3
  SndSpan = 3
  MaxPackets = 3
  MaxMessage = 2
  RcvSize = 4
  Window = 3
  Mortal = {1}
  Unit = 2
  MaxBlocks = 6
  MaxAdded = 4
  WindowSize = 3
  AckTH = 4
  MaxStored = 9
  Sockets = {1, 2, 3, 4}
  ListHashSize = 2
  EntrySize = 3
  MaxEntries = 2
  Num = 1
  Den = 2
  MaxDrift = 6
  MaxSkips = 2
  Readers = {"r1"}
  Hosts <- HostsMC
  V6 = {"d"}
  Word <- WordMC
  LastWords = {0, 1}
  FourthWord <- FourthWordMC
  Values = {1, 2}
  MaxSize = 3
  MaxItems = 4
INVARIANTS ListsAgree ReadAsSent NothingStranded BufferIsQueue SweepIsSound SkipsOnce CacheIsMemory
PROPERTIES RefinesLossSet RefinesSndLossSet IsAMemory
CHECK_DEADLOCK FALSE
