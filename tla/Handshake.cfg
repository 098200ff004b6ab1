SPECIFICATION FairSpec
CONSTANTS
  MaxTurns = 3
  MaxStored = 1
  Refusing = TRUE
  Hasty = {"a"}
INVARIANTS EntriesAgree SecureIsMade PeerIsReady
PROPERTIES CallsReturn RendezvousCompletes
CHECK_DEADLOCK FALSE
