\* c and b are ahead of a, which dials both.
CONSTANTS
  a = a
  b = b
  c = c
  Nodes = {a, b, c}
  Dials <- MCDials
  GenesisChain <- MCChain
  Miners <- MCMiners
  None = None
  MAX_INV = 2
  MAX_PEER_MESSAGES_PER_SEC = 5
  EARLY_SCORE = 1
  BAN_SCORE_THRESHOLD = 10
  HALVING_INTERVAL = 2
  MaxHeight = 2
  MaxDials <- MCMaxDials
  EarlyPings <- MCEarlyPings
SPECIFICATION FairSpec
CHECK_DEADLOCK FALSE
INVARIANTS
  TypeOK
  NoEarlyMessages
  OneSyncAtATime
  NoSyncStalls
PROPERTIES
  SyncCatchesUp
  SyncEnds
