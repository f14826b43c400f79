CONSTANTS
  a = a
  b = b
  c = c
  cheap = cheap
  dear = dear
  Nodes = {a, b, c}
  Links <- MCLinks
  Late <- MCLate
  Txs = {cheap, dear}
  Rpc = Rpc
  None = None
  FeeRate <- MCFeeRate
  Refused <- MCRefused
  MAX_MEMPOOL_ENTRIES = 1
  MAX_INV_BATCH_SIZE = 1
  Fragile <- MCFragile
  Mined <- MCMined
SPECIFICATION FairSpec
CHECK_DEADLOCK FALSE
INVARIANTS
  TypeOK
  DebtIsUnderway
PROPERTIES
  TxSpreads
  RelayEnds
