\* One peer, the miner and the RPC thread; two blocks after genesis, across
\* a halving at height 2; one fault.
CONSTANTS
  split = split
  join = join
  rival = rival
  miner = miner
  rpc = rpc
  peer = peer
  cli = cli
  Txs <- MCTxs
  Vin <- MCVin
  Vout <- MCVout
  Signed <- MCTxs
  Size <- MCSize
  Makers <- MCMakers
  SUBSIDY = 4
  HALVING_INTERVAL = 2
  COINBASE_MATURITY = 1
  MAX_MEMPOOL_SIZE = 3
  MAX_MEMPOOL_ENTRIES = 2
  Readers = {r1}
  Miner = miner
  Rpc = rpc
  Peer = peer
  Cli = cli
  None = None
  RELAY_DIVISOR = 10
  MAX_BLOCK_TXS = 3
  INVALID_TX_SCORE = 1
  BAN_SCORE_THRESHOLD = 1
  PeerBodies <- MCPeerBodies
  PeerRewards = {3}
  MaxHeight = 2
  MaxFaults = 1
SPECIFICATION Spec
INVARIANTS
  TypeOK
  CommitExclusive
  PendingNeverThrows
  UtxoCoversUnspent
  HeightPublished
  MempoolBounded
PROPERTIES
  ImplementsChain
  EvictedPayLess
