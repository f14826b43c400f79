\* The bounds of MCLedger.cfg, without faults and with a mempool that holds any
\* two of the transactions.
CONSTANTS
  split = split
  join = join
  rival = rival
  miner = miner
  rpc = rpc
  peer = peer
  cli = cli
  Txs <- MCTxs
  Vin <- MCVin
  Vout <- MCVout
  Signed <- MCTxs
  Size <- MCSize
  Makers <- MCMakers
  SUBSIDY = 4
  HALVING_INTERVAL = 2
  COINBASE_MATURITY = 1
  MAX_MEMPOOL_SIZE = 10
  MAX_MEMPOOL_ENTRIES = 2
  Readers = {r1}
  Miner = miner
  Rpc = rpc
  Peer = peer
  Cli = cli
  None = None
  RELAY_DIVISOR = 10
  MAX_BLOCK_TXS = 3
  INVALID_TX_SCORE = 1
  BAN_SCORE_THRESHOLD = 1
  PeerBodies <- MCPeerBodies
  PeerRewards = {3}
  MaxHeight = 2
  MaxFaults = 0
SPECIFICATION Spec
INVARIANT UtxoMatchesChain
