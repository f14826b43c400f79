# Verification of blockchain_cpp

TLA+ modules, TLC runs and TLAPS proofs about a proof-of-work node in C++.
Paths below are relative to the repository.

## The system

One process runs either the node (`startnode`) or one command of the CLI;
LevelDB's lock file keeps two of them from opening the databases at once. The
node is a set of threads around a few pieces of shared state.

| component | state | operations | talks to |
|---|---|---|---|
| block database (`blockchain.cpp`) | blocks, heights, tip, window of timestamps | `AddBlock`, `MineBlock` (CLI), `VerifyTransaction`, `FindUTXO`, `GetNextWorkRequired` | LevelDB, one batch per block |
| UTXO database (`utxoSet.cpp`) | outputs left per transaction | `Update`, `Reindex`, `FindSpendableOutputs` | a LevelDB of its own, the block database |
| mempool (`mempool.cpp`) | entries with fee rate and size | `AddTransaction`, `RemoveBlockTransactions`, sorted copy | a mutex of its own |
| readers (`node.cpp`, one thread per peer) | handshake flags, score, rate window | `HandleVersion` ... `HandleBlock`, `HandleTx` | all of the above |
| monitors (`node.cpp`, one thread per peer) | ping nonce, `pongReceived` | `MonitorPeer` | `peersMutex`, `pongMutex` |
| miner thread, RPC thread (`node.cpp`, `rpcServer.cpp`) | a block being mined | `MineBlock`, `sendtx`, `mine` | databases, mempool, peers |
| cleanup, flush and outbound threads (`node.cpp`) | list of peers, pending inventory | `CleanupDisconnectedPeers`, `RunInvFlushLoop`, `RunOutboundLoop` | `peersMutex`, `invMutex` |
| synchronisation (`node.cpp`) | `syncing`, `syncPeerAddr` | `HandleVersion`, `HandleVerack`, `HandleGetBlocks`, `HandleInv`, `HandleGetData` | readers of other nodes |
| address book, ban list (`addrManager.cpp`, `banManager.cpp`) | two maps, two files | add, ban, load at start, save at stop | readers, outbound thread |
| merkle trees (`merkleTree.cpp`, `merkleProof.cpp`) | none | build, prove, verify | blocks, RPC |
| wallets (`wallet.cpp`, `wallets.cpp`) | keys, a file | create, encrypt, sign | CLI, `sendtx` |

`blockchainMutex` guards the two databases and `syncPeerAddr`; `peersMutex` the
list of peers; each peer has `pongMutex` and `invMutex`; the mempool, the
address book and the ban list have mutexes of their own. `blockchainHeight`,
`syncing` and `running` are atomics read without a lock.

What is hard about it:

* storing a block is four steps (block database, UTXO database, mempool,
  published height) under a lock that the mempool's users do not take, with a
  crash or a failed write possible between any two;
* transactions are verified under the lock and admitted after it is released;
* a block is built under the lock, mined without it and stored under it again;
* a peer has two threads and may be dropped by either, by cleanup and by `Stop`;
* synchronisation depends on one peer answering.

What makes each component correct: the chain only grows by blocks that are
right for their height; the UTXO database misses no unspent output and holds no
spent one; the mempool holds unconfirmed transactions that verify; a height
that is published is that of the chain; locks are released on every path and
always taken in one order; a synchronisation ends; files that are written at
stop are read back at start.

## Modules

| module | models |
|---|---|
| `Transactions` | transactions, blocks, subsidy, fees, both overloads of `VerifyTransaction`, the block checks of `HandleBlock` |
| `UTXOSet` | `Update`, the rebuild `FindUTXO`, the maturity filter |
| `Mempool` | admission with eviction, removal of mined transactions, selection order |
| `ChainSpec` | what a chain promises: genesis first, then acceptable blocks, one at a time |
| `Ledger` | the node's threads, the CLI, stop, crash and restart around those three |
| `MCLedger` | a small instance: three transactions, two of which spend the same output |
| `LedgerProofs` | theorems about `Ledger` |
| `PeerThreads` | connections, their reader and monitor, the accept and outbound loops, cleanup and `Stop`, with `peersMutex` and the pong mutexes |
| `MCPeers` | one or two connections |
| `PeerThreadsProofs` | theorems about `PeerThreads` |
| `Blockchain` | timestamps, the window for the median, the required difficulty, reopening |
| `BlockchainProofs` | theorems about `Blockchain` |
| `Sync` | connections between nodes: handshake, block download, mining and announcement beside it |
| `MCSync` | a node behind two others that it dials, one of which mines |
| `SyncProofs` | theorems about `Sync` |
| `Relay` | how a transaction spreads: pending inventory, flush thread, request, admission by several threads |
| `MCRelay` | a triangle of nodes with pools of one, one link of which comes late and may break |
| `RelayProofs` | theorems about `Relay` |
| `Lists` | the loops of `HandleInv` and `HandleGetData` over an inventory, which `Sync` and `Relay` share |
| `ListsProofs` | lemmas about lists that `SyncProofs` and `RelayProofs` cite |
| `AddressBook` | address book and ban list with their files, starts, stops and crashes |
| `MCAddressBook` | a peer, an address without a port, two ports the node may run under |
| `AddressBookProofs` | theorems about `AddressBook` |
| `MerkleTree` | the tree of a block, the proof the node makes, the verification by the client; the root defined from the top down, for comparison |
| `MCMerkleTree` | blocks of up to nine transactions |
| `MerkleTreeProofs` | theorems about `MerkleTree` |

### Ledger and the code

| action | code |
|---|---|
| `ReceiveTx`, `AdmitTx` | `HandleTx`: under the lock, and after it |
| `SubmitTx`, `AdmitTx` | `sendtx`, likewise |
| `ReceiveBlock` | `HandleBlock` up to `AddBlock` |
| `UpdateUtxo`, `CleanMempool`, `PublishHeight` | what follows `AddBlock` in `HandleBlock` and `MineBlock`, still under the lock |
| `UpdateUtxoFails` | `Update` throws; `lock_guard` releases the mutex |
| `CopyMempool`, `SelectTxs`, `StoreMined`, `MiningFails` | `MineBlock`, by the miner thread or by the RPC method `mine` |
| `Stop`, `Crash`, `Start` | `Node::Stop`, the end of the process at any point, the constructor |
| `CliSend`, `CliUpdate` | `cli send`: `Blockchain::MineBlock`, then `Update` |
| `ReindexWipe`, `ReindexWrite` | `cli reindexutxo`: the two batches of `Reindex` |

Abstractions. A transaction is named by its id, so a name fixes its inputs and
outputs. A coinbase carries random data and is unique, so one name serves for
the coinbase, its block and the block's hash: the triple of the height it was
made for, its maker and its value. Signatures are the set `Signed`. Positions
count from 1. A block's size limit and its limit on transactions cut the same
list short and are one bound. Proof of work, size, difficulty and timestamps
pass or fail as they like. Amounts are far from 64 bits: the overflow checks
of `HandleBlock` never fire. `lock` is a variable only where a step ends with
the mutex held; a critical section that is over in one step tests that it is
free.

The history variable `stale` says that a fault left a stored block out of the
UTXO database; it only weakens properties that the code does not promise after
a fault.

### PeerThreads and the code

| action | code |
|---|---|
| `ReadLoop`, `Receive...`, `Handle...`, `ReaderCloses`, `ReaderEnds` | the reader's lambda in `StartPeerLoop`, `HandlePong` |
| `ReaderDrops`, `ReaderWakes` | `Misbehave` calling `DisconnectPeer` |
| `SendPing`, `PingFails`, `AwaitPong`, `PongArrived`, `GiveUp`, `MonitorEnds` | `MonitorPeer` |
| `MonitorDrops`, `MonitorWakes` | `DisconnectPeer` as the monitor calls it |
| `CheckRoom`, `List`, `StartReader`, `StartMonitor`, `SetupFails` | the accept loop of `Start`, `ConnectToSeed`, `RunOutboundLoop` |
| `Collect`, `Join`, `CleanupDone`, `CleanerEnds` | `CleanupDisconnectedPeers`, `RunCleanupLoop` |
| `StopBegins` ... `StopEnds` | `Node::Stop` |
| `SendFails` | `WriteAll` in a thread that broadcasts, to a peer whose handshake is complete and which therefore has a reader |

A mutex whose section begins and ends in one step is only tested; `peersMutex`
is kept over steps by `Stop` alone, a pong mutex by a monitor that goes on to
`DisconnectPeer`. Locking a `std::mutex` twice is undefined; with the default
mutex of the C library the thread blocks, and that is the outcome modelled.
Nonces are random in the code and numbers here, 0 being one that nobody sent.
Messages other than pong are one step: either one that needs `peersMutex` or one
that ends in a ban. The remote node may answer a ping late, never or wrongly.
`connected` and `sockfd` are plain variables that several threads touch; a read
sees the last write here, and the reuse of a closed descriptor is not modelled.

### Blockchain and the code

| action | code |
|---|---|
| `Init` | `CreateBlockchain` |
| `Open`, `Exit` | the constructor, which reads the window from the chain; the end of the process, at any point |
| `AddBlock` | `AddBlock`, for a block of a peer or of the node's own miner |
| `MineBlock` | `Blockchain::MineBlock`, which only the CLI calls and which tests no timestamp |
| `Tick` | the clock of the machine, which goes forward |

`Ledger` and `Blockchain` are two views of one component: `Ledger` knows
transactions and threads and lets the tests of difficulty and timestamps pass or
fail; `Blockchain` knows nothing else. A block of the node is stored under
`blockchainMutex`, so `AddBlock` is one step. A block whose bits are not the
required ones is refused, so none is offered. Big numbers are numbers: a hash
has `HASH_BITS` bits, 256 in the code. The median is the element in the middle
of the sorted window, stated by counting instead of sorting.

### Sync and the code

| action | code |
|---|---|
| `Connect` | `ConnectToSeed` (no ban is tested) or, when a link is dialled again, `RunOutboundLoop` (one is) at one end, the accept loop at the other |
| `HandleVersion`, `StartSync` | `HandleVersion` up to the lock, and under it |
| `HandleVerack`, `EarlyMessage` | `HandleVerack`, the test in `DispatchMessage` |
| `SendPing`, `HandlePing` | `MonitorPeer` before the handshake, `HandlePing` |
| `HandleGetBlocks`, `SendInv` | `HandleGetBlocks` under the lock, and after it |
| `HandleInv`, `HandleGetData`, `HandleBlock` | the handlers of those names, for blocks |
| `StartMining`, `StoreMined`, `Announce` | `MineBlock` before and after the search, `BroadcastBlock` |
| `ExceedRate`, `EndOfStream`, `Break` | the rate limit in `StartPeerLoop`, `recv` returning 0, the network |

A connection is two ends, one per node, each with a `PeerState`; what one end
sends the other reads in order, or the connection is lost with what is on the
way. A block is the list of the miners of the blocks that lead to it: it names
its parent and its height, and two miners at one height make a fork. A chain
is named by its tip. Blocks are valid but for their place: `Overpaid` is the
reward of a block from before a halving that arrives after it. A second may
begin at any message, so once a hundred have been read any of them may be one
too many. `HandleGetData` is one step: the chain only grows, so what it reads
under the lock is what it sends. Not modelled here: transactions (`Relay`),
addresses (`AddressBook`), the threads' mutexes (`PeerThreads`).

`hindered` is a history variable that says why the running synchronisation of
a node may not end: its peer has gone, or has answered `getblocks` with nothing
(no common ancestor, nothing new, more than an `inv` can count), or a block came
from elsewhere, mined by the node or sent by another peer. After any of
these nothing makes sure that `syncing` is ever cleared, and while it is set the
node does not mine; `SyncEnds` says that there is no other case. `NoSyncStalls` is
its safety half, and says how an unhindered synchronisation goes on (`GoesOn`):
`getblocks`, the hashes that the peer is about to send, `inv`, `getdata` or the
blocks are there, they follow the node's tip on the peer's chain, and they reach the
height that the peer told in its version, where `HandleBlock` clears `syncing`.

### Relay and the code

| action | code |
|---|---|
| `SendTx`, `HandleTx` | `sendtx` and `HandleTx` up to the mempool |
| `Admit`, `RelayTransaction` | `AddTransaction` and `RelayTransaction`, by a reader or the RPC thread |
| `BeginRound`, `TakePending`, `SendChunk` | `RunInvFlushLoop`: the snapshot of the peers, the swap under `invMutex`, one `inv` |
| `HandleInv`, `HandleGetData` | the handlers of those names, for transactions |
| `Confirm` | `RemoveBlockTransactions` |
| `Join`, `Break` | a handshake that completes; a connection that either end closes or the network loses |

The pool is bounded by entries only; `Mempool` has the bound by bytes. Whether a
node accepts a transaction is the constant `Refused`; an offence, a ban and the
rate limit are a `Break`. Peers are visited in a fixed order. `HandleGetData`
looks its transactions up one by one between the sends; as one step it answers
with those that are in the pool when it begins.

`owed` is a history variable: when a node admits a transaction it owes it to
every peer that is connected, except the one it came from, until the peer has
it, turns it away, or the link or the transaction in the node's own pool is
gone.

### AddressBook and the code

| action | code |
|---|---|
| `HandleVerack`, `HandleAddr`, `ConnectToSeed` | the calls of `AddrManager::Add` and `AddMultiple` |
| `Pick`, `Skip`, `Dial` | `RunOutboundLoop`: `GetRandomAddresses`, `IsBanned`, `MarkGood` or `Remove` |
| `Ban` | `Misbehave` calling `BanManager::Ban` |
| `Start`, `StartFails` | `Node::Start`: both files loaded; `server.Start` throwing before that |
| `SaveBook`, `SaveBans`, `JoinThreads`, `Exit` | `Node::Stop`, and `Stop` once more by the destructor |
| `Crash` | the end of the process at any point, a file being written included |

The readers go on while `Stop` writes the files, so what they add between the
first save and the join of the threads is written by the second one only. A file
that was being written at a crash holds some of its entries: it is truncated
first, and the maps are in no order. An entry is written at a crash as a whole
or not at all, because the loader stops at one that is cut off. Times are small;
the unsigned difference of 32 bits is taken modulo `UINT32`. Which of the
addresses that are not stale are chosen is left open. Who is told of an address
(`GossipAddr`) is not modelled.

`sentence` and `excused` are history variables: when the latest ban of an IP
ends, and whether a crash or a failed start came before it was in the file.

### MerkleTree and the code

| action | code |
|---|---|
| `Init`, `BuildLevel` | the constructor: the leaves, and one pass of its loop |
| `GetMerkleProof`, `GenerateProof`, `WalkUp` | `getmerkleproof`, `GenerateProof` up to its loop, and one pass of it |
| `ReceiveProof`, `VerifyStep`, `FinishVerify` | `verifytx` of the client and `VerifyMerkleProof` |

The hash of two hashes is the pair of them, that is, there are no collisions.
Leaves are hashes of serialized transactions and may be equal. The client
takes leaf hash, path and root from one answer and compares the root it computes
with that one, as the code does; it compares nothing with the txid it has asked
for. So `ProofFitsOneLeaf` says what the two loops promise together and no more: the
answer is accepted, and its path and root would be with no other leaf. A list and the
same list with its last leaf doubled have one root if the length is odd, so
`RootCommits` speaks of lists of one length.

## Runs

| run | expects | shows |
|---|---|---|
| `ledger` | pass | `TypeOK`, `CommitExclusive`, `PendingNeverThrows`, `UtxoCoversUnspent`, `HeightPublished`, `ImplementsChain`, `MempoolBounded`, `EvictedPayLess` |
| `blocks` | violation | a node mines two transactions that spend one output (`NoDoubleSpendInBlock`) |
| `utxo` | violation | `Update` leaves spent outputs behind (`UtxoMatchesChain`) |
| `peers` | pass | `TypeOK`, `OpenIsListed`, `StoppedIsClosed`, `ThreadsJoined` |
| `peers_live` | pass | `GivenUpIsClosed`, `StopReturns`, `StopAdvances` |
| `monitors` | violation | a monitor woken by the end of its reader waits for itself (`MonitorExits`) |
| `blockchain` | pass | `TypeOK`, `WindowIsCache`, `RetargetsTowards`, `MedianGrows` |
| `retarget` | violation | a slow interval makes the target eight times as large (`RetargetCapped`) |
| `sync` | pass | `TypeOK`, `NoEarlyMessages`, `OneSyncAtATime`, `NoSyncStalls`, `SyncCatchesUp`, `SyncEnds` |
| `relay` | pass | `TypeOK`, `DebtIsUnderway`, `TxSpreads`, `RelayEnds` |
| `addressbook` | pass | `TypeOK`, `OnlyRecentOffered`, `BansOutlive` |
| `merkle` | pass | `TypeOK`, `ProofFitsOneLeaf`, `RootCommits`, `PathSpellsIndex` |

Bounds of `ledger`: one peer, the miner and the RPC thread, which is every kind
of thread and two of the kind that mines; two blocks after genesis
(`MaxHeight`), so that a block can be overtaken, spend the block before and
cross a halving (`HALVING_INTERVAL` is 2); maturity 1; a mempool of two
entries and three bytes, so that a third transaction has to evict one, and two
that are large enough exclude each other by their bytes alone; three
transactions: a payment with two outputs, one that spends both, and one that
spends one of them. Evictions that come before a refusal need a fourth
transaction: for them `EvictedPayLess` is proved and not run;
one crash or failed write (`MaxFaults`). Peers send every list of
`PeerBodies` on top of any block or of an unknown one, claim the rewards in
`PeerRewards`, and repeat blocks the node has. A threshold of one offence
stands for a hundred points: what matters is that the reader then ends. The
two other runs have the same bounds, except that there are no faults and ten bytes
of room in the mempool, so that any two transactions fit. In `blocks` a block of a peer
stores `split`, then `join` and `rival`, which spend the same output of it, are
both pending and mined together. In `utxo` one block holds `split` and `join`, and
`Update` leaves the outputs of `split` behind; `FindUTXO` does as well, since it
meets `split` before it knows what `join` spends, so `reindexutxo` is no remedy for
this block.

The runs of `Ledger` assume no fairness: the properties are safety properties.
The node may stop taking blocks at `MaxHeight`, but it can always stop and
start, so deadlock is checked.

Bounds of `peers`: two connections, so that the accept loop and the outbound
loop set one up at the same time and cleanup takes one and leaves one; a limit of
one, so that the limit is met; one ping each, answered, answered wrongly or not
at all. Connections are interchangeable and the run uses that symmetry.
`peers_live` and `monitors` have one connection and no symmetry: the monitor
and the reader of one connection, cleanup and `Stop` are all that is needed for
them to wait for each other. Deadlock is not checked: the process ends, and
threads that wait for ever are what `StopReturns` and `MonitorExits` are about.

Fairness of `PeerThreads`: every thread that can take a step takes one in the
end (weak fairness per thread). `recv` and `send` have timeouts
(`PEER_RECV_TIMEOUT_SECS`, `PEER_SEND_TIMEOUT_SECS`), and so has the wait for a
pong, so their failures count as steps of the thread. No fairness is assumed of
the remote node, of new connections, of links that break or of the user who
stops the node. `StopReturns` supposes that no monitor gives a ping up: `monitors`
shows what happens when one does, and `GivenUpBlocksStop` proves it.

`StopAdvances` needs no fairness. It names the steps that are left to each thread
once `running` is false (`StepsLeft`) and says that every step takes some of them
away and adds none: whatever the schedule, a stop can only fail to end by
waiting. `ThreadsJoined` says what `Stop` has joined when it returns, and what it
has not: the cleanup may take a connection off the list after its reader has
ended and before its monitor is started. It finds no monitor to join, and `Stop`
does not find the connection, so it may return ("join all threads",
`src/src/node.cpp:1359`) while that monitor sleeps. All that is left to such a
monitor is to see that its connection is closed and to end.

Bounds of `blockchain`: a window of three and six blocks after genesis, so that
the window is short, full and moving; an interval of three, so that there are two
retargets, the first with genesis as its anchor; six instants, among them two that
are one apart, the length of an interval, twice that and the fourfold that the
clamps cut; difficulties from 1 to 5 around the first, 4, with hashes of eight
bits, so that both clamps are met. The clock may stand still while blocks are
stored, and a peer's block may be two units ahead of it.

Bounds of `sync`: three nodes with two links, so that two readers of one node
compete for the synchronisation and blocks reach it from two sides. One peer is
two blocks ahead, as many as an `inv` counts (`MAX_INV`) and enough to cross a
halving; the other is one ahead and mines on the first block, so forks arise.
Each link is dialled once; five messages are allowed in a second, fewer than a
download may take; one monitor wakes before the handshake is complete.

Fairness of `sync`: readers handle what has arrived, since `ReceiveMessage`
returns it, and a miner that has stored a block announces it, since nothing lies
between but `peersMutex`. None is assumed of links, of connecting, of mining, or
of the search for a proof of work. Deadlock is not checked: when all links are
down and the blocks are mined nothing is left to do.

Bounds of `relay`: a triangle, the smallest graph with a cycle, so that
transactions come back and one arrives from two sides at once; two transactions
and pools of one, so that the node that accepts both evicts the cheap one for the
dear one, which its peers refuse; they still hold the cheap one and offer it again
as soon as a link comes, it is asked for and turned away; a block that takes the
dear one from the pool, after which the cheap one is admitted and announced again; batches
of one (`MAX_INV_BATCH_SIZE`), so that a queue of two
takes two messages; one link that comes up after announcements have been queued
for others, and breaks at any point, also while a batch for it is being sent.

Fairness of `relay`: readers, the RPC thread and the flush thread go on with
what they have begun, as threads do; the flush thread wakes up every 100 ms. None
is assumed of users, links or blocks. Both liveness properties speak of what
holds in the end, when the bounded supply of transactions and blocks is used up.

Bounds of `addressbook`: one peer that may be banned, an address without a port,
two ports to run under, so that what was a peer's address is the node's own
after a restart; two entries, so that a third evicts the oldest; four instants
with ages of one, skews of one and bans of two, so that entries get stale, lie
ahead and too far ahead, and bans expire, before, during and after any number of
restarts and crashes.

Bounds of `merkle`: up to nine transactions, with which every length of a level
from one to six occurs, odd levels lie above odd levels, and padding repeats on
several levels; two hashes of transactions, so that leaves differ and repeat.

## Proofs

All of it for any threads, nodes, transactions, bounds and parameters that
satisfy the named assumptions, which TLC evaluates on every run:

* `ConsensusAssumption` (ranges of the consensus parameters),
  `TransactionAssumption` (finitely many transactions, ids of transactions and
  coinbases are different, inputs and outputs are lists), `MempoolAssumption`
  (sizes are positive), `LedgerAssumption` (kinds of threads are disjoint, ranges
  of the bounds), `PeerThreadsAssumption` (the threads are different),
  `MerkleAssumption` (the bound is a number);
* `BlockchainAssumption` (ranges of the parameters) and `DoublingAssumption`:
  2^(k+1) is twice 2^k for the exponents in use. That is arithmetic, not
  a property of the code; the provers have no definition of the power;
* `RelayAssumption`: links join different nodes and there are finitely many of
  them; the value that stands for "nothing" is neither a transaction nor a batch;
* `SyncAssumption`: nobody dials itself, and of two nodes at most one dials the
  other; ranges of the limits;
* `AddressBookAssumption`: every address but the wildcards has an IP; the clock
  plus the longest skew and age fits into 32 bits, as it does until 2106.

### Ledger

* `TypeCorrect`: `TypeOK`, with the fact that a thread at "verified" holds a
  transaction.
* `CommitsExclude`, `HeightIsPublished`: both inductive once types are known.
* `PendingNeverThrow`: not inductive. Verification throws when an input is
  unknown, so the invariant is `PendingKnown`: the inputs of every transaction
  in the mempool or in a thread's hands are on the chain. It is kept because the
  chain forgets nothing.
* `UtxoCovers`: `Update` reads the database and lets the last of several
  writes of a key win, so it has to be shown that the winning write keeps what
  the others would have kept (`UpdateCovers`). It does if the database holds no
  key that the chain has not confirmed (`KeysConfirmed`); without that a spend
  could hide the outputs of a transaction of the same block. While a stored
  block is still missing, the invariant speaks of the chain before that block
  (`CoversFront`).
* `LedgerImplementsChain`: every step leaves the chain alone or appends one
  acceptable block. For a block from a peer that is what `BlockVerdict`
  establishes (`CheckedAcceptable`); for one that the CLI writes, what
  `VerifyTransaction` does (`BuiltAcceptable`); for a mined one it needs the
  invariant `TemplatesGood`: a block being mined is acceptable as long as it
  extends the tip. It stays true because ids carry the height they were made
  for (`Linked`), so once the chain has grown the block no longer extends it.

* `MempoolStaysBounded`: both limits, however blocks and transactions meet in the
  mempool. The one exception is in the code: a transaction larger than
  the limit enters a mempool that it has emptied.
* `EvictedPaysLess`, an action property: what leaves the mempool while the node
  is up is in a block that was stored or pays less for a byte than a transaction
  that was added or turned away. Rates are ratios, compared by cross
  multiplication, so the chain of evictions needs that the comparison is an order
  (`RatesOrdered`), which it is among positive sizes and integer fees; that fees
  are integers needs `PendingKnown` again, since a fee is a sum over
  outputs that have to be on the chain.

Fees, block values and the size of the mempool are sums over lists and sets,
written with the folds of the community modules. What a fold computes is
an induction over data; it is done here without an induction principle. A fold
is a recursive function on the subsets of its domain, so a smallest cardinality
for which the claim fails leads to a contradiction (`SumUnfolds`, `SumType`,
`SumWithout`, `SumOfPart`).

`ImplementsChain` is a refinement: `Ledger` instantiates `ChainSpec` with its own
chain, and `LedgerImplementsChain` proves that every behaviour of the one is one
of the other, which the run `ledger` checks as well.

### PeerThreads

* `PeerTypes`, `OpenListed`, `StopCloses`, for any number of connections and
  pings and any limit. The invariant is `Inv` of `PeerThreadsProofs`: an open
  connection outside the list is one that a connector is about to add (`Dialled`), which needs that no
  two connectors set up the same one (`LinksDiffer`); once `Stop` has locked the
  list nobody sets up a connection (`Alone`), so what `Stop` has walked past
  stays closed (`Closed`).
* `PeersAreBounded`: the list never holds more than `MAX_PEERS + 1` connections.
  The test and the insertion are two critical sections, so the bound is kept by
  what the connectors have been granted as well (`Bound`): a connection counts
  from the test on. A run that shows it takes three connections and is too
  long, so this one is proved only.
* `StopJoins` (`ThreadsJoined`): when `Stop` has returned every reader has been
  joined and no pong mutex is held. The invariant `Threads` follows the threads of
  a connection from the connector that starts them, the reader first (`Starting`), to
  the list of whoever has to join them (`Joined`): a connection that is neither in
  the list nor in a hand has no threads left but perhaps a late monitor. Only a
  monitor that closes its connection keeps its pong mutex, and only `Stop` keeps
  `peersMutex` (`Holding`).
* `GivenUpBlocksStop`: why `StopReturns` supposes that no ping is given up. A monitor
  that gave one up while its connection is in the list comes to wait for the mutex it
  holds, and if `Stop` has the list locked with this connection still before it,
  each waits for the other. The theorem says that the state `Doomed` is never left
  and that `Stop` never returns from it.
* `StopIsBounded` (`StopAdvances`, and that `StepsLeft` is finite): each thread has a
  rank that its steps lower, each connection counts what `Stop` and the cleanup
  have to do for it, and the cleanup counts a round for each connection it may
  find dead. That nothing is counted twice is the invariant `Once`: what the
  cleanup has taken is off the list for good, and `Stop` wakes each monitor
  once. It is the safety half of `StopReturns`; the other half, that nobody waits in a
  circle, needs fairness and is model-checked.

### Blockchain

* `ChainTypes`, `WindowCached`, `MedianNeverFalls`, for any consensus parameters
  and timestamps. The window is inductive together with the types: after a block
  is pushed it is, place by place, what the longer chain loads (`StoreKeeps`). The median needs
  more: that it exists (`MedianExists`), and a count. If the new median were
  smaller, the timestamps at or below it, more than half of the new window, would
  be timestamps below the old median, at most half of the old one; the shift by
  one place is an injection of the former into the latter (`MedianMoves`).
* `RetargetsProperly`: inductive once types are known, since a block is never
  changed once stored (`StoreDirected`); what it needs is the direction of one
  retarget (`RetargetDirection`), in four steps. Powers of two grow
  (`PowersGrow`). An interval that is too short scales the target down, one that
  is not leaves it or scales it up, the division included (`Scaled`); the clamps
  of the time move a span towards the intended one and never across it.
  The number of bits of a target below 2^k is at most k and that of any other
  more than k (`BitsOf`): rounding to a power of two may lose the change
  and never turns it round. The clamps of the bits keep an order that starts
  within them.

### MerkleTree

* `TypeCorrect` and `ProofsFitOneLeaf` (`ProofFitsOneLeaf`), for any leaves and any length of a
  block. The invariant says how the levels were built (`Built`), that the
  indices halve from level to level and the path holds the siblings on the way (`Walked`), and what
  the client has computed so far (`Climb`): the entry of the level it has
  reached. That the path fits no other leaf is a climb downwards: whatever ends in
  the root has been through the nodes of the proof (`OneLeafClimbs`). Both rest on one
  lemma, `ParentHash`: the parent of a node is the node combined with its sibling,
  and no other hash combined with it, also where the node is its own
  sibling. Pairs are injective; a block of one transaction has two equal leaves,
  whose index does not matter.
* `RootsCommit`: a root and a number of transactions leave one list of
  transactions. A second tree is any tower of levels over the other
  transactions, as the constructor builds them. The number of
  transactions fixes the length of every level (`SameShape`) and so the height
  (`SameHeight`), equal parents have equal children if there are equally many
  (`ParentsBind`), and the lowest level that differs would lie below one that
  does not (`OneRootOneList`). Without the number it is false: three
  transactions have the root of four whose last is repeated, which is what
  padding means. The invariant `Growing` says that the levels are a
  tower over the transactions at every pass of the constructor.
* `RootCommitsAlways` (`RootCommits`): the root that the loop computes from the
  leaves up is the one that `RootOf` defines from the top down, and it fixes the
  list. The two meet in `Agrees`: the entries of level k are the subtrees of height
  k - 1 that start at multiples of their span, filled up to an even number
  or not (`LoopComputesRoot`). `RootBinds` is the second half for the
  definition alone. The definition is a recursive function; that it has values is
  itself shown by the least height that would have none (`StageExists`).
* `SidesTellIndex` and `PathSpells` (`PathSpellsIndex`): the sides of the siblings are
  the binary digits of the index, put digit by digit, and the number they add up to
  is the index. Both follow from `Walked`.

### AddressBook

* `TypeCorrect`: `TypeOK` and that both the book and its file are finite maps within
  the limit, because the file is loaded into the book (`TypeInv`). Of the node's own
  addresses it keeps out the wildcard only, which is all that the code compares
  with: an address at which others reach the node may be in the book.
* `OffersRecent`: the invariant is `TimeInv`: no timestamp in the book or in
  its file is more than `MAX_SKEW` ahead. Then the unsigned age of one that is
  ahead wraps around to a number larger than any age that is let through.
* `BansSurvive`: not inductive, because it says nothing of the time when the
  node is not up. The invariant `BansHeld` says where the latest ban of an IP is at
  each stage: in the file while the node is down, in memory while it is up and
  from the first save of a stop to the last; the second save of `Stop` is what
  makes the two meet.

### Relay

* `TypeCorrect`: the flush thread of a node visits ends of this node only
  (`FlushInv`), and every inventory on the wire has between one entry and
  `MAX_INV_BATCH_SIZE` (`NetInv`).
* `DebtsAreUnderway`: the disjunction of places where a debt may be is close to
  inductive: each step passes it from one place to the next. What it lacks
  is `OwedInv`: a debt is one only while the link is up, the one end has
  the transaction and the other has not. Without it the filter of `HandleInv`
  or of `HandleGetData` could drop what is still owed. That a filter drops nothing
  else, and that a chunk and the rest of a batch hold what the batch held, are the
  lemmas of `ListsProofs`.

### Sync

* `NobodyIsEarly`: needs the order of what is on the way (`WireInv`): only pings
  before the version, one verack at most and after the version, everything else
  after the verack, and that what has been sent was read, is on the way or is
  lost with the receiver. `ReaderInv` ties the steps in the middle of a handler to
  the handshake, since `HandleVersion` and `HandleGetBlocks` go on after others
  have moved. `TallyInv` counts: a monitor's early ping is sent once, so it costs
  `EARLY_SCORE` once.
* `SyncsAreSingle`: by `AskInv`. As long as a node's `getblocks` is not
  answered no block is on the way back, so nothing can end the synchronisation that
  the request belongs to and let another reader start the next.
* `SyncsCatchUp`, an action property: by `CarryInv`, what a peer sends is on its
  chain. It stays there because chains only grow, and a fork of another peer does
  not end the synchronisation, because the last block has to come from the sync
  peer. That a block extends the node's own chain when it is stored makes the
  whole chain a prefix of the peer's.
* `SyncsGoOn` (`NoSyncStalls`): what is on the way is taken step by step from
  `getblocks` to the last block (`On`). Two things make that inductive. `RemoteInv`:
  a peer is at least as high as it has told, so that the hashes that
  `HandleGetBlocks` finds reach that height; it rests on `CarryInv`, which also
  says that a version on the way gives no greater height than its sender has. And
  `GoingInv`, which strengthens the property by `remoteHeight[e] # -1`: the peer has
  told its height, so no version comes any more that would replace it. `AskInv` is
  needed again: a block that the node stores while its request is still on the way
  would leave the request with a tip that is not the node's.

### What is only model-checked

Every safety property that a passing run checks is proved.

* `GivenUpIsClosed` and `StopReturns`, `SyncEnds`, `TxSpreads` and `RelayEnds`:
  liveness under fairness is beyond the prover.
* The four counterexamples: `NoDoubleSpendInBlock`, `UtxoMatchesChain`,
  `MonitorExits`, `RetargetCapped`.

## Not modelled

* Wallets (`wallet.cpp`, `wallets.cpp`): keys, signatures and the encryption of
  the file are cryptography. The rest is a map that one thread of one process
  writes as a whole.
* Hashing, proof of work, base58, message layouts and JSON have no state that
  the rest depends on beyond "valid" and "not valid", which the modules leave
  open; so does what happens to a message that does not parse.
* `GossipAddr`, `HandleGetAddr`: who is told of an address. An `addr` message with
  one or two addresses is passed on to two random peers whether it brings
  anything new or not, so a model of it has no bound.
* `Unban`, `SweepExpired`, `BroadcastTransaction`, `VerifyProof`: nothing in the
  program calls them.
* RPC methods that only read, and the printing commands of the CLI.
* Unsynchronised access to `sockfd`, `connected`, `handshakeComplete`: a read sees
  the last write.

## Plan

Done: `Ledger`, `PeerThreads`, `Blockchain`, `MerkleTree`, `Sync`, `Relay`,
`AddressBook`, each with runs and proofs.

Left: `Relay`: a link carries a bounded number of messages, the safety half of
`RelayEnds`. It takes a variant like `StepsLeft`, over transactions that may
be mined, evicted and asked for again.
