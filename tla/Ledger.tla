------------------------------- MODULE Ledger -------------------------------
(***************************************************************************)
(* The ledger of one node: the block database, the UTXO database, the      *)
(* mempool, and the threads that move them (src/node.cpp).                 *)
(*                                                                         *)
(*   readers   one thread per peer: HandleTx and HandleBlock               *)
(*   Miner     the background thread, RunMinerLoop                         *)
(*   Rpc       the RPC server's thread: sendtx and mine                    *)
(*   the CLI   send and reindexutxo, while the node is not running         *)
(*                                                                         *)
(* blockchainMutex (lock) guards the two databases; the mempool has a      *)
(* mutex of its own and may change between any two steps of a thread that  *)
(* holds blockchainMutex.  Storing a block is four steps under the lock:   *)
(* AddBlock, UTXOSet::Update, Mempool::RemoveBlockTransactions and the     *)
(* store to blockchainHeight.  The process may crash between any two.      *)
(*                                                                         *)
(* Difficulty and timestamps, which AddBlock tests too, are the subject of *)
(* module Blockchain: here those tests pass or fail as they like.          *)
(***************************************************************************)
EXTENDS UTXOSet, Mempool

CONSTANTS
  Readers, Miner, Rpc,   \* the threads of the node
  Peer, Cli,             \* the makers of blocks that are not threads of the node
  None,                  \* no thread, no transaction
  RELAY_DIVISOR,         \* MIN_RELAY_FEE_RATE is 1 / RELAY_DIVISOR per byte
  MAX_BLOCK_TXS,         \* transactions of a block, the coinbase included
  INVALID_TX_SCORE, BAN_SCORE_THRESHOLD,  \* Misbehave: 10 and 100
  PeerBodies,            \* bound: the transaction lists of peers' blocks
  PeerRewards,           \* bound: the coinbase values of peers' blocks
  MaxHeight,             \* bound: height at which no more blocks are stored
  MaxFaults              \* bound: crashes and failed UTXO updates

Local == {Miner, Rpc}
Threads == Readers \cup Local

ASSUME LedgerAssumption ==
  /\ None \notin Threads /\ None \notin Txs
  /\ Local \cap Readers = {}
  /\ Local \cup {Peer, Cli} \subseteq Makers
  /\ MAX_BLOCK_TXS \in Nat \ {0} /\ RELAY_DIVISOR \in Nat \ {0}
  /\ INVALID_TX_SCORE \in Nat \ {0} /\ BAN_SCORE_THRESHOLD \in Nat \ {0}
  /\ PeerBodies \subseteq Seq(Txs) /\ PeerRewards \subseteq Nat
  /\ MaxHeight \in Nat /\ MaxFaults \in Nat

VARIABLES
  chain,             \* block database, tip and heights: written in one batch
  utxo,              \* UTXO database
  mempool,           \* set of transaction ids
  blockchainHeight,  \* the atomic the other threads read
  lock,              \* thread that holds blockchainMutex
  pc,                \* what each thread is doing
  held,              \* the transaction a thread has verified and not admitted yet
  snapshot,          \* the mempool as a mining thread copied it
  template,          \* the block a mining thread is working on
  score,             \* misbehaviour score of each reader's peer
  mode,              \* "up", or what the CLI is doing while the node is down
  faults,            \* faults so far
  stale              \* history: a stored block may be missing from utxo

disk == <<chain, utxo>>
work == <<pc, held, snapshot, template>>
vars == <<disk, mempool, blockchainHeight, lock, work, score, mode, faults, stale>>

Committing == {"stored", "updated", "cleaned"}

GenesisId == <<0, Cli, GetBlockSubsidy(0)>>

Genesis == [id |-> GenesisId, prev |-> GenesisId, txs |-> <<>>]

NoBlock == Genesis

-----------------------------------------------------------------------------
TypeOK ==
  /\ chain \in Seq(Block) /\ chain # <<>>
  /\ utxo \subseteq Ids \X Nat
  /\ mempool \subseteq Txs
  /\ blockchainHeight \in Nat
  /\ lock \in Threads \cup {None}
  /\ pc \in [Threads -> {"idle", "verified", "snapshot", "pow", "banned"} \cup Committing]
  /\ held \in [Threads -> Txs \cup {None}]
  /\ snapshot \in [Local -> SUBSET Txs]
  /\ template \in [Local -> Block]
  /\ score \in [Readers -> Nat]
  /\ mode \in {"up", "down", "cliStored", "reindexing"}
  /\ faults \in Nat
  /\ stale \in BOOLEAN

\* createblockchain, then startnode.
Init ==
  /\ chain = <<Genesis>>
  /\ utxo = FindUTXO(chain)
  /\ mempool = {}
  /\ blockchainHeight = 0
  /\ lock = None
  /\ pc = [th \in Threads |-> "idle"]
  /\ held = [th \in Threads |-> None]
  /\ snapshot = [th \in Local |-> {}]
  /\ template = [th \in Local |-> NoBlock]
  /\ score = [p \in Readers |-> 0]
  /\ mode = "up"
  /\ faults = 0
  /\ stale = FALSE

Goto(th, label) == pc' = [pc EXCEPT ![th] = label]

\* A thread of the running node that stands at a label; and with the lock free.
At(th, label) == mode = "up" /\ pc[th] = label
AtFree(th, label) == At(th, label) /\ lock = None

(***************************************************************************)
(* Misbehave: at the threshold the peer is banned and disconnected, and    *)
(* its reader ends.                                                        *)
(***************************************************************************)
Misbehave(p, points) ==
  /\ score' = [score EXCEPT ![p] = @ + points]
  /\ Goto(p, IF score'[p] >= BAN_SCORE_THRESHOLD THEN "banned" ELSE "idle")

-----------------------------------------------------------------------------
(***************************************************************************)
(* Transactions: HandleTx and sendtx verify under the lock, release it and *)
(* add to the mempool afterwards.                                          *)
(***************************************************************************)
RelaysAt(t) == CalculateFee(t) * RELAY_DIVISOR >= Size[t]

\* Node::VerifyTransaction, the cheap test before the blockchain is looked at.
WellFormed(t) == Vin[t] # <<>> /\ Vout[t] # <<>>

\* Mutant of ReceiveTx: the exception is logged and the handler goes on.
ReceiveTxIgnoringThrow(p, t) ==
  /\ AtFree(p, "idle")
  /\ t \notin mempool /\ WellFormed(t)
  /\ VerifyTransaction(chain, t) # "invalid" /\ RelaysAt(t)
  /\ held' = [held EXCEPT ![p] = t]
  /\ Goto(p, "verified")
  /\ UNCHANGED <<disk, mempool, blockchainHeight, lock, snapshot, template, score, mode, faults,
                 stale>>

\* HandleTx: a well-formed transaction that fails verification costs its sender
\* points; one that is malformed, that throws, or that pays too little, is dropped.
ReceiveTx(p, t) ==
  /\ AtFree(p, "idle")
  /\ t \notin mempool /\ WellFormed(t)
  /\ LET verdict == VerifyTransaction(chain, t)
     IN  \/ /\ verdict = "invalid"
            /\ Misbehave(p, INVALID_TX_SCORE)
            /\ UNCHANGED held
         \/ /\ verdict = "valid" /\ RelaysAt(t)
            /\ held' = [held EXCEPT ![p] = t]
            /\ Goto(p, "verified")
            /\ UNCHANGED score
  /\ UNCHANGED <<disk, mempool, blockchainHeight, lock, snapshot, template, mode, faults, stale>>

\* sendtx: NewUTXOTransaction takes its inputs from the UTXO database and
\* returns the change, so the fee is 0.
SubmitTx(t) ==
  /\ AtFree(Rpc, "idle")
  /\ Inputs(t) \subseteq Spendable(utxo, chain)
  /\ IsInjective(Vin[t])
  /\ VerifyTransaction(chain, t) = "valid" /\ CalculateFee(t) = 0
  /\ t \notin mempool
  /\ held' = [held EXCEPT ![Rpc] = t]
  /\ Goto(Rpc, "verified")
  /\ UNCHANGED <<disk, mempool, blockchainHeight, lock, snapshot, template, score, mode, faults,
                 stale>>

AdmitTx(th) ==
  /\ At(th, "verified")
  /\ mempool' \in AddTransaction(mempool, held[th])
  /\ held' = [held EXCEPT ![th] = None]
  /\ Goto(th, "idle")
  /\ UNCHANGED <<disk, blockchainHeight, lock, snapshot, template, score, mode, faults, stale>>

-----------------------------------------------------------------------------
(***************************************************************************)
(* AddBlock, and the part of MineBlock and HandleBlock that follows it.    *)
(***************************************************************************)
\* Mutant of AddBlock: no test that the block extends the tip.
AddBlockAnywhere(th, b) ==
  /\ Height(chain) < MaxHeight
  /\ chain' = Append(chain, b)
  /\ lock' = th
  /\ Goto(th, "stored")

AddBlock(th, b) ==
  /\ b.prev = Tip(chain)
  /\ Height(chain) < MaxHeight
  /\ chain' = Append(chain, b)
  /\ lock' = th
  /\ Goto(th, "stored")

UpdateUtxo(th) ==
  /\ At(th, "stored")
  /\ utxo' = Update(utxo, Last(chain))
  /\ Goto(th, "updated")
  /\ UNCHANGED <<chain, mempool, blockchainHeight, lock, held, snapshot, template, score, mode,
                 faults, stale>>

\* Mutant of UpdateUtxoFails: the mutex is not released by the exception.
UpdateUtxoFailsLocked(th) ==
  /\ At(th, "stored")
  /\ faults < MaxFaults
  /\ faults' = faults + 1
  /\ stale' = TRUE
  /\ Goto(th, "idle")
  /\ UNCHANGED <<disk, mempool, blockchainHeight, lock, held, snapshot, template, score, mode>>

\* LevelDB reports an error: the exception unwinds through the lock_guard.
UpdateUtxoFails(th) ==
  /\ At(th, "stored")
  /\ faults < MaxFaults
  /\ faults' = faults + 1
  /\ stale' = TRUE
  /\ lock' = None
  /\ Goto(th, "idle")
  /\ UNCHANGED <<disk, mempool, blockchainHeight, held, snapshot, template, score, mode>>

CleanMempool(th) ==
  /\ At(th, "updated")
  /\ mempool' = RemoveBlockTransactions(mempool, Last(chain).txs)
  /\ Goto(th, "cleaned")
  /\ UNCHANGED <<disk, blockchainHeight, lock, held, snapshot, template, score, mode, faults,
                 stale>>

PublishHeight(th) ==
  /\ At(th, "cleaned")
  /\ blockchainHeight' = Height(chain)
  /\ lock' = None
  /\ Goto(th, "idle")
  /\ UNCHANGED <<disk, mempool, held, snapshot, template, score, mode, faults, stale>>

-----------------------------------------------------------------------------
(***************************************************************************)
(* HandleBlock.  The block names a block of our chain, or one we do not    *)
(* know, as the one it extends; a block we hold already may come again.    *)
(***************************************************************************)
UnknownId == <<MaxHeight + 1, Peer, 0>>

PeerBlocks ==
  {[id |-> <<prev[1] + 1, Peer, r>>, prev |-> prev, txs |-> body] :
     prev \in {chain[i].id : i \in DOMAIN chain} \cup {UnknownId},
     r \in PeerRewards, body \in PeerBodies}
    \cup Range(Tail(chain))

ReceiveBlock(p, b) ==
  /\ AtFree(p, "idle")
  /\ LET verdict == BlockVerdict(chain, b)
     IN  \/ /\ verdict = "ban"
            /\ Misbehave(p, BAN_SCORE_THRESHOLD)
            /\ UNCHANGED <<chain, lock>>
         \/ /\ verdict = "valid"
            /\ AddBlock(p, b)
            /\ UNCHANGED score
  /\ UNCHANGED <<utxo, mempool, blockchainHeight, held, snapshot, template, mode, faults, stale>>

-----------------------------------------------------------------------------
(***************************************************************************)
(* MineBlock, in the background thread (when the mempool is not empty) and *)
(* on request: copy the mempool; under the lock, select the transactions   *)
(* and read the tip; search for a proof of work without the lock; under    *)
(* the lock again, AddBlock and what follows it.                           *)
(***************************************************************************)
CopyMempool(th) ==
  /\ At(th, "idle")
  /\ th = Rpc \/ mempool # {}
  /\ snapshot' = [snapshot EXCEPT ![th] = mempool]
  /\ Goto(th, "snapshot")
  /\ UNCHANGED <<disk, mempool, blockchainHeight, lock, held, template, score, mode, faults, stale>>

\* The selection loop takes the candidates that verify, best rate first, up
\* to the limit.
Selections(candidates) ==
  LET valid == {t \in candidates : VerifyTransaction(chain, t) = "valid"}
      room  == MAX_BLOCK_TXS - 1
  IN  {SubSeq(s, 1, IF Len(s) < room THEN Len(s) ELSE room) : s \in SortedByFeeRate(valid)}

MinedBlock(th, txs) ==
  LET next == Height(chain) + 1
  IN  [id   |-> <<next, th, GetBlockSubsidy(next) + BlockFees(txs)>>,
       prev |-> Tip(chain),
       txs  |-> txs]

\* An exception of VerifyTransaction leaves the loop and ends the cycle.
SelectTxs(th) ==
  /\ AtFree(th, "snapshot")
  /\ snapshot' = [snapshot EXCEPT ![th] = {}]
  /\ IF \E t \in snapshot[th] : VerifyTransaction(chain, t) = "throws"
     THEN Goto(th, "idle") /\ UNCHANGED template
     ELSE /\ \E txs \in Selections(snapshot[th]) :
               template' = [template EXCEPT ![th] = MinedBlock(th, txs)]
          /\ Goto(th, "pow")
  /\ UNCHANGED <<disk, mempool, blockchainHeight, lock, held, score, mode, faults, stale>>

StoreMined(th) ==
  /\ AtFree(th, "pow")
  /\ AddBlock(th, template[th])
  /\ template' = [template EXCEPT ![th] = NoBlock]
  /\ UNCHANGED <<utxo, mempool, blockchainHeight, held, snapshot, score, mode, faults, stale>>

\* AddBlock throws: the tip has moved, or the bits or the timestamp are not right.
MiningFails(th) ==
  /\ AtFree(th, "pow")
  /\ template' = [template EXCEPT ![th] = NoBlock]
  /\ Goto(th, "idle")
  /\ UNCHANGED <<disk, mempool, blockchainHeight, lock, held, snapshot, score, mode, faults, stale>>

-----------------------------------------------------------------------------
(***************************************************************************)
(* The process.  Stop joins the threads when each is done with its work; a *)
(* crash may come at any point and loses everything but the two databases. *)
(* Start reads the height back from the block database and compares the    *)
(* UTXO database with nothing.                                             *)
(***************************************************************************)
Exit ==
  /\ mode' = "down"
  /\ mempool' = {}
  /\ lock' = None
  /\ pc' = [th \in Threads |-> "idle"]
  /\ held' = [th \in Threads |-> None]
  /\ snapshot' = [th \in Local |-> {}]
  /\ template' = [th \in Local |-> NoBlock]
  /\ score' = [p \in Readers |-> 0]
  /\ UNCHANGED <<disk, blockchainHeight>>

Stop ==
  /\ mode = "up"
  /\ \A th \in Threads : pc[th] \in {"idle", "banned"}
  /\ Exit
  /\ UNCHANGED <<faults, stale>>

Crash ==
  /\ mode # "down"
  /\ faults < MaxFaults
  /\ faults' = faults + 1
  /\ stale' = \/ stale
              \/ \E th \in Threads : pc[th] = "stored"
              \/ mode \in {"cliStored", "reindexing"}
  /\ Exit

\* Mutants of Start: the atomic is not set from the block database.
StartUnset ==
  /\ mode = "down"
  /\ mode' = "up"
  /\ blockchainHeight' = -1
  /\ UNCHANGED <<disk, mempool, lock, work, score, faults, stale>>

StartUnchanged ==
  /\ mode = "down"
  /\ mode' = "up"
  /\ UNCHANGED <<disk, mempool, blockchainHeight, lock, work, score, faults, stale>>

Start ==
  /\ mode = "down"
  /\ mode' = "up"
  /\ blockchainHeight' = Height(chain)
  /\ UNCHANGED <<disk, mempool, lock, work, score, faults, stale>>

\* cli send: the transaction and a coinbase without fees become a block.
\* Blockchain::MineBlock verifies against the chain and writes the block.
CliSend(t) ==
  /\ mode = "down"
  /\ Inputs(t) \subseteq Spendable(utxo, chain)
  /\ IsInjective(Vin[t])
  /\ VerifyTransaction(chain, t) = "valid" /\ CalculateFee(t) = 0
  /\ Height(chain) < MaxHeight
  /\ LET next == Height(chain) + 1
     IN  chain' = Append(chain, [id   |-> <<next, Cli, GetBlockSubsidy(next)>>,
                                 prev |-> Tip(chain), txs |-> <<t>>])
  /\ mode' = "cliStored"
  /\ UNCHANGED <<utxo, mempool, blockchainHeight, lock, work, score, faults, stale>>

CliUpdate ==
  /\ mode = "cliStored"
  /\ utxo' = Update(utxo, Last(chain))
  /\ mode' = "down"
  /\ UNCHANGED <<chain, mempool, blockchainHeight, lock, work, score, faults, stale>>

\* cli reindexutxo: Reindex deletes every key in one batch, then writes the
\* rebuilt set in another.
ReindexWipe ==
  /\ mode = "down"
  /\ utxo' = {}
  /\ mode' = "reindexing"
  /\ UNCHANGED <<chain, mempool, blockchainHeight, lock, work, score, faults, stale>>

ReindexWrite ==
  /\ mode = "reindexing"
  /\ utxo' = FindUTXO(chain)
  /\ mode' = "down"
  /\ stale' = FALSE
  /\ UNCHANGED <<chain, mempool, blockchainHeight, lock, work, score, faults>>

-----------------------------------------------------------------------------
Commit(th) == UpdateUtxo(th) \/ CleanMempool(th) \/ PublishHeight(th)

Mine(th) ==
  CopyMempool(th) \/ SelectTxs(th) \/ StoreMined(th) \/ MiningFails(th)

Next ==
  \/ \E p \in Readers : \/ \E t \in Txs : ReceiveTx(p, t)
                        \/ \E b \in PeerBlocks : ReceiveBlock(p, b)
  \/ \E t \in Txs : SubmitTx(t) \/ CliSend(t)
  \/ \E th \in Local : Mine(th)
  \/ \E th \in Threads : AdmitTx(th) \/ Commit(th) \/ UpdateUtxoFails(th)
  \/ Stop \/ Crash \/ Start \/ CliUpdate \/ ReindexWipe \/ ReindexWrite

Spec == Init /\ [][Next]_vars

-----------------------------------------------------------------------------
(***************************************************************************)
(* What the ledger promises                                                *)
(***************************************************************************)

\* Whoever stores a block (a peer's thread, a miner whose block was built
\* some time ago, the CLI), and whatever crashes in between, the chain only
\* grows, by blocks that are right for the very height they get.
Promise == INSTANCE ChainSpec WITH chain <- chain, Genesis <- Genesis, Acceptable <- Acceptable
ImplementsChain == Promise!Spec

\* Transactions a thread or the mempool is holding on to.
Pending ==
  mempool \cup (UNION {snapshot[th] : th \in Local}) \cup ({held[th] : th \in Threads} \ {None})

\* A transaction that was verified keeps what it spends on the chain, so the
\* miner's selection loop (node.cpp:1126) never ends in an exception that a
\* single mempool entry would repeat in every cycle.
PendingNeverThrows == \A t \in Pending : VerifyTransaction(chain, t) # "throws"

\* No two threads are inside the part of storing a block that blockchainMutex
\* protects, nor does one hold it there after a failure.
CommitExclusive == \A th \in Threads : lock = th <=> pc[th] \in Committing

Quiescent ==
  mode \in {"up", "down"} /\ \A th \in Threads : pc[th] # "stored"

\* Between two blocks the UTXO database misses no output that is still
\* unspent, unless a fault came between AddBlock and Update and reindexutxo
\* has not been run since.
UtxoCoversUnspent == Quiescent /\ ~stale => Unspent(chain) \subseteq utxo

\* The height that is told to peers and RPC clients without the lock is the
\* height of the chain whenever the lock is free.
HeightPublished == mode = "up" /\ lock = None /\ ~stale => blockchainHeight = Height(chain)

\* However transactions and blocks come together, the mempool stays within
\* both limits; one transaction that is too big for it is let in alone
\* (mempool.cpp:35).
MempoolBounded ==
  \/ Cardinality(mempool) <= 1
  \/ /\ TotalBytes(mempool) <= MAX_MEMPOOL_SIZE
     /\ Cardinality(mempool) <= MAX_MEMPOOL_ENTRIES

\* While the node is up a transaction leaves the mempool because a block holds
\* it, or because one that pays more for a byte was added or turned away:
\* evictions that turn out not to be enough (mempool.cpp:50) cost nothing that
\* pays as much as the newcomer.
EvictedPayLess ==
  [][\A w \in mempool \ mempool' :
       \/ mode' = "down"
       \/ w \in Confirmed(chain)
       \/ \E th \in Threads : At(th, "verified") /\ held'[th] = None /\ LowerRate(w, held[th])]_vars

(***************************************************************************)
(* What the comments say and the code does not keep                        *)
(***************************************************************************)

\* "we check for double-spends within this block" (node.cpp:749): a block
\* that this node stored would pass the check of every other node.
NoDoubleSpendInBlock ==
  \A i \in DOMAIN chain : \A k \in DOMAIN chain[i].txs : ~SpendsTwice(chain[i], k)

\* "incrementally update the UTXO set per block" (node.cpp:804): without a
\* fault the result is what the chain leaves unspent.
UtxoMatchesChain == Quiescent /\ ~stale => utxo \subseteq Unspent(chain)
=============================================================================
