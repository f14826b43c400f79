--------------------------- MODULE Transactions ---------------------------
(***************************************************************************)
(* Transactions, blocks and the verification rules of the node             *)
(* (src/transaction.cpp, src/blockchain.cpp, Node::HandleBlock).           *)
(*                                                                         *)
(* A transaction is named by its id, the hash of its contents, so a name   *)
(* fixes inputs and outputs: Vin[t] is the list of outpoints it spends and *)
(* Vout[t] the list of values it creates.  A coinbase carries random data, *)
(* so its id is the name of the block that holds it; it is the triple      *)
(* <<height, maker, value>>.  That triple also stands for the block hash.  *)
(* An outpoint is <<id of the creating transaction, position of the        *)
(* output>>; positions count from 1 here and from 0 in the code.           *)
(***************************************************************************)
EXTENDS Integers, Sequences, FiniteSets, SequencesExt, FiniteSetsExt

CONSTANTS
  Txs,               \* ids of the transactions that are not coinbases
  Vin,               \* Vin[t]: sequence of outpoints spent by t
  Vout,              \* Vout[t]: sequence of output values of t
  Signed,            \* the transactions whose signatures verify
  Makers,            \* whoever builds blocks: threads of the node, peers, the CLI
  SUBSIDY,           \* block reward before any halving
  HALVING_INTERVAL,  \* blocks between two halvings
  COINBASE_MATURITY  \* confirmations a coinbase needs before it is spent

ASSUME ConsensusAssumption ==
  /\ SUBSIDY \in Nat
  /\ HALVING_INTERVAL \in Nat \ {0}
  /\ COINBASE_MATURITY \in Nat

CoinbaseIds == Nat \X Makers \X Int

Ids == Txs \cup CoinbaseIds

\* Ids are hashes of a fixed width, none that of two transactions; inputs and
\* outputs are lists: what a deserialised Transaction holds.
ASSUME TransactionAssumption ==
  /\ IsFiniteSet(Txs)
  /\ Txs \cap CoinbaseIds = {}
  /\ Signed \subseteq Txs
  /\ \A t \in Txs : Vin[t] \in Seq(Ids \X Int) /\ Vout[t] \in Seq(Nat)

(***************************************************************************)
(* A block: the coinbase (whose id also names the block), the block it     *)
(* extends, and the other transactions in order.                           *)
(***************************************************************************)
Block == [id : CoinbaseIds, prev : CoinbaseIds, txs : Seq(Txs)]

Reward(b) == b.id[3]

IsCoinbase(id) == id \notin Txs

\* The transactions of a block, coinbase included.
TxIdsOf(b) == {b.id} \cup Range(b.txs)

\* A chain is a non-empty sequence of blocks, genesis first; the height of
\* chain[i] is i - 1.
Height(ch) == Len(ch) - 1

Tip(ch) == ch[Len(ch)].id

Confirmed(ch) == UNION {TxIdsOf(ch[i]) : i \in DOMAIN ch}

\* Blockchain::FindTransactionWithHeight walks from the tip, so the newest
\* block that holds the transaction gives the height.
HeightOf(ch, id) == Max({i \in DOMAIN ch : id \in TxIdsOf(ch[i])}) - 1

\* x >> n: the largest q with q * 2^n <= x.
ShiftRight(x, n) == Max({q \in 0 .. x : q * 2^n <= x})

\* Consensus::GetBlockSubsidy
GetBlockSubsidy(h) ==
  LET halvings == h \div HALVING_INTERVAL
  IN  IF halvings >= 64 THEN 0 ELSE ShiftRight(SUBSIDY, halvings)

(***************************************************************************)
(* Values                                                                  *)
(***************************************************************************)
Outputs(id) == IF IsCoinbase(id) THEN <<id[3]>> ELSE Vout[id]

Inputs(t) == Range(Vin[t])

InputIds(t) == {o[1] : o \in Inputs(t)}

Total(values) == SumFunction(values)

\* Transaction::CalculateFee: a list of inputs, so an outpoint named twice
\* counts twice.
CalculateFee(t) ==
  Total([k \in DOMAIN Vin[t] |-> Outputs(Vin[t][k][1])[Vin[t][k][2]]]) - Total(Vout[t])

BlockFees(txs) == Total([k \in DOMAIN txs |-> CalculateFee(txs[k])])

(***************************************************************************)
(* Verification                                                            *)
(*                                                                         *)
(* Both overloads of Blockchain::VerifyTransaction look up the inputs in   *)
(* order: one whose transaction is unknown throws, one that spends a       *)
(* coinbase less than COINBASE_MATURITY deep returns nullopt.  Then an     *)
(* output index out of range throws, and a negative fee or a bad signature *)
(* returns nullopt.  Whether an output was already spent is not looked at. *)
(* ctx holds the earlier transactions of the same block (empty for the     *)
(* mempool overload) and at the height that depths are counted from.       *)
(***************************************************************************)
Unknown(ch, ctx, o) == o[1] \notin ctx \cup Confirmed(ch)

Immature(ch, ctx, at, o) ==
  /\ IsCoinbase(o[1])
  /\ o[1] \in ctx \/ at - HeightOf(ch, o[1]) < COINBASE_MATURITY

Verdict(ch, ctx, at, t) ==
  LET bad == {k \in DOMAIN Vin[t] : \/ Unknown(ch, ctx, Vin[t][k])
                                    \/ Immature(ch, ctx, at, Vin[t][k])}
  IN  IF Vin[t] = <<>> \/ Vout[t] = <<>> THEN "invalid"
      ELSE IF bad # {}
      THEN IF Unknown(ch, ctx, Vin[t][Min(bad)]) THEN "throws" ELSE "invalid"
      ELSE IF \E o \in Inputs(t) : o[2] \notin DOMAIN Outputs(o[1]) THEN "throws"
      ELSE IF CalculateFee(t) < 0 \/ t \notin Signed THEN "invalid"
      ELSE "valid"

\* VerifyTransaction(tx): the tests of the mempool, the miner and the CLI.
VerifyTransaction(ch, t) == Verdict(ch, {}, Height(ch), t)

(***************************************************************************)
(* The loop of Node::HandleBlock over the transactions of a block, the     *)
(* coinbase first: an outpoint spent twice, then VerifyTransaction with    *)
(* the transactions before it as context.  The first transaction that      *)
(* fails decides: "ban" is Misbehave(100), "reject" is an exception.       *)
(***************************************************************************)
SpentBefore(b, k) == UNION {Inputs(b.txs[j]) : j \in 1 .. k - 1}

SpendsTwice(b, k) ==
  \/ Inputs(b.txs[k]) \cap SpentBefore(b, k) # {}
  \/ ~IsInjective(Vin[b.txs[k]])

Context(b, k) == {b.id} \cup {b.txs[j] : j \in 1 .. k - 1}

VerifyInBlock(ch, b, k) == Verdict(ch, Context(b, k), Height(ch) + 1, b.txs[k])

\* What HandleBlock makes of the block b on the chain ch before AddBlock.
BlockVerdict(ch, b) ==
  LET bad == {k \in DOMAIN b.txs : SpendsTwice(b, k) \/ VerifyInBlock(ch, b, k) # "valid"}
  IN  IF bad # {}
      THEN IF SpendsTwice(b, Min(bad)) \/ VerifyInBlock(ch, b, Min(bad)) = "invalid"
           THEN "ban"
           ELSE "reject"
      ELSE IF Reward(b) > GetBlockSubsidy(Height(ch) + 1) + BlockFees(b.txs)
      THEN "ban"
      ELSE "valid"

(***************************************************************************)
(* What makes a block right for the place it gets on a chain: it was made  *)
(* for that height, takes no more than the reward of that height, and its  *)
(* inputs exist (on the chain, or earlier in the block), coinbases among   *)
(* them mature.                                                            *)
(***************************************************************************)
InputsGood(ch, b) ==
  \A k \in DOMAIN b.txs : \A o \in Inputs(b.txs[k]) :
    \/ o[1] \in {b.txs[j] : j \in 1 .. k - 1}
    \/ /\ o[1] \in Confirmed(ch)
       /\ IsCoinbase(o[1]) => Height(ch) + 1 - HeightOf(ch, o[1]) >= COINBASE_MATURITY

Acceptable(ch, b) ==
  /\ b.prev = Tip(ch)
  /\ b.id[1] = Height(ch) + 1
  /\ Reward(b) <= GetBlockSubsidy(Height(ch) + 1) + BlockFees(b.txs)
  /\ \A t \in Range(b.txs) : t \in Signed /\ CalculateFee(t) >= 0
  /\ InputsGood(ch, b)
=============================================================================
