------------------------------ MODULE UTXOSet ------------------------------
(***************************************************************************)
(* The UTXO database (src/utxoSet.cpp), a LevelDB of its own beside the    *)
(* block database.  It maps a transaction id to the outputs of that        *)
(* transaction not spent yet and forgets the id when none is left; here it *)
(* is the set of those outpoints.                                          *)
(***************************************************************************)
EXTENDS Transactions

OutpointsOf(id) == {id} \X DOMAIN Outputs(id)

\* The value stored under a key: the output positions left of one transaction.
Entry(utxo, id) == {o[2] : o \in {u \in utxo : u[1] = id}}

(***************************************************************************)
(* UTXOSet::Update.  Every read goes to the database, every write to a     *)
(* batch that reads do not see and that is applied at the end, the last    *)
(* write of a key winning.  A spent transaction that is not in the         *)
(* database (spent already, or created in this very block) is passed over. *)
(***************************************************************************)
\* Mutant of Spend: the whole entry of the spent transaction goes.
SpendWholeEntry(utxo, at, o) == [at |-> at, key |-> o[1], left |-> {}]

\* The write for the output <<id, n>> that a transaction spends, and the
\* write for the outputs of a new transaction: position in the block, key and
\* outputs left.
Spend(utxo, at, o) == [at |-> at, key |-> o[1], left |-> Entry(utxo, o[1]) \ {o[2]}]

Create(at, id) == [at |-> at, key |-> id, left |-> DOMAIN Outputs(id)]

WritesOf(utxo, b, k) ==
  LET t     == b.txs[k]
      found == {j \in DOMAIN Vin[t] : Entry(utxo, Vin[t][j][1]) # {}}
  IN  {Spend(utxo, <<k, j>>, Vin[t][j]) : j \in found} \cup {Create(<<k, Len(Vin[t]) + 1>>, t)}

Batch(utxo, b) == {Create(<<0, 0>>, b.id)} \cup UNION {WritesOf(utxo, b, k) : k \in DOMAIN b.txs}

Earlier(v, w) == v.at[1] < w.at[1] \/ (v.at[1] = w.at[1] /\ v.at[2] < w.at[2])

Update(utxo, b) ==
  LET batch == Batch(utxo, b)
      final == {w \in batch : ~\E v \in batch : v.key = w.key /\ Earlier(w, v)}
  IN  {o \in utxo : \A w \in batch : w.key # o[1]} \cup UNION {{w.key} \X w.left : w \in final}

(***************************************************************************)
(* Blockchain::FindUTXO, the rebuild that Reindex writes.  Blocks from the *)
(* tip to genesis, in a block the transactions in order (0 is the          *)
(* coinbase): an output is kept unless a spend of it was met before, and   *)
(* the spends of a transaction are noted after its own outputs.  A later   *)
(* find of the same id replaces the earlier one.                           *)
(***************************************************************************)
TxAt(ch, p) == IF p[2] = 0 THEN ch[p[1]].id ELSE ch[p[1]].txs[p[2]]

Positions(ch) == UNION {{i} \X (0 .. Len(ch[i].txs)) : i \in DOMAIN ch}

VisitedBefore(p, q) == p[1] > q[1] \/ (p[1] = q[1] /\ p[2] < q[2])

KeptAt(ch, q) ==
  LET spent == UNION {Inputs(TxAt(ch, p)) :
                        p \in {r \in Positions(ch) : r[2] # 0 /\ VisitedBefore(r, q)}}
  IN  OutpointsOf(TxAt(ch, q)) \ spent

FindUTXO(ch) ==
  LET kept == {q \in Positions(ch) : KeptAt(ch, q) # {}}
      final == {q \in kept : \A p \in kept : TxAt(ch, p) = TxAt(ch, q) => ~VisitedBefore(q, p)}
  IN  UNION {KeptAt(ch, q) : q \in final}

(***************************************************************************)
(* UTXOSet::FindSpendableOutputs and FindUTXO pass over a coinbase that is *)
(* less than COINBASE_MATURITY below the tip.                              *)
(***************************************************************************)
Spendable(utxo, ch) ==
  {o \in utxo : IsCoinbase(o[1]) => Height(ch) - o[1][1] >= COINBASE_MATURITY}

\* What the database is meant to hold: the outputs created on the chain that
\* no transaction of the chain spends.
Unspent(ch) ==
  LET onChain == UNION {Range(ch[i].txs) : i \in DOMAIN ch}
  IN  (UNION {OutpointsOf(id) : id \in Confirmed(ch)}) \ (UNION {Inputs(t) : t \in onChain})
=============================================================================
