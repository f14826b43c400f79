------------------------------ MODULE Mempool ------------------------------
(***************************************************************************)
(* The pool of unconfirmed transactions (src/mempool.cpp).  A transaction  *)
(* enters with its fee rate and size; both follow from its contents, so    *)
(* the pool is a set of ids.  Every operation holds the pool's mutex from  *)
(* beginning to end, so each is one step; totalBytes is always the sum of  *)
(* the sizes of the entries and is not a variable of its own here.         *)
(***************************************************************************)
EXTENDS Transactions

CONSTANTS
  Size,                 \* Size[t]: serialised size of t
  MAX_MEMPOOL_SIZE,     \* bytes
  MAX_MEMPOOL_ENTRIES   \* transactions

ASSUME MempoolAssumption ==
  /\ Size \in [Txs -> Nat \ {0}]
  /\ MAX_MEMPOOL_SIZE \in Nat /\ MAX_MEMPOOL_ENTRIES \in Nat

\* feeRate is fee per byte: a ratio is compared by cross multiplication.
LowerRate(s, t) == CalculateFee(s) * Size[t] < CalculateFee(t) * Size[s]

TotalBytes(pool) == MapThenSumSet(LAMBDA t : Size[t], pool)

\* Mutant of Full: the newcomer's own size is forgotten.
FullWithout(pool, t) ==
  \/ TotalBytes(pool) > MAX_MEMPOOL_SIZE
  \/ Cardinality(pool) >= MAX_MEMPOOL_ENTRIES

Full(pool, t) ==
  \/ TotalBytes(pool) + Size[t] > MAX_MEMPOOL_SIZE
  \/ Cardinality(pool) >= MAX_MEMPOOL_ENTRIES

\* The entries EvictLowestFeeRate may take: it keeps the first of equals in
\* the order of the map, which the ids decide.
Worst(pool) == {w \in pool : \A s \in pool : ~LowerRate(s, w)}

\* Mutant of Evictions: room is made for every newcomer, whatever it pays.
EvictionsForAny(pool, t) ==
  {out \in SUBSET pool : /\ pool \ out = {} \/ ~Full(pool \ out, t)
                         /\ \A w \in out : Full(pool \ (out \ {w}), t)}

(***************************************************************************)
(* Mempool::AddTransaction.  While the pool has no room its worst entry is *)
(* evicted, unless t pays no more than that entry: then t is turned away.  *)
(* Entries evicted before that stay evicted.  Evictions(pool, t) is every  *)
(* set of entries the loop may have thrown out when it stops.              *)
(***************************************************************************)
Evictions(pool, t) ==
  LET stops(out) ==
        LET left == pool \ out
        IN  left = {} \/ ~Full(left, t) \/ \A w \in Worst(left) : ~LowerRate(w, t)
      \* out is reached by evicting worst entries one after the other, none
      \* of which was a place to stop
      reached(out) ==
        \E order \in SetToSeqs(out) :
          \A k \in DOMAIN order :
            LET before == {order[j] : j \in 1 .. k - 1}
            IN  order[k] \in Worst(pool \ before) /\ ~stops(before)
  IN  {out \in SUBSET pool : stops(out) /\ reached(out)}

Admitted(pool, t) == pool = {} \/ ~Full(pool, t)

\* The pools AddTransaction may leave behind.
AddTransaction(pool, t) ==
  IF t \in pool THEN {pool}
  ELSE {IF Admitted(pool \ out, t) THEN (pool \ out) \cup {t} ELSE pool \ out :
          out \in Evictions(pool, t)}

\* Mempool::RemoveBlockTransactions drops the ids the block holds, and no
\* transaction that conflicts with them.
RemoveBlockTransactions(pool, txs) == pool \ Range(txs)

\* Mempool::GetTransactionsSortedByFeeRate: descending rates, ties in any order.
SortedByFeeRate(pool) ==
  {s \in SetToSeqs(pool) : \A i, j \in DOMAIN s : i < j => ~LowerRate(s[i], s[j])}
=============================================================================
