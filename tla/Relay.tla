------------------------------- MODULE Relay -------------------------------
(***************************************************************************)
(* How a transaction spreads over the nodes (src/node.cpp): a node that    *)
(* admits one to its mempool queues its id for every other peer, a thread  *)
(* of the node sends what is queued, and a peer that does not have the     *)
(* transaction asks for it.                                                *)
(*                                                                         *)
(* A node has a reader thread for each connection, one thread for RPC      *)
(* requests and the thread that flushes the queues.  Connections of this   *)
(* module have completed their handshakes (module Sync) when they are up;  *)
(* one that comes up later is not told what was admitted before.  The pool *)
(* is bounded by its number of entries here, by bytes as well in module    *)
(* Mempool, and what verification says is module Ledger's.                 *)
(***************************************************************************)
EXTENDS Integers, Sequences, FiniteSets, SequencesExt, Lists

CONSTANTS
  Nodes,
  Links,            \* pairs <<n, m>>, one for each connection
  Late,             \* links that are not up from the start
  Txs,
  Rpc, None,
  FeeRate,
  Refused,          \* pairs <<n, t>>: n does not accept t
  MAX_MEMPOOL_ENTRIES,
  MAX_INV_BATCH_SIZE,
  Fragile,          \* bound: links that may break
  Mined             \* bound: pairs <<n, t>>: a block may take t from n's pool, once

Back(e) == <<e[2], e[1]>>

Ends == Links \cup {Back(d) : d \in Links}

\* The readers, each of them an end, and the thread for RPC requests.
Threads == Ends \cup Nodes \X {Rpc}

ASSUME RelayAssumption ==
  /\ Links \subseteq Nodes \X Nodes /\ IsFiniteSet(Links) /\ Late \subseteq Links
  /\ \A d \in Links : d[1] # d[2] /\ Back(d) \notin Links
  /\ Rpc \notin Nodes /\ None \notin Txs /\ None \notin [end : Ends, txs : Seq(Txs)]
  /\ FeeRate \in [Txs -> Nat]
  /\ Refused \subseteq Nodes \X Txs
  /\ MAX_MEMPOOL_ENTRIES \in Nat \ {0} /\ MAX_INV_BATCH_SIZE \in Nat \ {0}
  /\ Fragile \subseteq Links /\ Mined \subseteq Nodes \X Txs

VARIABLES
  pool,         \* the mempool of a node
  up,           \* links that are up
  ended,        \* links that have broken
  pendingInv,   \* what a node has queued for a peer
  net,          \* what an end has sent and the other has not read
  step, hand,   \* what a thread does, and with which transaction
  round,        \* ends that the flush thread still visits, in this order
  batch,        \* what it has taken from the queue of an end and not sent
  (* history *)
  submitted,    \* transactions that a user has sent
  mined,        \* pairs <<n, t>>: a block has taken t from n's pool
  owed          \* transactions that one end owes the other

vars == <<pool, up, ended, pendingInv, net, step, hand, round, batch, submitted, mined, owed>>

Message == [type : {"inv", "getdata"}, txs : Seq(Txs)] \cup [type : {"tx"}, tx : Txs]

TypeOK ==
  /\ \A n \in Nodes : pool[n] \subseteq Txs /\ Cardinality(pool[n]) <= MAX_MEMPOOL_ENTRIES
  /\ up \subseteq Links /\ ended \subseteq Links /\ up \cap ended = {}
  /\ pendingInv \in [Ends -> Seq(Txs)]
  /\ \A e \in Ends : \A i \in DOMAIN net[e] :
       /\ net[e][i] \in Message
       /\ net[e][i].type = "inv" => Len(net[e][i].txs) \in 1 .. MAX_INV_BATCH_SIZE
  /\ step \in [Threads -> {"idle", "admit", "relay"}] /\ hand \in [Threads -> Txs \cup {None}]
  /\ \A th \in Threads : step[th] = "idle" <=> hand[th] = None
  /\ round \in [Nodes -> Seq(Ends)]
  /\ \A n \in Nodes : batch[n] = None \/ batch[n] \in [end : Ends, txs : Seq(Txs)]
  /\ submitted \subseteq Txs /\ mined \subseteq Mined
  /\ owed \in [Ends -> SUBSET Txs]

-----------------------------------------------------------------------------
Up(e, links) == e \in links \/ Back(e) \in links

\* One end owes the other a transaction as long as the link is up, the one has
\* it and the other has not.
Unpaid(debts, links, pools) ==
  [e \in Ends |-> {t \in debts[e] : Up(e, links) /\ t \in pools[e[1]] /\ t \notin pools[e[2]]}]

Empty == [e \in Ends |-> <<>>]

\* The network after the end e has read a message and sent msgs.
Exchange(e, msgs) == [net EXCEPT ![Back(e)] = Tail(@), ![e] = @ \o msgs]

Delivered(e, type) ==
  /\ Up(e, up) /\ step[e] = "idle"
  /\ net[Back(e)] # <<>> /\ Head(net[Back(e)]).type = type

\* The pools AddTransaction may leave.
AddTransaction(p, t) ==
  LET worst == {s \in p : \A r \in p : FeeRate[s] <= FeeRate[r]}
  IN  IF t \in p \/ Cardinality(p) < MAX_MEMPOOL_ENTRIES THEN {p \cup {t}}
      ELSE {IF FeeRate[t] <= FeeRate[w] THEN p ELSE (p \ {w}) \cup {t} : w \in worst}

Init ==
  /\ pool = [n \in Nodes |-> {}]
  /\ up = Links \ Late /\ ended = {}
  /\ pendingInv = Empty /\ net = Empty
  /\ step = [th \in Threads |-> "idle"] /\ hand = [th \in Threads |-> None]
  /\ round = [n \in Nodes |-> <<>>] /\ batch = [n \in Nodes |-> None]
  /\ submitted = {} /\ mined = {}
  /\ owed = [e \in Ends |-> {}]

\* A link comes up.
Join(d) ==
  /\ d \in Links \ (up \cup ended)
  /\ up' = up \cup {d}
  /\ UNCHANGED <<pool, ended, pendingInv, net, step, hand, round, batch, submitted, mined, owed>>

\* A link breaks, or one end closes it, with what is on the way.
Break(d) ==
  /\ d \in up \cap Fragile
  /\ up' = up \ {d} /\ ended' = ended \cup {d}
  /\ net' = [net EXCEPT ![d] = <<>>, ![Back(d)] = <<>>]
  /\ pendingInv' = [pendingInv EXCEPT ![d] = <<>>, ![Back(d)] = <<>>]
  /\ owed' = Unpaid(owed, up', pool)
  /\ UNCHANGED <<pool, step, hand, round, batch, submitted, mined>>

\* A block takes a transaction from a pool.
Confirm(n, t) ==
  /\ t \in pool[n] /\ <<n, t>> \in Mined \ mined
  /\ mined' = mined \cup {<<n, t>>}
  /\ pool' = [pool EXCEPT ![n] = @ \ {t}]
  /\ owed' = Unpaid(owed, up, pool')
  /\ UNCHANGED <<up, ended, pendingInv, net, step, hand, round, batch, submitted>>

-----------------------------------------------------------------------------
(***************************************************************************)
(* Transactions                                                            *)
(***************************************************************************)
Take(th, t) ==
  /\ step' = [step EXCEPT ![th] = "admit"]
  /\ hand' = [hand EXCEPT ![th] = t]

\* sendtx, up to the mempool.
SendTx(n, t) ==
  /\ step[<<n, Rpc>>] = "idle" /\ t \notin submitted \cup pool[n] /\ <<n, t>> \notin Refused
  /\ submitted' = submitted \cup {t}
  /\ Take(<<n, Rpc>>, t)
  /\ UNCHANGED <<pool, up, ended, pendingInv, net, round, batch, mined, owed>>

\* HandleTx: what the node has, or does not accept, it does not look at further.
HandleTx(e) ==
  /\ Delivered(e, "tx")
  /\ net' = Exchange(e, <<>>)
  /\ LET t == Head(net[Back(e)]).tx
     IN  IF t \in pool[e[1]] \/ <<e[1], t>> \in Refused
         THEN /\ owed' = [owed EXCEPT ![Back(e)] = @ \ {t}]
              /\ UNCHANGED <<step, hand>>
         ELSE Take(e, t) /\ UNCHANGED owed
  /\ UNCHANGED <<pool, up, ended, pendingInv, round, batch, submitted, mined>>

\* AddTransaction, by a thread that has left the locks it verified under.  It
\* succeeds as well if another thread has admitted the transaction since.
Admit(th) ==
  LET n == th[1]
      t == hand[th]
      debts == [e \in Ends |-> IF e[1] = n /\ e[2] # th[2] /\ t \notin pool[n]
                               THEN owed[e] \cup {t} ELSE owed[e]]
  IN  /\ step[th] = "admit"
      /\ \E p \in AddTransaction(pool[n], t) :
           /\ pool' = [pool EXCEPT ![n] = p]
           /\ IF t \in p
              THEN /\ owed' = Unpaid(debts, up, pool')
                   /\ step' = [step EXCEPT ![th] = "relay"] /\ UNCHANGED hand
              ELSE /\ owed' = [e \in Ends |-> IF e = Back(th) THEN owed[e] \ {t} ELSE owed[e]]
                   /\ step' = [step EXCEPT ![th] = "idle"] /\ hand' = [hand EXCEPT ![th] = None]
      /\ UNCHANGED <<up, ended, pendingInv, net, round, batch, submitted, mined>>

\* Mutant of RelayTransaction: peers that are being told already are left out.
RelayTransactionOnce(th) ==
  /\ step[th] = "relay"
  /\ pendingInv' = [e \in Ends |->
       IF e[1] = th[1] /\ e[2] # th[2] /\ Up(e, up) /\ pendingInv[e] = <<>>
       THEN Append(pendingInv[e], hand[th]) ELSE pendingInv[e]]
  /\ step' = [step EXCEPT ![th] = "idle"] /\ hand' = [hand EXCEPT ![th] = None]
  /\ UNCHANGED <<pool, up, ended, net, round, batch, submitted, mined, owed>>

\* RelayTransaction, under peersMutex: every peer but the one it came from.
RelayTransaction(th) ==
  /\ step[th] = "relay"
  /\ pendingInv' = [e \in Ends |->
       IF e[1] = th[1] /\ e[2] # th[2] /\ Up(e, up)
       THEN Append(pendingInv[e], hand[th]) ELSE pendingInv[e]]
  /\ step' = [step EXCEPT ![th] = "idle"] /\ hand' = [hand EXCEPT ![th] = None]
  /\ UNCHANGED <<pool, up, ended, net, round, batch, submitted, mined, owed>>

-----------------------------------------------------------------------------
(***************************************************************************)
(* Inventories                                                             *)
(***************************************************************************)
Inventory(type, txs) == IF txs = <<>> THEN <<>> ELSE <<[type |-> type, txs |-> txs]>>

HandleInv(e) ==
  /\ Delivered(e, "inv")
  /\ LET toRequest == Only(Head(net[Back(e)]).txs, Txs \ pool[e[1]])
     IN  net' = Exchange(e, Inventory("getdata", toRequest))
  /\ UNCHANGED <<pool, up, ended, pendingInv, step, hand, round, batch, submitted, mined, owed>>

\* Each transaction in a message of its own, those that have left the pool in
\* the meantime in none.
HandleGetData(e) ==
  /\ Delivered(e, "getdata")
  /\ LET found == Only(Head(net[Back(e)]).txs, pool[e[1]])
     IN  net' = Exchange(e, [i \in DOMAIN found |-> [type |-> "tx", tx |-> found[i]]])
  /\ UNCHANGED <<pool, up, ended, pendingInv, step, hand, round, batch, submitted, mined, owed>>

(***************************************************************************)
(* RunInvFlushLoop                                                         *)
(***************************************************************************)

\* Mutant of BeginRound: the thread waits for more than fits into one inv.
BeginFullRound(n) ==
  /\ round[n] = <<>> /\ batch[n] = None
  /\ \E e \in Ends : e[1] = n /\ Len(pendingInv[e]) > MAX_INV_BATCH_SIZE
  /\ round' = [round EXCEPT ![n] = SetToSeq({e \in Ends : e[1] = n /\ Up(e, up)})]
  /\ UNCHANGED <<pool, up, ended, pendingInv, net, step, hand, batch, submitted, mined, owed>>

\* The snapshot of the peers, in the order of their list, here any fixed one.  A
\* round that would find nothing is left out.
BeginRound(n) ==
  /\ round[n] = <<>> /\ batch[n] = None
  /\ \E e \in Ends : e[1] = n /\ pendingInv[e] # <<>>
  /\ round' = [round EXCEPT ![n] = SetToSeq({e \in Ends : e[1] = n /\ Up(e, up)})]
  /\ UNCHANGED <<pool, up, ended, pendingInv, net, step, hand, batch, submitted, mined, owed>>

\* Mutant of TakePending: the queue is copied and not emptied.
CopyPending(n) ==
  /\ round[n] # <<>> /\ batch[n] = None
  /\ round' = [round EXCEPT ![n] = Tail(@)]
  /\ LET e == Head(round[n])
     IN  batch' = IF Up(e, up) /\ pendingInv[e] # <<>>
                  THEN [batch EXCEPT ![n] = [end |-> e, txs |-> pendingInv[e]]] ELSE batch
  /\ UNCHANGED <<pool, up, ended, pendingInv, net, step, hand, submitted, mined, owed>>

\* The queue of a peer is taken under its invMutex.
TakePending(n) ==
  /\ round[n] # <<>> /\ batch[n] = None
  /\ round' = [round EXCEPT ![n] = Tail(@)]
  /\ LET e == Head(round[n])
     IN  IF Up(e, up) /\ pendingInv[e] # <<>>
         THEN /\ batch' = [batch EXCEPT ![n] = [end |-> e, txs |-> pendingInv[e]]]
              /\ pendingInv' = [pendingInv EXCEPT ![e] = <<>>]
         ELSE UNCHANGED <<batch, pendingInv>>
  /\ UNCHANGED <<pool, up, ended, net, step, hand, submitted, mined, owed>>

\* Mutant of SendChunk: everything goes into one inv.
SendAll(n) ==
  /\ batch[n] # None
  /\ LET e == batch[n].end
     IN  net' = IF Up(e, up)
                THEN [net EXCEPT ![e] = Append(@, [type |-> "inv", txs |-> batch[n].txs])] ELSE net
  /\ batch' = [batch EXCEPT ![n] = None]
  /\ UNCHANGED <<pool, up, ended, pendingInv, step, hand, round, submitted, mined, owed>>

\* One inv; if the peer is gone the rest is dropped.
SendChunk(n) ==
  /\ batch[n] # None
  /\ LET e     == batch[n].end
         size  == IF Len(batch[n].txs) < MAX_INV_BATCH_SIZE THEN Len(batch[n].txs)
                                                             ELSE MAX_INV_BATCH_SIZE
         chunk == SubSeq(batch[n].txs, 1, size)
         rest  == SubSeq(batch[n].txs, size + 1, Len(batch[n].txs))
     IN  /\ net' = IF Up(e, up) THEN [net EXCEPT ![e] = Append(@, [type |-> "inv", txs |-> chunk])]
                                ELSE net
         /\ batch' = [batch EXCEPT
              ![n] = IF Up(e, up) /\ rest # <<>> THEN [end |-> e, txs |-> rest] ELSE None]
  /\ UNCHANGED <<pool, up, ended, pendingInv, step, hand, round, submitted, mined, owed>>

-----------------------------------------------------------------------------
ThreadStep(th) == Admit(th) \/ RelayTransaction(th)

ReaderStep(e) == ThreadStep(e) \/ HandleTx(e) \/ HandleInv(e) \/ HandleGetData(e)

FlushStep(n) == BeginRound(n) \/ TakePending(n) \/ SendChunk(n)

Next ==
  \/ \E d \in Links : Join(d) \/ Break(d)
  \/ \E n \in Nodes :
       \/ \E t \in Txs : SendTx(n, t) \/ Confirm(n, t)
       \/ ThreadStep(<<n, Rpc>>) \/ FlushStep(n)
  \/ \E e \in Ends : ReaderStep(e)

Spec == Init /\ [][Next]_vars

\* Threads go on with what they have begun and what has arrived, and the flush
\* loop wakes up.
Fairness ==
  /\ \A e \in Ends : WF_vars(ReaderStep(e))
  /\ \A n \in Nodes : WF_vars(ThreadStep(<<n, Rpc>>)) /\ WF_vars(FlushStep(n))

FairSpec == Spec /\ Fairness

-----------------------------------------------------------------------------
(***************************************************************************)
(* Properties                                                              *)
(***************************************************************************)

\* Between the threads that admit, queue, flush, ask and answer a transaction
\* is never dropped: what one end owes the other is in the hands of one of them
\* or on the wire.
Mentions(msgs, types, t) ==
  \E i \in DOMAIN msgs :
    msgs[i].type \in types /\ (IF msgs[i].type = "tx" THEN msgs[i].tx = t ELSE \E j \in DOMAIN msgs[i].txs : msgs[i].txs[j] = t)

DebtIsUnderway ==
  \A e \in Ends : \A t \in owed[e] :
    \/ \E th \in Threads : th[1] = e[1] /\ th[2] # e[2] /\ step[th] = "relay" /\ hand[th] = t
    \/ \E i \in DOMAIN pendingInv[e] : pendingInv[e][i] = t
    \/ batch[e[1]] # None /\ batch[e[1]].end = e
         /\ \E i \in DOMAIN batch[e[1]].txs : batch[e[1]].txs[i] = t
    \/ Mentions(net[e], {"inv", "tx"}, t) \/ Mentions(net[Back(e)], {"getdata"}, t)
    \/ step[Back(e)] = "admit" /\ hand[Back(e)] = t

\* Every debt is paid: once no more transactions are sent and no more blocks
\* come, no node is left without one that a peer has admitted while it was its
\* peer, unless it has turned it away, the link has broken or the transaction
\* has left the peer's pool.
TxSpreads == <>[](\A e \in Ends : owed[e] = {})

\* Transactions do not circle for ever, though a node asks again for what it
\* has evicted or a block has taken (node.cpp:390), and announces it again when
\* it is let in a second time.
RelayEnds == <>[](\A e \in Ends : net[e] = <<>> /\ pendingInv[e] = <<>>)
=============================================================================
