---------------------------- MODULE RelayProofs ----------------------------
(***************************************************************************)
(* Proofs about module Relay: the types, with the limits on the pools and  *)
(* the inventories, and that no transaction that one node owes another is  *)
(* dropped between the threads.                                            *)
(***************************************************************************)
EXTENDS Relay, ListsProofs

\* What is on the wire: no inv is longer than the limit, or empty.
Sent == {m \in Message : m.type = "inv" => Len(m.txs) \in 1 .. MAX_INV_BATCH_SIZE}

\* What the flush thread of the node n may have taken from a queue.
Batch(n) == {b \in [end : Ends, txs : Seq(Txs)] : b.end[1] = n /\ b.txs # <<>>}

PoolInv ==
  /\ pool \in [Nodes -> SUBSET Txs]
  /\ \A n \in Nodes : IsFiniteSet(pool[n]) /\ Cardinality(pool[n]) <= MAX_MEMPOOL_ENTRIES

LinkInv == up \subseteq Links /\ ended \subseteq Links /\ up \cap ended = {}

QueueInv == pendingInv \in [Ends -> Seq(Txs)]

NetInv == net \in [Ends -> Seq(Sent)]

ThreadInv ==
  /\ step \in [Threads -> {"idle", "admit", "relay"}] /\ hand \in [Threads -> Txs \cup {None}]
  /\ \A th \in Threads : step[th] = "idle" <=> hand[th] = None

\* The flush thread of a node visits the ends of this node only.
FlushInv ==
  /\ round \in [Nodes -> Seq(Ends)]
  /\ \A n \in Nodes : \A i \in DOMAIN round[n] : round[n][i][1] = n
  /\ DOMAIN batch = Nodes
  /\ \A n \in Nodes : batch[n] = None \/ batch[n] \in Batch(n)

PastInv == submitted \subseteq Txs /\ mined \subseteq Mined /\ owed \in [Ends -> SUBSET Txs]

TypeInv == PoolInv /\ LinkInv /\ QueueInv /\ NetInv /\ ThreadInv /\ FlushInv /\ PastInv

\* A debt is one only while the link is up, the one end has the transaction and
\* the other has not: without this, a reader that filters an inv by its pool
\* could drop what DebtIsUnderway still counts on.
OwedInv ==
  \A e \in Ends : \A t \in owed[e] : Up(e, up) /\ t \in pool[e[1]] /\ t \notin pool[e[2]]

-----------------------------------------------------------------------------
(***************************************************************************)
(* Ends and threads                                                        *)
(***************************************************************************)

\* The ends of the links are pairs of different nodes, and each has another.
LEMMA EndFacts ==
  ASSUME RelayAssumption, NEW e \in Ends
  PROVE  /\ e[1] \in Nodes /\ e[2] \in Nodes /\ e = <<e[1], e[2]>> /\ e[1] # e[2]
         /\ Back(e) \in Ends /\ Back(Back(e)) = e /\ Back(e) # e
         /\ Back(e)[1] = e[2] /\ Back(e)[2] = e[1]
<1>1. ASSUME NEW d \in Links
      PROVE  d[1] \in Nodes /\ d[2] \in Nodes /\ d = <<d[1], d[2]>> /\ d[1] # d[2]
  BY DEF RelayAssumption
<1>2. e \in Links \/ \E d \in Links : e = Back(d)  BY DEF Ends
<1>3. e[1] \in Nodes /\ e[2] \in Nodes /\ e = <<e[1], e[2]>> /\ e[1] # e[2]
  BY <1>1, <1>2 DEF Back
<1>4. Back(e) \in Ends
  <2>1. CASE e \in Links  BY <2>1 DEF Ends
  <2>2. ASSUME NEW d \in Links, e = Back(d) PROVE Back(e) \in Ends
    <3>1. Back(e) = d  BY <1>1, <2>2 DEF Back
    <3>2. QED  BY <3>1 DEF Ends
  <2>3. QED  BY <1>2, <2>1, <2>2
<1>5. QED  BY <1>3, <1>4 DEF Back

\* A link or its other end.
LEMMA LinkEnds ==
  ASSUME RelayAssumption, NEW d \in Links
  PROVE  d \in Ends /\ Back(d) \in Ends /\ Back(d) \notin Links
BY DEF RelayAssumption, Ends

\* The ends are threads, and so is the one for requests.
LEMMA ThreadFacts ==
  ASSUME RelayAssumption
  PROVE  /\ Ends \subseteq Threads
         /\ \A n \in Nodes : <<n, Rpc>> \in Threads
         /\ \A th \in Threads : th[1] \in Nodes
<1>1. \A e \in Ends : e[1] \in Nodes  BY EndFacts
<1>2. QED  BY <1>1 DEF Threads

\* The ends are finitely many, as the links are.
LEMMA EndsFinite == ASSUME RelayAssumption PROVE IsFiniteSet(Ends)
<1> DEFINE Backs == {Back(d) : d \in Links}
           f == [d \in Links |-> Back(d)]
<1>1. f \in Surjection(Links, Backs)
  <2>1. f \in [Links -> Backs]  OBVIOUS
  <2>2. \A b \in Backs : \E d \in Links : f[d] = b  OBVIOUS
  <2>3. QED  BY <2>1, <2>2 DEF Surjection
<1>2. IsFiniteSet(Links)  BY DEF RelayAssumption
<1>3. IsFiniteSet(Backs)  BY <1>1, <1>2, FS_Surjection
<1>4. IsFiniteSet(Links \cup Backs)  BY <1>2, <1>3, FS_Union
<1>5. QED  BY <1>4 DEF Ends

\* A finite set can be put in order.
LEMMA SetToSeqRange == ASSUME NEW S, IsFiniteSet(S) PROVE SetToSeq(S) \in Seq(S)
<1>1. Cardinality(S) \in Nat /\ ExistsBijection(1 .. Cardinality(S), S)  BY FS_CardinalityType
<1>2. PICK f \in Bijection(1 .. Cardinality(S), S) : TRUE  BY <1>1 DEF ExistsBijection
<1>3. f \in [1 .. Cardinality(S) -> S] /\ IsInjective(f)
  BY <1>2 DEF Bijection, Injection, IsInjective
<1>4. SetToSeq(S) \in [1 .. Cardinality(S) -> S]  BY <1>3 DEF SetToSeq
<1>5. QED  BY <1>1, <1>4, SeqDef

-----------------------------------------------------------------------------
(***************************************************************************)
(* Messages                                                                *)
(***************************************************************************)

\* A message that names a transaction.
Names(m, types, t) ==
  m.type \in types /\ (IF m.type = "tx" THEN m.tx = t ELSE \E j \in DOMAIN m.txs : m.txs[j] = t)

\* What the messages of the three kinds carry.
LEMMA SentFacts ==
  ASSUME NEW m \in Sent
  PROVE  /\ m \in Message
         /\ m.type \in {"inv", "getdata"} => m.txs \in Seq(Txs)
         /\ m.type = "tx" => m.tx \in Txs
         /\ m.type = "inv" => Len(m.txs) \in 1 .. MAX_INV_BATCH_SIZE
BY DEF Sent, Message

\* An inv.
LEMMA SendableInv ==
  ASSUME NEW txs \in Seq(Txs), Len(txs) \in 1 .. MAX_INV_BATCH_SIZE
  PROVE  [type |-> "inv", txs |-> txs] \in Sent
BY DEF Sent, Message

\* Messages that the handlers send.
LEMMA SendableGetData ==
  ASSUME NEW txs \in Seq(Txs)
  PROVE  [type |-> "getdata", txs |-> txs] \in Sent
BY DEF Sent, Message

\* A transaction on its own.
LEMMA SendableTx == ASSUME NEW t \in Txs PROVE [type |-> "tx", tx |-> t] \in Sent
BY DEF Sent, Message

\* A mention is in the first message or in the others.
LEMMA MentionsTail ==
  ASSUME NEW s \in Seq(Sent), s # <<>>, NEW types, NEW t, Mentions(s, types, t)
  PROVE  Names(Head(s), types, t) \/ Mentions(Tail(s), types, t)
<1>1. PICK i \in DOMAIN s : Names(s[i], types, t)  BY DEF Mentions, Names
<1>2. /\ Head(s) = s[1]
      /\ i = 1 \/ (i - 1 \in DOMAIN Tail(s) /\ Tail(s)[i - 1] = s[i])
  BY TailEntries
<1>3. CASE i = 1  BY <1>1, <1>2, <1>3
<1>4. CASE i - 1 \in DOMAIN Tail(s) /\ Tail(s)[i - 1] = s[i]
  <2>1. \E k \in DOMAIN Tail(s) : Names(Tail(s)[k], types, t)  BY <1>1, <1>4
  <2>2. QED  BY <2>1 DEF Mentions, Names
<1>5. QED  BY <1>2, <1>3, <1>4

\* A message that is sent stays behind those sent before.
LEMMA MentionsConcat ==
  ASSUME NEW s \in Seq(Sent), NEW r \in Seq(Sent), NEW types, NEW t,
         Mentions(s, types, t) \/ Mentions(r, types, t)
  PROVE  Mentions(s \o r, types, t)
<1>1. CASE Mentions(s, types, t)
  <2>1. PICK i \in DOMAIN s : Names(s[i], types, t)  BY <1>1 DEF Mentions, Names
  <2>2. i \in DOMAIN (s \o r) /\ (s \o r)[i] = s[i]  BY ConcatEntries
  <2>3. \E k \in DOMAIN (s \o r) : Names((s \o r)[k], types, t)  BY <2>1, <2>2
  <2>4. QED  BY <2>3 DEF Mentions, Names
<1>2. CASE Mentions(r, types, t)
  <2>1. PICK i \in DOMAIN r : Names(r[i], types, t)  BY <1>2 DEF Mentions, Names
  <2>2. Len(s) + i \in DOMAIN (s \o r) /\ (s \o r)[Len(s) + i] = r[i]  BY ConcatEntries
  <2>3. \E k \in DOMAIN (s \o r) : Names((s \o r)[k], types, t)  BY <2>1, <2>2
  <2>4. QED  BY <2>3 DEF Mentions, Names
<1>3. QED  BY <1>1, <1>2

\* So with one message.
LEMMA MentionsAppend ==
  ASSUME NEW s \in Seq(Sent), NEW m \in Sent, NEW types, NEW t,
         Mentions(s, types, t) \/ Names(m, types, t)
  PROVE  Mentions(Append(s, m), types, t)
<1>1. CASE Mentions(s, types, t)
  <2>1. PICK i \in DOMAIN s : Names(s[i], types, t)  BY <1>1 DEF Mentions, Names
  <2>2. i \in DOMAIN Append(s, m) /\ Append(s, m)[i] = s[i]  BY AppendEntries
  <2>3. \E k \in DOMAIN Append(s, m) : Names(Append(s, m)[k], types, t)  BY <2>1, <2>2
  <2>4. QED  BY <2>3 DEF Mentions, Names
<1>2. CASE Names(m, types, t)
  <2>1. \E i \in DOMAIN Append(s, m) : Append(s, m)[i] = m  BY AppendEntries
  <2>2. \E k \in DOMAIN Append(s, m) : Names(Append(s, m)[k], types, t)  BY <1>2, <2>1
  <2>3. QED  BY <2>2 DEF Mentions, Names
<1>3. QED  BY <1>1, <1>2

\* After a reader has read a message and answered, the wire carries what it did,
\* without that message and with the answers.
LEMMA ExchangeNet ==
  ASSUME RelayAssumption, NetInv, NEW e \in Ends, net[Back(e)] # <<>>, NEW msgs \in Seq(Sent)
  PROVE  /\ Exchange(e, msgs) \in [Ends -> Seq(Sent)]
         /\ \A x \in Ends : \A types, t :
              Mentions(net[x], types, t) =>
                \/ Mentions(Exchange(e, msgs)[x], types, t)
                \/ x = Back(e) /\ Names(Head(net[x]), types, t)
         /\ \A types, t : Mentions(msgs, types, t) => Mentions(Exchange(e, msgs)[e], types, t)
<1> DEFINE after == Exchange(e, msgs)
<1>1. Back(e) \in Ends /\ Back(e) # e  BY EndFacts
<1>2. net \in [Ends -> Seq(Sent)]  BY DEF NetInv
<1>3. net[e] \in Seq(Sent) /\ net[Back(e)] \in Seq(Sent)  BY <1>1, <1>2
<1>4. Tail(net[Back(e)]) \in Seq(Sent)  BY <1>3, TailEntries
<1>5. net[e] \o msgs \in Seq(Sent)  BY <1>3, ConcatEntries
<1>6. /\ after \in [Ends -> Seq(Sent)]
      /\ after[Back(e)] = Tail(net[Back(e)]) /\ after[e] = net[e] \o msgs
      /\ \A x \in Ends : x # e /\ x # Back(e) => after[x] = net[x]
  BY <1>1, <1>2, <1>4, <1>5 DEF Exchange
<1> HIDE DEF after
<1>7. ASSUME NEW x \in Ends, NEW types, NEW t, Mentions(net[x], types, t)
      PROVE  \/ Mentions(after[x], types, t)
             \/ x = Back(e) /\ Names(Head(net[x]), types, t)
  <2>1. CASE x = e
    <3>1. Mentions(net[e] \o msgs, types, t)  BY <1>3, <1>7, <2>1, MentionsConcat
    <3>2. QED  BY <1>6, <2>1, <3>1
  <2>2. CASE x = Back(e)
    <3>1. Names(Head(net[Back(e)]), types, t) \/ Mentions(Tail(net[Back(e)]), types, t)
      BY <1>3, <1>7, <2>2, MentionsTail
    <3>2. QED  BY <1>6, <2>2, <3>1
  <2>3. CASE x # e /\ x # Back(e)  BY <1>6, <1>7, <2>3
  <2>4. QED  BY <2>1, <2>2, <2>3
<1>8. ASSUME NEW types, NEW t, Mentions(msgs, types, t) PROVE Mentions(after[e], types, t)
  <2>1. Mentions(net[e] \o msgs, types, t)  BY <1>3, <1>8, MentionsConcat
  <2>2. QED  BY <1>6, <2>1
<1>9. QED  BY <1>6, <1>7, <1>8 DEF after

-----------------------------------------------------------------------------
(***************************************************************************)
(* The mempool                                                             *)
(***************************************************************************)

\* AddTransaction keeps a pool within its limit; a transaction that it does not
\* admit leaves the pool as it was.
LEMMA AdmitPool ==
  ASSUME RelayAssumption, NEW q \in SUBSET Txs, IsFiniteSet(q),
         Cardinality(q) <= MAX_MEMPOOL_ENTRIES, NEW t \in Txs, NEW p \in AddTransaction(q, t)
  PROVE  /\ p \in SUBSET Txs /\ IsFiniteSet(p) /\ Cardinality(p) <= MAX_MEMPOOL_ENTRIES
         /\ t \notin p => p = q
<1> DEFINE Limit == MAX_MEMPOOL_ENTRIES
<1>0. Cardinality(q) \in Nat /\ Limit \in Nat
  BY FS_CardinalityType DEF RelayAssumption
<1>1. CASE t \in q
  <2>1. q \cup {t} = q  BY <1>1
  <2>2. p = q  BY <1>1, <2>1 DEF AddTransaction
  <2>3. QED  BY <2>2
<1>2. CASE t \notin q /\ Cardinality(q) < Limit
  <2>1. p = q \cup {t}  BY <1>2 DEF AddTransaction
  <2>2. IsFiniteSet(q \cup {t}) /\ Cardinality(q \cup {t}) = Cardinality(q) + 1
    BY <1>2, FS_AddElement
  <2>3. Cardinality(p) <= Limit  BY <1>0, <1>2, <2>1, <2>2
  <2>4. QED  BY <2>1, <2>2, <2>3
<1>3. CASE t \notin q /\ ~(Cardinality(q) < Limit)
  <2>1. PICK w \in q : p = IF FeeRate[t] <= FeeRate[w] THEN q ELSE (q \ {w}) \cup {t}
    BY <1>3 DEF AddTransaction
  <2>2. CASE p = q  BY <2>2
  <2>3. CASE p = (q \ {w}) \cup {t}
    <3>1. IsFiniteSet(q \ {w}) /\ Cardinality(q \ {w}) = Cardinality(q) - 1
      BY <2>1, FS_RemoveElement
    <3>2. t \notin q \ {w}  BY <1>3
    <3>3. IsFiniteSet(p) /\ Cardinality(p) = Cardinality(q \ {w}) + 1
      BY <2>3, <3>1, <3>2, FS_AddElement
    <3>4. Cardinality(p) = Cardinality(q)  BY <1>0, <3>1, <3>3
    <3>5. QED  BY <2>3, <3>3, <3>4
  <2>4. QED  BY <2>1, <2>2, <2>3
<1>4. QED  BY <1>1, <1>2, <1>3

-----------------------------------------------------------------------------
(***************************************************************************)
(* Types                                                                   *)
(***************************************************************************)

\* What is unpaid is owed, over a link that is up, by one that has it to one that
\* has not.
LEMMA UnpaidFacts ==
  ASSUME NEW debts \in [Ends -> SUBSET Txs], NEW links, NEW pools
  PROVE  /\ Unpaid(debts, links, pools) \in [Ends -> SUBSET Txs]
         /\ \A e \in Ends : \A t \in Unpaid(debts, links, pools)[e] :
              t \in debts[e] /\ Up(e, links) /\ t \in pools[e[1]] /\ t \notin pools[e[2]]
BY DEF Unpaid

\* The debts of a node that admits a transaction.
Debts(th, t) ==
  [e \in Ends |-> IF e[1] = th[1] /\ e[2] # th[2] /\ t \notin pool[th[1]]
                  THEN owed[e] \cup {t} ELSE owed[e]]

\* They are debts.
LEMMA DebtsType ==
  ASSUME PastInv, NEW th, NEW t \in Txs
  PROVE  Debts(th, t) \in [Ends -> SUBSET Txs]
BY DEF PastInv, Debts

\* A thread takes a transaction in hand, or goes idle.
LEMMA TakeType ==
  ASSUME RelayAssumption, ThreadInv, NEW th \in Threads, NEW t \in Txs, Take(th, t)
  PROVE  ThreadInv'
BY DEF ThreadInv, Take, RelayAssumption

\* The same for one that lays it down.
LEMMA IdleType ==
  ASSUME RelayAssumption, ThreadInv, NEW th \in Threads,
         step' = [step EXCEPT ![th] = "idle"], hand' = [hand EXCEPT ![th] = None]
  PROVE  ThreadInv'
BY DEF ThreadInv, RelayAssumption

\* A thread that is not idle has a transaction in hand.
LEMMA BusyHand ==
  ASSUME ThreadInv, NEW th \in Threads, step[th] # "idle"
  PROVE  hand[th] \in Txs
BY DEF ThreadInv

\* What the peer has not got is asked for.
LEMMA RequestCovers ==
  ASSUME NEW txs \in Seq(Txs), NEW here, NEW t \in Txs \ here, \E i \in DOMAIN txs : txs[i] = t
  PROVE  Mentions(Inventory("getdata", Only(txs, Txs \ here)), {"getdata"}, t)
<1> DEFINE lacking == Txs \ here
           list == Only(txs, lacking)
           msgs == Inventory("getdata", list)
<1>1. t \in lacking  OBVIOUS
<1> HIDE DEF lacking
<1>2. PICK i \in DOMAIN txs : txs[i] = t  OBVIOUS
<1>3. \E k \in DOMAIN list : list[k] = txs[i]  BY <1>1, <1>2, OnlyKeeps
<1>4. \E k \in DOMAIN list : list[k] = t  BY <1>2, <1>3
<1> HIDE DEF list
<1>5. list # <<>>  BY <1>4
<1>6. msgs = <<[type |-> "getdata", txs |-> list]>>  BY <1>5 DEF Inventory
<1>7. DOMAIN msgs = {1} /\ msgs[1] = [type |-> "getdata", txs |-> list]  BY <1>6
<1>8. Names(msgs[1], {"getdata"}, t)  BY <1>4, <1>7 DEF Names
<1>9. Mentions(msgs, {"getdata"}, t)
  <2> HIDE DEF msgs
  <2>1. QED  BY <1>7, <1>8 DEF Mentions, Names
<1>10. QED  BY <1>9 DEF list, lacking

\* What the node has is sent to the peer that asks for it.
LEMMA AnswerCovers ==
  ASSUME NEW txs \in Seq(Txs), NEW here, NEW t \in here, \E i \in DOMAIN txs : txs[i] = t
  PROVE  LET found == Only(txs, here)
         IN  Mentions([i \in DOMAIN found |-> [type |-> "tx", tx |-> found[i]]], {"inv", "tx"}, t)
<1> DEFINE found == Only(txs, here)
           msgs == [i \in DOMAIN found |-> [type |-> "tx", tx |-> found[i]]]
<1>1. PICK i \in DOMAIN txs : txs[i] = t  OBVIOUS
<1>2. \E k \in DOMAIN found : found[k] = txs[i]  BY <1>1, OnlyKeeps
<1>3. PICK k \in DOMAIN found : found[k] = t  BY <1>1, <1>2
<1> HIDE DEF found
<1>4. k \in DOMAIN msgs /\ msgs[k] = [type |-> "tx", tx |-> t]  BY <1>3
<1>5. Names(msgs[k], {"inv", "tx"}, t)  BY <1>4 DEF Names
<1>6. Mentions(msgs, {"inv", "tx"}, t)
  <2> HIDE DEF msgs
  <2>1. QED  BY <1>4, <1>5 DEF Mentions, Names
<1>7. QED  BY <1>6 DEF found

\* What the reader e is about to read.
LEMMA HeadSent ==
  ASSUME RelayAssumption, NetInv, NEW e \in Ends, net[Back(e)] # <<>>
  PROVE  Head(net[Back(e)]) \in Sent
<1>1. net[Back(e)] \in Seq(Sent)  BY EndFacts DEF NetInv
<1>2. QED  BY <1>1, TailEntries

\* A request for what the node has not.
LEMMA RequestSent ==
  ASSUME NEW txs \in Seq(Txs), NEW S
  PROVE  /\ Only(txs, S) \in Seq(Txs)
         /\ Inventory("getdata", Only(txs, S)) \in Seq(Sent)
<1>2. Only(txs, S) \in Seq(Txs)  BY OnlyRange
<1>3. CASE Only(txs, S) = <<>>
  BY <1>3 DEF Inventory
<1>4. CASE Only(txs, S) # <<>>
  <2>1. [type |-> "getdata", txs |-> Only(txs, S)] \in Sent  BY <1>2, SendableGetData
  <2>2. QED  BY <1>2, <1>4, <2>1 DEF Inventory
<1>5. QED  BY <1>2, <1>3, <1>4

\* The transactions that answer a getdata.
LEMMA AnswerSent ==
  ASSUME NEW found \in Seq(Txs)
  PROVE  [i \in DOMAIN found |-> [type |-> "tx", tx |-> found[i]]] \in Seq(Sent)
<1>1. Len(found) \in Nat /\ DOMAIN found = 1 .. Len(found)  BY LenProperties
<1>2. ASSUME NEW i \in DOMAIN found PROVE [type |-> "tx", tx |-> found[i]] \in Sent
  <2>1. found[i] \in Txs  BY <1>1, ElementOfSeq
  <2>2. QED  BY <2>1, SendableTx
<1>3. [i \in DOMAIN found |-> [type |-> "tx", tx |-> found[i]]] \in [1 .. Len(found) -> Sent]
  BY <1>1, <1>2
<1>4. QED  BY <1>1, <1>3, SeqDef

\* What SendChunk takes from a batch, and what it leaves of it.
ChunkSize(txs) == IF Len(txs) < MAX_INV_BATCH_SIZE THEN Len(txs) ELSE MAX_INV_BATCH_SIZE

Chunk(txs) == SubSeq(txs, 1, ChunkSize(txs))

Rest(txs) == SubSeq(txs, ChunkSize(txs) + 1, Len(txs))

\* The chunk fits into an inv; it and the rest have all the entries of the batch.
LEMMA ChunkFacts ==
  ASSUME RelayAssumption, NEW txs \in Seq(Txs), txs # <<>>
  PROVE  /\ Chunk(txs) \in Seq(Txs) /\ Rest(txs) \in Seq(Txs)
         /\ Len(Chunk(txs)) \in 1 .. MAX_INV_BATCH_SIZE
         /\ \A i \in DOMAIN txs : \/ \E j \in DOMAIN Chunk(txs) : Chunk(txs)[j] = txs[i]
                                  \/ \E j \in DOMAIN Rest(txs) : Rest(txs)[j] = txs[i]
<1> DEFINE n == Len(txs)
           size == ChunkSize(txs)
           chunk == Chunk(txs)
           rest == Rest(txs)
<1> USE DEF Chunk, Rest
<1>1. n \in Nat /\ n # 0 /\ DOMAIN txs = 1 .. n  BY LenProperties, EmptySeq
<1>2. size \in 1 .. n /\ size <= MAX_INV_BATCH_SIZE /\ size \in Nat
  <2>1. MAX_INV_BATCH_SIZE \in Nat /\ MAX_INV_BATCH_SIZE # 0  BY DEF RelayAssumption
  <2>2. size = IF n < MAX_INV_BATCH_SIZE THEN n ELSE MAX_INV_BATCH_SIZE  BY DEF ChunkSize
  <2> HIDE DEF n, size
  <2>3. QED  BY <1>1, <2>1, <2>2
<1>3. size - 1 + 1 = size /\ n - (size + 1) + 1 = n - size /\ \A i \in Int : 1 + i - 1 = i
  <2> HIDE DEF n
  <2>1. QED  BY <1>1, <1>2
<1>4. /\ chunk \in Seq(Txs) /\ Len(chunk) = size /\ DOMAIN chunk = 1 .. size
      /\ \A i \in 1 .. size : chunk[i] = txs[i]
  <2>1. 1 \in Nat /\ 1 <= 1 /\ 1 <= size + 1 /\ size <= n  BY <1>2
  <2>2. /\ chunk \in Seq(Txs) /\ Len(chunk) = size - 1 + 1 /\ DOMAIN chunk = 1 .. size - 1 + 1
        /\ \A i \in 1 .. size - 1 + 1 : chunk[i] = txs[1 + i - 1]
    BY <1>2, <2>1, PartEntries
  <2> HIDE DEF chunk, n
  <2>3. QED  BY <1>3, <2>2
<1>5. /\ rest \in Seq(Txs) /\ DOMAIN rest = 1 .. n - size
      /\ \A i \in 1 .. n - size : rest[i] = txs[size + i]
  <2>1. size + 1 \in Nat /\ 1 <= size + 1 /\ size + 1 <= n + 1 /\ n <= n
    <3> HIDE DEF n
    <3>1. QED  BY <1>1, <1>2
  <2>2. /\ rest \in Seq(Txs) /\ DOMAIN rest = 1 .. n - (size + 1) + 1
        /\ \A i \in 1 .. n - (size + 1) + 1 : rest[i] = txs[(size + 1) + i - 1]
    <3>1. ASSUME NEW k \in Nat, 1 <= k, k <= Len(txs) + 1
          PROVE  /\ SubSeq(txs, k, Len(txs)) \in Seq(Txs)
                 /\ DOMAIN SubSeq(txs, k, Len(txs)) = 1 .. Len(txs) - k + 1
                 /\ \A i \in 1 .. Len(txs) - k + 1 : SubSeq(txs, k, Len(txs))[i] = txs[k + i - 1]
      <4>1. Len(txs) \in Nat /\ Len(txs) <= Len(txs)  BY <1>1
      <4>2. QED  BY <3>1, <4>1, PartEntries
    <3>2. QED  BY <2>1, <3>1
  <2>3. \A i \in Int : (size + 1) + i - 1 = size + i  BY <1>2
  <2>4. n - (size + 1) + 1 = n - size  BY <1>3
  <2>5. \A i \in 1 .. n - size : i \in Int  OBVIOUS
  <2> HIDE DEF rest, n, size
  <2>6. /\ rest \in Seq(Txs) /\ DOMAIN rest = 1 .. n - size
        /\ \A i \in 1 .. n - size : rest[i] = txs[(size + 1) + i - 1]
    BY <2>2, <2>4
  <2>7. ASSUME NEW i \in 1 .. n - size PROVE rest[i] = txs[size + i]
    <3>1. (size + 1) + i - 1 = size + i  BY <2>3, <2>5
    <3>2. QED  BY <2>6, <3>1
  <2>8. QED  BY <2>6, <2>7
<1>6. Len(chunk) \in 1 .. MAX_INV_BATCH_SIZE  BY <1>2, <1>4 DEF RelayAssumption
<1>7. ASSUME NEW i \in DOMAIN txs
      PROVE  \/ \E j \in DOMAIN chunk : chunk[j] = txs[i]
             \/ \E j \in DOMAIN rest : rest[j] = txs[i]
  <2>1. CASE i <= size
    <3>1. i \in 1 .. size  BY <1>1, <2>1
    <3>2. QED  BY <1>4, <3>1
  <2>2. CASE ~(i <= size)
    <3>1. i - size \in 1 .. n - size /\ size + (i - size) = i
      <4> HIDE DEF n
      <4>1. QED  BY <1>1, <1>2, <2>2
    <3>2. rest[i - size] = txs[i]  BY <1>5, <3>1
    <3>3. QED  BY <1>5, <3>1, <3>2
  <2>3. QED  BY <2>1, <2>2
<1>8. QED  BY <1>2, <1>4, <1>5, <1>6, <1>7

\* Nodes start with empty pools and idle threads.
LEMMA InitTypeInv == ASSUME RelayAssumption PROVE Init => TypeInv
<1> SUFFICES ASSUME Init PROVE TypeInv  OBVIOUS
<1>1. PoolInv
  <2>1. IsFiniteSet({}) /\ Cardinality({}) = 0  BY FS_EmptySet
  <2>2. 0 <= MAX_MEMPOOL_ENTRIES  BY DEF RelayAssumption
  <2>3. QED  BY <2>1, <2>2 DEF Init, PoolInv
<1>2. LinkInv  BY DEF Init, LinkInv
<1>3. QueueInv /\ NetInv  BY DEF Init, Empty, QueueInv, NetInv
<1>4. ThreadInv  BY DEF Init, ThreadInv, RelayAssumption
<1>5. FlushInv  BY DEF Init, FlushInv
<1>6. PastInv  BY DEF Init, PastInv
<1>7. QED  BY <1>1, <1>2, <1>3, <1>4, <1>5, <1>6 DEF TypeInv

\* Every step keeps the types; NetInv and PastInv are what most steps disturb.
LEMMA NextTypeInv == ASSUME RelayAssumption PROVE TypeInv /\ [Next]_vars => TypeInv'
<1> SUFFICES ASSUME TypeInv, [Next]_vars PROVE TypeInv'  OBVIOUS
<1>0. PoolInv /\ LinkInv /\ QueueInv /\ NetInv /\ ThreadInv /\ FlushInv /\ PastInv  BY DEF TypeInv
<1>a. UNCHANGED pool => PoolInv'  BY <1>0 DEF PoolInv
<1>b. UNCHANGED <<up, ended>> => LinkInv'  BY <1>0 DEF LinkInv
<1>c. UNCHANGED pendingInv => QueueInv'  BY <1>0 DEF QueueInv
<1>d. UNCHANGED net => NetInv'  BY <1>0 DEF NetInv
<1>e. UNCHANGED <<step, hand>> => ThreadInv'  BY <1>0 DEF ThreadInv
<1>f. UNCHANGED <<round, batch>> => FlushInv'  BY <1>0 DEF FlushInv
<1>g. UNCHANGED <<submitted, mined, owed>> => PastInv'  BY <1>0 DEF PastInv
<1>h. owed \in [Ends -> SUBSET Txs]  BY <1>0 DEF PastInv
<1>1. ASSUME NEW d \in Links, Join(d) PROVE TypeInv'
  <2>1. LinkInv'  BY <1>0, <1>1 DEF Join, LinkInv
  <2>2. QED  BY <1>1, <1>a, <1>c, <1>d, <1>e, <1>f, <1>g, <2>1 DEF Join, TypeInv
<1>2. ASSUME NEW d \in Links, Break(d) PROVE TypeInv'
  <2>1. LinkInv'  BY <1>0, <1>2 DEF Break, LinkInv
  <2>2. d \in Ends /\ Back(d) \in Ends  BY LinkEnds
  <2>3. ASSUME NEW T, NEW f \in [Ends -> Seq(T)], NEW x \in Ends, NEW y \in Ends
        PROVE  [f EXCEPT ![x] = <<>>, ![y] = <<>>] \in [Ends -> Seq(T)]
    <3>1. <<>> \in Seq(T)  OBVIOUS
    <3>2. ASSUME NEW empty \in Seq(T)
          PROVE  [f EXCEPT ![x] = empty, ![y] = empty] \in [Ends -> Seq(T)]
      OBVIOUS
    <3>3. QED  BY <3>1, <3>2
  <2>4. NetInv' /\ QueueInv'
    <3>1. net' = [net EXCEPT ![d] = <<>>, ![Back(d)] = <<>>]  BY <1>2 DEF Break
    <3>2. pendingInv' = [pendingInv EXCEPT ![d] = <<>>, ![Back(d)] = <<>>]  BY <1>2 DEF Break
    <3>3. NetInv'  BY <1>0, <2>2, <2>3, <3>1 DEF NetInv
    <3>4. QueueInv'  BY <1>0, <2>2, <2>3, <3>2 DEF QueueInv
    <3>5. QED  BY <3>3, <3>4
  <2>5. PastInv'
    <3>1. owed' \in [Ends -> SUBSET Txs]  BY <1>2, <1>h, UnpaidFacts DEF Break
    <3>2. QED  BY <1>0, <1>2, <3>1 DEF Break, PastInv
  <2>6. QED  BY <1>2, <1>a, <1>e, <1>f, <2>1, <2>4, <2>5 DEF Break, TypeInv
<1>3. ASSUME NEW n \in Nodes, NEW t \in Txs, SendTx(n, t) PROVE TypeInv'
  <2>1. <<n, Rpc>> \in Threads  BY ThreadFacts
  <2>2. ThreadInv'  BY <1>0, <1>3, <2>1, TakeType DEF SendTx
  <2>3. PastInv'  BY <1>0, <1>3 DEF SendTx, PastInv
  <2>4. QED  BY <1>3, <1>a, <1>b, <1>c, <1>d, <1>f, <2>2, <2>3 DEF SendTx, TypeInv
<1>4. ASSUME NEW n \in Nodes, NEW t \in Txs, Confirm(n, t) PROVE TypeInv'
  <2>1. PoolInv'
    <3>1. pool' = [pool EXCEPT ![n] = @ \ {t}]  BY <1>4 DEF Confirm
    <3>2. IsFiniteSet(pool[n]) /\ Cardinality(pool[n]) <= MAX_MEMPOOL_ENTRIES
      BY <1>0 DEF PoolInv
    <3>3. pool[n] \ {t} \in SUBSET pool[n]  OBVIOUS
    <3>4. IsFiniteSet(pool[n] \ {t}) /\ Cardinality(pool[n] \ {t}) <= Cardinality(pool[n])
      BY <3>2, <3>3, FS_Subset
    <3>5. Cardinality(pool[n] \ {t}) <= MAX_MEMPOOL_ENTRIES
      BY <3>2, <3>4, FS_CardinalityType DEF RelayAssumption
    <3>6. QED  BY <1>0, <3>1, <3>4, <3>5 DEF PoolInv
  <2>2. PastInv'
    <3>1. owed' \in [Ends -> SUBSET Txs]  BY <1>4, <1>h, UnpaidFacts DEF Confirm
    <3>2. QED  BY <1>0, <1>4, <3>1 DEF Confirm, PastInv
  <2>3. QED  BY <1>4, <1>b, <1>c, <1>d, <1>e, <1>f, <2>1, <2>2 DEF Confirm, TypeInv
<1>5. ASSUME NEW e \in Ends, HandleTx(e) PROVE TypeInv'
  <2> DEFINE t == Head(net[Back(e)]).tx
  <2>1. net[Back(e)] # <<>> /\ Head(net[Back(e)]).type = "tx"  BY <1>5 DEF HandleTx, Delivered
  <2>2. t \in Txs  BY <1>0, <2>1, HeadSent, SentFacts
  <2>3. NetInv'
    <3>1. <<>> \in Seq(Sent)  OBVIOUS
    <3>2. Exchange(e, <<>>) \in [Ends -> Seq(Sent)]  BY <1>0, <2>1, <3>1, ExchangeNet
    <3>3. QED  BY <1>5, <3>2 DEF HandleTx, NetInv
  <2>4. ThreadInv' /\ PastInv'
    <3>1. CASE Take(e, t) /\ UNCHANGED owed
      <4>1. e \in Threads  BY ThreadFacts
      <4>2. ThreadInv'  BY <1>0, <2>2, <3>1, <4>1, TakeType
      <4>3. QED  BY <1>5, <1>g, <3>1, <4>2 DEF HandleTx
    <3>2. CASE /\ owed' = [owed EXCEPT ![Back(e)] = @ \ {t}]
               /\ UNCHANGED <<step, hand>>
      <4>1. owed' \in [Ends -> SUBSET Txs]  BY <1>h, <3>2
      <4>2. UNCHANGED <<submitted, mined>>  BY <1>5 DEF HandleTx
      <4>3. QED  BY <1>0, <1>e, <3>2, <4>1, <4>2 DEF PastInv
    <3>3. QED  BY <1>5, <3>1, <3>2 DEF HandleTx
  <2>5. QED  BY <1>5, <1>a, <1>b, <1>c, <1>f, <2>3, <2>4 DEF HandleTx, TypeInv
<1>6. ASSUME NEW th \in Threads, Admit(th) PROVE TypeInv'
  <2> DEFINE n == th[1]
             t == hand[th]
  <2>1. n \in Nodes /\ t \in Txs  BY <1>0, <1>6, ThreadFacts, BusyHand DEF Admit
  <2>2. PICK p \in AddTransaction(pool[n], t) :
          /\ pool' = [pool EXCEPT ![n] = p]
          /\ IF t \in p
             THEN /\ owed' = Unpaid(Debts(th, t), up, pool')
                  /\ step' = [step EXCEPT ![th] = "relay"] /\ UNCHANGED hand
             ELSE /\ owed' = [e \in Ends |-> IF e = Back(th) THEN owed[e] \ {t} ELSE owed[e]]
                  /\ step' = [step EXCEPT ![th] = "idle"] /\ hand' = [hand EXCEPT ![th] = None]
    BY <1>6 DEF Admit, Debts
  <2>3. PoolInv'
    <3>1. /\ pool[n] \in SUBSET Txs /\ IsFiniteSet(pool[n])
          /\ Cardinality(pool[n]) <= MAX_MEMPOOL_ENTRIES
      BY <1>0, <2>1 DEF PoolInv
    <3>2. p \in SUBSET Txs /\ IsFiniteSet(p) /\ Cardinality(p) <= MAX_MEMPOOL_ENTRIES
      BY <2>1, <2>2, <3>1, AdmitPool
    <3>3. QED  BY <1>0, <2>1, <2>2, <3>2 DEF PoolInv
  <2>4. owed' \in [Ends -> SUBSET Txs]
    <3>1. Debts(th, t) \in [Ends -> SUBSET Txs]  BY <1>0, <2>1, DebtsType
    <3>2. CASE t \in p  BY <2>2, <3>1, <3>2, UnpaidFacts
    <3>3. CASE t \notin p  BY <1>h, <2>2, <3>3
    <3>4. QED  BY <3>2, <3>3
  <2>5. PastInv'  BY <1>0, <1>6, <2>4 DEF Admit, PastInv
  <2>6. ThreadInv'
    <3>1. CASE t \in p
      <4>1. step' = [step EXCEPT ![th] = "relay"] /\ hand' = hand  BY <2>2, <3>1
      <4>2. t # None /\ step[th] = "admit"  BY <1>6, <2>1 DEF Admit, RelayAssumption
      <4>3. QED  BY <1>0, <4>1, <4>2 DEF ThreadInv
    <3>2. CASE t \notin p  BY <1>0, <2>2, <3>2, IdleType
    <3>3. QED  BY <3>1, <3>2
  <2>7. QED  BY <1>6, <1>b, <1>c, <1>d, <1>f, <2>3, <2>5, <2>6 DEF Admit, TypeInv
<1>7. ASSUME NEW th \in Threads, RelayTransaction(th) PROVE TypeInv'
  <2>1. hand[th] \in Txs  BY <1>0, <1>7, BusyHand DEF RelayTransaction
  <2>2. QueueInv'
    <3>1. ASSUME NEW e \in Ends
          PROVE  pendingInv[e] \in Seq(Txs) /\ Append(pendingInv[e], hand[th]) \in Seq(Txs)
      BY <1>0, <2>1, AppendEntries DEF QueueInv
    <3>2. QED  BY <1>7, <3>1 DEF RelayTransaction, QueueInv
  <2>3. ThreadInv'  BY <1>0, <1>7, IdleType DEF RelayTransaction
  <2>4. QED  BY <1>7, <1>a, <1>b, <1>d, <1>f, <1>g, <2>2, <2>3 DEF RelayTransaction, TypeInv
<1>8. ASSUME NEW e \in Ends, HandleInv(e) PROVE TypeInv'
  <2>1. net[Back(e)] # <<>> /\ Head(net[Back(e)]).type = "inv"  BY <1>8 DEF HandleInv, Delivered
  <2>2. Head(net[Back(e)]).txs \in Seq(Txs)  BY <1>0, <2>1, HeadSent, SentFacts
  <2>3. Inventory("getdata", Only(Head(net[Back(e)]).txs, Txs \ pool[e[1]])) \in Seq(Sent)
    BY <2>2, RequestSent
  <2>4. NetInv'  BY <1>0, <1>8, <2>1, <2>3, ExchangeNet DEF HandleInv, NetInv
  <2>5. QED  BY <1>8, <1>a, <1>b, <1>c, <1>e, <1>f, <1>g, <2>4 DEF HandleInv, TypeInv
<1>9. ASSUME NEW e \in Ends, HandleGetData(e) PROVE TypeInv'
  <2> DEFINE found == Only(Head(net[Back(e)]).txs, pool[e[1]])
             answer == [i \in DOMAIN found |-> [type |-> "tx", tx |-> found[i]]]
  <2>1. net[Back(e)] # <<>> /\ Head(net[Back(e)]).type = "getdata"
    BY <1>9 DEF HandleGetData, Delivered
  <2>2. Head(net[Back(e)]).txs \in Seq(Txs)  BY <1>0, <2>1, HeadSent, SentFacts
  <2>3. found \in Seq(Txs)  BY <2>2, RequestSent
  <2>4. net' = Exchange(e, answer)  BY <1>9 DEF HandleGetData
  <2> HIDE DEF found
  <2>5. answer \in Seq(Sent)  BY <2>3, AnswerSent
  <2> HIDE DEF answer
  <2>6. NetInv'  BY <1>0, <2>1, <2>4, <2>5, ExchangeNet DEF NetInv
  <2>7. QED  BY <1>9, <1>a, <1>b, <1>c, <1>e, <1>f, <1>g, <2>6 DEF HandleGetData, TypeInv
<1>10. ASSUME NEW n \in Nodes, BeginRound(n) PROVE TypeInv'
  <2> DEFINE S == {e \in Ends : e[1] = n /\ Up(e, up)}
  <2>1. S \in SUBSET Ends  OBVIOUS
  <2>2. IsFiniteSet(S)  BY <2>1, EndsFinite, FS_Subset
  <2>3. SetToSeq(S) \in Seq(S)  BY <2>2, SetToSeqRange
  <2>4. SetToSeq(S) \in Seq(Ends) /\ \A i \in DOMAIN SetToSeq(S) : SetToSeq(S)[i][1] = n
    <3>1. ASSUME NEW i \in DOMAIN SetToSeq(S) PROVE SetToSeq(S)[i] \in S
      BY <2>3, LenProperties, ElementOfSeq
    <3>2. SetToSeq(S) \in Seq(Ends)  BY <2>1, <2>3, SeqDef
    <3>3. QED  BY <3>1, <3>2
  <2>5. round' = [round EXCEPT ![n] = SetToSeq(S)] /\ UNCHANGED batch  BY <1>10 DEF BeginRound
  <2> HIDE DEF S
  <2>6. FlushInv'  BY <1>0, <2>4, <2>5 DEF FlushInv
  <2>7. QED  BY <1>10, <1>a, <1>b, <1>c, <1>d, <1>e, <1>g, <2>6 DEF BeginRound, TypeInv
<1>11. ASSUME NEW n \in Nodes, TakePending(n) PROVE TypeInv'
  <2> DEFINE e == Head(round[n])
  <2>0. round[n] # <<>> /\ round[n] \in Seq(Ends)  BY <1>0, <1>11 DEF TakePending, FlushInv
  <2>1. e \in Ends /\ e[1] = n
    <3>1. Len(round[n]) \in Nat /\ Len(round[n]) # 0 /\ DOMAIN round[n] = 1 .. Len(round[n])
      BY <2>0, LenProperties, EmptySeq
    <3>2. 1 \in DOMAIN round[n]  BY <3>1
    <3>3. e = round[n][1] /\ e \in Ends  BY <2>0, TailEntries
    <3>4. QED  BY <1>0, <3>2, <3>3 DEF FlushInv
  <2>2. /\ Tail(round[n]) \in Seq(Ends)
        /\ \A i \in DOMAIN Tail(round[n]) : Tail(round[n])[i][1] = n
    <3>1. Tail(round[n]) \in Seq(Ends)  BY <2>0, TailEntries
    <3>2. ASSUME NEW i \in DOMAIN Tail(round[n]) PROVE Tail(round[n])[i][1] = n
      <4>1. i + 1 \in DOMAIN round[n] /\ Tail(round[n])[i] = round[n][i + 1]
        BY <2>0, TailEntries
      <4>2. QED  BY <1>0, <4>1 DEF FlushInv
    <3>3. QED  BY <3>1, <3>2
  <2>3. round' = [round EXCEPT ![n] = Tail(@)]  BY <1>11 DEF TakePending
  <2>4. \/ UNCHANGED <<batch, pendingInv>>
        \/ /\ pendingInv[e] # <<>>
           /\ batch' = [batch EXCEPT ![n] = [end |-> e, txs |-> pendingInv[e]]]
           /\ pendingInv' = [pendingInv EXCEPT ![e] = <<>>]
    BY <1>11 DEF TakePending
  <2> HIDE DEF e
  <2>5. QueueInv'
    <3>1. CASE UNCHANGED pendingInv  BY <1>c, <3>1
    <3>2. CASE pendingInv' = [pendingInv EXCEPT ![e] = <<>>]  BY <1>0, <2>1, <3>2 DEF QueueInv
    <3>3. QED  BY <2>4, <3>1, <3>2
  <2>6. DOMAIN batch' = Nodes /\ \A m \in Nodes : batch'[m] = None \/ batch'[m] \in Batch(m)
    <3>1. CASE UNCHANGED batch  BY <1>0, <3>1 DEF FlushInv
    <3>2. CASE pendingInv[e] # <<>> /\ batch' = [batch EXCEPT ![n] = [end |-> e, txs |-> pendingInv[e]]]
      <4>1. pendingInv[e] \in Seq(Txs)  BY <1>0, <2>1 DEF QueueInv
      <4>2. [end |-> e, txs |-> pendingInv[e]] \in Batch(n)  BY <2>1, <3>2, <4>1 DEF Batch
      <4>3. QED  BY <1>0, <3>2, <4>2 DEF FlushInv
    <3>3. QED  BY <2>4, <3>1, <3>2
  <2>7. round' \in [Nodes -> Seq(Ends)]  BY <1>0, <2>2, <2>3 DEF FlushInv
  <2>8. \A m \in Nodes : \A i \in DOMAIN round'[m] : round'[m][i][1] = m
    BY <1>0, <2>2, <2>3 DEF FlushInv
  <2>9. FlushInv'  BY <2>6, <2>7, <2>8 DEF FlushInv
  <2>10. QED  BY <1>11, <1>a, <1>b, <1>d, <1>e, <1>g, <2>5, <2>9 DEF TakePending, TypeInv
<1>12. ASSUME NEW n \in Nodes, SendChunk(n) PROVE TypeInv'
  <2> DEFINE e     == batch[n].end
             txs   == batch[n].txs
             chunk == Chunk(txs)
             rest  == Rest(txs)
  <2>1. batch[n] \in Batch(n)  BY <1>0, <1>12 DEF SendChunk, FlushInv
  <2>2. e \in Ends /\ e[1] = n /\ txs \in Seq(Txs) /\ txs # <<>>  BY <2>1 DEF Batch
  <2>3. /\ net' = IF Up(e, up) THEN [net EXCEPT ![e] = Append(@, [type |-> "inv", txs |-> chunk])]
                               ELSE net
        /\ batch' = [batch EXCEPT
             ![n] = IF Up(e, up) /\ rest # <<>> THEN [end |-> e, txs |-> rest] ELSE None]
        /\ UNCHANGED round
    BY <1>12 DEF SendChunk, Chunk, Rest, ChunkSize
  <2> HIDE DEF e, txs
  <2>5. rest \in Seq(Txs) /\ [type |-> "inv", txs |-> chunk] \in Sent
    <3>1. /\ rest \in Seq(Txs) /\ chunk \in Seq(Txs)
          /\ Len(chunk) \in 1 .. MAX_INV_BATCH_SIZE
      BY <2>2, ChunkFacts
    <3> HIDE DEF chunk, rest
    <3>2. QED  BY <3>1, SendableInv
  <2> HIDE DEF chunk, rest
  <2>6. NetInv'
    <3>1. net[e] \in Seq(Sent)  BY <1>0, <2>2 DEF NetInv
    <3>2. Append(net[e], [type |-> "inv", txs |-> chunk]) \in Seq(Sent)
      BY <2>5, <3>1, AppendEntries
    <3>3. QED  BY <1>0, <2>3, <3>2 DEF NetInv
  <2>7. FlushInv'
    <3>1. rest # <<>> => [end |-> e, txs |-> rest] \in Batch(n)  BY <2>2, <2>5 DEF Batch
    <3>2. \A m \in Nodes : batch'[m] = None \/ batch'[m] \in Batch(m)
      BY <1>0, <2>3, <3>1 DEF FlushInv
    <3>3. DOMAIN batch' = Nodes  BY <1>0, <2>3 DEF FlushInv
    <3>4. QED  BY <1>0, <2>3, <3>2, <3>3 DEF FlushInv
  <2>8. QED  BY <1>12, <1>a, <1>b, <1>c, <1>e, <1>g, <2>6, <2>7 DEF SendChunk, TypeInv
<1>13. CASE UNCHANGED vars
  BY <1>13, <1>a, <1>b, <1>c, <1>d, <1>e, <1>f, <1>g DEF vars, TypeInv
<1>14. QED
  <2>1. \A n \in Nodes : <<n, Rpc>> \in Threads  BY ThreadFacts
  <2>2. Ends \subseteq Threads  BY ThreadFacts
  <2>3. QED
    BY <1>1, <1>2, <1>3, <1>4, <1>5, <1>6, <1>7, <1>8, <1>9, <1>10, <1>11, <1>12, <1>13,
       <2>1, <2>2 DEF Next, ReaderStep, ThreadStep, FlushStep

\* TypeOK: no pool outgrows MAX_MEMPOOL_ENTRIES and no inv is empty or longer
\* than MAX_INV_BATCH_SIZE, however many threads admit and queue.
THEOREM TypeCorrect == Spec => []TypeOK
<1>1. Init => TypeInv  BY InitTypeInv, RelayAssumption
<1>2. TypeInv /\ [Next]_vars => TypeInv'  BY NextTypeInv, RelayAssumption
<1>3. TypeInv => TypeOK
  <2> SUFFICES ASSUME TypeInv PROVE TypeOK  OBVIOUS
  <2>1. \A n \in Nodes : pool[n] \subseteq Txs /\ Cardinality(pool[n]) <= MAX_MEMPOOL_ENTRIES
    BY DEF TypeInv, PoolInv
  <2>2. up \subseteq Links /\ ended \subseteq Links /\ up \cap ended = {}
    BY DEF TypeInv, LinkInv
  <2>3. ASSUME NEW e \in Ends, NEW i \in DOMAIN net[e]
        PROVE  /\ net[e][i] \in Message
               /\ net[e][i].type = "inv" => Len(net[e][i].txs) \in 1 .. MAX_INV_BATCH_SIZE
    <3>1. net[e] \in Seq(Sent)  BY DEF TypeInv, NetInv
    <3>2. net[e][i] \in Sent  BY <3>1, LenProperties, ElementOfSeq
    <3>3. QED  BY <3>2 DEF Sent
  <2>4. /\ step \in [Threads -> {"idle", "admit", "relay"}]
        /\ hand \in [Threads -> Txs \cup {None}]
        /\ \A th \in Threads : step[th] = "idle" <=> hand[th] = None
    BY DEF TypeInv, ThreadInv
  <2>5. /\ round \in [Nodes -> Seq(Ends)]
        /\ \A n \in Nodes : batch[n] = None \/ batch[n] \in [end : Ends, txs : Seq(Txs)]
    BY DEF TypeInv, FlushInv, Batch
  <2>6. pendingInv \in [Ends -> Seq(Txs)]  BY DEF TypeInv, QueueInv
  <2>7. submitted \subseteq Txs /\ mined \subseteq Mined /\ owed \in [Ends -> SUBSET Txs]
    BY DEF TypeInv, PastInv
  <2>8. QED  BY <2>1, <2>2, <2>3, <2>4, <2>5, <2>6, <2>7 DEF TypeOK
<1>4. QED  BY <1>1, <1>2, <1>3, PTL DEF Spec

-----------------------------------------------------------------------------
(***************************************************************************)
(* Debts                                                                   *)
(***************************************************************************)

\* Where a transaction is on its way from one end to the other, in this order.
InHand(e, t)    == \E th \in Threads : th[1] = e[1] /\ th[2] # e[2] /\ step[th] = "relay" /\ hand[th] = t
Queued(e, t)    == \E i \in DOMAIN pendingInv[e] : pendingInv[e][i] = t
Taken(e, t)     == batch[e[1]] # None /\ batch[e[1]].end = e
                   /\ \E i \in DOMAIN batch[e[1]].txs : batch[e[1]].txs[i] = t
Told(e, t)      == Mentions(net[e], {"inv", "tx"}, t)
Requested(e, t) == Mentions(net[Back(e)], {"getdata"}, t)
Arrived(e, t)   == step[Back(e)] = "admit" /\ hand[Back(e)] = t

Underway(e, t) == InHand(e, t) \/ Queued(e, t) \/ Taken(e, t) \/ Told(e, t)
                  \/ Requested(e, t) \/ Arrived(e, t)

\* DebtIsUnderway, by the stations.
LEMMA DebtStations == DebtIsUnderway <=> \A e \in Ends : \A t \in owed[e] : Underway(e, t)
BY DEF DebtIsUnderway, Underway, InHand, Queued, Taken, Told, Requested, Arrived

\* A debt stays one only as long as the pools and the link say so.
LEMMA NextOwedInv ==
  ASSUME RelayAssumption, TypeInv, OwedInv, [Next]_vars
  PROVE  OwedInv'
<1>0. owed \in [Ends -> SUBSET Txs]  BY DEF TypeInv, PastInv
<1>a. CASE UNCHANGED <<up, pool>> /\ \A e \in Ends : owed'[e] \subseteq owed[e]
  BY <1>a DEF OwedInv
<1>b. ASSUME NEW debts \in [Ends -> SUBSET Txs], owed' = Unpaid(debts, up', pool')
      PROVE  OwedInv'
  BY <1>b, UnpaidFacts DEF OwedInv
<1>1. ASSUME NEW d \in Links, Join(d) PROVE OwedInv'
  BY <1>1 DEF Join, OwedInv, Up
<1>2. ASSUME NEW d \in Links, Break(d) PROVE OwedInv'
  <2>1. pool' = pool /\ owed' = Unpaid(owed, up', pool)  BY <1>2 DEF Break
  <2>2. QED  BY <1>0, <1>b, <2>1
<1>3. ASSUME NEW n \in Nodes, NEW t \in Txs, Confirm(n, t) PROVE OwedInv'
  <2>1. up' = up /\ owed' = Unpaid(owed, up, pool')  BY <1>3 DEF Confirm
  <2>2. QED  BY <1>0, <1>b, <2>1
<1>4. ASSUME NEW e \in Ends, HandleTx(e) PROVE OwedInv'
  <2>1. UNCHANGED <<up, pool>>  BY <1>4 DEF HandleTx
  <2>2. \A x \in Ends : owed'[x] \subseteq owed[x]  BY <1>0, <1>4 DEF HandleTx
  <2>3. QED  BY <1>a, <2>1, <2>2
<1>5. ASSUME NEW th \in Threads, Admit(th) PROVE OwedInv'
  <2> DEFINE n == th[1]
             t == hand[th]
  <2>1. n \in Nodes /\ t \in Txs  BY <1>5, ThreadFacts, BusyHand DEF Admit, TypeInv
  <2>2. PICK p \in AddTransaction(pool[n], t) :
          /\ pool' = [pool EXCEPT ![n] = p]
          /\ IF t \in p
             THEN owed' = Unpaid(Debts(th, t), up, pool')
             ELSE owed' = [e \in Ends |-> IF e = Back(th) THEN owed[e] \ {t} ELSE owed[e]]
    BY <1>5 DEF Admit, Debts
  <2>3. up' = up  BY <1>5 DEF Admit
  <2>4. CASE t \in p
    <3>1. Debts(th, t) \in [Ends -> SUBSET Txs]  BY <2>1, DebtsType DEF TypeInv
    <3>2. owed' = Unpaid(Debts(th, t), up', pool')  BY <2>2, <2>3, <2>4
    <3>3. QED  BY <1>b, <3>1, <3>2
  <2>5. CASE t \notin p
    <3>1. /\ pool[n] \in SUBSET Txs /\ IsFiniteSet(pool[n])
          /\ Cardinality(pool[n]) <= MAX_MEMPOOL_ENTRIES
          /\ pool \in [Nodes -> SUBSET Txs]
      BY <2>1 DEF TypeInv, PoolInv
    <3>2. p = pool[n]  BY <2>1, <2>2, <2>5, <3>1, AdmitPool
    <3>3. pool' = pool  BY <2>2, <3>1, <3>2
    <3>4. \A x \in Ends : owed'[x] \subseteq owed[x]  BY <2>2, <2>5
    <3>5. QED  BY <1>a, <2>3, <3>3, <3>4
  <2>6. QED  BY <2>4, <2>5
<1>6. CASE UNCHANGED <<pool, up, owed>>
  BY <1>a, <1>6
<1>7. QED
  <2>1. ASSUME NEW n \in Nodes PROVE (\E t \in Txs : SendTx(n, t)) \/ FlushStep(n)
                                       => UNCHANGED <<pool, up, owed>>
    BY DEF SendTx, FlushStep, BeginRound, TakePending, SendChunk
  <2>2. ASSUME NEW th \in Threads, RelayTransaction(th) PROVE UNCHANGED <<pool, up, owed>>
    BY <2>2 DEF RelayTransaction
  <2>3. ASSUME NEW e \in Ends, HandleInv(e) \/ HandleGetData(e)
        PROVE  UNCHANGED <<pool, up, owed>>
    BY <2>3 DEF HandleInv, HandleGetData
  <2>4. UNCHANGED vars => UNCHANGED <<pool, up, owed>>  BY DEF vars
  <2>5. Ends \subseteq Threads /\ \A n \in Nodes : <<n, Rpc>> \in Threads  BY ThreadFacts
  <2>6. QED
    BY <1>1, <1>2, <1>3, <1>4, <1>5, <1>6, <2>1, <2>2, <2>3, <2>4, <2>5
    DEF Next, ReaderStep, ThreadStep

\* A station that no variable of its own changes is kept.
LEMMA StationsKept ==
  ASSUME NEW e, NEW t
  PROVE  /\ UNCHANGED <<step, hand>> => (InHand(e, t) => InHand(e, t)') /\ (Arrived(e, t) => Arrived(e, t)')
         /\ UNCHANGED pendingInv => (Queued(e, t) => Queued(e, t)')
         /\ UNCHANGED batch => (Taken(e, t) => Taken(e, t)')
         /\ UNCHANGED net => (Told(e, t) => Told(e, t)') /\ (Requested(e, t) => Requested(e, t)')
BY DEF InHand, Arrived, Queued, Taken, Told, Requested

\* Every step moves a transaction that is owed from its station to the next, or
\* leaves it where it is.
LEMMA NextUnderway ==
  ASSUME RelayAssumption, TypeInv, OwedInv, OwedInv', [Next]_vars,
         \A e \in Ends : \A t \in owed[e] : Underway(e, t),
         NEW x \in Ends, NEW s \in owed'[x]
  PROVE  Underway(x, s)'
<1> USE DEF Underway
<1>0. /\ owed \in [Ends -> SUBSET Txs] /\ net \in [Ends -> Seq(Sent)]
      /\ pendingInv \in [Ends -> Seq(Txs)]
      /\ x[1] \in Nodes /\ x[2] \in Nodes /\ Back(x) \in Ends /\ Back(Back(x)) = x /\ Back(x) # x
      /\ Back(x)[1] = x[2] /\ Back(x)[2] = x[1]
  BY EndFacts DEF TypeInv, PastInv, NetInv, QueueInv
<1>d. Up(x, up') /\ s \in pool'[x[1]] /\ s \notin pool'[x[2]]  BY DEF OwedInv
<1>k. /\ UNCHANGED <<step, hand>> => (InHand(x, s) => InHand(x, s)') /\ (Arrived(x, s) => Arrived(x, s)')
      /\ UNCHANGED pendingInv => (Queued(x, s) => Queued(x, s)')
      /\ UNCHANGED batch => (Taken(x, s) => Taken(x, s)')
      /\ UNCHANGED net => (Told(x, s) => Told(x, s)') /\ (Requested(x, s) => Requested(x, s)')
  BY StationsKept
<1>1. CASE s \in owed[x] /\ UNCHANGED <<pendingInv, net, step, hand, batch>>
  BY <1>1, <1>k
<1>2. ASSUME NEW d \in Links, Break(d) PROVE Underway(x, s)'
  <2>1. s \in owed[x]
    BY <1>0, <1>2, UnpaidFacts DEF Break
  <2>2. x # d /\ x # Back(d) /\ Back(x) # d /\ Back(x) # Back(d)
    <3>1. up' = up \ {d} /\ up \subseteq Links  BY <1>2 DEF Break, TypeInv, LinkInv
    <3>2. d \in Ends /\ Back(d) \in Ends /\ Back(d) \notin Links /\ Back(Back(d)) = d
      BY LinkEnds, EndFacts
    <3>3. x # d  BY <1>d, <3>1, <3>2 DEF Up
    <3>4. x # Back(d)  BY <1>d, <3>1, <3>2 DEF Up
    <3>5. QED  BY <1>0, <3>2, <3>3, <3>4
  <2>3. /\ net'[x] = net[x] /\ net'[Back(x)] = net[Back(x)] /\ pendingInv'[x] = pendingInv[x]
        /\ UNCHANGED <<step, hand, batch>>
    BY <1>0, <1>2, <2>2 DEF Break
  <2>4. (Told(x, s) => Told(x, s)') /\ (Requested(x, s) => Requested(x, s)')
        /\ (Queued(x, s) => Queued(x, s)')
    BY <2>3 DEF Told, Requested, Queued
  <2>5. QED  BY <1>k, <2>1, <2>3, <2>4
<1>3. ASSUME NEW n \in Nodes, NEW t \in Txs, Confirm(n, t) PROVE Underway(x, s)'
  <2>0. owed' = Unpaid(owed, up, pool')  BY <1>3 DEF Confirm
  <2>1. s \in owed[x]  BY <1>0, <2>0, UnpaidFacts
  <2>2. QED  BY <1>1, <1>3, <2>1 DEF Confirm
<1>4. ASSUME NEW th \in Threads, step[th] = "idle", NEW t \in Txs, Take(th, t),
             UNCHANGED pendingInv, UNCHANGED batch
      PROVE  (InHand(x, s) => InHand(x, s)') /\ (Arrived(x, s) => Arrived(x, s)')
  <2>1. step \in [Threads -> {"idle", "admit", "relay"}] /\ hand \in [Threads -> Txs \cup {None}]
    BY DEF TypeInv, ThreadInv
  <2>2. \A u \in Threads : step[u] # "idle" => step'[u] = step[u] /\ hand'[u] = hand[u]
    BY <1>4, <2>1 DEF Take
  <2>3. Back(x) \in Threads  BY <1>0, ThreadFacts
  <2>4. QED  BY <2>2, <2>3 DEF InHand, Arrived
<1>5. ASSUME NEW n \in Nodes, NEW t \in Txs, SendTx(n, t) PROVE Underway(x, s)'
  <2>1. <<n, Rpc>> \in Threads  BY ThreadFacts
  <2>2. (InHand(x, s) => InHand(x, s)') /\ (Arrived(x, s) => Arrived(x, s)')
    BY <1>4, <1>5, <2>1 DEF SendTx
  <2>3. s \in owed[x] /\ UNCHANGED <<pendingInv, net, batch>>  BY <1>5 DEF SendTx
  <2>4. QED  BY <1>k, <2>2, <2>3
<1>6. ASSUME NEW e \in Ends, net[Back(e)] # <<>>, NEW msgs \in Seq(Sent), net' = Exchange(e, msgs)
      PROVE  /\ Told(x, s) => Told(x, s)' \/ (x = Back(e) /\ Names(Head(net[x]), {"inv", "tx"}, s))
             /\ Requested(x, s) => Requested(x, s)' \/ (x = e /\ Names(Head(net[Back(x)]), {"getdata"}, s))
             /\ x = e /\ Mentions(msgs, {"inv", "tx"}, s) => Told(x, s)'
             /\ Back(x) = e /\ Mentions(msgs, {"getdata"}, s) => Requested(x, s)'
  <2>1. /\ \A y \in Ends : \A types, t :
             Mentions(net[y], types, t) =>
               \/ Mentions(Exchange(e, msgs)[y], types, t)
               \/ y = Back(e) /\ Names(Head(net[y]), types, t)
        /\ \A types, t : Mentions(msgs, types, t) => Mentions(Exchange(e, msgs)[e], types, t)
    BY <1>6, ExchangeNet DEF TypeInv
  <2>2. /\ Told(x, s)' <=> Mentions(Exchange(e, msgs)[x], {"inv", "tx"}, s)
        /\ Requested(x, s)' <=> Mentions(Exchange(e, msgs)[Back(x)], {"getdata"}, s)
    BY <1>6 DEF Told, Requested, Mentions
  <2>3. Back(Back(e)) = e  BY EndFacts
  <2>4. Told(x, s) => Told(x, s)' \/ (x = Back(e) /\ Names(Head(net[x]), {"inv", "tx"}, s))
    BY <2>1, <2>2 DEF Told
  <2>5. Requested(x, s) => Requested(x, s)' \/ (x = e /\ Names(Head(net[Back(x)]), {"getdata"}, s))
    <3>1. Back(x) = Back(e) => x = e  BY <1>0, <2>3
    <3>2. QED  BY <1>0, <2>1, <2>2, <3>1 DEF Requested
  <2>6. QED  BY <2>1, <2>2, <2>4, <2>5
<1>7. ASSUME NEW e \in Ends, HandleTx(e) PROVE Underway(x, s)'
  <2> DEFINE t == Head(net[Back(e)]).tx
  <2>1. /\ net[Back(e)] # <<>> /\ Head(net[Back(e)]).type = "tx" /\ step[e] = "idle"
        /\ net' = Exchange(e, <<>>) /\ UNCHANGED <<pool, pendingInv, batch>>
    BY <1>7 DEF HandleTx, Delivered
  <2>2. t \in Txs  BY <2>1, HeadSent, SentFacts DEF TypeInv
  <2>3. e \in Threads /\ Back(Back(e)) = e  BY ThreadFacts, EndFacts
  <2>4. <<>> \in Seq(Sent)  OBVIOUS
  <2>5. /\ Told(x, s) => Told(x, s)' \/ (x = Back(e) /\ t = s)
        /\ Requested(x, s) => Requested(x, s)'
    <3>1. /\ Told(x, s) => Told(x, s)' \/ (x = Back(e) /\ Names(Head(net[x]), {"inv", "tx"}, s))
          /\ Requested(x, s) => Requested(x, s)' \/ (x = e /\ Names(Head(net[Back(x)]), {"getdata"}, s))
      BY <1>6, <2>1, <2>4
    <3>2. x = Back(e) /\ Names(Head(net[x]), {"inv", "tx"}, s) => t = s  BY <2>1 DEF Names
    <3>3. x = e => ~Names(Head(net[Back(x)]), {"getdata"}, s)  BY <2>1 DEF Names
    <3>4. QED  BY <3>1, <3>2, <3>3
  <2>6. CASE Take(e, t) /\ UNCHANGED owed
    <3>1. s \in owed[x]  BY <2>6
    <3>2. (InHand(x, s) => InHand(x, s)') /\ (Arrived(x, s) => Arrived(x, s)')
      BY <1>4, <2>1, <2>2, <2>3, <2>6
    <3>3. x = Back(e) /\ t = s => Arrived(x, s)'
      <4>1. step \in [Threads -> {"idle", "admit", "relay"}] /\ hand \in [Threads -> Txs \cup {None}]
        BY DEF TypeInv, ThreadInv
      <4>2. step'[e] = "admit" /\ hand'[e] = t  BY <2>3, <2>6, <4>1 DEF Take
      <4>3. QED  BY <2>3, <4>2 DEF Arrived
    <3>4. QED  BY <1>k, <2>1, <2>5, <3>1, <3>2, <3>3
  <2>7. CASE owed' = [owed EXCEPT ![Back(e)] = @ \ {t}] /\ UNCHANGED <<step, hand>>
    <3>1. s \in owed[x] /\ ~(x = Back(e) /\ t = s)  BY <1>0, <2>7
    <3>2. QED  BY <1>k, <2>1, <2>5, <2>7, <3>1
  <2>8. QED  BY <1>7, <2>6, <2>7 DEF HandleTx
<1>8. ASSUME NEW th \in Threads, Admit(th) PROVE Underway(x, s)'
  <2> DEFINE n == th[1]
             t == hand[th]
  <2>0. step \in [Threads -> {"idle", "admit", "relay"}] /\ hand \in [Threads -> Txs \cup {None}]
    BY DEF TypeInv, ThreadInv
  <2>1. n \in Nodes /\ t \in Txs /\ step[th] = "admit"
    BY <1>8, ThreadFacts, BusyHand DEF Admit, TypeInv
  <2>2. PICK p \in AddTransaction(pool[n], t) :
          /\ pool' = [pool EXCEPT ![n] = p]
          /\ IF t \in p
             THEN /\ owed' = Unpaid(Debts(th, t), up, pool')
                  /\ step' = [step EXCEPT ![th] = "relay"] /\ UNCHANGED hand
             ELSE /\ owed' = [e \in Ends |-> IF e = Back(th) THEN owed[e] \ {t} ELSE owed[e]]
                  /\ step' = [step EXCEPT ![th] = "idle"] /\ hand' = [hand EXCEPT ![th] = None]
    BY <1>8 DEF Admit, Debts
  <2>3. UNCHANGED <<pendingInv, net, batch>>  BY <1>8 DEF Admit
  <2>4. \A u \in Threads : u # th => step'[u] = step[u] /\ hand'[u] = hand[u]
    BY <2>0, <2>2
  <2>5. InHand(x, s) => InHand(x, s)'
    <3>1. \A u \in Threads : step[u] = "relay" => step'[u] = step[u] /\ hand'[u] = hand[u]
      BY <2>1, <2>4
    <3>2. QED  BY <3>1 DEF InHand
  <2>6. Arrived(x, s) => Arrived(x, s)' \/ (Back(x) = th /\ s = t)
    BY <1>0, <2>4, ThreadFacts DEF Arrived
  <2>7. s \in owed[x] => Underway(x, s)' \/ (Back(x) = th /\ s = t)
    BY <1>k, <2>3, <2>5, <2>6
  <2>8. CASE t \in p
    <3>1. s \in Debts(th, t)[x]
      <4>1. Debts(th, t) \in [Ends -> SUBSET Txs]  BY <2>1, DebtsType DEF TypeInv
      <4>2. QED  BY <2>2, <2>8, <4>1, UnpaidFacts
    <3>2. s \in owed[x] \/ (x[1] = n /\ x[2] # th[2] /\ s = t)  BY <3>1 DEF Debts
    <3>3. CASE s \in owed[x]
      <4>1. ~(Back(x) = th /\ s = t)
        <5>1. pool'[n] = p  BY <2>1, <2>2 DEF TypeInv, PoolInv
        <5>2. QED  BY <1>0, <1>d, <2>8, <5>1
      <4>2. QED  BY <2>7, <3>3, <4>1
    <3>4. CASE x[1] = n /\ x[2] # th[2] /\ s = t
      <4>1. step'[th] = "relay" /\ hand'[th] = t  BY <2>0, <2>2, <2>8
      <4>2. InHand(x, s)'  BY <3>4, <4>1 DEF InHand
      <4>3. QED  BY <4>2
    <3>5. QED  BY <3>2, <3>3, <3>4
  <2>9. CASE t \notin p
    <3>1. s \in owed[x] /\ ~(x = Back(th) /\ s = t)  BY <1>0, <2>2, <2>9
    <3>2. Back(x) = th => x = Back(th)  BY <1>0
    <3>3. QED  BY <2>7, <3>1, <3>2
  <2>10. QED  BY <2>8, <2>9
<1>9. ASSUME NEW th \in Threads, RelayTransaction(th) PROVE Underway(x, s)'
  <2>0. step \in [Threads -> {"idle", "admit", "relay"}] /\ hand \in [Threads -> Txs \cup {None}]
    BY DEF TypeInv, ThreadInv
  <2>1. step[th] = "relay" /\ hand[th] \in Txs  BY <1>9, BusyHand DEF RelayTransaction, TypeInv
  <2>2. /\ s \in owed[x] /\ up' = up /\ UNCHANGED <<net, batch>>
        /\ \A u \in Threads : u # th => step'[u] = step[u] /\ hand'[u] = hand[u]
        /\ pendingInv'[x] = IF x[1] = th[1] /\ x[2] # th[2] /\ Up(x, up)
                            THEN Append(pendingInv[x], hand[th]) ELSE pendingInv[x]
    BY <1>9, <2>0 DEF RelayTransaction
  <2>3. /\ \A i \in DOMAIN pendingInv[x] :
             /\ i \in DOMAIN Append(pendingInv[x], hand[th])
             /\ Append(pendingInv[x], hand[th])[i] = pendingInv[x][i]
        /\ \E i \in DOMAIN Append(pendingInv[x], hand[th]) :
             Append(pendingInv[x], hand[th])[i] = hand[th]
    <3> DEFINE q == pendingInv[x]
               t == hand[th]
    <3>1. q \in Seq(Txs) /\ t \in Txs  BY <1>0, <2>1
    <3> HIDE DEF q, t
    <3>2. \A i \in DOMAIN q : i \in DOMAIN Append(q, t) /\ Append(q, t)[i] = q[i]
      BY <3>1, AppendEntries
    <3>3. \E i \in DOMAIN Append(q, t) : Append(q, t)[i] = t  BY <3>1, AppendEntries
    <3>4. QED  BY <3>2, <3>3 DEF q, t
  <2>4. Queued(x, s) => Queued(x, s)'  BY <2>2, <2>3 DEF Queued
  <2>5. Arrived(x, s) => Arrived(x, s)'
    <3>1. step[Back(x)] = "admit" => Back(x) # th  BY <2>1
    <3>2. Back(x) \in Threads  BY <1>0, ThreadFacts
    <3>3. QED  BY <2>2, <3>1, <3>2 DEF Arrived
  <2>6. InHand(x, s) => InHand(x, s)' \/ Queued(x, s)'
    <3>1. ASSUME NEW u \in Threads, u[1] = x[1], u[2] # x[2], step[u] = "relay", hand[u] = s
          PROVE  InHand(x, s)' \/ Queued(x, s)'
      <4>1. CASE u = th
        <5>1. pendingInv'[x] = Append(pendingInv[x], s)  BY <1>d, <2>2, <3>1, <4>1
        <5>2. QED  BY <2>3, <3>1, <4>1, <5>1 DEF Queued
      <4>2. CASE u # th
        <5>1. step'[u] = "relay" /\ hand'[u] = s  BY <2>2, <3>1, <4>2
        <5>2. QED  BY <3>1, <5>1 DEF InHand
      <4>3. QED  BY <4>1, <4>2
    <3>2. QED  BY <3>1 DEF InHand
  <2>7. QED  BY <1>k, <2>2, <2>4, <2>5, <2>6
<1>10. ASSUME NEW e \in Ends, HandleInv(e) PROVE Underway(x, s)'
  <2> DEFINE txs == Head(net[Back(e)]).txs
             toRequest == Only(txs, Txs \ pool[e[1]])
             msgs == Inventory("getdata", toRequest)
  <2>1. /\ net[Back(e)] # <<>> /\ Head(net[Back(e)]).type = "inv"
        /\ net' = Exchange(e, msgs)
        /\ UNCHANGED <<pool, pendingInv, step, hand, batch, owed>>
    BY <1>10 DEF HandleInv, Delivered
  <2>2. txs \in Seq(Txs)  BY <2>1, HeadSent, SentFacts DEF TypeInv
  <2>3. msgs \in Seq(Sent)  BY <2>2, RequestSent
  <2>4. Back(Back(e)) = e /\ Back(e)[2] = e[1]  BY EndFacts
  <2>5. s \in owed[x] /\ s \in Txs  BY <1>0, <2>1
  <2>6. /\ Told(x, s) => Told(x, s)' \/ (x = Back(e) /\ Names(Head(net[x]), {"inv", "tx"}, s))
        /\ Requested(x, s) => Requested(x, s)' \/ (x = e /\ Names(Head(net[Back(x)]), {"getdata"}, s))
        /\ Back(x) = e /\ Mentions(msgs, {"getdata"}, s) => Requested(x, s)'
    <3> HIDE DEF msgs
    <3>1. QED  BY <1>6, <2>1, <2>3
  <2>7. x = e => ~Names(Head(net[Back(x)]), {"getdata"}, s)  BY <2>1 DEF Names
  <2>8. x = Back(e) /\ Names(Head(net[x]), {"inv", "tx"}, s) => Requested(x, s)'
    <3> SUFFICES ASSUME x = Back(e), Names(Head(net[x]), {"inv", "tx"}, s) PROVE Requested(x, s)'
      OBVIOUS
    <3>1. PICK i \in DOMAIN txs : txs[i] = s  BY <2>1 DEF Names
    <3>2. s \in Txs \ pool[e[1]]  BY <1>d, <2>1, <2>4, <2>5
    <3>3. \E k \in DOMAIN txs : txs[k] = s  BY <3>1
    <3>4. Mentions(msgs, {"getdata"}, s)
      <4> HIDE DEF txs
      <4>1. QED  BY <2>2, <3>2, <3>3, RequestCovers
    <3>5. QED  BY <2>4, <2>6, <3>4
  <2>9. QED  BY <1>k, <2>1, <2>5, <2>6, <2>7, <2>8
<1>11. ASSUME NEW e \in Ends, HandleGetData(e) PROVE Underway(x, s)'
  <2> DEFINE txs == Head(net[Back(e)]).txs
             found == Only(txs, pool[e[1]])
             msgs == [i \in DOMAIN found |-> [type |-> "tx", tx |-> found[i]]]
  <2>1. /\ net[Back(e)] # <<>> /\ Head(net[Back(e)]).type = "getdata"
        /\ net' = Exchange(e, msgs)
        /\ UNCHANGED <<pool, pendingInv, step, hand, batch, owed>>
    BY <1>11 DEF HandleGetData, Delivered
  <2>2. txs \in Seq(Txs)  BY <2>1, HeadSent, SentFacts DEF TypeInv
  <2>3. found \in Seq(Txs)  BY <2>2, RequestSent
  <2>4. msgs \in Seq(Sent)
    <3> HIDE DEF found
    <3>1. QED  BY <2>3, AnswerSent
  <2>5. s \in owed[x]  BY <2>1
  <2>6. /\ Told(x, s) => Told(x, s)' \/ (x = Back(e) /\ Names(Head(net[x]), {"inv", "tx"}, s))
        /\ Requested(x, s) => Requested(x, s)' \/ (x = e /\ Names(Head(net[Back(x)]), {"getdata"}, s))
        /\ x = e /\ Mentions(msgs, {"inv", "tx"}, s) => Told(x, s)'
    <3> HIDE DEF msgs
    <3>1. QED  BY <1>6, <2>1, <2>4
  <2>7. x = Back(e) => ~Names(Head(net[x]), {"inv", "tx"}, s)  BY <2>1 DEF Names
  <2>8. x = e /\ Names(Head(net[Back(x)]), {"getdata"}, s) => Told(x, s)'
    <3> SUFFICES ASSUME x = e, Names(Head(net[Back(x)]), {"getdata"}, s) PROVE Told(x, s)'
      OBVIOUS
    <3>1. PICK i \in DOMAIN txs : txs[i] = s  BY <2>1 DEF Names
    <3>2. s \in pool[e[1]]  BY <1>d, <2>1
    <3>3. \E k \in DOMAIN txs : txs[k] = s  BY <3>1
    <3>4. Mentions(msgs, {"inv", "tx"}, s)
      <4> HIDE DEF txs
      <4>1. QED  BY <2>2, <3>2, <3>3, AnswerCovers
    <3>5. QED  BY <2>6, <3>4
  <2>9. QED  BY <1>k, <2>1, <2>5, <2>6, <2>7, <2>8
<1>12. ASSUME NEW n \in Nodes, TakePending(n) PROVE Underway(x, s)'
  <2> DEFINE e == Head(round[n])
  <2>0. s \in owed[x] /\ UNCHANGED <<net, step, hand>>  BY <1>12 DEF TakePending
  <2>1. e \in Ends /\ e[1] = n
    <3>1. round[n] # <<>> /\ round[n] \in Seq(Ends)  BY <1>12 DEF TakePending, TypeInv, FlushInv
    <3>2. Len(round[n]) \in Nat /\ Len(round[n]) # 0 /\ DOMAIN round[n] = 1 .. Len(round[n])
      BY <3>1, LenProperties, EmptySeq
    <3>3. 1 \in DOMAIN round[n]  BY <3>2
    <3>4. e = round[n][1] /\ e \in Ends  BY <3>1, TailEntries
    <3>5. QED  BY <3>3, <3>4 DEF TypeInv, FlushInv
  <2>2. CASE UNCHANGED <<batch, pendingInv>>  BY <1>1, <2>0, <2>2
  <2>3. CASE /\ batch' = [batch EXCEPT ![n] = [end |-> e, txs |-> pendingInv[e]]]
             /\ pendingInv' = [pendingInv EXCEPT ![e] = <<>>]
    <3>1. batch[n] = None /\ DOMAIN batch = Nodes  BY <1>12 DEF TakePending, TypeInv, FlushInv
    <3>2. Taken(x, s) => Taken(x, s)'
      <4>1. Taken(x, s) => x[1] # n  BY <3>1 DEF Taken
      <4>2. x[1] # n => batch'[x[1]] = batch[x[1]]  BY <2>3
      <4>3. QED  BY <4>1, <4>2 DEF Taken
    <3>3. Queued(x, s) => Queued(x, s)' \/ Taken(x, s)'
      <4>1. CASE x = e
        <5>1. batch'[n] = [end |-> x, txs |-> pendingInv[x]]  BY <2>3, <3>1, <4>1
        <5>2. [end |-> x, txs |-> pendingInv[x]] # None
          <6>1. [end |-> x, txs |-> pendingInv[x]] \in [end : Ends, txs : Seq(Txs)]  BY <1>0
          <6>2. QED  BY <6>1 DEF RelayAssumption
        <5>3. batch'[x[1]] # None /\ batch'[x[1]].end = x /\ batch'[x[1]].txs = pendingInv[x]
          BY <2>1, <4>1, <5>1, <5>2
        <5>4. QED  BY <5>3 DEF Queued, Taken
      <4>2. CASE x # e
        <5>1. pendingInv'[x] = pendingInv[x]  BY <1>0, <2>3, <4>2
        <5>2. QED  BY <5>1 DEF Queued
      <4>3. QED  BY <4>1, <4>2
    <3>4. QED  BY <1>k, <2>0, <3>2, <3>3
  <2>4. QED  BY <1>12, <2>2, <2>3 DEF TakePending
<1>13. ASSUME NEW n \in Nodes, SendChunk(n) PROVE Underway(x, s)'
  <2> DEFINE e     == batch[n].end
             txs   == batch[n].txs
             chunk == Chunk(txs)
             rest  == Rest(txs)
  <2>0. s \in owed[x] /\ UNCHANGED <<up, pendingInv, step, hand>>  BY <1>13 DEF SendChunk
  <2>1. batch[n] \in Batch(n) /\ DOMAIN batch = Nodes  BY <1>13 DEF SendChunk, TypeInv, FlushInv
  <2>2. e \in Ends /\ e[1] = n /\ txs \in Seq(Txs) /\ txs # <<>>  BY <2>1 DEF Batch
  <2>3. /\ net' = IF Up(e, up) THEN [net EXCEPT ![e] = Append(@, [type |-> "inv", txs |-> chunk])]
                               ELSE net
        /\ batch' = [batch EXCEPT
             ![n] = IF Up(e, up) /\ rest # <<>> THEN [end |-> e, txs |-> rest] ELSE None]
    BY <1>13 DEF SendChunk, Chunk, Rest, ChunkSize
  <2>5. /\ rest \in Seq(Txs) /\ [type |-> "inv", txs |-> chunk] \in Sent
        /\ \A i \in DOMAIN txs : \/ \E j \in DOMAIN chunk : chunk[j] = txs[i]
                                 \/ \E j \in DOMAIN rest : rest[j] = txs[i]
    <3> HIDE DEF txs
    <3>1. /\ rest \in Seq(Txs) /\ chunk \in Seq(Txs)
          /\ Len(chunk) \in 1 .. MAX_INV_BATCH_SIZE
      BY <2>2, ChunkFacts
    <3>2. \A i \in DOMAIN txs : \/ \E j \in DOMAIN chunk : chunk[j] = txs[i]
                                \/ \E j \in DOMAIN rest : rest[j] = txs[i]
      BY <2>2, ChunkFacts
    <3> HIDE DEF chunk, rest
    <3>3. [type |-> "inv", txs |-> chunk] \in Sent  BY <3>1, SendableInv
    <3>4. QED  BY <3>1, <3>2, <3>3
  <2>6. Taken(x, s) => (e = x /\ x[1] = n /\ \E i \in DOMAIN txs : txs[i] = s) \/ x[1] # n
    BY DEF Taken
  <2>7. x[1] # n => batch'[x[1]] = batch[x[1]]  BY <2>3
  <2> HIDE DEF e, txs, chunk, rest
  <2>8. ASSUME NEW y \in Ends, NEW types, Mentions(net[y], types, s)
        PROVE  Mentions(net'[y], types, s)
    <3>1. CASE Up(e, up) /\ y = e
      <4>1. net'[y] = Append(net[y], [type |-> "inv", txs |-> chunk])  BY <1>0, <2>3, <3>1
      <4>2. Mentions(Append(net[y], [type |-> "inv", txs |-> chunk]), types, s)
        BY <1>0, <2>5, <2>8, MentionsAppend
      <4>3. QED  BY <4>1, <4>2
    <3>2. CASE ~(Up(e, up) /\ y = e)
      <4>1. net'[y] = net[y]  BY <1>0, <2>3, <3>2
      <4>2. QED  BY <2>8, <4>1
    <3>3. QED  BY <3>1, <3>2
  <2>9. (Told(x, s) => Told(x, s)') /\ (Requested(x, s) => Requested(x, s)')
    <3>1. Told(x, s)' <=> Mentions(net'[x], {"inv", "tx"}, s)  BY DEF Told, Mentions
    <3>2. Requested(x, s)' <=> Mentions(net'[Back(x)], {"getdata"}, s)
      BY DEF Requested, Mentions
    <3>3. QED  BY <1>0, <2>8, <3>1, <3>2 DEF Told, Requested
  <2>10. Taken(x, s) => Taken(x, s)' \/ Told(x, s)'
    <3> SUFFICES ASSUME Taken(x, s) PROVE Taken(x, s)' \/ Told(x, s)'  OBVIOUS
    <3>1. CASE x[1] # n  BY <2>7, <3>1 DEF Taken
    <3>2. CASE e = x /\ x[1] = n /\ \E i \in DOMAIN txs : txs[i] = s
      <4>1. Up(e, up)  BY <1>d, <2>0, <3>2
      <4>2. CASE \E j \in DOMAIN chunk : chunk[j] = s
        <5>1. Names([type |-> "inv", txs |-> chunk], {"inv", "tx"}, s)  BY <4>2 DEF Names
        <5>2. Mentions(Append(net[x], [type |-> "inv", txs |-> chunk]), {"inv", "tx"}, s)
          BY <1>0, <2>5, <5>1, MentionsAppend
        <5>3. net'[x] = Append(net[x], [type |-> "inv", txs |-> chunk])  BY <1>0, <2>3, <3>2, <4>1
        <5>4. Mentions(net'[x], {"inv", "tx"}, s)  BY <5>2, <5>3
        <5>5. QED  BY <5>4 DEF Told, Mentions
      <4>3. CASE \E j \in DOMAIN rest : rest[j] = s
        <5>1. rest # <<>>  BY <4>3
        <5>2. batch'[x[1]] = [end |-> x, txs |-> rest]  BY <2>1, <2>3, <3>2, <4>1, <5>1
        <5>3. [end |-> x, txs |-> rest] # None
          <6>1. [end |-> x, txs |-> rest] \in [end : Ends, txs : Seq(Txs)]  BY <2>5
          <6>2. QED  BY <6>1 DEF RelayAssumption
        <5>4. /\ batch'[x[1]] # None /\ batch'[x[1]].end = x
              /\ \E i \in DOMAIN batch'[x[1]].txs : batch'[x[1]].txs[i] = s
          BY <4>3, <5>2, <5>3
        <5>5. QED  BY <5>4 DEF Taken
      <4>4. QED  BY <2>5, <3>2, <4>2, <4>3
    <3>3. QED  BY <2>6, <3>1, <3>2
  <2>11. QED  BY <1>k, <2>0, <2>9, <2>10
<1>14. QED
  <2>1. ASSUME NEW d \in Links, Join(d) PROVE s \in owed[x] /\ UNCHANGED <<pendingInv, net, step, hand, batch>>
    BY <2>1 DEF Join
  <2>2. ASSUME NEW n \in Nodes, BeginRound(n)
        PROVE  s \in owed[x] /\ UNCHANGED <<pendingInv, net, step, hand, batch>>
    BY <2>2 DEF BeginRound
  <2>3. UNCHANGED vars => s \in owed[x] /\ UNCHANGED <<pendingInv, net, step, hand, batch>>
    BY DEF vars
  <2>4. Ends \subseteq Threads /\ \A n \in Nodes : <<n, Rpc>> \in Threads  BY ThreadFacts
  <2> HIDE DEF Underway
  <2>5. QED
    BY <1>1, <1>2, <1>3, <1>5, <1>7, <1>8, <1>9, <1>10, <1>11, <1>12, <1>13,
       <2>1, <2>2, <2>3, <2>4
    DEF Next, ReaderStep, ThreadStep, FlushStep

\* DebtIsUnderway: a transaction that a node has admitted and a peer of it lacks
\* is queued, on the wire or in a thread's hands, whatever the threads of the
\* two nodes do in between.
THEOREM DebtsAreUnderway == Spec => []DebtIsUnderway
<1> DEFINE Inv == TypeInv /\ OwedInv /\ DebtIsUnderway
<1>1. Init => Inv
  <2>1. ASSUME Init PROVE OwedInv /\ DebtIsUnderway
    BY <2>1 DEF Init, OwedInv, DebtIsUnderway
  <2>2. QED  BY <2>1, InitTypeInv, RelayAssumption
<1>2. Inv /\ [Next]_vars => Inv'
  <2> SUFFICES ASSUME Inv, [Next]_vars PROVE Inv'  OBVIOUS
  <2>1. TypeInv' /\ OwedInv'  BY NextTypeInv, NextOwedInv, RelayAssumption
  <2>2. \A e \in Ends : \A t \in owed[e] : Underway(e, t)  BY DebtStations
  <2>3. ASSUME NEW e \in Ends, NEW t \in owed'[e] PROVE Underway(e, t)'
    BY <2>1, <2>2, NextUnderway, RelayAssumption
  <2>4. DebtIsUnderway'
    BY <2>3 DEF DebtIsUnderway, Underway, InHand, Queued, Taken, Told, Requested, Arrived
  <2>5. QED  BY <2>1, <2>4
<1>3. QED  BY <1>1, <1>2, PTL DEF Spec
=============================================================================
