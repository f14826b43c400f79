-------------------------- MODULE MerkleTreeProofs --------------------------
(***************************************************************************)
(* VerifyMerkleProof accepts what GenerateProof makes, and the same path   *)
(* and root with no other leaf: for every number of transactions and every *)
(* position.                                                               *)
(*                                                                         *)
(* The climb of GenerateProof and that of VerifyMerkleProof go through the *)
(* same nodes.  After k steps the client holds the hash of the node it has *)
(* come to (Climb), because a step combines a node's hash with its         *)
(* sibling's into the parent's, and no other hash into that (ParentHash):  *)
(* a climb that ends in the root has been through the nodes of the proof,  *)
(* from the top down, so it began at the leaf (OneLeafClimbs).             *)
(***************************************************************************)
EXTENDS MerkleTree, SequenceTheorems, WellFoundedInduction, TLAPS

Elements(s) == {s[i] : i \in DOMAIN s}

IsSeq(s) == s \in Seq(Elements(s))

\* The levels that have been built.
Built ==
  /\ IsSeq(levels)
  /\ levels # <<>>
  /\ \A k \in 1 .. Len(levels) : IsSeq(levels[k]) /\ Len(levels[k]) >= 1
  /\ \A k \in 1 .. Len(levels) - 1 : levels[k + 1] = Parents(levels[k])

\* The part of the proof that has been made: one sibling per level.
Walked ==
  /\ idx \in Seq(Nat) /\ IsSeq(path)
  /\ pc = "build" => idx = <<>> /\ path = <<>>
  /\ pc # "build" =>
       /\ Len(Last(levels)) = 1
       /\ Len(idx) \in 1 .. Len(levels) /\ Len(path) = Len(idx) - 1
       /\ \A k \in 1 .. Len(idx) : idx[k] \in 0 .. Len(levels[k]) - 1
       /\ \A k \in 1 .. Len(path) :
            idx[k + 1] = idx[k] \div 2 /\ path[k] = Sibling(levels[k], idx[k])
  /\ pc \in {"verify", "done"} => Len(idx) = Len(levels)

\* The part of the proof that has been verified.
Climb ==
  /\ pc \in {"build", "walk"} => current.steps = 0
  /\ pc # "build" => txHash = levels[1][idx[1] + 1]
  /\ pc \in {"verify", "done"} =>
       /\ current.steps \in 0 .. Len(path)
       /\ current.hash = levels[current.steps + 1][idx[current.steps + 1] + 1]
  /\ pc = "done" => current.steps = Len(path)

Inv ==
  /\ pc \in {"build", "walk", "verify", "done"}
  /\ txHash \in Leaf \cup {<<>>}
  /\ \A i \in 1 .. Len(levels[1]) : levels[1][i] \in Leaf
  /\ Len(txs) \in Nat /\ Len(txs) <= Len(levels[1])
  /\ Built /\ Walked /\ Climb

-----------------------------------------------------------------------------
(***************************************************************************)
(* Levels                                                                  *)
(***************************************************************************)

\* A function on 1 .. n is a sequence.
LEMMA FunctionIsSeq ==
  ASSUME NEW n \in Nat, NEW f, f = [i \in 1 .. n |-> f[i]]
  PROVE  IsSeq(f) /\ Len(f) = n
<1>1. DOMAIN f = 1 .. n
  OBVIOUS
<1>2. f \in [1 .. n -> Elements(f)]
  BY <1>1 DEF Elements
<1>3. f \in Seq(Elements(f))
  BY <1>2, SeqDef
<1> QED  BY <1>1, <1>3, LenProperties DEF IsSeq

\* A sequence that is extended is a sequence.
LEMMA AppendIsSeq ==
  ASSUME NEW s, IsSeq(s), NEW x
  PROVE  /\ IsSeq(Append(s, x)) /\ Len(Append(s, x)) = Len(s) + 1
         /\ \A i \in 1 .. Len(s) : Append(s, x)[i] = s[i]
         /\ Append(s, x)[Len(s) + 1] = x
<1> DEFINE S == Elements(s) \cup {x}
           t == Append(s, x)
<1>1. s \in Seq(S)
  <2>1. s \in [1 .. Len(s) -> Elements(s)] /\ Len(s) \in Nat
    BY LenProperties DEF IsSeq
  <2>2. s \in [1 .. Len(s) -> S]
    BY <2>1
  <2> QED  BY <2>1, <2>2, SeqDef
<1>2. /\ t \in Seq(S) /\ Len(t) = Len(s) + 1
      /\ \A i \in 1 .. Len(s) : t[i] = s[i]
      /\ t[Len(s) + 1] = x
  BY <1>1, AppendProperties
<1>3. t \in [1 .. Len(t) -> S] /\ Len(t) \in Nat
  BY <1>2, LenProperties
<1>4. t = [i \in 1 .. Len(t) |-> t[i]]
  BY <1>3
<1> QED  BY <1>2, <1>3, <1>4, FunctionIsSeq

\* The facts about a sequence that the provers need.
LEMMA SeqFacts ==
  ASSUME NEW s, IsSeq(s)
  PROVE  Len(s) \in Nat /\ DOMAIN s = 1 .. Len(s)
BY LenProperties DEF IsSeq

\* A padded level has an even length and keeps its entries; a new one is the
\* last one.
LEMMA PaddedFacts ==
  ASSUME NEW l, IsSeq(l), Len(l) >= 1
  PROVE  /\ IsSeq(Padded(l))
         /\ Len(Padded(l)) = 2 * ((Len(l) + 1) \div 2)
         /\ \A i \in 1 .. Len(l) : Padded(l)[i] = l[i]
         /\ Len(l) % 2 = 1 => Padded(l)[Len(l) + 1] = l[Len(l)]
<1>1. Len(l) \in Nat
  BY SeqFacts
<1>2. CASE Len(l) % 2 = 0
  BY <1>1, <1>2 DEF Padded
<1>3. CASE Len(l) % 2 # 0
  <2>1. Padded(l) = Append(l, l[Len(l)])
    BY <1>3 DEF Padded, Last
  <2> QED  BY <2>1, <1>1, <1>3, AppendIsSeq
<1> QED  BY <1>2, <1>3

\* A level of parents is half as long, rounded up.
LEMMA ParentsFacts ==
  ASSUME NEW l, IsSeq(l), Len(l) >= 1
  PROVE  /\ IsSeq(Parents(l))
         /\ Len(Parents(l)) = (Len(l) + 1) \div 2
         /\ \A i \in 1 .. (Len(l) + 1) \div 2 :
              Parents(l)[i] = Hash(Padded(l)[2 * i - 1], Padded(l)[2 * i])
<1> DEFINE n == (Len(l) + 1) \div 2
<1>1. n \in Nat /\ Len(Padded(l)) \div 2 = n
  <2>1. Len(l) \in Nat
    BY SeqFacts
  <2>2. Len(Padded(l)) = 2 * n
    BY PaddedFacts
  <2>3. n \in Nat
    BY <2>1
  <2> HIDE DEF n
  <2> QED  BY <2>2, <2>3
<1>2. Parents(l) = [i \in 1 .. n |-> Hash(Padded(l)[2 * i - 1], Padded(l)[2 * i])]
  BY <1>1 DEF Parents
<1> HIDE DEF n
<1>3. Parents(l) = [i \in 1 .. n |-> Parents(l)[i]]
  BY <1>2
<1>4. IsSeq(Parents(l)) /\ Len(Parents(l)) = n
  BY <1>1, <1>3, FunctionIsSeq
<1> QED  BY <1>2, <1>4 DEF n

\* What a step of the proof makes of the hash h at the position i: the hash of
\* the parent if h is the hash at i, and something else otherwise.
LEMMA ParentHash ==
  ASSUME NEW l, IsSeq(l), Len(l) >= 1, NEW i \in 0 .. Len(l) - 1, NEW h
  PROVE  /\ i \div 2 \in 0 .. Len(Parents(l)) - 1
         /\ Combine(Sibling(l, i), h) = Parents(l)[i \div 2 + 1] <=> h = l[i + 1]
<1> DEFINE p == i \div 2
<1>1. Len(l) \in Nat /\ p \in Nat
  BY SeqFacts
<1>2. p + 1 \in 1 .. (Len(l) + 1) \div 2
  BY <1>1
<1>3. /\ Len(Parents(l)) = (Len(l) + 1) \div 2
      /\ Parents(l)[p + 1] = Hash(Padded(l)[2 * (p + 1) - 1], Padded(l)[2 * (p + 1)])
  BY <1>2, ParentsFacts
<1>4. CASE i % 2 = 1
  <2>1. 2 * (p + 1) - 1 = i /\ 2 * (p + 1) = i + 1
    BY <1>1, <1>4
  <2>2. Padded(l)[i] = l[i] /\ Padded(l)[i + 1] = l[i + 1]
    BY <1>1, <1>4, PaddedFacts
  <2>3. SiblingIdx(l, i) + 1 = i
    BY <1>1, <1>4 DEF SiblingIdx
  <2>4. Combine(Sibling(l, i), h) = <<l[i], h>>
    BY <2>3, <1>4 DEF Combine, Sibling, Hash
  <2>5. Parents(l)[p + 1] = <<l[i], l[i + 1]>>
    BY <1>3, <2>1, <2>2 DEF Hash
  <2> HIDE DEF p
  <2>6. <<l[i], h>> = <<l[i], l[i + 1]>> <=> h = l[i + 1]
    OBVIOUS
  <2> QED  BY <2>4, <2>5, <2>6, <1>1, <1>2, <1>3 DEF p
<1>5. CASE i % 2 = 0
  <2>1. 2 * (p + 1) - 1 = i + 1 /\ 2 * (p + 1) = i + 2
    BY <1>1, <1>5
  <2>2. Padded(l)[i + 1] = l[i + 1]
    BY <1>1, PaddedFacts
  <2>3. Padded(l)[i + 2] = l[SiblingIdx(l, i) + 1]
    <3>1. CASE i + 1 >= Len(l)
      <4>1. i + 1 = Len(l) /\ SiblingIdx(l, i) = i /\ Len(l) % 2 = 1
        BY <1>1, <1>5, <3>1 DEF SiblingIdx
      <4>2. Padded(l)[Len(l) + 1] = l[Len(l)]
        BY <4>1, PaddedFacts
      <4>3. Len(l) + 1 = i + 2
        BY <4>1, <1>1
      <4> QED  BY <4>1, <4>2, <4>3
    <3>2. CASE ~(i + 1 >= Len(l))
      <4>1. SiblingIdx(l, i) = i + 1 /\ i + 2 \in 1 .. Len(l) /\ i + 2 = (i + 1) + 1
        BY <1>1, <1>5, <3>2 DEF SiblingIdx
      <4>2. Padded(l)[i + 2] = l[i + 2]
        BY <4>1, PaddedFacts
      <4> QED  BY <4>1, <4>2
    <3> QED  BY <3>1, <3>2
  <2> DEFINE s == l[SiblingIdx(l, i) + 1]
  <2>4. Combine(Sibling(l, i), h) = <<h, s>>
    <3>1. i % 2 # 1
      BY <1>1, <1>5
    <3> QED  BY <3>1, Zenon DEF Combine, Sibling, Hash
  <2>5. Parents(l)[p + 1] = <<l[i + 1], s>>
    BY <1>3, <2>1, <2>2, <2>3 DEF Hash
  <2> HIDE DEF p, s
  <2>6. <<h, s>> = <<l[i + 1], s>> <=> h = l[i + 1]
    OBVIOUS
  <2> QED  BY <2>4, <2>5, <2>6, <1>1, <1>2, <1>3 DEF p
<1> QED  BY <1>4, <1>5

-----------------------------------------------------------------------------
(***************************************************************************)
(* The invariant                                                           *)
(***************************************************************************)

LEMMA InitInv == Init => Inv
<1> SUFFICES ASSUME Init PROVE Inv
  OBVIOUS
<1>1. PICK n \in 1 .. MaxTxs : txs \in [1 .. n -> Leaf]
  BY DEF Init
<1>2. n \in Nat /\ txs = [i \in 1 .. n |-> txs[i]] /\ n >= 1
  BY <1>1, MerkleAssumption
<1>3. IsSeq(txs) /\ Len(txs) >= 1
  BY <1>2, FunctionIsSeq
<1> DEFINE l == Padded(txs)
<1>4. IsSeq(l) /\ Len(l) >= 1
  BY <1>3, PaddedFacts, SeqFacts
<1>8. Len(txs) \in Nat /\ Len(txs) <= Len(l) /\ \A i \in 1 .. Len(l) : l[i] \in Leaf
  <2>1. /\ Len(l) = 2 * ((Len(txs) + 1) \div 2)
        /\ \A i \in 1 .. Len(txs) : l[i] = txs[i]
        /\ Len(txs) % 2 = 1 => l[Len(txs) + 1] = txs[Len(txs)]
    BY <1>3, PaddedFacts
  <2>2. Len(txs) = n /\ \A i \in 1 .. n : txs[i] \in Leaf
    BY <1>1, <1>2, FunctionIsSeq
  <2> HIDE DEF l
  <2>3. ASSUME NEW i \in 1 .. Len(l) PROVE l[i] \in Leaf
    <3>1. CASE i <= n
      BY <1>2, <2>1, <2>2, <3>1
    <3>2. CASE ~(i <= n)
      <4> DEFINE m == Len(l)
      <4>1. m = 2 * ((n + 1) \div 2) /\ i \in 1 .. m /\ ~(i <= n) /\ n \in Nat /\ n >= 1
        BY <1>2, <2>1, <2>2, <3>2
      <4> HIDE DEF m
      <4>2. n % 2 = 1 /\ i = n + 1
        BY <4>1
      <4>3. l[n + 1] = txs[n] /\ n \in 1 .. n
        BY <2>1, <2>2, <4>1, <4>2
      <4> QED  BY <2>2, <4>2, <4>3
    <3> QED  BY <3>1, <3>2
  <2>4. n <= 2 * ((n + 1) \div 2)
    BY <1>2
  <2> QED  BY <1>2, <2>1, <2>2, <2>3, <2>4
<1> HIDE DEF l
<1>7. levels = <<l>> /\ levels[1] = l
  BY DEF Init, l
<1>5. Built
  <2>1. levels = <<l>>
    BY DEF Init, l
  <2>2. Len(levels) = 1 /\ levels[1] = l /\ levels # <<>> /\ levels = [i \in 1 .. 1 |-> levels[i]]
    BY <2>1
  <2>3. IsSeq(levels)
    BY <2>2, FunctionIsSeq
  <2> QED  BY <2>2, <2>3, <1>4 DEF Built
<1>6. Walked
  <2>1. IsSeq(<<>>)
    BY DEF IsSeq
  <2> QED  BY <2>1 DEF Init, Walked
<1> QED  BY <1>5, <1>6, <1>7, <1>8 DEF Init, Inv, Climb

LEMMA NextInv == Inv /\ [Next]_vars => Inv'
<1> SUFFICES ASSUME Inv, [Next]_vars PROVE Inv'
  OBVIOUS
<1> USE DEF Inv
<1>0. Len(levels) \in Nat \ {0} /\ Len(idx) \in Nat /\ Len(path) \in Nat
  BY SeqFacts DEF Built, Walked, IsSeq
<1>1. CASE BuildLevel
  <2>1. Built'
    <3> DEFINE n == Len(levels)
    <3>1. IsSeq(levels[n]) /\ Len(levels[n]) > 1
      BY <1>0, <1>1 DEF BuildLevel, Built, Last
    <3>2. IsSeq(Parents(levels[n])) /\ Len(Parents(levels[n])) >= 1
      BY <3>1, ParentsFacts, SeqFacts
    <3>3. levels' = Append(levels, Parents(levels[n]))
      BY <1>1 DEF BuildLevel, Last
    <3>4. /\ IsSeq(levels') /\ Len(levels') = n + 1
          /\ \A k \in 1 .. n : levels'[k] = levels[k]
          /\ levels'[n + 1] = Parents(levels[n])
      BY <3>3, AppendIsSeq DEF Built
    <3> HIDE DEF n
    <3>5. \A k \in 1 .. n + 1 : IsSeq(levels'[k]) /\ Len(levels'[k]) >= 1
      BY <1>0, <3>2, <3>4 DEF Built, n
    <3>6. \A k \in 1 .. n : levels'[k + 1] = Parents(levels'[k])
      BY <1>0, <3>4 DEF Built, n
    <3>7. levels' # <<>>
      BY <3>4, <1>0 DEF n
    <3>8. n \in Nat /\ Len(levels') = n + 1 /\ Len(levels') - 1 = n
      BY <1>0, <3>4 DEF n
    <3> HIDE DEF Inv
    <3> QED  BY <3>4, <3>5, <3>6, <3>7, <3>8 DEF Built
  <2>2. levels'[1] = levels[1]
    <3>1. levels' = Append(levels, Parents(levels[Len(levels)])) /\ 1 \in 1 .. Len(levels)
      BY <1>0, <1>1 DEF BuildLevel, Last
    <3>2. IsSeq(levels)
      BY DEF Built
    <3> QED  BY <3>1, <3>2, AppendIsSeq
  <2>3. /\ pc = "build" /\ pc' = "build"
        /\ UNCHANGED <<txs, txHash, idx, path, current>>
    BY <1>1 DEF BuildLevel
  <2>4. Walked' /\ Climb'
    BY <2>3 DEF Walked, Climb
  <2> QED  BY <2>1, <2>2, <2>3, <2>4
<1>2. ASSUME NEW i \in 0 .. Len(txs) - 1, GenerateProof(i)
      PROVE  Inv'
  <2>0. i \in 0 .. Len(levels[1]) - 1
    <3>1. Len(levels[1]) \in Nat
      BY SeqFacts, <1>0 DEF Built
    <3> QED  BY <3>1
  <2>1. Built'
    BY <1>2 DEF GenerateProof, Built
  <2>2. Walked'
    <3>1. idx' = <<i>> /\ path' = <<>> /\ pc' = "walk" /\ levels' = levels
      BY <1>2 DEF GenerateProof, Walked
    <3>2. i \in Nat
      BY SeqFacts, <1>0 DEF Built
    <3>3. idx' \in Seq(Nat) /\ Len(idx') = 1 /\ idx'[1] = i /\ Len(path') = 0
      BY <3>1, <3>2
    <3>4. Len(Last(levels)) = 1
      <4> DEFINE w == Len(Last(levels))
      <4>1. w \in Nat /\ w >= 1
        BY SeqFacts, <1>0 DEF Built, Last
      <4>2. w <= 1
        BY <1>2 DEF GenerateProof
      <4> HIDE DEF w
      <4>3. w = 1
        BY <4>1, <4>2
      <4> QED  BY <4>3 DEF w
    <3>5. IsSeq(path)' /\ Last(levels)' = Last(levels)
      BY <3>1, <1>2 DEF GenerateProof, Walked, IsSeq, Elements, Last
    <3> QED  BY <2>0, <3>1, <3>2, <3>3, <3>4, <3>5, <1>0 DEF Walked
  <2>3. i + 1 \in 1 .. Len(levels[1])
    BY <2>0
  <2>4. /\ pc' = "walk" /\ idx' = <<i>> /\ txHash' = levels[1][i + 1]
        /\ UNCHANGED <<txs, levels, current>> /\ current.steps = 0
    BY <1>2 DEF GenerateProof, Climb
  <2>5. Climb' /\ txHash' \in Leaf
    BY <2>3, <2>4 DEF Climb
  <2> QED  BY <2>1, <2>2, <2>4, <2>5
<1>3. CASE WalkUp
  <2> DEFINE n == Len(idx)
             j == idx[n]
             l == levels[n]
  <2>1. /\ n \in 1 .. Len(levels) - 1 /\ Len(path) = n - 1
        /\ IsSeq(l) /\ Len(l) >= 1 /\ j \in 0 .. Len(l) - 1
        /\ levels[n + 1] = Parents(l)
    BY <1>0, <1>3 DEF WalkUp, Walked, Built
  <2>2. idx' = Append(idx, j \div 2) /\ path' = Append(path, Sibling(l, j))
    BY <1>3 DEF WalkUp, Last
  <2>3. pc = "walk" /\ pc' = "walk" /\ levels' = levels
    BY <1>3 DEF WalkUp
  <2>4. Built'
    BY <1>3 DEF WalkUp, Built
  <2> HIDE DEF n, j, l
  <2>5. Len(l) \in Nat /\ j \in Nat /\ j \div 2 \in Nat /\ n \in Nat
    BY <2>1, SeqFacts, <1>0 DEF n
  <2>6. /\ idx' \in Seq(Nat) /\ Len(idx') = n + 1 /\ idx'[n + 1] = j \div 2
        /\ \A k \in 1 .. n : idx'[k] = idx[k]
    BY <2>2, <2>5, AppendProperties DEF Walked, n
  <2>7. /\ IsSeq(path') /\ Len(path') = n /\ path'[n] = Sibling(l, j)
        /\ \A k \in 1 .. n - 1 : path'[k] = path[k]
    <3>1. IsSeq(path)
      BY DEF Walked
    <3>2. n - 1 + 1 = n
      BY <2>5
    <3> QED  BY <2>2, <2>1, <3>1, <3>2, AppendIsSeq
  <2>8. j \div 2 \in 0 .. Len(levels[n + 1]) - 1
    BY <2>1, ParentHash
  <2>9. Walked'
    <3>1. \A k \in 1 .. n + 1 : idx'[k] \in 0 .. Len(levels[k]) - 1
      <4>1. \A k \in 1 .. n : idx[k] \in 0 .. Len(levels[k]) - 1
        BY <2>3 DEF Walked, n
      <4>2. ASSUME NEW k \in 1 .. n + 1 PROVE idx'[k] \in 0 .. Len(levels[k]) - 1
        <5>1. k \in 1 .. n \/ k = n + 1
          BY <2>5
        <5> QED  BY <4>1, <5>1, <2>6, <2>8
      <4> QED  BY <4>2
    <3>2. \A k \in 1 .. n : idx'[k + 1] = idx'[k] \div 2 /\ path'[k] = Sibling(levels[k], idx'[k])
      <4> SUFFICES ASSUME NEW k \in 1 .. n
                   PROVE  idx'[k + 1] = idx'[k] \div 2 /\ path'[k] = Sibling(levels[k], idx'[k])
        OBVIOUS
      <4>1. CASE k = n
        BY <4>1, <2>5, <2>6, <2>7 DEF j, l, n
      <4>2. CASE k \in 1 .. n - 1
        <5>1. idx[k + 1] = idx[k] \div 2 /\ path[k] = Sibling(levels[k], idx[k])
          BY <4>2, <2>1, <2>3 DEF Walked
        <5>2. idx'[k + 1] = idx[k + 1] /\ idx'[k] = idx[k] /\ path'[k] = path[k]
          BY <4>2, <2>5, <2>6, <2>7
        <5> QED  BY <5>1, <5>2
      <4> QED  BY <4>1, <4>2, <2>5
    <3>3. Len(Last(levels')) = 1 /\ Len(idx') \in 1 .. Len(levels') /\ Len(path') = Len(idx') - 1
      BY <2>1, <2>3, <2>5, <2>6, <2>7, <1>0 DEF Walked
    <3> QED  BY <3>1, <3>2, <3>3, <2>3, <2>6, <2>7 DEF Walked
  <2>10. idx'[1] = idx[1]
    BY <2>1, <2>5, <2>6
  <2> QED  BY <2>4, <2>9, <2>10, <1>3 DEF WalkUp, Climb
<1>4. CASE ReceiveProof
  <2>1. Built' /\ Walked'
    BY <1>4 DEF ReceiveProof, Built, Walked
  <2>2. current'.steps = 0 /\ current'.hash = txHash /\ txHash = levels[1][idx[1] + 1]
    BY <1>4 DEF ReceiveProof, Climb
  <2> QED  BY <2>1, <2>2, <1>0, <1>4 DEF ReceiveProof, Climb
<1>5. CASE VerifyStep
  <2>1. Built' /\ Walked'
    BY <1>5 DEF VerifyStep, Built, Walked
  <2> DEFINE k == current.steps + 1
             l == levels[k]
             j == idx[k]
  <2>2. k \in 1 .. Len(path) /\ Len(path) = Len(levels) - 1 /\ Len(idx) = Len(levels)
    <3>1. pc = "verify" /\ current.steps < Len(path)
      BY <1>5 DEF VerifyStep
    <3>2. current.steps \in 0 .. Len(path)
      BY <3>1 DEF Climb
    <3>3. Len(path) = Len(idx) - 1 /\ Len(idx) = Len(levels)
      BY <3>1 DEF Walked
    <3> QED  BY <1>0, <3>1, <3>2, <3>3
  <2>3. /\ IsSeq(l) /\ Len(l) >= 1 /\ j \in 0 .. Len(l) - 1
        /\ levels[k + 1] = Parents(l) /\ idx[k + 1] = j \div 2 /\ path[k] = Sibling(l, j)
    <3>1. pc = "verify"
      BY <1>5 DEF VerifyStep
    <3> HIDE DEF k
    <3>2. k \in 1 .. Len(levels) /\ k \in 1 .. Len(levels) - 1 /\ k \in 1 .. Len(idx)
      BY <2>2, <1>0
    <3>3. IsSeq(l) /\ Len(l) >= 1 /\ levels[k + 1] = Parents(l)
      BY <3>2 DEF Built
    <3>4. j \in 0 .. Len(l) - 1
      BY <3>1, <3>2 DEF Walked
    <3>5. idx[k + 1] = j \div 2 /\ path[k] = Sibling(l, j)
      BY <3>1, <2>2 DEF Walked
    <3> QED  BY <3>3, <3>4, <3>5
  <2>4. /\ current'.hash = Combine(path[k], current.hash) /\ current'.steps = k
        /\ pc = "verify" /\ pc' = "verify"
        /\ UNCHANGED <<txs, levels, txHash, idx, path>>
    BY <1>5 DEF VerifyStep
  <2>5. current.hash = l[j + 1] /\ txHash = levels[1][idx[1] + 1]
    BY <2>4 DEF Climb
  <2> HIDE DEF k, l, j
  <2>6. current'.hash = levels[k + 1][idx[k + 1] + 1]
    <3>1. Combine(Sibling(l, j), current.hash) = Parents(l)[j \div 2 + 1]
      BY <2>3, <2>5, ParentHash
    <3> HIDE DEF Inv
    <3> QED  BY <2>3, <2>4, <3>1
  <2>7. k \in 0 .. Len(path)
    BY <2>2, <1>0
  <2> QED  BY <2>1, <2>4, <2>5, <2>6, <2>7 DEF Climb
<1>6. CASE FinishVerify
  BY <1>6 DEF FinishVerify, Built, Walked, Climb
<1>7. CASE UNCHANGED vars
  BY <1>7 DEF vars, Built, Walked, Climb
<1> QED  BY <1>1, <1>2, <1>3, <1>4, <1>5, <1>6, <1>7 DEF Next, GetMerkleProof

LEMMA Invariant == Spec => []Inv
<1> QED  BY InitInv, NextInv, PTL DEF Spec

-----------------------------------------------------------------------------
(***************************************************************************)
(* The theorems                                                            *)
(***************************************************************************)

LEMMA InvType == Inv => TypeOK
<1> SUFFICES ASSUME Inv PROVE TypeOK
  OBVIOUS
<1> USE DEF Inv
<1>0. Len(levels) \in Nat \ {0} /\ Len(idx) \in Nat /\ Len(path) \in Nat
  BY SeqFacts DEF Built, Walked, IsSeq
<1>1. \A k \in 1 .. Len(levels) : Len(levels[k]) \in Nat \ {0}
  BY SeqFacts DEF Built
<1>2. \A k \in 1 .. Len(levels) - 1 : Len(levels[k + 1]) = (Len(levels[k]) + 1) \div 2
  <2> SUFFICES ASSUME NEW k \in 1 .. Len(levels) - 1
               PROVE  Len(levels[k + 1]) = (Len(levels[k]) + 1) \div 2
    OBVIOUS
  <2>1. k \in 1 .. Len(levels)
    BY <1>0
  <2>2. IsSeq(levels[k]) /\ Len(levels[k]) >= 1 /\ levels[k + 1] = Parents(levels[k])
    BY <2>1 DEF Built
  <2> QED  BY <2>2, ParentsFacts
<1>3. Len(path) = IF idx = <<>> THEN 0 ELSE Len(idx) - 1
  BY <1>0 DEF Walked
<1>4. current.steps \in 0 .. Len(path)
  BY <1>0 DEF Climb
<1> QED  BY <1>0, <1>1, <1>2, <1>3, <1>4 DEF TypeOK, Walked

\* The levels halve from the leaves to a single root, and there is one step of
\* the proof for each but the last.
THEOREM TypeCorrect == Spec => []TypeOK
<1> QED  BY Invariant, InvType, PTL

-----------------------------------------------------------------------------
(***************************************************************************)
(* The climb along a proof                                                 *)
(***************************************************************************)

\* A non-empty set of natural numbers has a least element.
LEMMA LeastExists ==
  ASSUME NEW S \in SUBSET Nat, S # {}
  PROVE  \E m \in S : \A n \in S : m <= n
<1> DEFINE R == {ss \in Nat \X Nat : ss[1] < ss[2]}
<1>1. IsWellFoundedOn(R, Nat)  BY NatLessThanWellFounded DEF OpToRel
<1>2. PICK m \in S : \A n \in S : ~(<<n, m>> \in R)  BY <1>1, WFMin
<1>3. ASSUME NEW n \in S PROVE m <= n
  <2>1. n \in Nat /\ m \in Nat /\ ~(<<n, m>> \in R)  BY <1>2
  <2>2. n < m => <<n, m>> \in R  BY <2>1
  <2>3. QED  BY <2>1, <2>2
<1>4. QED  BY <1>3

\* The hashes that the first m steps of the path p make of h.
Climbs(p, h, m, g) ==
  g = [k \in 0 .. m |-> IF k = 0 THEN h ELSE Combine(p[k], g[k - 1])]

\* There are such hashes: by the least number of steps for which there are none.
LEMMA ClimbExists ==
  ASSUME NEW p, NEW h, NEW m \in Nat
  PROVE  \E g : Climbs(p, h, m, g)
<1> DEFINE bad == {k \in Nat : \A g : ~Climbs(p, h, k, g)}
<1>1. CASE bad = {}  BY <1>1
<1>2. CASE bad # {}
  <2>1. PICK n \in bad : \A k \in bad : n <= k
    <3>1. bad \in SUBSET Nat  OBVIOUS
    <3> HIDE DEF bad
    <3>2. QED  BY <1>2, <3>1, LeastExists
  <2>2. n \in Nat /\ \A g : ~Climbs(p, h, n, g)  BY <2>1
  <2>3. n # 0
    <3>1. SUFFICES ASSUME n = 0 PROVE FALSE  OBVIOUS
    <3> DEFINE g == [k \in 0 .. n |-> h]
    <3>2. \A k \in 0 .. n : k = 0  BY <3>1
    <3>3. g = [k \in 0 .. n |-> IF k = 0 THEN h ELSE Combine(p[k], g[k - 1])]  BY <3>2, Zenon
    <3>4. QED  BY <2>2, <3>3, Zenon DEF Climbs
  <2>4. n - 1 \in Nat /\ ~(n <= n - 1)  BY <2>2, <2>3
  <2>5. n - 1 \notin bad  BY <2>1, <2>4
  <2>6. PICK g : Climbs(p, h, n - 1, g)  BY <2>4, <2>5
  <2> DEFINE f == [k \in 0 .. n |-> IF k = 0 THEN h ELSE Combine(p[k], g[k - 1])]
  <2>7. ASSUME NEW k \in 0 .. n, k # 0 PROVE f[k - 1] = g[k - 1]
    <3>1. k - 1 \in 0 .. n /\ k - 1 \in 0 .. n - 1  BY <2>2, <2>7
    <3>2. f[k - 1] = IF k - 1 = 0 THEN h ELSE Combine(p[k - 1], g[k - 1 - 1])
      BY <3>1, Zenon
    <3>3. g[k - 1] = IF k - 1 = 0 THEN h ELSE Combine(p[k - 1], g[k - 1 - 1])
      BY <2>6, <3>1, Zenon DEF Climbs
    <3>4. QED  BY <3>2, <3>3, Zenon
  <2>8. f = [k \in 0 .. n |-> IF k = 0 THEN h ELSE Combine(p[k], f[k - 1])]
    <3> DEFINE e == [k \in 0 .. n |-> IF k = 0 THEN h ELSE Combine(p[k], f[k - 1])]
    <3>1. ASSUME NEW k \in 0 .. n PROVE f[k] = e[k]
      <4>1. CASE k = 0  BY <4>1, Zenon
      <4>2. CASE k # 0
        <5>1. f[k - 1] = g[k - 1]  BY <2>7, <4>2
        <5>2. f[k] = Combine(p[k], g[k - 1])  BY <4>2, Zenon
        <5>3. e[k] = Combine(p[k], f[k - 1])  BY <4>2, Zenon
        <5>4. QED  BY <5>1, <5>2, <5>3, Zenon
      <4>3. QED  BY <4>1, <4>2
    <3>2. f = e  BY <3>1, Zenon
    <3>3. QED  BY <3>2, Zenon
  <2>9. QED  BY <2>2, <2>8, Zenon DEF Climbs
<1>3. QED  BY <1>1, <1>2

\* The recursion of Climbed is well defined.
LEMMA ClimbedUnfold ==
  ASSUME NEW p, Len(p) \in Nat, NEW h
  PROVE  \E g : /\ g[0] = h /\ g[Len(p)] = Climbed(p, h)
                /\ \A k \in 1 .. Len(p) : g[k] = Combine(p[k], g[k - 1])
<1>1. PICK f : Climbs(p, h, Len(p), f)  BY ClimbExists
<1> DEFINE g == CHOOSE c : Climbs(p, h, Len(p), c)
<1>2. Climbed(p, h) = g[Len(p)]  BY Zenon DEF Climbed, Climbs
<1>3. Climbs(p, h, Len(p), g)  BY <1>1, Zenon
<1> HIDE DEF g
<1>4. \A k \in 0 .. Len(p) : g[k] = IF k = 0 THEN h ELSE Combine(p[k], g[k - 1])
  BY <1>3, Zenon DEF Climbs
<1>5. 0 \in 0 .. Len(p) /\ \A k \in 1 .. Len(p) : k \in 0 .. Len(p) /\ k # 0  OBVIOUS
<1>6. g[0] = h /\ \A k \in 1 .. Len(p) : g[k] = Combine(p[k], g[k - 1])
  BY <1>4, <1>5, Zenon
<1>7. QED  BY <1>2, <1>6

\* A climb along a proof that ends in the root began at the proof's leaf: there
\* is a least step at which it is at the proof's node, and the hash before a
\* step to the proof's node is that of the node before.
LEMMA OneLeafClimbs ==
  ASSUME Inv, pc = "done", NEW h, Climbed(path, h) = Root
  PROVE  h = txHash
<1> DEFINE n == Len(path)
           node(k) == levels[k + 1][idx[k + 1] + 1]
<1>1. n \in Nat /\ Len(levels) = n + 1 /\ Len(idx) = n + 1 /\ Len(levels[n + 1]) = 1
      /\ Root = levels[n + 1][1]
  <2>1. n = Len(idx) - 1 /\ Len(idx) = Len(levels) /\ Len(Last(levels)) = 1 /\ n \in Nat
    BY SeqFacts DEF Inv, Walked
  <2>2. Len(levels) \in Nat
    BY SeqFacts DEF Inv, Built
  <2> HIDE DEF n
  <2>3. Len(levels) = n + 1
    BY <2>1, <2>2
  <2> QED  BY <2>1, <2>3 DEF Last, Root
<1>2. \A k \in 1 .. n + 1 : idx[k] \in 0 .. Len(levels[k]) - 1
  BY <1>1 DEF Inv, Walked
<1>3. Root = node(n)
  <2> HIDE DEF n
  <2>1. n + 1 \in 1 .. n + 1
    BY <1>1
  <2>2. idx[n + 1] \in 0 .. 1 - 1
    BY <1>1, <1>2, <2>1
  <2>3. idx[n + 1] + 1 = 1
    BY <2>2
  <2> QED  BY <1>1, <2>3
<1>4. PICK g : /\ g[0] = h /\ g[n] = Climbed(path, h)
               /\ \A k \in 1 .. n : g[k] = Combine(path[k], g[k - 1])
  BY <1>1, ClimbedUnfold
<1>5. ASSUME NEW k \in 1 .. n, g[k] = node(k)
      PROVE  g[k - 1] = node(k - 1)
  <2> DEFINE l == levels[k]
             i == idx[k]
  <2>1. k \in 1 .. n + 1 /\ k \in 1 .. Len(levels) /\ k \in 1 .. Len(levels) - 1 /\ (k - 1) + 1 = k
    <3> HIDE DEF n
    <3> QED  BY <1>1
  <2>2. IsSeq(l) /\ Len(l) >= 1 /\ levels[k + 1] = Parents(l) /\ i \in 0 .. Len(l) - 1
    BY <1>2, <2>1 DEF Inv, Built
  <2>3. idx[k + 1] = i \div 2 /\ path[k] = Sibling(l, i)
    BY DEF Inv, Walked
  <2>4. g[k] = Combine(Sibling(l, i), g[k - 1])
    BY <1>4, <2>3
  <2>5. node(k) = Parents(l)[i \div 2 + 1]
    BY <2>2, <2>3
  <2>6. node(k - 1) = l[i + 1]
    BY <2>1
  <2> HIDE DEF l, i, node, n
  <2>7. Combine(Sibling(l, i), g[k - 1]) = Parents(l)[i \div 2 + 1] <=> g[k - 1] = l[i + 1]
    BY <2>2, ParentHash
  <2> QED  BY <1>5, <2>4, <2>5, <2>6, <2>7
<1>6. h = node(0)
  <2> HIDE DEF node, n
  <2> DEFINE at == {k \in 0 .. n : g[k] = node(k)}
  <2>1. n \in at
    BY <1>1, <1>3, <1>4
  <2>2. PICK k \in at : \A m \in at : k <= m
    <3>1. at \in SUBSET Nat
      BY <1>1
    <3> HIDE DEF at
    <3> QED  BY <2>1, <3>1, LeastExists
  <2>3. CASE k = 0
    BY <1>4, <2>3
  <2>4. CASE k # 0
    <3>1. k \in 1 .. n /\ g[k] = node(k) /\ k - 1 \in 0 .. n /\ ~(k <= k - 1)
      BY <1>1, <2>2, <2>4
    <3>2. k - 1 \in at
      BY <1>5, <3>1
    <3> QED  BY <2>2, <3>1, <3>2
  <2> QED  BY <2>3, <2>4
<1>7. txHash = levels[1][idx[1] + 1]
  BY DEF Inv, Climb
<1> QED  BY <1>6, <1>7

LEMMA InvFits == Inv => ProofFitsOneLeaf
<1> SUFFICES ASSUME Inv, pc = "done"
             PROVE  current.hash = Root /\ \A h \in Leaf : Climbed(path, h) = Root => h = txHash
  BY DEF ProofFitsOneLeaf, Valid
<1> DEFINE n == Len(levels)
<1>1. n \in Nat \ {0}
  BY SeqFacts DEF Inv, Built, IsSeq
<1>2. current.steps + 1 = n /\ Len(idx) = n /\ Len(levels[n]) = 1
  <2>1. current.steps = Len(path)
    BY DEF Inv, Climb
  <2>2. Len(idx) = n /\ Len(path) = Len(idx) - 1 /\ Len(Last(levels)) = 1
    BY DEF Inv, Walked
  <2>3. Len(levels[n]) = 1
    BY <2>2 DEF Last
  <2> HIDE DEF n
  <2> QED  BY <1>1, <2>1, <2>2, <2>3
<1>3. idx[n] = 0
  <2>1. n \in 1 .. Len(idx)
    BY <1>1, <1>2
  <2>2. idx[n] \in 0 .. Len(levels[n]) - 1
    BY <2>1 DEF Inv, Walked
  <2> HIDE DEF n
  <2> QED  BY <2>2, <1>2
<1>4. levels[n][idx[n] + 1] = Root
  BY <1>3 DEF Root, Last
<1>5. current.hash = Root
  BY <1>2, <1>4 DEF Inv, Climb
<1> QED  BY <1>5, OneLeafClimbs

\* VerifyMerkleProof accepts a proof of GenerateProof, for every block and every
\* index, and the path and the root in it together with no other leaf: the
\* answer of getmerkleproof is about one leaf hash, the one it carries.
THEOREM ProofsFitOneLeaf == Spec => []ProofFitsOneLeaf
<1> QED  BY Invariant, InvFits, PTL

-----------------------------------------------------------------------------
(***************************************************************************)
(* The root and the transactions                                           *)
(***************************************************************************)

\* A tree as the constructor builds it, for any list of hashes: above every
\* level that has more than one entry are the parents.
Tower(t) ==
  /\ IsSeq(t) /\ t # <<>>
  /\ \A k \in 1 .. Len(t) : IsSeq(t[k]) /\ Len(t[k]) >= 1
  /\ \A k \in 1 .. Len(t) - 1 : t[k + 1] = Parents(t[k]) /\ Len(t[k]) > 1

TreeOf(s, t) == Tower(t) /\ t[1] = Padded(s) /\ Len(Last(t)) = 1

\* Lists with the same entries are the same.
LEMMA SameEntries ==
  ASSUME NEW l, IsSeq(l), NEW m, IsSeq(m), Len(l) = Len(m), \A i \in 1 .. Len(l) : l[i] = m[i]
  PROVE  l = m
<1>1. l \in [1 .. Len(l) -> Elements(l)] /\ m \in [1 .. Len(m) -> Elements(m)]
  BY LenProperties DEF IsSeq
<1>2. l = [i \in 1 .. Len(l) |-> l[i]] /\ m = [i \in 1 .. Len(m) |-> m[i]]  BY <1>1
<1>3. QED  BY <1>2

\* Two levels of one length with the same parents are the same.
LEMMA ParentsBind ==
  ASSUME NEW l, IsSeq(l), NEW m, IsSeq(m), Len(l) = Len(m), Len(l) >= 1, Parents(l) = Parents(m)
  PROVE  l = m
<1>1. Len(l) \in Nat  BY SeqFacts
<1>2. ASSUME NEW i \in 1 .. Len(l) PROVE l[i] = m[i]
  <2> DEFINE p == (i + 1) \div 2
  <2>1. p \in 1 .. (Len(l) + 1) \div 2 /\ (i = 2 * p - 1 \/ i = 2 * p)  BY <1>1
  <2> HIDE DEF p
  <2>2. /\ Parents(l)[p] = Hash(Padded(l)[2 * p - 1], Padded(l)[2 * p])
        /\ Parents(m)[p] = Hash(Padded(m)[2 * p - 1], Padded(m)[2 * p])
    BY <2>1, ParentsFacts
  <2>3. Padded(l)[2 * p - 1] = Padded(m)[2 * p - 1] /\ Padded(l)[2 * p] = Padded(m)[2 * p]
    BY <2>2 DEF Hash
  <2>4. Padded(l)[i] = l[i] /\ Padded(m)[i] = m[i]  BY PaddedFacts
  <2>5. QED  BY <2>1, <2>3, <2>4
<1>3. QED  BY <1>2, SameEntries

\* The lengths of the levels are fixed by that of the lowest one.
LEMMA SameShape ==
  ASSUME NEW t, Tower(t), NEW u, Tower(u), Len(t[1]) = Len(u[1]),
         NEW k \in Nat, k >= 1, k <= Len(t), k <= Len(u)
  PROVE  Len(t[k]) = Len(u[k])
<1>1. Len(t) \in Nat /\ Len(u) \in Nat  BY SeqFacts DEF Tower
<1> DEFINE bad == {i \in Nat : i >= 1 /\ i <= Len(t) /\ i <= Len(u) /\ Len(t[i]) # Len(u[i])}
<1>2. CASE bad = {}  BY <1>2
<1>3. CASE bad # {}
  <2>1. PICK i \in bad : \A j \in bad : i <= j  BY <1>3, LeastExists
  <2>2. i \in Nat /\ i >= 1 /\ i <= Len(t) /\ i <= Len(u) /\ Len(t[i]) # Len(u[i])  BY <2>1
  <2>3. i # 1  BY <2>2
  <2> DEFINE j == i - 1
  <2>4. /\ j \in Nat /\ j >= 1 /\ j <= Len(t) /\ j <= Len(u) /\ ~(i <= j) /\ i = j + 1
        /\ j \in 1 .. Len(t) /\ j \in 1 .. Len(u)
        /\ j \in 1 .. Len(t) - 1 /\ j \in 1 .. Len(u) - 1
    BY <1>1, <2>2, <2>3
  <2> HIDE DEF j
  <2>5. Len(t[j]) = Len(u[j])  BY <2>1, <2>4
  <2>6. /\ IsSeq(t[j]) /\ Len(t[j]) >= 1 /\ t[j + 1] = Parents(t[j])
        /\ IsSeq(u[j]) /\ Len(u[j]) >= 1 /\ u[j + 1] = Parents(u[j])
    BY <2>4 DEF Tower
  <2>7. Len(Parents(t[j])) = (Len(t[j]) + 1) \div 2 /\ Len(Parents(u[j])) = (Len(u[j]) + 1) \div 2
    BY <2>6, ParentsFacts
  <2>8. Len(t[i]) = Len(u[i])  BY <2>4, <2>5, <2>6, <2>7
  <2>9. QED  BY <2>2, <2>8
<1>4. QED  BY <1>2, <1>3

\* So is their number.
LEMMA SameHeight ==
  ASSUME NEW t, Tower(t), NEW u, Tower(u), Len(t[1]) = Len(u[1]),
         Len(Last(t)) = 1, Len(Last(u)) = 1
  PROVE  Len(t) = Len(u)
<1>1. Len(t) \in Nat \ {0} /\ Len(u) \in Nat \ {0}
  <2>1. Len(t) \in Nat /\ Len(u) \in Nat  BY SeqFacts DEF Tower
  <2>2. Len(t) # 0 /\ Len(u) # 0  BY DEF Tower, IsSeq
  <2>3. QED  BY <2>1, <2>2
<1>2. Len(t[Len(t)]) = 1 /\ Len(u[Len(u)]) = 1  BY DEF Last
<1>3. ASSUME Len(t) < Len(u) PROVE FALSE
  <2>1. Len(t[Len(t)]) = Len(u[Len(t)])  BY <1>1, <1>3, SameShape
  <2>2. Len(t) \in 1 .. Len(u) - 1  BY <1>1, <1>3
  <2>3. Len(u[Len(t)]) > 1  BY <2>2 DEF Tower
  <2>4. Len(u[Len(t)]) = 1  BY <1>2, <2>1
  <2>5. QED  BY <2>3, <2>4
<1>4. ASSUME Len(u) < Len(t) PROVE FALSE
  <2>1. Len(t[Len(u)]) = Len(u[Len(u)])  BY <1>1, <1>4, SameShape
  <2>2. Len(u) \in 1 .. Len(t) - 1  BY <1>1, <1>4
  <2>3. Len(t[Len(u)]) > 1  BY <2>2 DEF Tower
  <2>4. Len(t[Len(u)]) = 1  BY <1>2, <2>1
  <2>5. QED  BY <2>3, <2>4
<1>5. QED  BY <1>1, <1>3, <1>4

\* Two lists of one length with one root are the same list, whatever levels of
\* their trees are odd and filled up.
LEMMA OneRootOneList ==
  ASSUME NEW s, IsSeq(s), NEW r, IsSeq(r), Len(s) = Len(r), Len(s) >= 1,
         NEW t, TreeOf(s, t), NEW u, TreeOf(r, u), Last(t)[1] = Last(u)[1]
  PROVE  s = r
<1>1. /\ Tower(t) /\ t[1] = Padded(s) /\ Len(Last(t)) = 1
      /\ Tower(u) /\ u[1] = Padded(r) /\ Len(Last(u)) = 1
  BY DEF TreeOf
<1>2. Len(t[1]) = Len(u[1])
  <2>1. /\ Len(Padded(s)) = 2 * ((Len(s) + 1) \div 2)
        /\ Len(Padded(r)) = 2 * ((Len(r) + 1) \div 2)
    BY PaddedFacts
  <2>2. QED  BY <1>1, <2>1
<1> DEFINE n == Len(t)
<1>3. Len(u) = n  BY <1>1, <1>2, SameHeight
<1>4. n \in Nat /\ n # 0  BY <1>1, SeqFacts DEF Tower, IsSeq
<1> HIDE DEF n
<1>5. \A k \in 1 .. n : /\ IsSeq(t[k]) /\ Len(t[k]) >= 1 /\ IsSeq(u[k]) /\ Len(t[k]) = Len(u[k])
  <2>1. ASSUME NEW k \in 1 .. n
        PROVE  IsSeq(t[k]) /\ Len(t[k]) >= 1 /\ IsSeq(u[k]) /\ Len(t[k]) = Len(u[k])
    <3>1. k \in Nat /\ k >= 1 /\ k <= Len(t) /\ k <= Len(u)  BY <1>3, <1>4 DEF n
    <3>2. Len(t[k]) = Len(u[k])  BY <1>1, <1>2, <3>1, SameShape
    <3>3. QED  BY <1>1, <1>3, <3>2 DEF Tower, n
  <2>2. QED  BY <2>1
<1>6. \A k \in 1 .. n - 1 : t[k + 1] = Parents(t[k]) /\ u[k + 1] = Parents(u[k])
  BY <1>1, <1>3 DEF Tower, n
<1> DEFINE bad == {i \in 0 .. n - 1 : t[n - i] # u[n - i]}
<1>7. CASE bad = {}
  <2>1. n - 1 \in 0 .. n - 1 /\ n - (n - 1) = 1  BY <1>4
  <2>2. Padded(s) = Padded(r)  BY <1>1, <1>7, <2>1
  <2>3. \A i \in 1 .. Len(s) : s[i] = r[i]  BY <2>2, PaddedFacts
  <2>4. QED  BY <2>3, SameEntries
<1>8. CASE bad # {}
  <2>1. bad \in SUBSET Nat  BY <1>4
  <2>2. PICK i \in bad : \A j \in bad : i <= j  BY <1>8, <2>1, LeastExists
  <2>3. i \in 0 .. n - 1 /\ t[n - i] # u[n - i]  BY <2>2
  <2>4. i # 0
    <3>1. ASSUME i = 0 PROVE FALSE
      <4>1. t[n] # u[n]  BY <1>4, <2>3, <3>1
      <4>2. Len(t[n]) = 1 /\ Len(u[n]) = 1 /\ t[n][1] = u[n][1]  BY <1>1, <1>3 DEF Last, n
      <4>3. n \in 1 .. n  BY <1>4
      <4>4. t[n] = u[n]
        <5>1. IsSeq(t[n]) /\ IsSeq(u[n])  BY <1>5, <4>3
        <5>2. \A j \in 1 .. Len(t[n]) : t[n][j] = u[n][j]  BY <4>2
        <5>3. QED  BY <4>2, <5>1, <5>2, SameEntries
      <4>5. QED  BY <4>1, <4>4
    <3>2. QED  BY <3>1
  <2> DEFINE k == n - i
  <2>5. /\ k \in 1 .. n /\ k \in 1 .. n - 1 /\ i - 1 \in 0 .. n - 1 /\ ~(i <= i - 1)
        /\ n - (i - 1) = k + 1
    BY <1>4, <2>3, <2>4
  <2>6. t[k + 1] = u[k + 1]  BY <2>2, <2>5
  <2>7. t[k] # u[k]  BY <2>3
  <2> HIDE DEF k
  <2>8. Parents(t[k]) = Parents(u[k])  BY <1>6, <2>5, <2>6
  <2>9. t[k] = u[k]  BY <1>5, <2>5, <2>8, ParentsBind
  <2>10. QED  BY <2>7, <2>9
<1>9. QED  BY <1>7, <1>8

\* The tree that the constructor has built so far.
Growing == IsSeq(txs) /\ Len(txs) >= 1 /\ Tower(levels) /\ levels[1] = Padded(txs)

LEMMA InitGrowing == Init => Growing
<1> SUFFICES ASSUME Init PROVE Growing  OBVIOUS
<1>1. PICK n \in 1 .. MaxTxs : txs \in [1 .. n -> Leaf]  BY DEF Init
<1>2. n \in Nat /\ txs = [i \in 1 .. n |-> txs[i]] /\ n >= 1  BY <1>1, MerkleAssumption
<1>3. IsSeq(txs) /\ Len(txs) >= 1  BY <1>2, FunctionIsSeq
<1>4. Inv /\ levels = <<Padded(txs)>>  BY InitInv DEF Init
<1>5. Len(levels) = 1 /\ levels[1] = Padded(txs)  BY <1>4
<1>6. \A k \in 1 .. Len(levels) - 1 : FALSE  BY <1>5
<1>7. Tower(levels)  BY <1>4, <1>6 DEF Inv, Built, Tower
<1>8. QED  BY <1>3, <1>5, <1>7 DEF Growing

LEMMA NextGrowing == Inv /\ Growing /\ [Next]_vars => Growing'
<1> SUFFICES ASSUME Inv, Growing, [Next]_vars PROVE Growing'  OBVIOUS
<1>1. CASE BuildLevel
  <2> DEFINE n == Len(levels)
             l == Parents(levels[n])
  <2>1. txs' = txs /\ levels' = Append(levels, l) /\ Len(levels[n]) > 1
    BY <1>1 DEF BuildLevel, Last
  <2>2. n \in Nat /\ n # 0 /\ IsSeq(levels)  BY SeqFacts DEF Growing, Tower, IsSeq
  <2> HIDE DEF n, l
  <2>3. /\ IsSeq(levels') /\ Len(levels') = n + 1
        /\ \A k \in 1 .. n : levels'[k] = levels[k]
        /\ levels'[n + 1] = l
    BY <2>1, <2>2, AppendIsSeq DEF n
  <2>4. Inv'  BY NextInv
  <2>5. ASSUME NEW k \in 1 .. n PROVE Len(levels'[k]) > 1
    <3>1. CASE k = n  BY <2>1, <2>3, <3>1
    <3>2. CASE k # n
      <4>1. k \in 1 .. n - 1  BY <2>2, <3>2
      <4>2. Len(levels[k]) > 1  BY <4>1 DEF Growing, Tower, n
      <4>3. QED  BY <2>3, <4>2
    <3>3. QED  BY <3>1, <3>2
  <2>6. \A k \in 1 .. Len(levels') - 1 : levels'[k + 1] = Parents(levels'[k]) /\ Len(levels'[k]) > 1
    <3>1. Len(levels') - 1 = n  BY <2>2, <2>3
    <3>2. QED  BY <2>4, <2>5, <3>1 DEF Inv, Built
  <2>7. Tower(levels')  BY <2>4, <2>6 DEF Inv, Built, Tower
  <2>8. levels'[1] = levels[1]  BY <2>2, <2>3
  <2>9. QED  BY <2>1, <2>7, <2>8 DEF Growing
<1>2. CASE txs' = txs /\ levels' = levels  BY <1>2 DEF Growing
<1>3. QED
  BY <1>1, <1>2 DEF Next, GetMerkleProof, GenerateProof, WalkUp, ReceiveProof, VerifyStep,
                      FinishVerify, vars

\* A root and a number of transactions leave one list of transactions.
RootFixesTxs ==
  Len(Last(levels)) = 1 =>
    \A other, tree : /\ IsSeq(other) /\ Len(other) = Len(txs)
                     /\ TreeOf(other, tree) /\ Last(tree)[1] = Root
                     => other = txs

\* The root that a block's header holds is that of one list of transactions of
\* its length, for any transactions and any length: a body that is exchanged
\* does not keep the hash that the proof of work is about.
THEOREM RootsCommit == Spec => []RootFixesTxs
<1>1. Growing => RootFixesTxs
  <2>1. SUFFICES ASSUME Growing, Len(Last(levels)) = 1,
                        NEW other, IsSeq(other), Len(other) = Len(txs),
                        NEW tree, TreeOf(other, tree), Last(tree)[1] = Root
                 PROVE  other = txs
    BY DEF RootFixesTxs
  <2>2. IsSeq(txs) /\ Len(txs) >= 1 /\ TreeOf(txs, levels)  BY <2>1 DEF Growing, TreeOf
  <2>3. Last(tree)[1] = Last(levels)[1] /\ Len(other) >= 1  BY <2>1, <2>2 DEF Root
  <2>4. QED  BY <2>1, <2>2, <2>3, OneRootOneList
<1>2. Init => Growing  BY InitGrowing
<1>3. Inv /\ Growing /\ [Next]_vars => Growing'  BY NextGrowing
<1>4. QED  BY <1>1, <1>2, <1>3, Invariant, PTL DEF Spec

\* The sides of the siblings are the binary digits of the index, the lowest first.
SidesAreDigits ==
  pc = "done" =>
    /\ Len(path) = Len(idx) - 1 /\ idx[Len(idx)] = 0
    /\ \A k \in 1 .. Len(path) :
         idx[k] = 2 * idx[k + 1] + (IF path[k].isLeft THEN 1 ELSE 0)

LEMMA DigitsFollow == Inv => SidesAreDigits
<1>1. SUFFICES ASSUME Inv, pc = "done"
               PROVE  /\ Len(path) = Len(idx) - 1 /\ idx[Len(idx)] = 0
                      /\ \A k \in 1 .. Len(path) :
                           idx[k] = 2 * idx[k + 1] + (IF path[k].isLeft THEN 1 ELSE 0)
  BY DEF SidesAreDigits
<1> DEFINE n == Len(idx)
<1>2. n \in Nat /\ n >= 1 /\ Len(levels) = n /\ Len(path) = n - 1 /\ Len(Last(levels)) = 1
  BY <1>1, SeqFacts DEF Inv, Built, Walked
<1>3. \A k \in 1 .. n : idx[k] \in Nat /\ idx[k] \in 0 .. Len(levels[k]) - 1
  <2>1. \A k \in 1 .. n : idx[k] \in 0 .. Len(levels[k]) - 1  BY <1>1 DEF Inv, Walked
  <2>2. idx \in Seq(Nat)  BY <1>1 DEF Inv, Walked
  <2>3. QED  BY <2>1, <2>2, ElementOfSeq
<1>4. idx[n] = 0
  <2>1. Len(levels[n]) = 1 /\ n \in 1 .. n  BY <1>2 DEF Last
  <2> HIDE DEF n
  <2>2. idx[n] \in 0 .. 1 - 1  BY <1>3, <2>1
  <2>3. QED  BY <2>2
<1>5. ASSUME NEW k \in 1 .. Len(path)
      PROVE  idx[k] = 2 * idx[k + 1] + (IF path[k].isLeft THEN 1 ELSE 0)
  <2>1. idx[k + 1] = idx[k] \div 2 /\ path[k] = Sibling(levels[k], idx[k])
    BY <1>1 DEF Inv, Walked
  <2>2. path[k].isLeft = (idx[k] % 2 = 1)  BY <2>1 DEF Sibling
  <2>3. k \in 1 .. n  BY <1>2
  <2> DEFINE i == idx[k]
  <2>4. i \in Nat  BY <1>3, <2>3
  <2> HIDE DEF i
  <2>5. i = 2 * (i \div 2) + (IF i % 2 = 1 THEN 1 ELSE 0)  BY <2>4
  <2>6. QED  BY <2>1, <2>2, <2>5 DEF i
<1>6. QED  BY <1>2, <1>4, <1>5

\* The sides in a proof tell the index it was made for, for any length of a block
\* and any index, also where a node is its own sibling: each step
\* doubles the index of the parent and adds the side.
THEOREM SidesTellIndex == Spec => []SidesAreDigits
BY DigitsFollow, Invariant, PTL

-----------------------------------------------------------------------------
(***************************************************************************)
(* The definition of the root from the top down                            *)
(***************************************************************************)

\* The subtrees up to height m.
Stage(s, g, m) ==
  g = [h \in 0 .. m |-> IF h = 0 THEN [span |-> 1, hash |-> s] ELSE Doubled(s, g[h - 1])]

\* There are such subtrees: by the least height for which there are none.
LEMMA StageExists ==
  ASSUME NEW s, NEW m \in Nat
  PROVE  \E g : Stage(s, g, m)
<1> DEFINE bad == {k \in Nat : \A g : ~Stage(s, g, k)}
<1>1. CASE bad = {}  BY <1>1
<1>2. CASE bad # {}
  <2>1. PICK n \in bad : \A k \in bad : n <= k
    <3>1. bad \in SUBSET Nat  OBVIOUS
    <3> HIDE DEF bad
    <3>2. QED  BY <1>2, <3>1, LeastExists
  <2>2. n \in Nat /\ \A g : ~Stage(s, g, n)  BY <2>1
  <2>3. n # 0
    <3>1. SUFFICES ASSUME n = 0 PROVE FALSE  OBVIOUS
    <3> DEFINE g == [h \in 0 .. n |-> [span |-> 1, hash |-> s]]
    <3>2. \A h \in 0 .. n : h = 0  BY <3>1
    <3>3. g = [h \in 0 .. n |-> IF h = 0 THEN [span |-> 1, hash |-> s] ELSE Doubled(s, g[h - 1])]
      BY <3>2, Zenon
    <3>4. QED  BY <2>2, <3>3, Zenon DEF Stage
  <2>4. n - 1 \in Nat /\ ~(n <= n - 1)  BY <2>2, <2>3
  <2>5. n - 1 \notin bad  BY <2>1, <2>4
  <2>6. PICK g : Stage(s, g, n - 1)  BY <2>4, <2>5
  <2> DEFINE f == [h \in 0 .. n |-> IF h = 0 THEN [span |-> 1, hash |-> s] ELSE Doubled(s, g[h - 1])]
  <2>7. ASSUME NEW h \in 0 .. n, h # 0 PROVE f[h - 1] = g[h - 1]
    <3>1. h - 1 \in 0 .. n /\ h - 1 \in 0 .. n - 1  BY <2>2, <2>7
    <3>2. f[h - 1] = IF h - 1 = 0 THEN [span |-> 1, hash |-> s] ELSE Doubled(s, g[h - 1 - 1])
      BY <3>1, Zenon
    <3>3. g[h - 1] = IF h - 1 = 0 THEN [span |-> 1, hash |-> s] ELSE Doubled(s, g[h - 1 - 1])
      BY <2>6, <3>1, Zenon DEF Stage
    <3>4. QED  BY <3>2, <3>3, Zenon
  <2>8. f = [h \in 0 .. n |-> IF h = 0 THEN [span |-> 1, hash |-> s] ELSE Doubled(s, f[h - 1])]
    <3> DEFINE k == [h \in 0 .. n |-> IF h = 0 THEN [span |-> 1, hash |-> s] ELSE Doubled(s, f[h - 1])]
    <3>1. ASSUME NEW h \in 0 .. n PROVE f[h] = k[h]
      <4>1. CASE h = 0  BY <4>1, Zenon
      <4>2. CASE h # 0
        <5>1. f[h - 1] = g[h - 1]  BY <2>7, <4>2
        <5>2. f[h] = Doubled(s, g[h - 1])  BY <4>2, Zenon
        <5>3. k[h] = Doubled(s, f[h - 1])  BY <4>2, Zenon
        <5>4. QED  BY <5>1, <5>2, <5>3, Zenon
      <4>3. QED  BY <4>1, <4>2
    <3>2. f = k  BY <3>1, Zenon
    <3>3. QED  BY <3>2, Zenon
  <2>9. QED  BY <2>2, <2>8, Zenon DEF Stage
<1>3. QED  BY <1>1, <1>2

\* The recursion of Subtrees is well defined.
LEMMA SubtreesUnfold ==
  ASSUME NEW s, Len(s) \in Nat
  PROVE  /\ Subtrees(s)[0] = [span |-> 1, hash |-> s]
         /\ \A h \in 1 .. Len(s) : Subtrees(s)[h] = Doubled(s, Subtrees(s)[h - 1])
<1>1. PICK g : Stage(s, g, Len(s))  BY StageExists
<1>2. Subtrees(s) = CHOOSE f : Stage(s, f, Len(s))  BY Zenon DEF Subtrees, Stage
<1>3. Stage(s, Subtrees(s), Len(s))  BY <1>1, <1>2, Zenon
<1> DEFINE a == Subtrees(s)
<1>4. a = [h \in 0 .. Len(s) |-> IF h = 0 THEN [span |-> 1, hash |-> s] ELSE Doubled(s, a[h - 1])]
  BY <1>3, Zenon DEF Stage
<1> HIDE DEF a
<1>5. \A h \in 0 .. Len(s) :
        a[h] = IF h = 0 THEN [span |-> 1, hash |-> s] ELSE Doubled(s, a[h - 1])
  BY <1>4, Zenon
<1>6. 0 \in 0 .. Len(s) /\ \A h \in 1 .. Len(s) : h \in 0 .. Len(s) /\ h # 0  OBVIOUS
<1>7. a[0] = [span |-> 1, hash |-> s]  BY <1>5, <1>6, Zenon
<1>8. \A h \in 1 .. Len(s) : a[h] = Doubled(s, a[h - 1])  BY <1>5, <1>6, Zenon
<1>9. QED  BY <1>7, <1>8 DEF a

Span(s, h) == Subtrees(s)[h].span
HashAt(s, h) == Subtrees(s)[h].hash

\* A height has twice the room of the one below, and its hashes are made of
\* those below.
LEMMA Heights ==
  ASSUME NEW s, Len(s) \in Nat
  PROVE  /\ Span(s, 0) = 1 /\ HashAt(s, 0) = s
         /\ \A h \in 1 .. Len(s) :
              /\ Span(s, h) = 2 * Span(s, h - 1)
              /\ \A i \in 1 .. Len(s) :
                   HashAt(s, h)[i] =
                     Hash(HashAt(s, h - 1)[i],
                          HashAt(s, h - 1)[IF i + Span(s, h - 1) <= Len(s)
                                           THEN i + Span(s, h - 1) ELSE i])
<1>1. Span(s, 0) = 1 /\ HashAt(s, 0) = s
  <2>1. Subtrees(s)[0] = [span |-> 1, hash |-> s]  BY SubtreesUnfold
  <2>2. QED  BY <2>1 DEF Span, HashAt
<1>2. ASSUME NEW h \in 1 .. Len(s)
      PROVE  /\ Span(s, h) = 2 * Span(s, h - 1)
             /\ \A i \in 1 .. Len(s) :
                  HashAt(s, h)[i] =
                    Hash(HashAt(s, h - 1)[i],
                         HashAt(s, h - 1)[IF i + Span(s, h - 1) <= Len(s)
                                          THEN i + Span(s, h - 1) ELSE i])
  <2>1. Subtrees(s)[h] = Doubled(s, Subtrees(s)[h - 1])  BY SubtreesUnfold
  <2> DEFINE half == Subtrees(s)[h - 1]
             row == [i \in 1 .. Len(s) |->
                       Hash(half.hash[i],
                            half.hash[IF i + half.span <= Len(s) THEN i + half.span ELSE i])]
  <2>2. Subtrees(s)[h] = [span |-> 2 * half.span, hash |-> row]  BY <2>1 DEF Doubled
  <2>3. Span(s, h) = 2 * half.span /\ HashAt(s, h) = row
    <3> HIDE DEF row, half
    <3>1. QED  BY <2>2 DEF Span, HashAt
  <2>4. \A i \in 1 .. Len(s) :
          row[i] = Hash(half.hash[i],
                        half.hash[IF i + half.span <= Len(s) THEN i + half.span ELSE i])
    <3> HIDE DEF half
    <3>1. QED  BY Zenon
  <2>5. QED  BY <2>3, <2>4, Zenon DEF Span, HashAt
<1>3. QED  BY <1>1, <1>2

\* The room grows by one at least from height to height, and depends on the
\* number of leaves only.
LEMMA Spans ==
  ASSUME NEW s, Len(s) \in Nat, NEW h \in 0 .. Len(s)
  PROVE  /\ Span(s, h) \in Nat /\ Span(s, h) >= h + 1
         /\ \A r : Len(r) = Len(s) => Span(r, h) = Span(s, h)
<1> DEFINE Good(k) == /\ Span(s, k) \in Nat /\ Span(s, k) >= k + 1
                      /\ \A r : Len(r) = Len(s) => Span(r, k) = Span(s, k)
           bad == {k \in 0 .. Len(s) : ~Good(k)}
<1>1. CASE bad = {}
  <2>1. h \notin bad  BY <1>1
  <2> HIDE DEF Good
  <2>2. Good(h)  BY <2>1
  <2>3. QED  BY <2>2 DEF Good
<1>2. CASE bad # {}
  <2>1. PICK k \in bad : \A j \in bad : k <= j
    <3>1. bad \in SUBSET Nat  OBVIOUS
    <3> HIDE DEF bad
    <3>2. QED  BY <1>2, <3>1, LeastExists
  <2> HIDE DEF Good
  <2>2. k \in 0 .. Len(s) /\ ~Good(k)  BY <2>1
  <2>3. k # 0
    <3>1. Good(0)  BY Heights DEF Good
    <3>2. QED  BY <2>2, <3>1
  <2>4. k \in 1 .. Len(s) /\ k - 1 \in 0 .. Len(s) /\ ~(k <= k - 1)  BY <2>2, <2>3
  <2>5. Good(k - 1)  BY <2>1, <2>4
  <2>6. Span(s, k) = 2 * Span(s, k - 1)  BY <2>4, Heights
  <2>7. \A r : Len(r) = Len(s) => Span(r, k) = 2 * Span(r, k - 1)  BY <2>4, Heights
  <2>8. Span(s, k) \in Nat /\ Span(s, k) >= k + 1  BY <2>4, <2>5, <2>6 DEF Good
  <2>9. \A r : Len(r) = Len(s) => Span(r, k) = Span(s, k)  BY <2>5, <2>6, <2>7 DEF Good
  <2>10. QED  BY <2>2, <2>8, <2>9 DEF Good
<1>3. QED  BY <1>1, <1>2

\* A level and the level filled up have the same parents.
LEMMA PaddedOnce ==
  ASSUME NEW s, IsSeq(s), Len(s) >= 1
  PROVE  Parents(Padded(s)) = Parents(s)
<1>1. Len(s) \in Nat /\ Len(Padded(s)) = 2 * ((Len(s) + 1) \div 2)  BY SeqFacts, PaddedFacts
<1>2. Len(Padded(s)) % 2 = 0  BY <1>1
<1>3. Padded(Padded(s)) = Padded(s)  BY <1>2, Zenon DEF Padded
<1>4. QED  BY <1>3, Zenon DEF Parents

\* The levels of a tree, the lowest one without its padding.
Level(s, t, k) == IF k = 1 THEN s ELSE t[k]

LEMMA LevelFacts ==
  ASSUME NEW s, IsSeq(s), Len(s) >= 1, NEW t, Tower(t), t[1] = Padded(s), NEW k \in 1 .. Len(t)
  PROVE  /\ Len(t) \in Nat /\ Len(s) \in Nat
         /\ IsSeq(Level(s, t, k)) /\ Len(Level(s, t, k)) \in Nat /\ Len(Level(s, t, k)) >= 1
         /\ k < Len(t) => Level(s, t, k + 1) = Parents(Level(s, t, k))
         /\ k > 1 /\ k < Len(t) => Len(Level(s, t, k)) >= 2
<1>1. Len(t) \in Nat /\ Len(s) \in Nat  BY SeqFacts DEF Tower
<1>2. IsSeq(Level(s, t, k)) /\ Len(Level(s, t, k)) >= 1  BY DEF Level, Tower
<1>3. Len(Level(s, t, k)) \in Nat  BY <1>2, SeqFacts
<1>4. ASSUME k < Len(t)
      PROVE  /\ Level(s, t, k + 1) = Parents(Level(s, t, k))
             /\ k > 1 => Len(Level(s, t, k)) >= 2
  <2>1. k \in 1 .. Len(t) - 1 /\ k + 1 # 1  BY <1>1, <1>4
  <2>2. t[k + 1] = Parents(t[k]) /\ Len(t[k]) > 1  BY <2>1 DEF Tower
  <2>3. k = 1 => Parents(t[k]) = Parents(s)  BY PaddedOnce
  <2>4. k > 1 => Len(Level(s, t, k)) >= 2
    <3>1. k > 1 => Level(s, t, k) = t[k]  BY DEF Level
    <3>2. QED  BY <1>3, <2>2, <3>1
  <2>5. Level(s, t, k + 1) = t[k + 1]  BY <2>1 DEF Level
  <2>6. Parents(Level(s, t, k)) = Parents(t[k])  BY <2>3 DEF Level
  <2>7. QED  BY <2>2, <2>4, <2>5, <2>6
<1>5. QED  BY <1>1, <1>2, <1>3, <1>4

\* The entries of a level are the subtrees that start at multiples of their
\* room.
Agrees(s, t, k) ==
  /\ k - 1 <= Len(s)
  /\ \A x \in Nat \ {0} :
       /\ x <= Len(Level(s, t, k)) <=> (x - 1) * Span(s, k - 1) < Len(s)
       /\ x <= Len(Level(s, t, k)) =>
            HashAt(s, k - 1)[(x - 1) * Span(s, k - 1) + 1] = Level(s, t, k)[x]

LEMMA AgreesStep ==
  ASSUME NEW s, IsSeq(s), Len(s) >= 1, NEW t, Tower(t), t[1] = Padded(s),
         NEW k \in 1 .. Len(t) - 1, Agrees(s, t, k)
  PROVE  Agrees(s, t, k + 1)
<1> DEFINE l == Level(s, t, k)
           w == Span(s, k - 1)
           n == Len(s)
<1>1. /\ k \in 1 .. Len(t) /\ Len(t) \in Nat /\ n \in Nat /\ k < Len(t)
      /\ IsSeq(l) /\ Len(l) \in Nat /\ Len(l) >= 1 /\ Level(s, t, k + 1) = Parents(l)
      /\ k > 1 => Len(l) >= 2
  <2>1. k \in 1 .. Len(t)
    <3>1. Len(t) \in Nat  BY SeqFacts DEF Tower
    <3>2. QED  BY <3>1
  <2>2. Len(t) \in Nat /\ Len(s) \in Nat  BY <2>1, LevelFacts
  <2>3. k < Len(t)  BY <2>2
  <2>4. QED  BY <2>1, <2>2, <2>3, LevelFacts
<1>2. k - 1 \in 0 .. n /\ w \in Nat /\ w >= k
  <2>1. k - 1 \in 0 .. n  BY <1>1 DEF Agrees
  <2>2. w \in Nat /\ w >= (k - 1) + 1  BY <1>1, <2>1, Spans
  <2> HIDE DEF w
  <2>3. QED  BY <1>1, <2>1, <2>2
<1>3. \A x \in Nat \ {0} : /\ x <= Len(l) <=> (x - 1) * w < n
                           /\ x <= Len(l) => HashAt(s, k - 1)[(x - 1) * w + 1] = l[x]
  BY DEF Agrees
<1>4. k <= n
  <2>1. CASE k = 1  BY <2>1
  <2>2. CASE k > 1
    <3>1. 2 <= Len(l) /\ 2 \in Nat \ {0}  BY <1>1, <2>2
    <3>2. (2 - 1) * w < n  BY <1>3, <3>1
    <3> HIDE DEF w, n
    <3>3. QED  BY <1>1, <1>2, <3>2
  <2>3. QED  BY <1>1, <2>1, <2>2
<1>5. k \in 1 .. n /\ (k + 1) - 1 = k  BY <1>1, <1>4
<1>6. /\ Span(s, k) = 2 * w
      /\ \A i \in 1 .. n :
           HashAt(s, k)[i] = Hash(HashAt(s, k - 1)[i],
                                  HashAt(s, k - 1)[IF i + w <= n THEN i + w ELSE i])
  BY <1>1, <1>5, Heights
<1> DEFINE p == Parents(l)
<1>7. Len(p) = (Len(l) + 1) \div 2  BY <1>1, ParentsFacts
<1> HIDE DEF l, w, n, p
<1>8. ASSUME NEW x \in Nat \ {0}
      PROVE  /\ x <= Len(p) <=> (x - 1) * (2 * w) < n
             /\ x <= Len(p) => HashAt(s, k)[(x - 1) * (2 * w) + 1] = p[x]
  <2> DEFINE y == 2 * x - 1
  <2>1. /\ y \in Nat \ {0} /\ y + 1 \in Nat \ {0} /\ (y + 1) - 1 = y
        /\ x <= Len(p) <=> y <= Len(l)
    BY <1>1, <1>7
  <2>2. (y - 1) * w = (x - 1) * (2 * w) /\ y * w = (y - 1) * w + w
        /\ (y - 1) * w \in Nat /\ y * w \in Nat
    <3>1. y - 1 = 2 * (x - 1) /\ x - 1 \in Nat  OBVIOUS
    <3> DEFINE z == x - 1
    <3>2. z \in Nat /\ y - 1 = 2 * z /\ y = 2 * z + 1  OBVIOUS
    <3> HIDE DEF z
    <3>3. (2 * z) * w = z * (2 * w) /\ (2 * z + 1) * w = (2 * z) * w + w /\ (2 * z) * w \in Nat
      BY <1>2, <3>2
    <3> HIDE DEF y
    <3>4. QED  BY <1>2, <3>2, <3>3 DEF z
  <2> HIDE DEF y
  <2>3. y <= Len(l) <=> (y - 1) * w < n  BY <1>3, <2>1
  <2>4. y + 1 <= Len(l) <=> y * w < n  BY <1>3, <2>1
  <2>5. ASSUME x <= Len(p)
        PROVE  HashAt(s, k)[(x - 1) * (2 * w) + 1] = p[x]
    <3> DEFINE i == (y - 1) * w + 1
    <3>1. i \in 1 .. n /\ y <= Len(l)  BY <1>1, <2>1, <2>2, <2>3, <2>5
    <3>2. i + w = y * w + 1  BY <1>2, <2>2
    <3>3. HashAt(s, k - 1)[i] = l[y]  BY <1>3, <2>1, <3>1
    <3> HIDE DEF i
    <3>4. HashAt(s, k)[i] = Hash(HashAt(s, k - 1)[i],
                                 HashAt(s, k - 1)[IF i + w <= n THEN i + w ELSE i])
      BY <1>6, <3>1
    <3>5. x \in 1 .. (Len(l) + 1) \div 2 /\ 2 * x - 1 = y /\ 2 * x = y + 1
      BY <1>1, <1>7, <2>5 DEF y
    <3>6. p[x] = Hash(Padded(l)[2 * x - 1], Padded(l)[2 * x])
      BY <1>1, <3>5, ParentsFacts DEF p
    <3>7. Padded(l)[y] = l[y]  BY <1>1, <2>1, <3>1, PaddedFacts
    <3>8. HashAt(s, k - 1)[IF i + w <= n THEN i + w ELSE i] = Padded(l)[y + 1]
      <4>1. CASE y + 1 <= Len(l)
        <5>1. i + w <= n  BY <1>1, <2>2, <2>4, <3>2, <4>1
        <5>2. HashAt(s, k - 1)[y * w + 1] = l[y + 1]  BY <1>3, <2>1, <4>1
        <5>3. Padded(l)[y + 1] = l[y + 1]  BY <1>1, <2>1, <4>1, PaddedFacts
        <5>4. QED  BY <3>2, <5>1, <5>2, <5>3
      <4>2. CASE ~(y + 1 <= Len(l))
        <5>1. ~(i + w <= n)  BY <1>1, <2>2, <2>4, <3>2, <4>2
        <5>2. Len(l) = y  BY <1>1, <2>1, <3>1, <4>2
        <5>3. Len(l) % 2 = 1  BY <1>1, <3>5, <5>2
        <5>4. Padded(l)[y + 1] = l[y]  BY <1>1, <5>2, <5>3, PaddedFacts
        <5>5. QED  BY <3>3, <5>1, <5>4
      <4>3. QED  BY <4>1, <4>2
    <3>9. HashAt(s, k)[i] = p[x]  BY <3>3, <3>4, <3>5, <3>6, <3>7, <3>8
    <3>10. QED  BY <2>2, <3>9 DEF i
  <2>6. x <= Len(p) <=> (x - 1) * (2 * w) < n  BY <2>1, <2>2, <2>3
  <2>7. QED  BY <2>5, <2>6
<1>9. Level(s, t, k + 1) = p  BY <1>1 DEF p
<1>10. QED  BY <1>4, <1>5, <1>6, <1>8, <1>9 DEF Agrees, n

LEMMA AlwaysAgrees ==
  ASSUME NEW s, IsSeq(s), Len(s) >= 1, NEW t, Tower(t), t[1] = Padded(s), NEW k \in 1 .. Len(t)
  PROVE  Agrees(s, t, k)
<1> DEFINE bad == {i \in 1 .. Len(t) : ~Agrees(s, t, i)}
<1>1. CASE bad = {}  BY <1>1
<1>2. CASE bad # {}
  <2>1. PICK i \in bad : \A j \in bad : i <= j
    <3>1. bad \in SUBSET Nat  OBVIOUS
    <3> HIDE DEF bad
    <3>2. QED  BY <1>2, <3>1, LeastExists
  <2>2. i \in 1 .. Len(t) /\ ~Agrees(s, t, i)  BY <2>1
  <2>3. Len(t) \in Nat /\ Len(s) \in Nat  BY LevelFacts
  <2>4. i # 1
    <3>1. Span(s, 0) = 1 /\ HashAt(s, 0) = s /\ Level(s, t, 1) = s  BY <2>3, Heights DEF Level
    <3>2. Agrees(s, t, 1)
      <4>1. \A x \in Nat \ {0} : /\ x <= Len(s) <=> (x - 1) * 1 < Len(s)
                                 /\ (x - 1) * 1 + 1 = x
        BY <2>3
      <4>2. 1 - 1 = 0 /\ 0 <= Len(s)  BY <2>3
      <4>3. QED  BY <3>1, <4>1, <4>2 DEF Agrees
    <3>3. QED  BY <2>2, <3>2
  <2>5. i - 1 \in 1 .. Len(t) - 1 /\ i - 1 \in 1 .. Len(t) /\ (i - 1) + 1 = i /\ ~(i <= i - 1)
    BY <2>2, <2>3, <2>4
  <2>6. Agrees(s, t, i - 1)  BY <2>1, <2>5
  <2> DEFINE j == i - 1
  <2>7. j \in 1 .. Len(t) - 1 /\ Agrees(s, t, j) /\ j + 1 = i  BY <2>5, <2>6
  <2> HIDE DEF j
  <2>8. Agrees(s, t, j + 1)  BY <2>7, AgreesStep
  <2>9. QED  BY <2>2, <2>7, <2>8
<1>3. QED  BY <1>1, <1>2

\* A list has one height.
LEMMA OneHeight ==
  ASSUME NEW s, Len(s) \in Nat, Len(s) >= 1
  PROVE  /\ TreeHeight(s) \in 1 .. Len(s) /\ IsHeight(s, TreeHeight(s))
         /\ \A h \in 1 .. Len(s) : IsHeight(s, h) => h = TreeHeight(s)
<1> DEFINE n == Len(s)
           S == {h \in 1 .. n : Span(s, h) >= n}
<1>1. \A h \in 1 .. n : Span(s, h) \in Nat /\ Span(s, h) >= h + 1
  <2>1. \A h \in 1 .. n : h \in 0 .. n  OBVIOUS
  <2>2. QED  BY <2>1, Spans
<1>2. n \in S
  <2>1. n \in 1 .. n  OBVIOUS
  <2>2. QED  BY <1>1, <2>1
<1>3. PICK h \in S : \A g \in S : h <= g
  <2>1. S \in SUBSET Nat /\ S # {}  BY <1>2
  <2> HIDE DEF S
  <2>2. QED  BY <2>1, LeastExists
<1>4. h \in 1 .. n /\ IsHeight(s, h)
  <2>1. h \in 1 .. n /\ Span(s, h) >= n  BY <1>3
  <2>2. ASSUME NEW g \in 1 .. h - 1 PROVE Span(s, g) < n
    <3>1. g \in 1 .. n /\ ~(h <= g)  BY <2>1
    <3>2. g \notin S  BY <1>3, <3>1
    <3>3. QED  BY <1>1, <3>1, <3>2
  <2>3. QED  BY <2>1, <2>2 DEF IsHeight, Span
<1>5. TreeHeight(s) \in 1 .. n /\ IsHeight(s, TreeHeight(s))  BY <1>4, Zenon DEF TreeHeight
<1>6. ASSUME NEW a \in 1 .. n, NEW b \in 1 .. n, IsHeight(s, a), IsHeight(s, b), a < b PROVE FALSE
  <2>1. a \in 1 .. b - 1 /\ Span(s, a) >= n  BY <1>6 DEF IsHeight, Span
  <2>2. Span(s, a) < n  BY <1>6, <2>1 DEF IsHeight, Span
  <2>3. QED  BY <1>1, <2>1, <2>2
<1>7. \A a \in 1 .. n : IsHeight(s, a) => a = TreeHeight(s)
  <2>1. SUFFICES ASSUME NEW a \in 1 .. n, IsHeight(s, a) PROVE a = TreeHeight(s)  OBVIOUS
  <2>2. a < TreeHeight(s) \/ a = TreeHeight(s) \/ TreeHeight(s) < a  BY <1>5
  <2>3. QED  BY <1>5, <1>6, <2>1, <2>2
<1>8. QED  BY <1>5, <1>7

\* The loop from the leaves up computes the root that is defined from the top
\* down.
LEMMA LoopComputesRoot ==
  ASSUME NEW s, IsSeq(s), Len(s) >= 1, NEW t, TreeOf(s, t)
  PROVE  Last(t)[1] = RootOf(s)
<1> DEFINE n == Len(s)
           top == Len(t)
<1>1. Tower(t) /\ t[1] = Padded(s) /\ Len(t[top]) = 1  BY DEF TreeOf, Last
<1>2. top \in Nat /\ top # 0 /\ n \in Nat
  <2>1. Len(t) \in Nat /\ Len(s) \in Nat  BY <1>1, SeqFacts DEF Tower
  <2>2. Len(t) # 0  BY <1>1 DEF Tower, IsSeq
  <2>3. QED  BY <2>1, <2>2
<1>3. top # 1
  <2>1. Len(Padded(s)) = 2 * ((n + 1) \div 2)  BY PaddedFacts
  <2>2. Len(Padded(s)) # 1  BY <1>2, <2>1
  <2>3. QED  BY <1>1, <2>2
<1> DEFINE h == top - 1
<1>4. h \in Nat /\ h >= 1 /\ top = h + 1 /\ top \in 1 .. Len(t)  BY <1>2, <1>3
<1> HIDE DEF h
<1>5. Agrees(s, t, top)  BY <1>1, <1>4, AlwaysAgrees
<1>6. Level(s, t, top) = t[top]  BY <1>3 DEF Level
<1>7. top - 1 = h  BY <1>4
<1>8. h <= n  BY <1>5, <1>7 DEF Agrees
<1>9. \A x \in Nat \ {0} : /\ x <= 1 <=> (x - 1) * Span(s, h) < n
                           /\ x <= 1 => HashAt(s, h)[(x - 1) * Span(s, h) + 1] = t[top][x]
  BY <1>1, <1>5, <1>6, <1>7 DEF Agrees
<1>10. \A g \in 1 .. n : Span(s, g) \in Nat
  <2>1. \A g \in 1 .. n : g \in 0 .. n  BY <1>2
  <2>2. QED  BY <1>2, <2>1, Spans
<1>11. Span(s, h) \in Nat /\ h \in 1 .. n  BY <1>2, <1>4, <1>8, <1>10
<1> DEFINE w == Span(s, h)
<1>12. w >= n /\ HashAt(s, h)[1] = t[top][1]
  <2>1. ~((2 - 1) * w < n)
    <3>1. 2 \in Nat \ {0} /\ ~(2 <= 1)  OBVIOUS
    <3>2. QED  BY <1>9, <3>1
  <2>2. HashAt(s, h)[(1 - 1) * w + 1] = t[top][1]
    <3>1. 1 \in Nat \ {0} /\ 1 <= 1  OBVIOUS
    <3>2. QED  BY <1>9, <3>1
  <2>3. w \in Nat  BY <1>11
  <2> HIDE DEF w
  <2>4. (1 - 1) * w + 1 = 1 /\ (2 - 1) * w = w  BY <2>3
  <2>5. QED  BY <1>2, <2>1, <2>2, <2>3, <2>4
<1>13. ASSUME NEW g \in 1 .. h - 1 PROVE Span(s, g) < n
  <2> DEFINE k == g + 1
             v == Span(s, g)
  <2>1. k \in 1 .. Len(t) /\ k > 1 /\ k < Len(t) /\ k - 1 = g /\ g \in 1 .. n  BY <1>4, <1>8, <1>2
  <2> HIDE DEF k
  <2>2. Len(Level(s, t, k)) >= 2 /\ Agrees(s, t, k)  BY <1>1, <2>1, LevelFacts, AlwaysAgrees
  <2>3. (2 - 1) * v < n
    <3>1. 2 \in Nat \ {0} /\ 2 <= Len(Level(s, t, k))  BY <1>1, <2>1, <2>2, LevelFacts
    <3>2. QED  BY <2>1, <2>2, <3>1 DEF Agrees
  <2>4. v \in Nat  BY <1>10, <2>1
  <2> HIDE DEF v
  <2>5. v < n  BY <2>3, <2>4
  <2>6. QED  BY <2>5 DEF v
<1>14. IsHeight(s, h)  BY <1>12, <1>13 DEF IsHeight, Span
<1>15. h = TreeHeight(s)  BY <1>2, <1>11, <1>14, OneHeight
<1>16. QED  BY <1>12, <1>15 DEF RootOf, HashAt, Last

\* Lists of one length that differ have different roots.
LEMMA RootBinds ==
  ASSUME NEW s, IsSeq(s), NEW r, IsSeq(r), Len(r) = Len(s), Len(s) >= 1, RootOf(s) = RootOf(r)
  PROVE  s = r
<1> DEFINE n == Len(s)
           top == TreeHeight(s)
           Same(h) == \A x \in Nat \ {0} :
                        (x - 1) * Span(s, h) < n =>
                          HashAt(s, h)[(x - 1) * Span(s, h) + 1] = HashAt(r, h)[(x - 1) * Span(s, h) + 1]
<1>1. n \in Nat /\ n >= 1 /\ Len(r) = n  BY SeqFacts
<1>2. \A h \in 0 .. n : Span(s, h) \in Nat /\ Span(s, h) >= h + 1 /\ Span(r, h) = Span(s, h)
  BY <1>1, Spans
<1>3. top \in 1 .. n /\ IsHeight(s, top) /\ TreeHeight(r) = top
  <2>1. top \in 1 .. n /\ IsHeight(s, top)  BY <1>1, OneHeight
  <2>2. IsHeight(r, top)
    <3>1. \A g \in 1 .. n : g \in 0 .. n  BY <1>1
    <3>2. \A g \in 1 .. n : Subtrees(r)[g].span = Subtrees(s)[g].span  BY <1>2, <3>1 DEF Span
    <3>3. \A g \in 1 .. top - 1 : g \in 1 .. n  BY <1>1, <2>1
    <3> HIDE DEF top
    <3>4. QED  BY <1>1, <2>1, <3>2, <3>3 DEF IsHeight
  <2>3. \A h \in 1 .. n : IsHeight(r, h) => h = TreeHeight(r)  BY <1>1, OneHeight
  <2>4. QED  BY <2>1, <2>2, <2>3
<1>4. HashAt(s, top)[1] = HashAt(r, top)[1]  BY <1>3 DEF RootOf, HashAt
<1>5. Span(s, top) >= n  BY <1>3 DEF IsHeight, Span
<1>6. Same(top)
  <2> DEFINE w == Span(s, top)
  <2>1. w \in Nat /\ w >= n  BY <1>2, <1>3, <1>5
  <2>2. ASSUME NEW x \in Nat \ {0}, (x - 1) * w < n PROVE x = 1
    <3> HIDE DEF w
    <3>1. SUFFICES ASSUME x # 1 PROVE FALSE  OBVIOUS
    <3>2. x - 1 \in Nat /\ x - 1 >= 1  BY <3>1
    <3> DEFINE z == x - 1
    <3>3. z \in Nat /\ z >= 1 /\ z * w < n  BY <2>2, <3>2
    <3> HIDE DEF z
    <3>4. z * w = w + (z - 1) * w /\ (z - 1) * w >= 0  BY <2>1, <3>3
    <3>5. QED  BY <1>1, <2>1, <3>3, <3>4
  <2>3. (1 - 1) * w + 1 = 1  BY <2>1
  <2>4. QED  BY <1>4, <2>2, <2>3
<1>7. ASSUME NEW h \in 1 .. n, Same(h) PROVE Same(h - 1)
  <2> DEFINE w == Span(s, h - 1)
  <2>1. h - 1 \in 0 .. n /\ w \in Nat
    <3>1. h - 1 \in 0 .. n  BY <1>1
    <3>2. QED  BY <1>2, <3>1
  <2>2. Span(s, h) = 2 * w /\ Span(r, h - 1) = w  BY <1>1, <1>2, <2>1, Heights
  <2>3. \A i \in 1 .. n :
          /\ HashAt(s, h)[i] = Hash(HashAt(s, h - 1)[i],
                                    HashAt(s, h - 1)[IF i + w <= n THEN i + w ELSE i])
          /\ HashAt(r, h)[i] = Hash(HashAt(r, h - 1)[i],
                                    HashAt(r, h - 1)[IF i + w <= n THEN i + w ELSE i])
    BY <1>1, <2>2, Heights
  <2>4. \A y \in Nat \ {0} :
          (y - 1) * (2 * w) < n =>
            HashAt(s, h)[(y - 1) * (2 * w) + 1] = HashAt(r, h)[(y - 1) * (2 * w) + 1]
    BY <1>7, <2>2
  <2> HIDE DEF w, n
  <2>5. ASSUME NEW x \in Nat \ {0}, (x - 1) * w < n
        PROVE  HashAt(s, h - 1)[(x - 1) * w + 1] = HashAt(r, h - 1)[(x - 1) * w + 1]
    <3> DEFINE y == (x + 1) \div 2
               i == (y - 1) * (2 * w) + 1
    <3>1. y \in Nat \ {0} /\ (x = 2 * y - 1 \/ x = 2 * y)  OBVIOUS
    <3> HIDE DEF y
    <3>2. /\ x = 2 * y - 1 => (x - 1) * w = (y - 1) * (2 * w)
          /\ x = 2 * y => (x - 1) * w = (y - 1) * (2 * w) + w
          /\ (y - 1) * (2 * w) \in Nat
      <4> DEFINE z == y - 1
      <4>1. z \in Nat /\ 2 * y - 1 - 1 = 2 * z /\ 2 * y - 1 = 2 * z + 1  BY <3>1
      <4> HIDE DEF z
      <4>2. (2 * z) * w = z * (2 * w) /\ (2 * z + 1) * w = z * (2 * w) + w /\ z * (2 * w) \in Nat
        BY <2>1, <4>1
      <4>3. /\ x = 2 * y - 1 => x - 1 = 2 * z
            /\ x = 2 * y => x - 1 = 2 * z + 1
        BY <3>1 DEF z
      <4>4. QED  BY <4>2, <4>3 DEF z
    <3>3. i \in 1 .. n  BY <1>1, <2>1, <2>5, <3>1, <3>2
    <3>4. (y - 1) * (2 * w) < n  BY <1>1, <3>2, <3>3
    <3>5. HashAt(s, h)[i] = HashAt(r, h)[i]  BY <2>4, <3>1, <3>4
    <3> HIDE DEF i
    <3>6. /\ HashAt(s, h - 1)[i] = HashAt(r, h - 1)[i]
          /\ HashAt(s, h - 1)[IF i + w <= n THEN i + w ELSE i]
               = HashAt(r, h - 1)[IF i + w <= n THEN i + w ELSE i]
      BY <2>3, <3>3, <3>5 DEF Hash
    <3>7. CASE x = 2 * y - 1
      <4>1. (x - 1) * w + 1 = i  BY <3>2, <3>7 DEF i
      <4>2. QED  BY <3>6, <4>1
    <3>8. CASE x = 2 * y
      <4>1. (x - 1) * w + 1 = i + w  BY <2>1, <3>2, <3>8 DEF i
      <4>2. i + w <= n
        <5>1. (x - 1) * w \in Nat  BY <2>1, <3>2, <3>8
        <5>2. QED  BY <1>1, <2>5, <4>1, <5>1
      <4>3. QED  BY <3>6, <4>1, <4>2
    <3>9. QED  BY <3>1, <3>7, <3>8
  <2>6. QED  BY <2>5 DEF w
<1> HIDE DEF Same
<1>8. Same(0)
  <2> DEFINE bad == {d \in 0 .. top : ~Same(top - d)}
  <2>1. CASE bad = {}
    <3>1. top \in 0 .. top /\ top - top = 0  BY <1>3
    <3> HIDE DEF top
    <3>2. QED  BY <2>1, <3>1
  <2>2. CASE bad # {}
    <3>1. PICK d \in bad : \A e \in bad : d <= e
      <4>1. bad \in SUBSET Nat  BY <1>3
      <4> HIDE DEF bad
      <4>2. QED  BY <2>2, <4>1, LeastExists
    <3>2. d \in 0 .. top /\ ~Same(top - d) /\ top \in 1 .. n /\ n \in Nat  BY <1>1, <1>3, <3>1
    <3> HIDE DEF top, n
    <3>3. d # 0
      <4>1. top - 0 = top  BY <3>2
      <4>2. QED  BY <1>6, <3>2, <4>1
    <3> DEFINE e == d - 1
    <3>4. e \in 0 .. top /\ ~(d <= e) /\ top - e \in 1 .. n /\ (top - e) - 1 = top - d  BY <3>2, <3>3
    <3> HIDE DEF e
    <3>5. Same(top - e)  BY <3>1, <3>4
    <3>6. Same((top - e) - 1)  BY <1>7, <3>4, <3>5
    <3>7. QED  BY <3>2, <3>4, <3>6
  <2>3. QED  BY <2>1, <2>2
<1>9. ASSUME NEW x \in 1 .. n PROVE s[x] = r[x]
  <2>1. Span(s, 0) = 1 /\ HashAt(s, 0) = s /\ HashAt(r, 0) = r  BY <1>1, Heights
  <2>2. x \in Nat \ {0} /\ (x - 1) * 1 < n /\ (x - 1) * 1 + 1 = x  BY <1>1
  <2>3. HashAt(s, 0)[(x - 1) * 1 + 1] = HashAt(r, 0)[(x - 1) * 1 + 1]
    BY <1>8, <2>1, <2>2 DEF Same
  <2>4. QED  BY <2>1, <2>2, <2>3
<1>10. QED  BY <1>1, <1>9, SameEntries

\* The root in a block's header is the one that is defined from the top down,
\* for any number of transactions, and commits to the transactions and their
\* order: a body that is exchanged does not keep the hash that the proof of work
\* is about.
THEOREM RootCommitsAlways == Spec => []RootCommits
<1>1. Growing => RootCommits
  <2>1. SUFFICES ASSUME Growing, Complete
                 PROVE  /\ Root = RootOf(txs)
                        /\ \A other \in [1 .. Len(txs) -> Leaf] : RootOf(other) = Root => other = txs
    BY DEF RootCommits
  <2>2. IsSeq(txs) /\ Len(txs) >= 1 /\ TreeOf(txs, levels) /\ Len(txs) \in Nat
    BY <2>1, SeqFacts DEF Growing, TreeOf, Complete
  <2>3. Root = RootOf(txs)  BY <2>2, LoopComputesRoot DEF Root
  <2>4. ASSUME NEW other \in [1 .. Len(txs) -> Leaf], RootOf(other) = Root PROVE other = txs
    <3>1. other = [i \in 1 .. Len(txs) |-> other[i]]  OBVIOUS
    <3>2. IsSeq(other) /\ Len(other) = Len(txs)  BY <2>2, <3>1, FunctionIsSeq
    <3>3. QED  BY <2>2, <2>3, <2>4, <3>2, RootBinds
  <2>5. QED  BY <2>3, <2>4
<1>2. Init => Growing  BY InitGrowing
<1>3. Inv /\ Growing /\ [Next]_vars => Growing'  BY NextGrowing
<1>4. QED  BY <1>1, <1>2, <1>3, Invariant, PTL DEF Spec

\* The sides in a proof spell the index it was made for in binary, for any
\* length of a block and any index, also where a node is its own sibling.
THEOREM PathSpells == Spec => []PathSpellsIndex
<1>1. Inv => PathSpellsIndex
  <2>1. SUFFICES ASSUME Inv, pc = "done" PROVE Position(path) = idx[1]
    BY DEF PathSpellsIndex
  <2>2. SidesAreDigits  BY <2>1, DigitsFollow
  <2> DEFINE n == Len(path)
             bit(k) == IF path[k].isLeft THEN 1 ELSE 0
             Values(f) == f = [k \in 1 .. n + 1 |->
                                 IF k > n THEN 0 ELSE 2 * f[k + 1] + bit(k)]
  <2>3. /\ n \in Nat /\ Len(idx) = n + 1 /\ idx[n + 1] = 0
        /\ \A k \in 1 .. n : idx[k] = 2 * idx[k + 1] + bit(k)
    <3>1. n = Len(idx) - 1 /\ idx[Len(idx)] = 0  BY <2>1, <2>2 DEF SidesAreDigits
    <3>2. n \in Nat /\ Len(idx) \in Nat  BY <2>1, SeqFacts DEF Inv, Walked
    <3> HIDE DEF n
    <3>3. Len(idx) = n + 1  BY <3>1, <3>2
    <3>4. QED  BY <2>1, <2>2, <3>1, <3>2, <3>3 DEF SidesAreDigits, n
  <2> HIDE DEF n, bit
  <2>4. Values([k \in 1 .. n + 1 |-> idx[k]])
    <3> DEFINE g == [k \in 1 .. n + 1 |-> idx[k]]
    <3>1. ASSUME NEW k \in 1 .. n + 1
          PROVE  g[k] = IF k > n THEN 0 ELSE 2 * g[k + 1] + bit(k)
      <4>1. CASE k > n
        <5>1. k = n + 1  BY <2>3, <4>1
        <5>2. QED  BY <2>3, <4>1, <5>1
      <4>2. CASE ~(k > n)
        <5>1. k \in 1 .. n /\ k + 1 \in 1 .. n + 1  BY <2>3, <4>2
        <5>2. g[k + 1] = idx[k + 1] /\ g[k] = idx[k]  BY <5>1
        <5>3. QED  BY <2>3, <4>2, <5>1, <5>2
      <4>3. QED  BY <4>1, <4>2
    <3>2. QED  BY <3>1, Zenon
  <2> DEFINE value == CHOOSE f : Values(f)
  <2>5. Values(value)  BY <2>4, Zenon
  <2>6. Position(path) = value[1]  BY Zenon DEF Position, n, bit
  <2>7. \A k \in 1 .. n + 1 : value[k] = IF k > n THEN 0 ELSE 2 * value[k + 1] + bit(k)
    <3> HIDE DEF value
    <3>1. QED  BY <2>5, Zenon
  <2> HIDE DEF value, Values
  <2> DEFINE bad == {d \in 0 .. n : value[(n + 1) - d] # idx[(n + 1) - d]}
  <2>8. CASE bad = {}
    <3>1. n \in 0 .. n /\ (n + 1) - n = 1  BY <2>3
    <3>2. QED  BY <2>6, <2>8, <3>1
  <2>9. CASE bad # {}
    <3>1. PICK d \in bad : \A e \in bad : d <= e
      <4>1. bad \in SUBSET Nat  BY <2>3
      <4> HIDE DEF bad
      <4>2. QED  BY <2>9, <4>1, LeastExists
    <3>2. d \in 0 .. n /\ value[(n + 1) - d] # idx[(n + 1) - d]  BY <3>1
    <3>3. d # 0
      <4>1. (n + 1) - 0 = n + 1 /\ n + 1 \in 1 .. n + 1 /\ n + 1 > n  BY <2>3
      <4>2. value[n + 1] = 0  BY <2>7, <4>1
      <4>3. QED  BY <2>3, <3>2, <4>1, <4>2
    <3> DEFINE k == (n + 1) - d
    <3>4. k \in 1 .. n /\ k \in 1 .. n + 1 /\ ~(k > n) /\ d - 1 \in 0 .. n /\ ~(d <= d - 1)
          /\ (n + 1) - (d - 1) = k + 1
      BY <2>3, <3>2, <3>3
    <3>5. value[k + 1] = idx[k + 1]  BY <3>1, <3>4
    <3>6. value[k] # idx[k]  BY <3>2
    <3> HIDE DEF k
    <3>7. value[k] = 2 * value[k + 1] + bit(k)  BY <2>7, <3>4
    <3>8. QED  BY <2>3, <3>4, <3>5, <3>6, <3>7
  <2>10. QED  BY <2>8, <2>9
<1>2. QED  BY <1>1, Invariant, PTL
=============================================================================
