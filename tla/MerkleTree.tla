----------------------------- MODULE MerkleTree -----------------------------
(***************************************************************************)
(* Merkle trees and inclusion proofs: the constructor and GenerateProof of *)
(* src/merkleTree.cpp, called by the node for getmerkleproof, and          *)
(* VerifyMerkleProof of src/merkleProof.cpp, called by the client.         *)
(*                                                                         *)
(* A hash of two hashes is the pair of them: two different pairs never     *)
(* have the same hash.  Levels are numbered from 1 here, the entries of a  *)
(* level from 0 as in the code.                                            *)
(***************************************************************************)
EXTENDS Integers, Sequences

CONSTANTS
  Leaf,       \* hashes of serialized transactions
  MaxTxs      \* bound: transactions in a block

ASSUME MerkleAssumption == MaxTxs \in Nat

VARIABLES
  pc,           \* "build", "walk", "verify" or "done"
  txs,          \* leaf hashes of the block's transactions
  levels,       \* the tree, its leaves first; the last level is currentLevel
  txHash,       \* the leaf that the proof is made for: the node puts it into
                \* its answer, and the client takes it from there
  idx,          \* the values idx has had on the way up, the first is txIndex
  path,         \* the steps of the proof
  current       \* the hash that the client has computed from the first steps
                \* of the path, with the number of these steps

vars == <<pc, txs, levels, txHash, idx, path, current>>

-----------------------------------------------------------------------------
Hash(left, right) == <<left, right>>

Last(s) == s[Len(s)]

\* Mutant of Padded: an odd level is filled up with its first hash.
PaddedFirst(l) == IF Len(l) % 2 = 0 THEN l ELSE Append(l, l[1])

\* An odd level is filled up with its last hash.
Padded(l) == IF Len(l) % 2 = 0 THEN l ELSE Append(l, Last(l))

\* Mutant of Parents: the level is kept with its padding.
PaddedParents(l) ==
  Padded([i \in 1 .. Len(Padded(l)) \div 2 |-> Hash(Padded(l)[2 * i - 1], Padded(l)[2 * i])])

Parents(l) ==
  [i \in 1 .. Len(Padded(l)) \div 2 |-> Hash(Padded(l)[2 * i - 1], Padded(l)[2 * i])]

\* Mutant of SiblingIdx: always the next one.
NextIdx(l, i) == IF i + 1 >= Len(l) THEN i ELSE i + 1

\* idx ^ 1, or idx itself at the end of an odd level
SiblingIdx(l, i) ==
  LET other == IF i % 2 = 0 THEN i + 1 ELSE i - 1
  IN  IF other >= Len(l) THEN i ELSE other

\* Mutant of Sibling: a sibling that is the node itself counts as left.
SiblingOfLast(l, i) ==
  [hash |-> l[SiblingIdx(l, i) + 1], isLeft |-> SiblingIdx(l, i) <= i]

\* A MerkleProofStep.
Sibling(l, i) == [hash |-> l[SiblingIdx(l, i) + 1], isLeft |-> i % 2 = 1]

Combine(step, h) == IF step.isLeft THEN Hash(step.hash, h) ELSE Hash(h, step.hash)

-----------------------------------------------------------------------------
(***************************************************************************)
(* The three loops                                                         *)
(***************************************************************************)

\* Only the leaves are kept with their padding.
Init ==
  /\ pc = "build"
  /\ \E n \in 1 .. MaxTxs : txs \in [1 .. n -> Leaf]
  /\ levels = <<Padded(txs)>>
  /\ txHash = <<>> /\ idx = <<>> /\ path = <<>>
  /\ current = [hash |-> <<>>, steps |-> 0]

BuildLevel ==
  /\ pc = "build" /\ Len(Last(levels)) > 1
  /\ levels' = Append(levels, Parents(Last(levels)))
  /\ UNCHANGED <<pc, txs, txHash, idx, path, current>>

\* GenerateProof, up to its loop.
GenerateProof(txIndex) ==
  /\ pc = "build" /\ Len(Last(levels)) <= 1
  /\ pc' = "walk"
  /\ txHash' = levels[1][txIndex + 1]
  /\ idx' = <<txIndex>>
  /\ UNCHANGED <<txs, levels, path, current>>

\* getmerkleproof, for any transaction of the block; the padding is not one.
GetMerkleProof == \E i \in 0 .. Len(txs) - 1 : GenerateProof(i)

\* From a level to the one above it.
WalkUp ==
  /\ pc = "walk" /\ Len(idx) < Len(levels)
  /\ path' = Append(path, Sibling(levels[Len(idx)], Last(idx)))
  /\ idx' = Append(idx, Last(idx) \div 2)
  /\ UNCHANGED <<pc, txs, levels, txHash, current>>

\* The proof has reached the client, which starts from the hash in it.
ReceiveProof ==
  /\ pc = "walk" /\ Len(idx) = Len(levels)
  /\ pc' = "verify"
  /\ current' = [hash |-> txHash, steps |-> 0]
  /\ UNCHANGED <<txs, levels, txHash, idx, path>>

VerifyStep ==
  /\ pc = "verify" /\ current.steps < Len(path)
  /\ current' = [hash |-> Combine(path[current.steps + 1], current.hash),
                 steps |-> current.steps + 1]
  /\ UNCHANGED <<pc, txs, levels, txHash, idx, path>>

FinishVerify ==
  /\ pc = "verify" /\ current.steps = Len(path)
  /\ pc' = "done"
  /\ UNCHANGED <<txs, levels, txHash, idx, path, current>>

Next ==
  \/ BuildLevel \/ GetMerkleProof
  \/ WalkUp \/ ReceiveProof \/ VerifyStep \/ FinishVerify

Spec == Init /\ [][Next]_vars

-----------------------------------------------------------------------------
(***************************************************************************)
(* Properties                                                              *)
(***************************************************************************)
Root == Last(levels)[1]

Valid == current.hash = Root

\* Every level is half as long as the one below, rounded up, and the last one
\* that a proof is made from has one entry: levels.back()[0] is the root.
TypeOK ==
  /\ pc \in {"build", "walk", "verify", "done"}
  /\ txHash \in Leaf \cup {<<>>}
  /\ Len(levels) \in Nat \ {0}
  /\ \A k \in 1 .. Len(levels) : Len(levels[k]) \in Nat \ {0}
  /\ \A k \in 1 .. Len(levels) - 1 : Len(levels[k + 1]) = (Len(levels[k]) + 1) \div 2
  /\ pc # "build" => Len(Last(levels)) = 1
  /\ Len(path) = IF idx = <<>> THEN 0 ELSE Len(idx) - 1
  /\ current.steps \in 0 .. Len(path)

\* What the loop of VerifyMerkleProof makes of the hash h along the path p.
Climbed(p, h) ==
  LET after[k \in 0 .. Len(p)] == IF k = 0 THEN h ELSE Combine(p[k], after[k - 1])
  IN  after[Len(p)]

\* For every length of a block and every position in it, also the last one of a
\* level of odd length: VerifyMerkleProof accepts what GenerateProof has made,
\* and would accept the same path and root with no other leaf hash in the
\* answer.  Whether that leaf is the transaction the user has asked for is not
\* among the things that the client compares.
ProofFitsOneLeaf ==
  pc = "done" => Valid /\ \A h \in Leaf : Climbed(path, h) = Root => h = txHash

(***************************************************************************)
(* A definition of the root from the top down, to compare with the loop    *)
(* from the leaves up: the subtrees of height h that start at each leaf of *)
(* s, with the number of leaves they have room for.  What is missing on    *)
(* the right is what stands on the left again.                             *)
(***************************************************************************)
Doubled(s, half) ==
  [span |-> 2 * half.span,
   hash |-> [i \in 1 .. Len(s) |->
               Hash(half.hash[i],
                    half.hash[IF i + half.span <= Len(s) THEN i + half.span ELSE i])]]

Subtrees(s) ==
  LET at[h \in 0 .. Len(s)] ==
        IF h = 0 THEN [span |-> 1, hash |-> s] ELSE Doubled(s, at[h - 1])
  IN  at

\* The least height, but 1 at least, that has room for all.
IsHeight(s, h) ==
  Subtrees(s)[h].span >= Len(s) /\ \A g \in 1 .. h - 1 : Subtrees(s)[g].span < Len(s)

TreeHeight(s) == CHOOSE h \in 1 .. Len(s) : IsHeight(s, h)

RootOf(s) == Subtrees(s)[TreeHeight(s)].hash[1]

Complete == Len(Last(levels)) = 1

\* The root is that of the definition, and a root and a number of transactions
\* leave one list of transactions, whatever levels are odd: a block whose body
\* is exchanged does not keep the hash that its proof of work is about.
RootCommits ==
  pc = "build" /\ Complete =>
    /\ Root = RootOf(txs)
    /\ \A other \in [1 .. Len(txs) -> Leaf] : RootOf(other) = Root => other = txs

\* The number whose binary digits, the lowest first, are the sides of p.
Position(p) ==
  LET value[k \in 1 .. Len(p) + 1] ==
        IF k > Len(p) THEN 0 ELSE 2 * value[k + 1] + (IF p[k].isLeft THEN 1 ELSE 0)
  IN  value[1]

\* The sides of the siblings spell the index of the transaction: two proofs of
\* one block for different positions never agree in them.
PathSpellsIndex == pc = "done" => Position(path) = idx[1]
=============================================================================
