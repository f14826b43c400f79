\* With up to nine transactions every length of a level from one to six and
\* odd levels above odd levels occur.
CONSTANTS
  t1 = t1
  t2 = t2
  Leaf = {t1, t2}
  MaxTxs = 9
SPECIFICATION Spec
CHECK_DEADLOCK FALSE
INVARIANTS
  TypeOK
  ProofFitsOneLeaf
  RootCommits
  PathSpellsIndex
