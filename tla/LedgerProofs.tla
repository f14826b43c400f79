---------------------------- MODULE LedgerProofs ----------------------------
(***************************************************************************)
(* Proofs about module Ledger, for any threads, transactions, bounds and   *)
(* consensus parameters: the types, the safety invariants, that the chain  *)
(* implements ChainSpec, and that the database covers the unspent outputs. *)
(***************************************************************************)
EXTENDS Ledger, TLAPS, WellFoundedInduction, SequenceTheorems, FiniteSetTheorems

-----------------------------------------------------------------------------
(***************************************************************************)
(* Extreme elements of sets of numbers                                     *)
(***************************************************************************)

\* A non-empty set of natural numbers has a least element: what the Min that
\* picks the first failing input or transaction rests on.
LEMMA LeastExists ==
  ASSUME NEW S \in SUBSET Nat, S # {}
  PROVE  Min(S) \in S /\ \A n \in S : Min(S) <= n
<1> DEFINE R == {ss \in Nat \X Nat : ss[1] < ss[2]}
<1>1. IsWellFoundedOn(R, Nat)
  BY NatLessThanWellFounded DEF OpToRel
<1>2. PICK m \in S : \A n \in S : ~(<<n, m>> \in R)
  BY <1>1, WFMin
<1>3. ASSUME NEW n \in S
      PROVE  m <= n
  <2>1. n \in Nat /\ m \in Nat /\ ~(<<n, m>> \in R)
    BY <1>2
  <2>2. n < m => <<n, m>> \in R
    BY <2>1
  <2> QED
    BY <2>1, <2>2
<1> QED
  BY <1>3 DEF Min

\* A non-empty set of natural numbers that has a bound has a greatest element:
\* the Max of HeightOf, the newest block that holds a transaction.
LEMMA GreatestExists ==
  ASSUME NEW S \in SUBSET Nat, S # {}, NEW bound \in Nat, \A n \in S : n <= bound
  PROVE  Max(S) \in S /\ \A n \in S : Max(S) >= n
<1> DEFINE T == {bound - n : n \in S}
<1>1. T \in SUBSET Nat /\ T # {}
  <2>1. ASSUME NEW n \in S
        PROVE  bound - n \in Nat
    <3>1. n \in Nat /\ n <= bound
      OBVIOUS
    <3> QED
      BY <3>1
  <2>2. PICK n : n \in S
    OBVIOUS
  <2>3. bound - n \in T
    BY <2>2
  <2> QED
    BY <2>1, <2>3
<1>2. PICK m \in S : bound - m = Min(T)
  BY <1>1, LeastExists
<1>3. \A n \in S : bound - m <= bound - n
  BY <1>1, <1>2, LeastExists
<1>4. \A n \in S : m >= n
  BY <1>3
<1> QED
  BY <1>4 DEF Max

\* The block subsidy is a natural number at every height.
LEMMA SubsidyType ==
  ASSUME NEW h \in Nat
  PROVE  GetBlockSubsidy(h) \in Nat
<1> DEFINE n == h \div HALVING_INTERVAL
           S == {q \in 0 .. SUBSIDY : q * 2^n <= SUBSIDY}
<1>1. SUBSIDY \in Nat /\ n \in Nat
  BY ConsensusAssumption
<1>2. 2^n \in Int
  BY <1>1
<1>3. 0 \in S
  BY <1>1, <1>2
<1>4. S \in SUBSET Nat /\ S # {} /\ \A q \in S : q <= SUBSIDY
  BY <1>1, <1>3
<1> HIDE DEF S
<1>5. Max(S) \in S
  BY <1>1, <1>4, GreatestExists
<1>6. Max(S) \in Nat
  BY <1>4, <1>5
<1> QED
  BY <1>6 DEF GetBlockSubsidy, ShiftRight, S
-----------------------------------------------------------------------------
(***************************************************************************)
(* Sums.  The folds of the community modules are recursive functions on    *)
(* the subsets of a set; what they compute is shown by the least set, in   *)
(* cardinality, for which it fails.                                        *)
(***************************************************************************)

\* One pass of the fold that adds up f over the subsets of S.
Pass(f, S, g) ==
  [s \in SUBSET S |->
     IF s = {} THEN 0 ELSE f[CHOOSE x \in s : TRUE] + g[s \ {CHOOSE x \in s : TRUE}]]

Fold(f, S) == CHOOSE g : g = Pass(f, S, g)

\* A sum over a set is a value of the fold.
LEMMA SumIsFold ==
  ASSUME NEW f, NEW S
  PROVE  SumFunctionOnSet(f, S) = Fold(f, S)[S]
BY Zenon DEF SumFunctionOnSet, FoldFunctionOnSet, MapThenFoldSet, Pass, Fold

\* The sum of sizes is a sum over a set.
LEMMA MappedSum ==
  ASSUME NEW f, NEW S
  PROVE  MapThenSumSet(LAMBDA t : f[t], S) = SumFunctionOnSet(f, S)
<1>1. MapThenSumSet(LAMBDA t : f[t], S) = Fold(f, S)[S]
  BY Zenon DEF MapThenSumSet, MapThenFoldSet, Pass, Fold
<1>2. QED  BY <1>1, SumIsFold

\* The subsets of S with n elements at most.
Small(S, n) == {s \in SUBSET S : Cardinality(s) <= n}

\* What is left of a finite set is finite, and smaller.
LEMMA SmallerSet ==
  ASSUME NEW S, IsFiniteSet(S), NEW s \in SUBSET S, s # {}
  PROVE  /\ (CHOOSE x \in s : TRUE) \in s
         /\ \A x \in s : /\ IsFiniteSet(s \ {x}) /\ s \ {x} \in SUBSET S
                         /\ Cardinality(s \ {x}) = Cardinality(s) - 1
         /\ Cardinality(s) \in Nat /\ Cardinality(s) >= 1
<1>1. IsFiniteSet(s)  BY FS_Subset
<1>2. Cardinality(s) \in Nat  BY <1>1, FS_CardinalityType
<1>3. Cardinality(s) # 0  BY <1>1, FS_EmptySet
<1>4. \A x \in s : IsFiniteSet(s \ {x}) /\ Cardinality(s \ {x}) = Cardinality(s) - 1
  BY <1>1, FS_RemoveElement
<1>5. QED  BY <1>2, <1>3, <1>4

\* The fold is what its definition says.
LEMMA FoldUnfolds ==
  ASSUME NEW f, NEW S, IsFiniteSet(S)
  PROVE  Fold(f, S) = Pass(f, S, Fold(f, S))
<1> DEFINE Up(g, n) ==
             g = [s \in Small(S, n) |->
                    IF s = {} THEN 0
                    ELSE f[CHOOSE x \in s : TRUE] + g[s \ {CHOOSE x \in s : TRUE}]]
           bad == {n \in Nat : \A g : ~Up(g, n)}
<1>1. bad = {}
  <2>1. SUFFICES ASSUME bad # {} PROVE FALSE  OBVIOUS
  <2>2. PICK n \in bad : \A m \in bad : n <= m
    <3>1. bad \in SUBSET Nat  OBVIOUS
    <3> HIDE DEF bad
    <3>2. Min(bad) \in bad /\ \A m \in bad : Min(bad) <= m  BY <2>1, <3>1, LeastExists
    <3>3. QED  BY <3>2
  <2>3. n \in Nat /\ \A g : ~Up(g, n)  BY <2>2
  <2>4. n # 0
    <3>1. SUFFICES ASSUME n = 0 PROVE FALSE  OBVIOUS
    <3>2. \A s \in Small(S, n) : s = {}
      <4>1. ASSUME NEW s \in Small(S, n), s # {} PROVE FALSE
        BY <3>1, <4>1, SmallerSet DEF Small
      <4>2. QED  BY <4>1
    <3> DEFINE g == [s \in Small(S, n) |-> 0]
    <3>3. g = [s \in Small(S, n) |->
                 IF s = {} THEN 0
                 ELSE f[CHOOSE x \in s : TRUE] + g[s \ {CHOOSE x \in s : TRUE}]]
      BY <3>2, Zenon
    <3>4. QED  BY <2>3, <3>3, Zenon
  <2> HIDE DEF Up
  <2>5. n - 1 \in Nat /\ ~(n <= n - 1)  BY <2>3, <2>4
  <2>5a. n - 1 \notin bad  BY <2>2, <2>5
  <2>6. PICK g : Up(g, n - 1)  BY <2>5, <2>5a
  <2> USE DEF Up
  <2> DEFINE h == [s \in Small(S, n) |->
                     IF s = {} THEN 0
                     ELSE f[CHOOSE x \in s : TRUE] + g[s \ {CHOOSE x \in s : TRUE}]]
  <2>7. ASSUME NEW s \in Small(S, n), s # {}
        PROVE  h[s \ {CHOOSE x \in s : TRUE}] = g[s \ {CHOOSE x \in s : TRUE}]
    <3> DEFINE r == s \ {CHOOSE x \in s : TRUE}
    <3>1. s \in SUBSET S /\ Cardinality(s) <= n  BY DEF Small
    <3>2. r \in SUBSET S /\ Cardinality(r) = Cardinality(s) - 1 /\ Cardinality(s) \in Nat
      BY <2>7, <3>1, SmallerSet
    <3> HIDE DEF r
    <3>3. r \in Small(S, n - 1) /\ r \in Small(S, n)  BY <2>3, <3>1, <3>2 DEF Small
    <3>4. g[r] = IF r = {} THEN 0
                 ELSE f[CHOOSE x \in r : TRUE] + g[r \ {CHOOSE x \in r : TRUE}]
      BY <2>6, <3>3, Zenon
    <3>5. h[r] = g[r]  BY <3>3, <3>4, Zenon
    <3>6. QED  BY <3>5 DEF r
  <2>8. h = [s \in Small(S, n) |->
               IF s = {} THEN 0
               ELSE f[CHOOSE x \in s : TRUE] + h[s \ {CHOOSE x \in s : TRUE}]]
    <3> DEFINE k == [s \in Small(S, n) |->
                       IF s = {} THEN 0
                       ELSE f[CHOOSE x \in s : TRUE] + h[s \ {CHOOSE x \in s : TRUE}]]
    <3>1. ASSUME NEW s \in Small(S, n) PROVE h[s] = k[s]
      <4>1. CASE s = {}  BY <4>1, Zenon
      <4>2. CASE s # {}
        <5>1. h[s \ {CHOOSE x \in s : TRUE}] = g[s \ {CHOOSE x \in s : TRUE}]  BY <2>7, <4>2
        <5>2. h[s] = f[CHOOSE x \in s : TRUE] + g[s \ {CHOOSE x \in s : TRUE}]  BY <4>2, Zenon
        <5>3. k[s] = f[CHOOSE x \in s : TRUE] + h[s \ {CHOOSE x \in s : TRUE}]  BY <4>2, Zenon
        <5>4. QED  BY <5>1, <5>2, <5>3, Zenon
      <4>3. QED  BY <4>1, <4>2
    <3>2. h = k  BY <3>1, Zenon
    <3>3. QED  BY <3>2, Zenon
  <2>9. QED  BY <2>3, <2>8, Zenon
<1>2. Cardinality(S) \in Nat  BY FS_CardinalityType
<1> HIDE DEF Up
<1>3. PICK g : Up(g, Cardinality(S))  BY <1>1, <1>2
<1> USE DEF Up
<1>4. Small(S, Cardinality(S)) = SUBSET S
  <2>1. ASSUME NEW s \in SUBSET S PROVE Cardinality(s) <= Cardinality(S)  BY FS_Subset
  <2>2. QED  BY <2>1 DEF Small
<1>5. g = Pass(f, S, g)  BY <1>3, <1>4, Zenon DEF Pass
<1>6. QED  BY <1>5, Zenon DEF Fold

\* There is one such function: what it gives for a subset does not depend on
\* the set that the sum began with.
LEMMA FoldRestricts ==
  ASSUME NEW f, NEW S, IsFiniteSet(S), NEW T \in SUBSET S
  PROVE  Fold(f, S)[T] = SumFunctionOnSet(f, T)
<1> DEFINE bad == {n \in Nat : \E r \in SUBSET T : Cardinality(r) = n /\ Fold(f, S)[r] # Fold(f, T)[r]}
<1>0. IsFiniteSet(T)  BY FS_Subset
<1>1. bad = {}
  <2>1. SUFFICES ASSUME bad # {} PROVE FALSE  OBVIOUS
  <2>2. PICK n \in bad : \A m \in bad : n <= m
    <3>1. bad \in SUBSET Nat  OBVIOUS
    <3> HIDE DEF bad
    <3>2. Min(bad) \in bad /\ \A m \in bad : Min(bad) <= m  BY <2>1, <3>1, LeastExists
    <3>3. QED  BY <3>2
  <2>3. PICK r \in SUBSET T : Cardinality(r) = n /\ Fold(f, S)[r] # Fold(f, T)[r]  BY <2>2
  <2> DEFINE x == CHOOSE y \in r : TRUE
             q == r \ {x}
  <2>4. /\ Fold(f, S)[r] = IF r = {} THEN 0 ELSE f[x] + Fold(f, S)[q]
        /\ Fold(f, T)[r] = IF r = {} THEN 0 ELSE f[x] + Fold(f, T)[q]
    <3>1. r \in SUBSET S  OBVIOUS
    <3>2. Fold(f, S) = Pass(f, S, Fold(f, S)) /\ Fold(f, T) = Pass(f, T, Fold(f, T))
      BY <1>0, FoldUnfolds
    <3>3. Fold(f, S)[r] = Pass(f, S, Fold(f, S))[r] /\ Fold(f, T)[r] = Pass(f, T, Fold(f, T))[r]
      BY <3>2, Zenon
    <3>4. QED  BY <3>1, <3>3, Zenon DEF Pass
  <2>5. r # {}  BY <2>3, <2>4
  <2>6. q \in SUBSET T /\ Cardinality(q) = n - 1 /\ n \in Nat /\ n >= 1
    BY <1>0, <2>3, <2>5, SmallerSet
  <2> HIDE DEF x, q
  <2>7. Fold(f, S)[q] # Fold(f, T)[q]  BY <2>3, <2>4
  <2>8. n - 1 \in bad  BY <2>6, <2>7
  <2>9. QED  BY <2>2, <2>6, <2>8
<1>2. Cardinality(T) \in Nat /\ T \in SUBSET T  BY <1>0, FS_CardinalityType
<1>3. Fold(f, S)[T] = Fold(f, T)[T]  BY <1>1, <1>2
<1>4. QED  BY <1>3, SumIsFold

\* The sum of nothing, and the sum of anything else.
LEMMA SumUnfolds ==
  ASSUME NEW f, NEW S, IsFiniteSet(S)
  PROVE  /\ S = {} => SumFunctionOnSet(f, S) = 0
         /\ S # {} => LET x == CHOOSE y \in S : TRUE
                      IN  SumFunctionOnSet(f, S) = f[x] + SumFunctionOnSet(f, S \ {x})
<1> DEFINE x == CHOOSE y \in S : TRUE
<1>1. Fold(f, S) = Pass(f, S, Fold(f, S))  BY FoldUnfolds
<1>2. Fold(f, S)[S] = Pass(f, S, Fold(f, S))[S] /\ S \in SUBSET S  BY <1>1, Zenon
<1>3. Fold(f, S)[S] = IF S = {} THEN 0 ELSE f[x] + Fold(f, S)[S \ {x}]
  BY <1>2, Zenon DEF Pass
<1>4. S \ {x} \in SUBSET S  OBVIOUS
<1> HIDE DEF x
<1>5. Fold(f, S)[S \ {x}] = SumFunctionOnSet(f, S \ {x})  BY <1>4, FoldRestricts
<1>6. Fold(f, S)[S] = SumFunctionOnSet(f, S)  BY SumIsFold
<1>7. S = {} => SumFunctionOnSet(f, S) = 0  BY <1>3, <1>6
<1>8. S # {} => SumFunctionOnSet(f, S) = f[x] + SumFunctionOnSet(f, S \ {x})
  BY <1>3, <1>5, <1>6
<1>9. QED  BY <1>7, <1>8 DEF x

\* A sum of integers is an integer.
LEMMA SumType ==
  ASSUME NEW f, NEW S, IsFiniteSet(S), \A x \in S : f[x] \in Int
  PROVE  SumFunctionOnSet(f, S) \in Int
<1> DEFINE bad == {n \in Nat : \E r \in SUBSET S : /\ Cardinality(r) = n
                                                   /\ SumFunctionOnSet(f, r) \notin Int}
<1>1. bad = {}
  <2>1. SUFFICES ASSUME bad # {} PROVE FALSE  OBVIOUS
  <2>2. PICK n \in bad : \A m \in bad : n <= m
    <3>1. bad \in SUBSET Nat  OBVIOUS
    <3> HIDE DEF bad
    <3>2. Min(bad) \in bad /\ \A m \in bad : Min(bad) <= m  BY <2>1, <3>1, LeastExists
    <3>3. QED  BY <3>2
  <2>3. PICK r \in SUBSET S : Cardinality(r) = n /\ SumFunctionOnSet(f, r) \notin Int  BY <2>2
  <2>4. IsFiniteSet(r)  BY FS_Subset
  <2>5. r # {}
    <3>1. r = {} => SumFunctionOnSet(f, r) = 0  BY <2>4, SumUnfolds
    <3>2. QED  BY <2>3, <3>1
  <2> DEFINE x == CHOOSE y \in r : TRUE
  <2>6. SumFunctionOnSet(f, r) = f[x] + SumFunctionOnSet(f, r \ {x})  BY <2>4, <2>5, SumUnfolds
  <2>7. x \in r  BY <2>5
  <2> HIDE DEF x
  <2>8. r \ {x} \in SUBSET S /\ Cardinality(r \ {x}) = n - 1 /\ n \in Nat /\ n >= 1
    BY <2>3, <2>5, <2>7, SmallerSet
  <2>9. SumFunctionOnSet(f, r \ {x}) \notin Int  BY <2>3, <2>6, <2>7
  <2>10. n - 1 \in bad  BY <2>8, <2>9
  <2>11. QED  BY <2>2, <2>8, <2>10
<1>2. Cardinality(S) \in Nat /\ S \in SUBSET S  BY FS_CardinalityType
<1>3. QED  BY <1>1, <1>2

\* Any element may be taken out of a sum: the order of the fold does not matter.
LEMMA SumWithout ==
  ASSUME NEW f, NEW S, IsFiniteSet(S), \A x \in S : f[x] \in Int, NEW y \in S
  PROVE  SumFunctionOnSet(f, S) = f[y] + SumFunctionOnSet(f, S \ {y})
<1> DEFINE Splits(r, z) == SumFunctionOnSet(f, r) = f[z] + SumFunctionOnSet(f, r \ {z})
           bad == {n \in Nat : \E r \in SUBSET S : /\ Cardinality(r) = n
                                                   /\ \E z \in r : ~Splits(r, z)}
<1>1. bad = {}
  <2>1. SUFFICES ASSUME bad # {} PROVE FALSE  OBVIOUS
  <2>2. PICK n \in bad : \A m \in bad : n <= m
    <3>1. bad \in SUBSET Nat  OBVIOUS
    <3> HIDE DEF bad
    <3>2. Min(bad) \in bad /\ \A m \in bad : Min(bad) <= m  BY <2>1, <3>1, LeastExists
    <3>3. QED  BY <3>2
  <2>3. PICK r \in SUBSET S : Cardinality(r) = n /\ \E z \in r : ~Splits(r, z)  BY <2>2
  <2>4. PICK z \in r : ~Splits(r, z)  BY <2>3
  <2>5. IsFiniteSet(r) /\ r # {}  BY <2>4, FS_Subset
  <2> DEFINE x == CHOOSE w \in r : TRUE
  <2>6. SumFunctionOnSet(f, r) = f[x] + SumFunctionOnSet(f, r \ {x})  BY <2>5, SumUnfolds
  <2>7. x \in r  BY <2>5
  <2> HIDE DEF x
  <2>8. x # z  BY <2>4, <2>6
  <2>9. /\ r \ {x} \in SUBSET S /\ Cardinality(r \ {x}) = n - 1
        /\ r \ {z} \in SUBSET S /\ Cardinality(r \ {z}) = n - 1
        /\ n \in Nat /\ n >= 1
    BY <2>3, <2>5, <2>7, SmallerSet
  <2>10. n - 1 \in Nat /\ n - 1 \notin bad  BY <2>2, <2>9
  <2>11. Splits(r \ {x}, z) /\ Splits(r \ {z}, x)
    <3>1. z \in r \ {x} /\ x \in r \ {z}  BY <2>7, <2>8
    <3> HIDE DEF Splits
    <3>2. QED  BY <2>9, <2>10, <3>1
  <2>12. (r \ {x}) \ {z} = (r \ {z}) \ {x} /\ f[x] \in Int /\ f[z] \in Int  BY <2>7
  <2>13. SumFunctionOnSet(f, (r \ {z}) \ {x}) \in Int
    <3>1. IsFiniteSet((r \ {z}) \ {x})  BY <2>5, FS_Subset
    <3>2. QED  BY <3>1, SumType
  <2> DEFINE rest == SumFunctionOnSet(f, (r \ {z}) \ {x})
  <2>14. /\ SumFunctionOnSet(f, r \ {x}) = f[z] + rest
         /\ SumFunctionOnSet(f, r \ {z}) = f[x] + rest
    BY <2>11, <2>12
  <2>15. rest \in Int  BY <2>13
  <2> HIDE DEF rest
  <2>16. SumFunctionOnSet(f, r) = f[z] + SumFunctionOnSet(f, r \ {z})
    BY <2>6, <2>12, <2>14, <2>15
  <2>17. QED  BY <2>4, <2>16
<1>2. Cardinality(S) \in Nat /\ S \in SUBSET S  BY FS_CardinalityType
<1>3. QED  BY <1>1, <1>2

\* A part weighs no more than the whole.
LEMMA SumOfPart ==
  ASSUME NEW f, NEW S, IsFiniteSet(S), \A x \in S : f[x] \in Nat, NEW T \in SUBSET S
  PROVE  SumFunctionOnSet(f, T) <= SumFunctionOnSet(f, S)
<1> DEFINE bad == {n \in Nat : \E r \in SUBSET S :
                     /\ T \subseteq r /\ Cardinality(r) = n
                     /\ ~(SumFunctionOnSet(f, T) <= SumFunctionOnSet(f, r))}
<1>1. bad = {}
  <2>1. SUFFICES ASSUME bad # {} PROVE FALSE  OBVIOUS
  <2>2. PICK n \in bad : \A m \in bad : n <= m
    <3>1. bad \in SUBSET Nat  OBVIOUS
    <3> HIDE DEF bad
    <3>2. Min(bad) \in bad /\ \A m \in bad : Min(bad) <= m  BY <2>1, <3>1, LeastExists
    <3>3. QED  BY <3>2
  <2>3. PICK r \in SUBSET S : /\ T \subseteq r /\ Cardinality(r) = n
                              /\ ~(SumFunctionOnSet(f, T) <= SumFunctionOnSet(f, r))
    BY <2>2
  <2>4. IsFiniteSet(r) /\ IsFiniteSet(T)  BY FS_Subset
  <2>5. SumFunctionOnSet(f, T) \in Int /\ SumFunctionOnSet(f, r) \in Int  BY <2>4, SumType
  <2>6. PICK y \in r : y \notin T  BY <2>3, <2>5
  <2>7. SumFunctionOnSet(f, r) = f[y] + SumFunctionOnSet(f, r \ {y})  BY <2>4, SumWithout
  <2>8. r \ {y} \in SUBSET S /\ Cardinality(r \ {y}) = n - 1 /\ n \in Nat /\ n >= 1
    BY <2>3, SmallerSet
  <2>9. n - 1 \in Nat /\ n - 1 \notin bad  BY <2>2, <2>8
  <2>10. T \subseteq r \ {y}  BY <2>3, <2>6
  <2>11. SumFunctionOnSet(f, T) <= SumFunctionOnSet(f, r \ {y})  BY <2>8, <2>9, <2>10
  <2>12. SumFunctionOnSet(f, r \ {y}) \in Int /\ f[y] \in Nat
    <3>1. IsFiniteSet(r \ {y})  BY <2>4, FS_Subset
    <3>2. QED  BY <3>1, SumType
  <2>13. QED  BY <2>3, <2>5, <2>7, <2>11, <2>12
<1>2. Cardinality(S) \in Nat /\ S \in SUBSET S  BY FS_CardinalityType
<1>3. QED  BY <1>1, <1>2
-----------------------------------------------------------------------------
(***************************************************************************)
(* Totals and fees                                                         *)
(***************************************************************************)

\* The total of a list of integers is an integer.
LEMMA TotalType ==
  ASSUME NEW s, IsFiniteSet(DOMAIN s), \A k \in DOMAIN s : s[k] \in Int
  PROVE  Total(s) \in Int
BY SumType DEF Total, SumFunction

\* The total of a list of one number is that number.
LEMMA SingleTotal ==
  ASSUME NEW v \in Int
  PROVE  Total(<<v>>) = v
<1> DEFINE s == <<v>>
<1>1. DOMAIN s = {1} /\ s[1] = v
  OBVIOUS
<1> HIDE DEF s
<1>2. IsFiniteSet({1}) /\ IsFiniteSet({}) /\ {1} # {} /\ {1} \ {1} = {} /\ (CHOOSE y \in {1} : TRUE) = 1
  BY FS_EmptySet, FS_Singleton
<1>3. SumFunctionOnSet(s, {1}) = s[1] + SumFunctionOnSet(s, {1} \ {1})
  <2>1. LET x == CHOOSE y \in {1} : TRUE
        IN  SumFunctionOnSet(s, {1}) = s[x] + SumFunctionOnSet(s, {1} \ {x})
    BY <1>2, SumUnfolds
  <2> QED
    BY <1>2, <2>1
<1>4. SumFunctionOnSet(s, {}) = 0
  BY <1>2, SumUnfolds
<1>5. SumFunctionOnSet(s, {1}) = v
  BY <1>1, <1>2, <1>3, <1>4
<1> QED
  BY <1>1, <1>5 DEF Total, SumFunction, s

\* What an outpoint of a known transaction refers to is an integer.
LEMMA OutputsType ==
  ASSUME NEW id \in Ids
  PROVE  DOMAIN Outputs(id) \subseteq Nat /\ \A n \in DOMAIN Outputs(id) : Outputs(id)[n] \in Int
<1>1. CASE id \in Txs
  <2>1. Outputs(id) = Vout[id] /\ Vout[id] \in Seq(Nat)
    BY <1>1, TransactionAssumption DEF Outputs, IsCoinbase
  <2> QED
    BY <2>1, LenProperties, ElementOfSeq
<1>2. CASE id \notin Txs
  <2>1. Outputs(id) = <<id[3]>> /\ id[3] \in Int
    BY <1>2 DEF Outputs, IsCoinbase, Ids, CoinbaseIds
  <2> QED
    BY <2>1
<1> QED
  BY <1>1, <1>2

LEMMA FiniteDomain ==
  ASSUME NEW S, NEW s \in Seq(S)
  PROVE  IsFiniteSet(DOMAIN s)
BY LenProperties, FS_Interval

\* The fee of a transaction whose outpoints exist is an integer: what makes
\* its comparison with zero mean anything.
LEMMA FeeType ==
  ASSUME NEW t \in Txs, \A o \in Inputs(t) : o[2] \in DOMAIN Outputs(o[1])
  PROVE  CalculateFee(t) \in Int
<1> DEFINE spent == [k \in DOMAIN Vin[t] |-> Outputs(Vin[t][k][1])[Vin[t][k][2]]]
<1>1. Vin[t] \in Seq(Ids \X Int) /\ Vout[t] \in Seq(Nat)
  BY TransactionAssumption
<1>2. ASSUME NEW k \in DOMAIN Vin[t]
      PROVE  Outputs(Vin[t][k][1])[Vin[t][k][2]] \in Int
  <2>1. Vin[t][k] \in Ids \X Int /\ Vin[t][k] \in Inputs(t)
    BY <1>1, LenProperties, ElementOfSeq DEF Inputs, Range
  <2> QED
    BY <2>1, OutputsType
<1>3. Total(spent) \in Int
  BY <1>1, <1>2, FiniteDomain, TotalType
<1>4. Total(Vout[t]) \in Int
  <2>1. \A k \in DOMAIN Vout[t] : Vout[t][k] \in Int
    BY <1>1, LenProperties, ElementOfSeq
  <2> QED
    BY <1>1, <2>1, FiniteDomain, TotalType
<1> HIDE DEF spent
<1>5. CalculateFee(t) = Total(spent) - Total(Vout[t])
  BY Zenon DEF CalculateFee, spent
<1> QED
  BY <1>3, <1>4, <1>5
-----------------------------------------------------------------------------
(***************************************************************************)
(* Chains and verification                                                 *)
(***************************************************************************)

IsChain(ch) == ch \in Seq(Block) /\ ch # <<>>

LEMMA ChainType ==
  ASSUME NEW ch, IsChain(ch)
  PROVE  /\ Len(ch) \in Nat \ {0} /\ DOMAIN ch = 1 .. Len(ch)
         /\ Height(ch) \in Nat
         /\ \A i \in DOMAIN ch : ch[i] \in Block
         /\ Tip(ch) \in CoinbaseIds
<1>1. Len(ch) \in Nat \ {0} /\ DOMAIN ch = 1 .. Len(ch)
  BY LenProperties, EmptySeq DEF IsChain
<1>2. \A i \in DOMAIN ch : ch[i] \in Block
  BY <1>1, ElementOfSeq DEF IsChain
<1>3. ch[Len(ch)] \in Block
  BY <1>1, <1>2
<1> QED
  BY <1>1, <1>2, <1>3 DEF Height, Tip, Block

\* Appending a block keeps what was confirmed and adds what it holds.
LEMMA AppendChain ==
  ASSUME NEW ch, IsChain(ch), NEW b \in Block
  PROVE  /\ IsChain(Append(ch, b))
         /\ Len(Append(ch, b)) = Len(ch) + 1
         /\ \A i \in 1 .. Len(ch) : Append(ch, b)[i] = ch[i]
         /\ Append(ch, b)[Len(ch) + 1] = b
         /\ Last(Append(ch, b)) = b
         /\ Height(Append(ch, b)) = Height(ch) + 1
         /\ Tip(Append(ch, b)) = b.id
         /\ Confirmed(Append(ch, b)) = Confirmed(ch) \cup TxIdsOf(b)
<1> DEFINE new == Append(ch, b)
<1>1. /\ new \in Seq(Block) /\ new # <<>> /\ Len(new) = Len(ch) + 1
      /\ \A i \in 1 .. Len(ch) : new[i] = ch[i]
      /\ new[Len(ch) + 1] = b
  BY AppendProperties DEF IsChain
<1>2. DOMAIN new = 1 .. Len(ch) + 1 /\ DOMAIN ch = 1 .. Len(ch) /\ Len(ch) \in Nat \ {0}
  BY <1>1, LenProperties, ChainType
<1> HIDE DEF new
<1>3. Confirmed(new) = Confirmed(ch) \cup TxIdsOf(b)
  BY <1>1, <1>2 DEF Confirmed
<1> QED
  BY <1>1, <1>2, <1>3 DEF new, IsChain, Height, Tip, Last

\* What a transaction that passed verification is known to satisfy.
LEMMA ValidVerdict ==
  ASSUME NEW ch, NEW ctx, NEW at, NEW t, Verdict(ch, ctx, at, t) = "valid"
  PROVE  /\ \A k \in DOMAIN Vin[t] :
              ~Unknown(ch, ctx, Vin[t][k]) /\ ~Immature(ch, ctx, at, Vin[t][k])
         /\ \A o \in Inputs(t) : o[2] \in DOMAIN Outputs(o[1])
         /\ CalculateFee(t) \in Int /\ CalculateFee(t) >= 0 /\ t \in Signed
<1> DEFINE bad == {k \in DOMAIN Vin[t] : \/ Unknown(ch, ctx, Vin[t][k])
                                         \/ Immature(ch, ctx, at, Vin[t][k])}
<1>1. bad = {}
  BY DEF Verdict
<1>2. \A k \in DOMAIN Vin[t] : ~Unknown(ch, ctx, Vin[t][k]) /\ ~Immature(ch, ctx, at, Vin[t][k])
  BY <1>1
<1> HIDE DEF bad
<1>3. \A o \in Inputs(t) : o[2] \in DOMAIN Outputs(o[1])
  BY <1>1 DEF Verdict, bad
<1>4. ~(CalculateFee(t) < 0) /\ t \in Signed
  BY <1>1, <1>3 DEF Verdict, bad
<1>5. CalculateFee(t) \in Int
  BY <1>3, <1>4, FeeType, TransactionAssumption
<1>6. CalculateFee(t) >= 0
  BY <1>4, <1>5
<1> QED
  BY <1>2, <1>3, <1>4, <1>5, <1>6

\* A transaction whose inputs exist is never answered with an exception.
InputsKnown(ch, t) ==
  \A o \in Inputs(t) : o[1] \in Confirmed(ch) /\ o[2] \in DOMAIN Outputs(o[1])

LEMMA KnownNeverThrows ==
  ASSUME NEW ch, NEW t \in Txs, InputsKnown(ch, t)
  PROVE  VerifyTransaction(ch, t) # "throws"
<1> DEFINE bad == {k \in DOMAIN Vin[t] : \/ Unknown(ch, {}, Vin[t][k])
                                         \/ Immature(ch, {}, Height(ch), Vin[t][k])}
<1>1. \A k \in DOMAIN Vin[t] : Vin[t][k] \in Inputs(t)
  BY DEF Inputs, Range
<1>2. \A k \in DOMAIN Vin[t] : ~Unknown(ch, {}, Vin[t][k])
  BY <1>1 DEF InputsKnown, Unknown
<1>3. bad \in SUBSET Nat
  BY TransactionAssumption, LenProperties
<1>4. bad # {} => ~Unknown(ch, {}, Vin[t][Min(bad)])
  BY <1>2, <1>3, LeastExists
<1>5. ~\E o \in Inputs(t) : o[2] \notin DOMAIN Outputs(o[1])
  BY DEF InputsKnown
<1> HIDE DEF bad
<1>6. Verdict(ch, {}, Height(ch), t) # "throws"
  BY <1>4, <1>5 DEF Verdict, bad
<1> QED
  BY <1>6 DEF VerifyTransaction

LEMMA ValidIsKnown ==
  ASSUME NEW ch, NEW t, VerifyTransaction(ch, t) = "valid"
  PROVE  InputsKnown(ch, t)
<1>1. /\ \A k \in DOMAIN Vin[t] : ~Unknown(ch, {}, Vin[t][k])
      /\ \A o \in Inputs(t) : o[2] \in DOMAIN Outputs(o[1])
  BY ValidVerdict DEF VerifyTransaction
<1> QED
  BY <1>1 DEF InputsKnown, Unknown, Inputs, Range

LEMMA KnownStays ==
  ASSUME NEW ch, IsChain(ch), NEW b \in Block, NEW t, InputsKnown(ch, t)
  PROVE  InputsKnown(Append(ch, b), t)
BY AppendChain DEF InputsKnown

\* The height of a confirmed transaction is a height of the chain.
LEMMA HeightOfType ==
  ASSUME NEW ch, IsChain(ch), NEW id \in Confirmed(ch)
  PROVE  HeightOf(ch, id) \in 0 .. Height(ch)
<1> DEFINE S == {i \in DOMAIN ch : id \in TxIdsOf(ch[i])}
<1>1. S \in SUBSET Nat /\ S # {} /\ \A n \in S : n \in 1 .. Len(ch) /\ n <= Len(ch)
  BY ChainType DEF Confirmed
<1>2. Len(ch) \in Nat
  BY ChainType
<1> HIDE DEF S
<1>3. Max(S) \in S
  BY <1>1, <1>2, GreatestExists
<1>4. Max(S) \in 1 .. Len(ch)
  BY <1>1, <1>3
<1> QED
  BY <1>2, <1>4 DEF HeightOf, Height, S
-----------------------------------------------------------------------------
(***************************************************************************)
(* The blocks that the three ways of storing one build or let through      *)
(***************************************************************************)

\* The fees of a block whose transactions passed verification add up.
LEMMA BlockFeesType ==
  ASSUME NEW txs \in Seq(Txs), \A k \in DOMAIN txs : CalculateFee(txs[k]) \in Int
  PROVE  BlockFees(txs) \in Int
BY FiniteDomain, TotalType DEF BlockFees

\* A block made of transactions that verify on the chain, with the reward for
\* its height, is acceptable there: MineBlock of the node, and of the CLI.
LEMMA BuiltAcceptable ==
  ASSUME NEW ch, IsChain(ch), NEW maker \in Makers, NEW reward \in Int, NEW txs \in Seq(Txs),
         \A k \in DOMAIN txs : VerifyTransaction(ch, txs[k]) = "valid",
         reward <= GetBlockSubsidy(Height(ch) + 1) + BlockFees(txs),
         NEW b, b = [id   |-> <<Height(ch) + 1, maker, reward>>, prev |-> Tip(ch), txs  |-> txs]
  PROVE  b \in Block /\ Acceptable(ch, b)
<1>1. b \in Block
  BY ChainType DEF Block, CoinbaseIds
<1>2. ASSUME NEW k \in DOMAIN txs
      PROVE  /\ txs[k] \in Signed /\ CalculateFee(txs[k]) >= 0
             /\ \A o \in Inputs(txs[k]) :
                  /\ o[1] \in Confirmed(ch)
                  /\ IsCoinbase(o[1]) => Height(ch) + 1 - HeightOf(ch, o[1]) >= COINBASE_MATURITY
  <2>1. Verdict(ch, {}, Height(ch), txs[k]) = "valid"
    BY DEF VerifyTransaction
  <2>2. txs[k] \in Signed /\ CalculateFee(txs[k]) >= 0
    BY <2>1, ValidVerdict
  <2>3. ASSUME NEW o \in Inputs(txs[k])
        PROVE  /\ o[1] \in Confirmed(ch)
               /\ IsCoinbase(o[1]) => Height(ch) + 1 - HeightOf(ch, o[1]) >= COINBASE_MATURITY
    <3>1. ~Unknown(ch, {}, o) /\ ~Immature(ch, {}, Height(ch), o)
      BY <2>1, ValidVerdict DEF Inputs, Range
    <3>2. o[1] \in Confirmed(ch)
      BY <3>1 DEF Unknown
    <3>3. HeightOf(ch, o[1]) \in Int /\ Height(ch) \in Int
      BY <3>2, HeightOfType, ChainType
    <3>4. IsCoinbase(o[1]) => ~(Height(ch) - HeightOf(ch, o[1]) < COINBASE_MATURITY)
      BY <3>1 DEF Immature
    <3> QED
      BY <3>2, <3>3, <3>4, ConsensusAssumption
  <2> QED
    BY <2>2, <2>3
<1>3. InputsGood(ch, b)
  BY <1>2 DEF InputsGood
<1>4. \A t \in Range(b.txs) : t \in Signed /\ CalculateFee(t) >= 0
  BY <1>2 DEF Range
<1> QED
  BY <1>1, <1>3, <1>4 DEF Acceptable, Reward

\* HandleBlock lets through only blocks that are acceptable, if they extend
\* the tip.
LEMMA CheckedAcceptable ==
  ASSUME NEW ch, IsChain(ch), NEW b \in Block,
         b.prev = Tip(ch), b.id[1] = Height(ch) + 1, BlockVerdict(ch, b) = "valid"
  PROVE  Acceptable(ch, b)
<1> DEFINE bad == {k \in DOMAIN b.txs : SpendsTwice(b, k) \/ VerifyInBlock(ch, b, k) # "valid"}
<1>1. bad = {}
  BY DEF BlockVerdict
<1>2. \A k \in DOMAIN b.txs : VerifyInBlock(ch, b, k) = "valid"
  BY <1>1
<1> HIDE DEF bad
<1>3. ~(Reward(b) > GetBlockSubsidy(Height(ch) + 1) + BlockFees(b.txs))
  BY <1>1 DEF BlockVerdict, bad
<1>4. Reward(b) \in Int /\ b.id \in CoinbaseIds /\ b.txs \in Seq(Txs)
  BY DEF Block, CoinbaseIds, Reward
<1>5. GetBlockSubsidy(Height(ch) + 1) + BlockFees(b.txs) \in Int
  <2>1. \A k \in DOMAIN b.txs : CalculateFee(b.txs[k]) \in Int
    BY <1>2, ValidVerdict DEF VerifyInBlock
  <2>2. BlockFees(b.txs) \in Int
    BY <1>4, <2>1, BlockFeesType
  <2> QED
    BY <2>2, SubsidyType, ChainType
<1>6. Reward(b) <= GetBlockSubsidy(Height(ch) + 1) + BlockFees(b.txs)
  BY <1>3, <1>4, <1>5
<1>7. ASSUME NEW k \in DOMAIN b.txs
      PROVE  /\ b.txs[k] \in Signed /\ CalculateFee(b.txs[k]) >= 0
             /\ \A o \in Inputs(b.txs[k]) :
                  \/ o[1] \in {b.txs[j] : j \in 1 .. k - 1}
                  \/ /\ o[1] \in Confirmed(ch)
                     /\ IsCoinbase(o[1]) =>
                          Height(ch) + 1 - HeightOf(ch, o[1]) >= COINBASE_MATURITY
  <2>1. Verdict(ch, Context(b, k), Height(ch) + 1, b.txs[k]) = "valid"
    BY <1>2 DEF VerifyInBlock
  <2>2. b.txs[k] \in Signed /\ CalculateFee(b.txs[k]) >= 0
    BY <2>1, ValidVerdict
  <2>3. ASSUME NEW o \in Inputs(b.txs[k]), o[1] \notin {b.txs[j] : j \in 1 .. k - 1}
        PROVE  /\ o[1] \in Confirmed(ch)
               /\ IsCoinbase(o[1]) => Height(ch) + 1 - HeightOf(ch, o[1]) >= COINBASE_MATURITY
    <3>1. ~Unknown(ch, Context(b, k), o) /\ ~Immature(ch, Context(b, k), Height(ch) + 1, o)
      BY <2>1, ValidVerdict DEF Inputs, Range
    <3>2. IsCoinbase(b.id)
      BY <1>4, TransactionAssumption DEF IsCoinbase
    <3>3. o[1] # b.id
      BY <3>1, <3>2 DEF Immature, Context
    <3>4. o[1] \in Confirmed(ch)
      BY <2>3, <3>1, <3>3 DEF Unknown, Context
    <3>5. HeightOf(ch, o[1]) \in Int /\ Height(ch) \in Int
      BY <3>4, HeightOfType, ChainType
    <3>6. IsCoinbase(o[1]) => ~(Height(ch) + 1 - HeightOf(ch, o[1]) < COINBASE_MATURITY)
      BY <3>1, <3>5, ConsensusAssumption DEF Immature
    <3> QED
      BY <3>4, <3>5, <3>6, ConsensusAssumption
  <2> QED
    BY <2>2, <2>3
<1>8. InputsGood(ch, b)
  BY <1>7 DEF InputsGood
<1>9. \A t \in Range(b.txs) : t \in Signed /\ CalculateFee(t) >= 0
  BY <1>7 DEF Range
<1> QED
  BY <1>6, <1>8, <1>9 DEF Acceptable
-----------------------------------------------------------------------------
(***************************************************************************)
(* Type correctness                                                        *)
(***************************************************************************)

LEMMA BlockType ==
  ASSUME NEW b \in Block
  PROVE  /\ b.id \in CoinbaseIds /\ b.prev \in CoinbaseIds
         /\ b.txs \in Seq(Txs) /\ Len(b.txs) \in Nat /\ DOMAIN b.txs = 1 .. Len(b.txs)
         /\ \A k \in DOMAIN b.txs : b.txs[k] \in Txs
         /\ TxIdsOf(b) \subseteq Ids
BY LenProperties, ElementOfSeq DEF Block, TxIdsOf, Range, Ids

\* Update and FindUTXO write outpoints.
LEMMA UpdateType ==
  ASSUME NEW b \in Block, NEW set \in SUBSET (Ids \X Nat)
  PROVE  Update(set, b) \subseteq Ids \X Nat
<1>1. \A id : Entry(set, id) \subseteq Nat
  BY DEF Entry
<1>2. ASSUME NEW w \in Batch(set, b)
      PROVE  w.key \in Ids /\ w.left \subseteq Nat
  <2>1. CASE w = Create(<<0, 0>>, b.id)
    BY <2>1, BlockType, OutputsType DEF Create, Ids
  <2>2. ASSUME NEW k \in DOMAIN b.txs, w \in WritesOf(set, b, k)
        PROVE  w.key \in Ids /\ w.left \subseteq Nat
    <3>1. b.txs[k] \in Txs
      BY BlockType
    <3>2. CASE w = Create(<<k, Len(Vin[b.txs[k]]) + 1>>, b.txs[k])
      BY <3>1, <3>2, OutputsType DEF Create, Ids
    <3>3. ASSUME NEW j \in DOMAIN Vin[b.txs[k]],
                 w = Spend(set, <<k, j>>, Vin[b.txs[k]][j])
          PROVE  w.key \in Ids /\ w.left \subseteq Nat
      <4>1. Vin[b.txs[k]][j] \in Ids \X Int
        BY <3>1, TransactionAssumption, LenProperties, ElementOfSeq
      <4> QED
        BY <1>1, <3>3, <4>1 DEF Spend
    <3> QED
      BY <2>2, <3>2, <3>3 DEF WritesOf
  <2> QED
    BY <1>2, <2>1, <2>2 DEF Batch
<1> QED
  BY <1>2 DEF Update

LEMMA FindUTXOType ==
  ASSUME NEW ch, IsChain(ch)
  PROVE  FindUTXO(ch) \subseteq Ids \X Nat
<1>1. ASSUME NEW q \in Positions(ch)
      PROVE  TxAt(ch, q) \in Ids
  <2>1. PICK i \in DOMAIN ch : q \in {i} \X (0 .. Len(ch[i].txs))
    BY DEF Positions
  <2>2. ch[i] \in Block /\ q[1] = i /\ q[2] \in 0 .. Len(ch[i].txs)
    BY <2>1, ChainType
  <2> QED
    BY <2>2, BlockType DEF TxAt, Ids
<1>2. ASSUME NEW q \in Positions(ch)
      PROVE  KeptAt(ch, q) \subseteq Ids \X Nat
  BY <1>1, OutputsType DEF KeptAt, OutpointsOf
<1> QED
  BY <1>2 DEF FindUTXO

\* The mempool after AddTransaction holds what it held and the newcomer.
LEMMA AddTransactionType ==
  ASSUME NEW pool, NEW t, NEW new \in AddTransaction(pool, t)
  PROVE  new \subseteq pool \cup {t}
BY DEF AddTransaction

\* What the miner selects are candidates that verify.
LEMMA SelectionType ==
  ASSUME NEW candidates \in SUBSET Txs, NEW txs \in Selections(candidates)
  PROVE  /\ txs \in Seq(Txs)
         /\ \A k \in DOMAIN txs : txs[k] \in candidates /\ VerifyTransaction(chain, txs[k]) = "valid"
<1> DEFINE valid == {t \in candidates : VerifyTransaction(chain, t) = "valid"}
           room == MAX_BLOCK_TXS - 1
<1>1. PICK s \in SortedByFeeRate(valid) : txs = SubSeq(s, 1, IF Len(s) < room THEN Len(s) ELSE room)
  BY DEF Selections
<1> DEFINE n == IF Len(s) < room THEN Len(s) ELSE room
           c == Cardinality(valid)
<1>2. c \in Nat
  BY TransactionAssumption, FS_Subset, FS_CardinalityType
<1>3. s \in [1 .. c -> valid]
  BY DEF SortedByFeeRate, SetToSeqs
<1> HIDE DEF valid, c
<1>4. s \in Seq(valid)
  BY <1>2, <1>3, SeqDef
<1>5. Len(s) \in Nat /\ DOMAIN s = 1 .. Len(s)
  BY <1>4, LenProperties
<1>6. n \in Int /\ n <= Len(s)
  BY <1>5, LedgerAssumption
<1>7. \A i \in 1 .. n : s[i] \in valid
  BY <1>4, <1>5, <1>6, ElementOfSeq
<1>8. txs \in Seq(valid)
  BY <1>1, <1>6, <1>7, SubSeqProperties
<1>9. \A k \in DOMAIN txs : txs[k] \in valid
  BY <1>8, LenProperties, ElementOfSeq
<1>10. valid \subseteq Txs /\ txs \in Seq(Txs)
  BY <1>8, SeqMonotonic DEF valid
<1> QED
  BY <1>9, <1>10 DEF valid

\* Genesis and the block MineBlock builds are blocks.
LEMMA GenesisType == Genesis \in Block
BY SubsidyType, LedgerAssumption DEF Genesis, GenesisId, Block, CoinbaseIds

LEMMA MinedBlockType ==
  ASSUME IsChain(chain), NEW th \in Local, NEW txs \in Seq(Txs),
         \A k \in DOMAIN txs : VerifyTransaction(chain, txs[k]) = "valid"
  PROVE  MinedBlock(th, txs) \in Block
<1> DEFINE next == Height(chain) + 1
<1>1. next \in Nat /\ GetBlockSubsidy(next) + BlockFees(txs) \in Int
  <2>1. next \in Nat
    BY ChainType
  <2> HIDE DEF next
  <2>2. \A k \in DOMAIN txs : CalculateFee(txs[k]) \in Int
    BY ValidVerdict DEF VerifyTransaction
  <2>3. GetBlockSubsidy(next) \in Nat /\ BlockFees(txs) \in Int
    BY <2>1, <2>2, SubsidyType, BlockFeesType
  <2> QED
    BY <2>1, <2>3
<1>2. th \in Makers
  BY LedgerAssumption
<1>3. Tip(chain) \in CoinbaseIds
  BY ChainType
<1>4. <<next, th, GetBlockSubsidy(next) + BlockFees(txs)>> \in CoinbaseIds
  BY <1>1, <1>2 DEF CoinbaseIds
<1> QED
  BY <1>3, <1>4 DEF MinedBlock, Block

\* What a peer sends is a block.
LEMMA PeerBlockType ==
  ASSUME IsChain(chain), NEW b \in PeerBlocks
  PROVE  b \in Block
<1>1. ASSUME NEW prev \in {chain[i].id : i \in DOMAIN chain} \cup {UnknownId},
             NEW r \in PeerRewards, NEW body \in PeerBodies,
             b = [id |-> <<prev[1] + 1, Peer, r>>, prev |-> prev, txs |-> body]
      PROVE  b \in Block
  <2>1. prev \in CoinbaseIds
    BY LedgerAssumption, ChainType DEF UnknownId, CoinbaseIds, Block
  <2>2. prev[1] + 1 \in Nat /\ Peer \in Makers /\ r \in Int /\ body \in Seq(Txs)
    BY <2>1, LedgerAssumption DEF CoinbaseIds
  <2> QED
    BY <1>1, <2>1, <2>2 DEF Block, CoinbaseIds
<1>2. ASSUME b \in Range(Tail(chain))
      PROVE  b \in Block
  BY <1>2, HeadTailProperties, RangeOfSeq DEF IsChain
<1> QED
  BY <1>1, <1>2 DEF PeerBlocks

\* A thread that has verified a transaction is holding it.
HeldOK == \A th \in Threads : pc[th] = "verified" => held[th] \in Txs

LEMMA TypeInit == Init => TypeOK /\ HeldOK
<1> SUFFICES ASSUME Init PROVE TypeOK /\ HeldOK
  OBVIOUS
<1>1. chain \in Seq(Block) /\ chain # <<>>
  BY GenesisType DEF Init
<1>2. utxo \subseteq Ids \X Nat
  BY <1>1, FindUTXOType DEF Init, IsChain
<1>3. template \in [Local -> Block]
  BY GenesisType DEF Init, NoBlock
<1> QED
  BY <1>1, <1>2, <1>3 DEF Init, TypeOK, HeldOK, Committing

LEMMA TypeStep ==
  ASSUME TypeOK, HeldOK, [Next]_vars
  PROVE  TypeOK' /\ HeldOK'
<1> USE DEF TypeOK, HeldOK, Goto, At, AtFree, Committing
<1>0. IsChain(chain) /\ Local \subseteq Threads /\ Readers \subseteq Threads /\ Rpc \in Threads
  BY DEF IsChain, Threads, Local
<1>1. ASSUME NEW p \in Readers, NEW t \in Txs, ReceiveTx(p, t)
      PROVE  TypeOK' /\ HeldOK'
  <2>1. CASE held' = [held EXCEPT ![p] = t] /\ pc' = [pc EXCEPT ![p] = "verified"] /\ UNCHANGED score
    BY <1>0, <1>1, <2>1 DEF ReceiveTx, disk
  <2>2. CASE Misbehave(p, INVALID_TX_SCORE) /\ UNCHANGED held
    BY <1>0, <1>1, <2>2, LedgerAssumption DEF ReceiveTx, Misbehave, disk
  <2> QED
    BY <1>1, <2>1, <2>2 DEF ReceiveTx
<1>2. ASSUME NEW t \in Txs, SubmitTx(t)
      PROVE  TypeOK' /\ HeldOK'
  BY <1>0, <1>2 DEF SubmitTx, disk
<1>3. ASSUME NEW th \in Threads, AdmitTx(th)
      PROVE  TypeOK' /\ HeldOK'
  <2>1. mempool' \subseteq Txs
    BY <1>3, AddTransactionType DEF AdmitTx
  <2> QED
    BY <1>3, <2>1 DEF AdmitTx, disk
<1>4. ASSUME NEW p \in Readers, NEW b \in PeerBlocks, ReceiveBlock(p, b)
      PROVE  TypeOK' /\ HeldOK'
  <2>1. b \in Block
    BY <1>0, PeerBlockType
  <2>2. CASE AddBlock(p, b) /\ UNCHANGED score
    <3>1. IsChain(chain')
      BY <1>0, <2>1, <2>2, AppendChain DEF AddBlock
    <3> QED
      BY <1>0, <1>4, <2>2, <3>1 DEF ReceiveBlock, AddBlock, IsChain
  <2>3. CASE Misbehave(p, BAN_SCORE_THRESHOLD) /\ UNCHANGED <<chain, lock>>
    BY <1>0, <1>4, <2>3, LedgerAssumption DEF ReceiveBlock, Misbehave
  <2> QED
    BY <1>4, <2>2, <2>3 DEF ReceiveBlock
<1>5. ASSUME NEW th \in Local, CopyMempool(th)
      PROVE  TypeOK' /\ HeldOK'
  BY <1>0, <1>5 DEF CopyMempool, disk
<1>6. ASSUME NEW th \in Local, SelectTxs(th)
      PROVE  TypeOK' /\ HeldOK'
  <2>1. template' \in [Local -> Block]
    <3>1. CASE UNCHANGED template
      BY <3>1
    <3>2. ASSUME NEW txs \in Selections(snapshot[th]),
                 template' = [template EXCEPT ![th] = MinedBlock(th, txs)]
          PROVE  template' \in [Local -> Block]
      <4>1. txs \in Seq(Txs) /\ \A k \in DOMAIN txs : VerifyTransaction(chain, txs[k]) = "valid"
        BY <1>6, <3>2, SelectionType
      <4>2. MinedBlock(th, txs) \in Block
        BY <1>0, <4>1, MinedBlockType
      <4> QED
        BY <3>2, <4>2
    <3> QED
      BY <1>6, <3>1, <3>2 DEF SelectTxs
  <2> QED
    BY <1>0, <1>6, <2>1 DEF SelectTxs, disk
<1>7. ASSUME NEW th \in Local, StoreMined(th)
      PROVE  TypeOK' /\ HeldOK'
  <2>1. IsChain(chain')
    BY <1>0, <1>7, AppendChain DEF StoreMined, AddBlock
  <2> QED
    BY <1>0, <1>7, <2>1, GenesisType DEF StoreMined, AddBlock, IsChain, NoBlock
<1>8. ASSUME NEW th \in Local, MiningFails(th)
      PROVE  TypeOK' /\ HeldOK'
  BY <1>0, <1>8, GenesisType DEF MiningFails, NoBlock, disk
<1>9. ASSUME NEW th \in Threads, UpdateUtxo(th)
      PROVE  TypeOK' /\ HeldOK'
  <2>1. Last(chain) \in Block
    BY <1>0, ChainType DEF Last
  <2>2. utxo' \subseteq Ids \X Nat
    BY <1>9, <2>1, UpdateType DEF UpdateUtxo
  <2> QED
    BY <1>9, <2>2 DEF UpdateUtxo
<1>10. ASSUME NEW th \in Threads, UpdateUtxoFails(th)
       PROVE  TypeOK' /\ HeldOK'
  BY <1>10 DEF UpdateUtxoFails, disk
<1>11. ASSUME NEW th \in Threads, CleanMempool(th)
       PROVE  TypeOK' /\ HeldOK'
  BY <1>11 DEF CleanMempool, RemoveBlockTransactions, disk
<1>12. ASSUME NEW th \in Threads, PublishHeight(th)
       PROVE  TypeOK' /\ HeldOK'
  BY <1>0, <1>12, ChainType DEF PublishHeight, disk
<1>13. ASSUME Exit, faults' \in Nat, stale' \in BOOLEAN
       PROVE  TypeOK' /\ HeldOK'
  BY <1>13, GenesisType DEF Exit, NoBlock, disk
<1>14. Stop => TypeOK' /\ HeldOK'
  BY <1>13 DEF Stop
<1>15. Crash => TypeOK' /\ HeldOK'
  BY <1>13 DEF Crash
<1>16. Start => TypeOK' /\ HeldOK'
  BY <1>0, ChainType DEF Start, disk, work
<1>17. ASSUME NEW t \in Txs, CliSend(t)
       PROVE  TypeOK' /\ HeldOK'
  <2> DEFINE b == [id   |-> <<Height(chain) + 1, Cli, GetBlockSubsidy(Height(chain) + 1)>>,
                   prev |-> Tip(chain), txs |-> <<t>>]
  <2>1. b \in Block
    BY <1>0, SubsidyType, ChainType, LedgerAssumption DEF Block, CoinbaseIds
  <2>2. IsChain(chain')
    BY <1>0, <1>17, <2>1, AppendChain DEF CliSend
  <2> QED
    BY <1>17, <2>2 DEF CliSend, IsChain, work
<1>18. CliUpdate => TypeOK' /\ HeldOK'
  <2>1. Last(chain) \in Block
    BY <1>0, ChainType DEF Last
  <2>2. CliUpdate => utxo' \subseteq Ids \X Nat
    BY <2>1, UpdateType DEF CliUpdate
  <2> QED
    BY <2>2 DEF CliUpdate, work
<1>19. ReindexWipe => TypeOK' /\ HeldOK'
  BY DEF ReindexWipe, work
<1>20. ReindexWrite => TypeOK' /\ HeldOK'
  BY <1>0, FindUTXOType DEF ReindexWrite, work
<1>21. UNCHANGED vars => TypeOK' /\ HeldOK'
  BY DEF vars, disk, work
<1> QED
  BY <1>1, <1>2, <1>3, <1>4, <1>5, <1>6, <1>7, <1>8, <1>9, <1>10, <1>11, <1>12, <1>14, <1>15,
     <1>16, <1>17, <1>18, <1>19, <1>20, <1>21
  DEF Next, Mine, Commit

\* Every variable keeps its type, and a verified transaction is held until it
\* is admitted.
THEOREM TypeCorrect == Spec => [](TypeOK /\ HeldOK)
<1> QED
  BY TypeInit, TypeStep, PTL DEF Spec

-----------------------------------------------------------------------------
(***************************************************************************)
(* Safety.  Two conjuncts of the inductive invariant are not properties of *)
(* any run:                                                                *)
(*   Linked        heights in coinbases are positions in the chain         *)
(*   TemplatesGood a block being mined is either overtaken, so that it no  *)
(*                 longer extends the tip, or acceptable                   *)
(* and PendingKnown says why a verified transaction never throws: what it  *)
(* spends is on the chain, and the chain forgets nothing.                  *)
(***************************************************************************)

Linked ==
  \A i \in DOMAIN chain : /\ chain[i].id[1] = i - 1
                          /\ i > 1 => chain[i].id[1] = chain[i].prev[1] + 1

TemplatesGood ==
  \A th \in Local : pc[th] = "pow" =>
    /\ template[th].prev[1] <= Height(chain)
    /\ template[th].prev = Tip(chain) => Acceptable(chain, template[th])

PendingKnown == \A t \in Pending : InputsKnown(chain, t)

Typed == TypeOK /\ HeldOK

-----------------------------------------------------------------------------
(***************************************************************************)
(* The chain                                                               *)
(***************************************************************************)

\* The height in the id of the tip is the height of the chain.
LEMMA TipHeight ==
  ASSUME Typed, Linked
  PROVE  Tip(chain)[1] = Height(chain)
BY ChainType DEF Typed, TypeOK, Linked, Tip, Height, IsChain

\* A block from a peer names a height one above the block it extends.
LEMMA PeerBlockLinked ==
  ASSUME Typed, Linked, NEW b \in PeerBlocks
  PROVE  b.id[1] = b.prev[1] + 1
<1>1. CASE b \in Range(Tail(chain))
  <2>1. chain \in Seq(Block) /\ chain # <<>> /\ Len(chain) \in Nat \ {0} /\ DOMAIN chain = 1 .. Len(chain)
    BY ChainType DEF Typed, TypeOK, IsChain
  <2>2. /\ Tail(chain) \in Seq(Block) /\ Len(Tail(chain)) = Len(chain) - 1
        /\ \A i \in 1 .. Len(Tail(chain)) : Tail(chain)[i] = chain[i + 1]
    BY <2>1, HeadTailProperties
  <2>3. PICK i \in 1 .. Len(Tail(chain)) : b = Tail(chain)[i]
    BY <1>1, <2>2, LenProperties DEF Range
  <2>4. b = chain[i + 1] /\ i + 1 \in DOMAIN chain /\ i + 1 > 1
    BY <2>1, <2>2, <2>3
  <2> QED
    BY <2>4 DEF Linked
<1> QED
  BY <1>1 DEF PeerBlocks

\* A step leaves the chain alone or adds one acceptable block to it.
LEMMA ChainStep ==
  ASSUME Typed, Linked, TemplatesGood, [Next]_vars
  PROVE  \/ UNCHANGED chain
         \/ \E b \in Block : chain' = Append(chain, b) /\ Acceptable(chain, b)
<1> DEFINE Grows == \E b \in Block : chain' = Append(chain, b) /\ Acceptable(chain, b)
<1>0. IsChain(chain) /\ Tip(chain)[1] = Height(chain)
  BY TipHeight DEF Typed, TypeOK, IsChain
<1>1. ASSUME NEW p \in Readers, NEW b \in PeerBlocks, ReceiveBlock(p, b)
      PROVE  UNCHANGED chain \/ Grows
  <2>1. CASE UNCHANGED chain
    BY <2>1
  <2>2. CASE BlockVerdict(chain, b) = "valid" /\ AddBlock(p, b)
    <3>1. b \in Block /\ b.id[1] = b.prev[1] + 1
      BY <1>0, PeerBlockType, PeerBlockLinked
    <3>2. b.prev = Tip(chain) /\ b.id[1] = Height(chain) + 1 /\ chain' = Append(chain, b)
      BY <1>0, <2>2, <3>1 DEF AddBlock
    <3>3. Acceptable(chain, b)
      BY <1>0, <2>2, <3>1, <3>2, CheckedAcceptable
    <3> QED
      BY <3>1, <3>2, <3>3
  <2> QED
    BY <1>1, <2>1, <2>2 DEF ReceiveBlock
<1>2. ASSUME NEW th \in Local, StoreMined(th)
      PROVE  Grows
  <2>1. template[th] \in Block /\ pc[th] = "pow"
    BY <1>2 DEF StoreMined, AtFree, At, Typed, TypeOK
  <2>2. template[th].prev = Tip(chain) /\ chain' = Append(chain, template[th])
    BY <1>2 DEF StoreMined, AddBlock
  <2> QED
    BY <2>1, <2>2 DEF TemplatesGood
<1>3. ASSUME NEW t \in Txs, CliSend(t)
      PROVE  Grows
  <2> DEFINE next == Height(chain) + 1
             b == [id |-> <<next, Cli, GetBlockSubsidy(next)>>, prev |-> Tip(chain), txs |-> <<t>>]
  <2>1. chain' = Append(chain, b) /\ VerifyTransaction(chain, t) = "valid" /\ CalculateFee(t) = 0
    BY <1>3 DEF CliSend
  <2>2. BlockFees(<<t>>) = 0
    <3>1. [k \in DOMAIN <<t>> |-> CalculateFee(<<t>>[k])] = <<0>>
      BY <2>1
    <3> QED
      BY <3>1, SingleTotal DEF BlockFees
  <2>3. GetBlockSubsidy(next) \in Nat
    <3>1. next \in Nat
      BY <1>0, ChainType
    <3> HIDE DEF next
    <3> QED
      BY <3>1, SubsidyType
  <2>4. Cli \in Makers /\ <<t>> \in Seq(Txs) /\ \A k \in DOMAIN <<t>> : VerifyTransaction(chain, <<t>>[k]) = "valid"
    BY <2>1, LedgerAssumption
  <2>5. GetBlockSubsidy(next) <= GetBlockSubsidy(next) + BlockFees(<<t>>)
    BY <2>2, <2>3
  <2>6. b \in Block /\ Acceptable(chain, b)
    <3> DEFINE txs == <<t>>
               reward == GetBlockSubsidy(next)
               built == b
    <3>1. built = [id |-> <<Height(chain) + 1, Cli, reward>>, prev |-> Tip(chain), txs |-> txs]
      OBVIOUS
    <3>2. /\ txs \in Seq(Txs) /\ \A k \in DOMAIN txs : VerifyTransaction(chain, txs[k]) = "valid"
          /\ reward \in Int /\ reward <= GetBlockSubsidy(Height(chain) + 1) + BlockFees(txs)
      BY <2>3, <2>4, <2>5
    <3> HIDE DEF txs, reward, built
    <3>3. built \in Block /\ Acceptable(chain, built)
      BY <1>0, <2>4, <3>1, <3>2, BuiltAcceptable
    <3> QED
      BY <3>3 DEF built, reward, txs
  <2> QED
    BY <2>1, <2>6
<1>4. ASSUME NEW p \in Readers, NEW t \in Txs, ReceiveTx(p, t)
      PROVE  UNCHANGED chain
  BY <1>4 DEF ReceiveTx, disk
<1>5. ASSUME NEW t \in Txs, SubmitTx(t)
      PROVE  UNCHANGED chain
  BY <1>5 DEF SubmitTx, disk
<1>6. ASSUME NEW th \in Threads,
             AdmitTx(th) \/ UpdateUtxo(th) \/ CleanMempool(th) \/ PublishHeight(th) \/ UpdateUtxoFails(th)
      PROVE  UNCHANGED chain
  BY <1>6 DEF AdmitTx, UpdateUtxo, CleanMempool, PublishHeight, UpdateUtxoFails, disk
<1>7. ASSUME NEW th \in Local, CopyMempool(th) \/ SelectTxs(th) \/ MiningFails(th)
      PROVE  UNCHANGED chain
  BY <1>7 DEF CopyMempool, SelectTxs, MiningFails, disk
<1>8. Stop \/ Crash \/ Start \/ CliUpdate \/ ReindexWipe \/ ReindexWrite => UNCHANGED chain
  BY DEF Stop, Crash, Exit, Start, CliUpdate, ReindexWipe, ReindexWrite, disk
<1>9. UNCHANGED vars => UNCHANGED chain
  BY DEF vars, disk
<1> HIDE DEF Grows
<1>10. UNCHANGED chain \/ Grows
  BY <1>1, <1>2, <1>3, <1>4, <1>5, <1>6, <1>7, <1>8, <1>9 DEF Next, Mine, Commit
<1> QED
  BY <1>10 DEF Grows

\* Linked is kept by every acceptable block.
LEMMA LinkedStep ==
  ASSUME Typed, Linked, TemplatesGood, [Next]_vars
  PROVE  Linked'
<1>0. IsChain(chain) /\ Tip(chain)[1] = Height(chain)
  BY TipHeight DEF Typed, TypeOK, IsChain
<1>1. CASE UNCHANGED chain
  BY <1>1 DEF Linked
<1>2. ASSUME NEW b \in Block, chain' = Append(chain, b), Acceptable(chain, b)
      PROVE  Linked'
  <2>1. /\ Len(chain) \in Nat \ {0} /\ DOMAIN chain = 1 .. Len(chain)
        /\ DOMAIN chain' = 1 .. Len(chain) + 1
        /\ \A i \in 1 .. Len(chain) : chain'[i] = chain[i]
        /\ chain'[Len(chain) + 1] = b
    BY <1>0, <1>2, AppendChain, ChainType
  <2>2. b.id[1] = Len(chain) /\ b.id[1] = b.prev[1] + 1
    BY <1>0, <1>2, <2>1 DEF Acceptable, Height
  <2>3. ASSUME NEW i \in DOMAIN chain'
        PROVE  chain'[i].id[1] = i - 1 /\ (i > 1 => chain'[i].id[1] = chain'[i].prev[1] + 1)
    <3>1. CASE i = Len(chain) + 1
      BY <2>1, <2>2, <3>1
    <3>2. CASE i # Len(chain) + 1
      <4>1. i \in DOMAIN chain /\ chain'[i] = chain[i]
        BY <2>1, <3>2
      <4> QED
        BY <4>1 DEF Linked
    <3> QED
      BY <3>1, <3>2
  <2> QED
    BY <2>3 DEF Linked
<1> QED
  BY <1>1, <1>2, ChainStep
-----------------------------------------------------------------------------
(***************************************************************************)
(* Blocks being mined                                                      *)
(***************************************************************************)

\* A template that was good stays good: a chain that has grown by a block
\* since has a tip the template does not extend.
LEMMA TemplateStays ==
  ASSUME Typed, Linked, TemplatesGood, [Next]_vars, NEW th \in Local, pc[th] = "pow"
  PROVE  /\ template[th].prev[1] <= Height(chain')
         /\ template[th].prev = Tip(chain') => Acceptable(chain', template[th])
<1>0. /\ IsChain(chain) /\ Height(chain) \in Nat
      /\ template[th].prev[1] \in Nat /\ template[th].prev[1] <= Height(chain)
  <2>1. template[th] \in Block
    BY DEF Typed, TypeOK
  <2>2. template[th].prev[1] \in Nat
    BY <2>1 DEF Block, CoinbaseIds
  <2> QED
    BY <2>2, ChainType DEF Typed, TypeOK, IsChain, TemplatesGood
<1>1. CASE UNCHANGED chain
  BY <1>1 DEF TemplatesGood
<1>2. ASSUME NEW b \in Block, chain' = Append(chain, b), Acceptable(chain, b)
      PROVE  /\ template[th].prev[1] <= Height(chain')
             /\ template[th].prev # Tip(chain')
  <2>1. Height(chain') = Height(chain) + 1 /\ Tip(chain') = b.id
    BY <1>0, <1>2, AppendChain
  <2>2. b.id[1] = Height(chain) + 1
    BY <1>2 DEF Acceptable
  <2>3. template[th].prev[1] # Tip(chain')[1]
    BY <1>0, <2>1, <2>2
  <2> QED
    BY <1>0, <2>1, <2>3
<1> QED
  BY <1>1, <1>2, ChainStep

\* A template is good when SelectTxs has built it.
LEMMA TemplateBuilt ==
  ASSUME Typed, Linked, NEW th \in Local, NEW txs \in Selections(snapshot[th])
  PROVE  /\ MinedBlock(th, txs).prev[1] <= Height(chain)
         /\ Acceptable(chain, MinedBlock(th, txs))
<1> DEFINE next == Height(chain) + 1
           reward == GetBlockSubsidy(next) + BlockFees(txs)
           b == MinedBlock(th, txs)
<1>1. IsChain(chain) /\ Tip(chain)[1] = Height(chain) /\ Height(chain) \in Nat
  BY TipHeight, ChainType DEF Typed, TypeOK, IsChain
<1>2. txs \in Seq(Txs) /\ \A k \in DOMAIN txs : VerifyTransaction(chain, txs[k]) = "valid"
  BY SelectionType DEF Typed, TypeOK
<1>3. reward \in Int
  <2>1. next \in Nat
    BY <1>1
  <2> HIDE DEF next
  <2>2. \A k \in DOMAIN txs : CalculateFee(txs[k]) \in Int
    BY <1>2, ValidVerdict DEF VerifyTransaction
  <2>3. GetBlockSubsidy(next) \in Nat /\ BlockFees(txs) \in Int
    BY <1>2, <2>1, <2>2, SubsidyType, BlockFeesType
  <2> QED
    BY <2>3
<1>4. th \in Makers
  BY LedgerAssumption
<1>5. /\ b = [id |-> <<Height(chain) + 1, th, reward>>, prev |-> Tip(chain), txs |-> txs]
      /\ b.prev = Tip(chain)
  BY DEF MinedBlock
<1>6. reward <= GetBlockSubsidy(Height(chain) + 1) + BlockFees(txs)
  BY <1>3
<1> HIDE DEF reward, b
<1>7. Acceptable(chain, b)
  BY <1>1, <1>2, <1>3, <1>4, <1>5, <1>6, BuiltAcceptable
<1> QED
  BY <1>1, <1>5, <1>7 DEF b

LEMMA TemplatesStep ==
  ASSUME Typed, Linked, TemplatesGood, [Next]_vars
  PROVE  TemplatesGood'
<1> DEFINE Kept(th) == pc'[th] = "pow" => pc[th] = "pow" /\ template'[th] = template[th]
           Built(th) == /\ UNCHANGED chain
                        /\ \E txs \in Selections(snapshot[th]) : template'[th] = MinedBlock(th, txs)
<1> USE DEF Goto
<1>0. /\ Local \subseteq Threads /\ Readers \subseteq Threads /\ Rpc \in Threads
      /\ pc \in [Threads -> {"idle", "verified", "snapshot", "pow", "banned"} \cup Committing]
      /\ template \in [Local -> Block]
  BY DEF Threads, Local, Typed, TypeOK
<1>1. ASSUME NEW p \in Readers, NEW t \in Txs, ReceiveTx(p, t)
      PROVE  \A th \in Local : Kept(th)
  BY <1>0, <1>1 DEF ReceiveTx, Misbehave
<1>2. ASSUME NEW p \in Readers, NEW b \in PeerBlocks, ReceiveBlock(p, b)
      PROVE  \A th \in Local : Kept(th)
  BY <1>0, <1>2 DEF ReceiveBlock, Misbehave, AddBlock
<1>3. ASSUME NEW t \in Txs, SubmitTx(t) \/ CliSend(t)
      PROVE  \A th \in Local : Kept(th)
  BY <1>0, <1>3 DEF SubmitTx, CliSend, work
<1>4. ASSUME NEW th \in Threads,
             AdmitTx(th) \/ UpdateUtxo(th) \/ CleanMempool(th) \/ PublishHeight(th) \/ UpdateUtxoFails(th)
      PROVE  \A other \in Local : Kept(other)
  BY <1>0, <1>4 DEF AdmitTx, UpdateUtxo, CleanMempool, PublishHeight, UpdateUtxoFails
<1>5. ASSUME NEW th \in Local, CopyMempool(th) \/ StoreMined(th) \/ MiningFails(th)
      PROVE  \A other \in Local : Kept(other)
  <2>1. CASE CopyMempool(th)
    BY <1>0, <2>1 DEF CopyMempool
  <2>2. CASE StoreMined(th)
    BY <1>0, <2>2 DEF StoreMined, AddBlock
  <2>3. CASE MiningFails(th)
    BY <1>0, <2>3 DEF MiningFails
  <2> QED
    BY <1>5, <2>1, <2>2, <2>3
<1>6. ASSUME NEW th \in Local, SelectTxs(th)
      PROVE  \A other \in Local : Kept(other) \/ Built(other)
  <2>1. CASE pc' = [pc EXCEPT ![th] = "idle"] /\ UNCHANGED template
    BY <1>0, <2>1
  <2>2. ASSUME NEW txs \in Selections(snapshot[th]),
               template' = [template EXCEPT ![th] = MinedBlock(th, txs)],
               pc' = [pc EXCEPT ![th] = "pow"]
        PROVE  \A other \in Local : Kept(other) \/ Built(other)
    <3>1. Built(th)
      BY <1>0, <1>6, <2>2 DEF SelectTxs, disk
    <3> HIDE DEF Built
    <3> QED
      BY <1>0, <2>2, <3>1
  <2> HIDE DEF Kept, Built
  <2> QED
    BY <1>6, <2>1, <2>2 DEF SelectTxs
<1>7. Stop \/ Crash \/ Start \/ CliUpdate \/ ReindexWipe \/ ReindexWrite
        => \A th \in Local : Kept(th)
  BY <1>0 DEF Stop, Crash, Exit, Start, CliUpdate, ReindexWipe, ReindexWrite, work
<1>8. UNCHANGED vars => \A th \in Local : Kept(th)
  BY DEF vars, work
<1> HIDE DEF Kept, Built
<1>9. \A th \in Local : Kept(th) \/ Built(th)
  BY <1>1, <1>2, <1>3, <1>4, <1>5, <1>6, <1>7, <1>8 DEF Next, Mine, Commit
<1>10. ASSUME NEW th \in Local, pc'[th] = "pow"
       PROVE  /\ template'[th].prev[1] <= Height(chain')
              /\ template'[th].prev = Tip(chain') => Acceptable(chain', template'[th])
  <2>1. CASE Kept(th)
    BY <1>10, <2>1, TemplateStays DEF Kept
  <2>2. CASE Built(th)
    BY <2>2, TemplateBuilt DEF Built
  <2> QED
    BY <1>9, <2>1, <2>2
<1> QED
  BY <1>10 DEF TemplatesGood

-----------------------------------------------------------------------------
(***************************************************************************)
(* Verified transactions                                                   *)
(***************************************************************************)

\* A step that adds no transaction to Pending keeps PendingKnown, and so does
\* one that adds a transaction which verifies on a chain that does not move.
LEMMA PendingShrinks ==
  ASSUME Typed, Linked, TemplatesGood, PendingKnown, [Next]_vars, Pending' \subseteq Pending
  PROVE  PendingKnown'
<1>1. CASE UNCHANGED chain
  BY <1>1 DEF PendingKnown, InputsKnown
<1>2. ASSUME NEW b \in Block, chain' = Append(chain, b)
      PROVE  PendingKnown'
  <2>1. IsChain(chain)
    BY DEF Typed, TypeOK, IsChain
  <2>2. \A t \in Pending : InputsKnown(chain', t)
    BY <1>2, <2>1, KnownStays DEF PendingKnown
  <2> QED
    BY <2>2 DEF PendingKnown, InputsKnown
<1> QED
  BY <1>1, <1>2, ChainStep

LEMMA PendingGrows ==
  ASSUME PendingKnown, NEW t, VerifyTransaction(chain, t) = "valid", UNCHANGED chain,
         Pending' \subseteq Pending \cup {t}
  PROVE  PendingKnown'
BY ValidIsKnown DEF PendingKnown, InputsKnown

\* Pending, element by element, before a step and after it.
HeldBack(pool, copies, hands, t) ==
  \/ t \in pool
  \/ \E th \in Local : t \in copies[th]
  \/ t # None /\ \E th \in Threads : t = hands[th]

LEMMA PendingMembers ==
  /\ \A t : t \in Pending <=> HeldBack(mempool, snapshot, held, t)
  /\ \A t : t \in Pending' <=> HeldBack(mempool', snapshot', held', t)
<1> DEFINE Copies == UNION {snapshot[th] : th \in Local}
           Hands == {held[th] : th \in Threads}
<1>1. \A t : t \in Copies <=> \E th \in Local : t \in snapshot[th]
  BY Zenon
<1>2. \A t : t \in Copies' <=> \E th \in Local : t \in snapshot'[th]
  BY Zenon
<1>3. \A t : t \in Hands <=> \E th \in Threads : t = held[th]
  OBVIOUS
<1>4. \A t : t \in Hands' <=> \E th \in Threads : t = held'[th]
  OBVIOUS
<1>5. Pending = mempool \cup Copies \cup (Hands \ {None})
  BY DEF Pending
<1>6. Pending' = mempool' \cup Copies' \cup (Hands' \ {None})
  BY DEF Pending
<1> HIDE DEF Copies, Hands
<1> QED
  BY <1>1, <1>2, <1>3, <1>4, <1>5, <1>6 DEF HeldBack

\* What each action takes from where to where.
LEMMA PendingStep ==
  ASSUME Typed, Linked, TemplatesGood, PendingKnown, [Next]_vars
  PROVE  PendingKnown'
<1> USE PendingMembers DEF HeldBack
<1>0. /\ Local \subseteq Threads /\ Readers \subseteq Threads /\ Rpc \in Threads
      /\ held \in [Threads -> Txs \cup {None}] /\ snapshot \in [Local -> SUBSET Txs]
      /\ None \notin Txs
  BY LedgerAssumption DEF Threads, Local, Typed, TypeOK
<1>1. ASSUME NEW p \in Readers, NEW t \in Txs, ReceiveTx(p, t)
      PROVE  PendingKnown'
  <2>1. CASE UNCHANGED held
    <3>1. Pending' \subseteq Pending
      BY <1>1, <2>1 DEF ReceiveTx
    <3> QED
      BY <3>1, PendingShrinks
  <2>2. CASE VerifyTransaction(chain, t) = "valid" /\ held' = [held EXCEPT ![p] = t]
    <3>1. Pending' \subseteq Pending \cup {t}
      BY <1>0, <1>1, <2>2 DEF ReceiveTx
    <3> QED
      BY <1>1, <2>2, <3>1, PendingGrows DEF ReceiveTx, disk
  <2> QED
    BY <1>1, <2>1, <2>2 DEF ReceiveTx
<1>2. ASSUME NEW t \in Txs, SubmitTx(t)
      PROVE  PendingKnown'
  <2>1. Pending' \subseteq Pending \cup {t}
    BY <1>0, <1>2 DEF SubmitTx
  <2> QED
    BY <1>2, <2>1, PendingGrows DEF SubmitTx, disk
<1>3. ASSUME NEW th \in Threads, AdmitTx(th)
      PROVE  Pending' \subseteq Pending
  <2>1. held[th] \in Txs /\ held[th] # None
    BY <1>0, <1>3 DEF AdmitTx, At, Typed, HeldOK
  <2>2. mempool' \subseteq mempool \cup {held[th]}
    BY <1>3, AddTransactionType DEF AdmitTx
  <2>3. {held'[i] : i \in Threads} \subseteq {held[i] : i \in Threads} \cup {None} /\ UNCHANGED snapshot
    BY <1>0, <1>3 DEF AdmitTx
  <2> QED
    BY <1>0, <2>1, <2>2, <2>3
<1>4. ASSUME NEW p \in Readers, NEW b \in PeerBlocks, ReceiveBlock(p, b)
      PROVE  Pending' \subseteq Pending
  BY <1>4 DEF ReceiveBlock
<1>5. ASSUME NEW th \in Local, CopyMempool(th)
      PROVE  Pending' \subseteq Pending
  BY <1>0, <1>5 DEF CopyMempool
<1>6. ASSUME NEW th \in Local, SelectTxs(th)
      PROVE  Pending' \subseteq Pending
  BY <1>0, <1>6 DEF SelectTxs
<1>7. ASSUME NEW th \in Local, StoreMined(th) \/ MiningFails(th)
      PROVE  Pending' \subseteq Pending
  BY <1>7 DEF StoreMined, MiningFails
<1>8. ASSUME NEW th \in Threads,
             UpdateUtxo(th) \/ CleanMempool(th) \/ PublishHeight(th) \/ UpdateUtxoFails(th)
      PROVE  Pending' \subseteq Pending
  BY <1>8 DEF UpdateUtxo, CleanMempool, RemoveBlockTransactions, PublishHeight, UpdateUtxoFails
<1>9. Stop \/ Crash => Pending' \subseteq Pending
  <2>1. Exit => /\ mempool' = {}
                /\ \A th \in Threads : held'[th] = None
                /\ \A th \in Local : snapshot'[th] = {}
    BY DEF Exit
  <2>2. Stop \/ Crash => Exit
    BY DEF Stop, Crash
  <2> QED
    BY <2>1, <2>2
<1>10. Start \/ CliUpdate \/ ReindexWipe \/ ReindexWrite => Pending' \subseteq Pending
  BY DEF Start, CliUpdate, ReindexWipe, ReindexWrite, work
<1>11. ASSUME NEW t \in Txs, CliSend(t)
       PROVE  Pending' \subseteq Pending
  BY <1>11 DEF CliSend, work
<1>12. UNCHANGED vars => Pending' \subseteq Pending
  BY DEF vars, work
<1>13. PendingKnown' \/ Pending' \subseteq Pending
  BY <1>1, <1>2, <1>3, <1>4, <1>5, <1>6, <1>7, <1>8, <1>9, <1>10, <1>11, <1>12
  DEF Next, Mine, Commit
<1> QED
  BY <1>13, PendingShrinks

-----------------------------------------------------------------------------
(***************************************************************************)
(* The lock and the published height                                       *)
(***************************************************************************)

\* Every action but those that store a block and those that follow leaves the
\* lock alone and moves its thread from one label outside to another.
LEMMA CommitStep ==
  ASSUME Typed, CommitExclusive, HeightPublished, [Next]_vars
  PROVE  CommitExclusive' /\ HeightPublished'
<1> USE DEF Typed, TypeOK, CommitExclusive, HeightPublished, Goto, At, AtFree, Committing
<1>0. Local \subseteq Threads /\ Readers \subseteq Threads /\ Rpc \in Threads /\ None \notin Threads
  BY LedgerAssumption DEF Threads, Local
<1>1. ASSUME NEW p \in Readers, NEW t \in Txs, ReceiveTx(p, t)
      PROVE  CommitExclusive' /\ HeightPublished'
  BY <1>0, <1>1 DEF ReceiveTx, Misbehave, disk
<1>2. ASSUME NEW t \in Txs, SubmitTx(t)
      PROVE  CommitExclusive' /\ HeightPublished'
  BY <1>0, <1>2 DEF SubmitTx, disk
<1>3. ASSUME NEW th \in Threads, AdmitTx(th)
      PROVE  CommitExclusive' /\ HeightPublished'
  BY <1>0, <1>3 DEF AdmitTx, disk
<1>4. ASSUME NEW p \in Readers, NEW b \in PeerBlocks, ReceiveBlock(p, b)
      PROVE  CommitExclusive' /\ HeightPublished'
  <2>1. CASE AddBlock(p, b)
    BY <1>0, <1>4, <2>1 DEF ReceiveBlock, AddBlock
  <2>2. CASE Misbehave(p, BAN_SCORE_THRESHOLD) /\ UNCHANGED <<chain, lock>>
    BY <1>0, <1>4, <2>2 DEF ReceiveBlock, Misbehave
  <2> QED
    BY <1>4, <2>1, <2>2 DEF ReceiveBlock
<1>5. ASSUME NEW th \in Local, CopyMempool(th)
      PROVE  CommitExclusive' /\ HeightPublished'
  BY <1>0, <1>5 DEF CopyMempool, disk
<1>6. ASSUME NEW th \in Local, SelectTxs(th)
      PROVE  CommitExclusive' /\ HeightPublished'
  BY <1>0, <1>6 DEF SelectTxs, disk
<1>7. ASSUME NEW th \in Local, StoreMined(th)
      PROVE  CommitExclusive' /\ HeightPublished'
  BY <1>0, <1>7 DEF StoreMined, AddBlock
<1>8. ASSUME NEW th \in Local, MiningFails(th)
      PROVE  CommitExclusive' /\ HeightPublished'
  BY <1>0, <1>8 DEF MiningFails, disk
<1>9. ASSUME NEW th \in Threads, UpdateUtxo(th)
      PROVE  CommitExclusive' /\ HeightPublished'
  BY <1>0, <1>9 DEF UpdateUtxo
<1>10. ASSUME NEW th \in Threads, CleanMempool(th)
       PROVE  CommitExclusive' /\ HeightPublished'
  BY <1>0, <1>10 DEF CleanMempool
<1>11. ASSUME NEW th \in Threads, PublishHeight(th)
       PROVE  CommitExclusive' /\ HeightPublished'
  BY <1>0, <1>11 DEF PublishHeight, disk
<1>12. ASSUME NEW th \in Threads, UpdateUtxoFails(th)
       PROVE  CommitExclusive' /\ HeightPublished'
  BY <1>0, <1>12 DEF UpdateUtxoFails
<1>13. Stop \/ Crash => CommitExclusive' /\ HeightPublished'
  <2>1. Exit => /\ lock' = None /\ mode' = "down"
                /\ \A th \in Threads : pc'[th] = "idle"
    BY DEF Exit
  <2>2. Stop \/ Crash => Exit
    BY DEF Stop, Crash
  <2> QED
    BY <1>0, <2>1, <2>2
<1>14. Start => CommitExclusive' /\ HeightPublished'
  BY DEF Start, disk, work
<1>15. CliUpdate \/ ReindexWipe \/ ReindexWrite => CommitExclusive' /\ HeightPublished'
  BY DEF CliUpdate, ReindexWipe, ReindexWrite, work
<1>16. ASSUME NEW t \in Txs, CliSend(t)
       PROVE  CommitExclusive' /\ HeightPublished'
  BY <1>16 DEF CliSend, work
<1>17. UNCHANGED vars => CommitExclusive' /\ HeightPublished'
  BY DEF vars, disk, work
<1> QED
  BY <1>1, <1>2, <1>3, <1>4, <1>5, <1>6, <1>7, <1>8, <1>9, <1>10, <1>11, <1>12, <1>13, <1>14,
     <1>15, <1>16, <1>17
  DEF Next, Mine, Commit

-----------------------------------------------------------------------------
(***************************************************************************)
(* The invariant and what follows from it                                  *)
(***************************************************************************)
IInv ==
  Typed /\ Linked /\ TemplatesGood /\ PendingKnown /\ CommitExclusive /\ HeightPublished

LEMMA InitIInv == Init => IInv
<1> SUFFICES ASSUME Init PROVE IInv
  OBVIOUS
<1>1. Typed
  BY TypeInit DEF Typed
<1>2. chain = <<Genesis>> /\ Genesis.id[1] = 0
  BY DEF Init, Genesis, GenesisId
<1>3. Linked /\ Height(chain) = 0
  BY <1>2 DEF Linked, Height
<1>4. TemplatesGood
  BY DEF Init, TemplatesGood, Threads
<1>5. Pending = {}
  BY DEF Init, Pending
<1>6. CommitExclusive
  BY LedgerAssumption DEF Init, CommitExclusive, Committing
<1>7. HeightPublished
  BY <1>3 DEF Init, HeightPublished
<1> QED
  BY <1>1, <1>3, <1>4, <1>5, <1>6, <1>7 DEF IInv, PendingKnown

LEMMA InductiveIInv == IInv /\ [Next]_vars => IInv'
<1> SUFFICES ASSUME IInv, [Next]_vars PROVE IInv'
  OBVIOUS
<1>1. Typed /\ Linked /\ TemplatesGood /\ PendingKnown /\ CommitExclusive /\ HeightPublished
  BY DEF IInv
<1>2. Typed'
  BY <1>1, TypeStep DEF Typed
<1>3. Linked' /\ TemplatesGood'
  BY <1>1, LinkedStep, TemplatesStep
<1>4. PendingKnown'
  BY <1>1, PendingStep
<1>5. CommitExclusive' /\ HeightPublished'
  BY <1>1, CommitStep
<1> QED
  BY <1>2, <1>3, <1>4, <1>5 DEF IInv

LEMMA AlwaysIInv == Spec => []IInv
BY InitIInv, InductiveIInv, PTL DEF Spec

\* blockchainMutex is held by the one thread that is between AddBlock and the
\* store to blockchainHeight, whatever fails or crashes.
THEOREM CommitsExclude == Spec => []CommitExclusive
<1>1. IInv => CommitExclusive
  BY DEF IInv
<1> QED
  BY <1>1, AlwaysIInv, PTL

\* No transaction that a thread or the mempool is holding on to makes
\* VerifyTransaction throw: the miner's cycle is never ended by one.
THEOREM PendingNeverThrow == Spec => []PendingNeverThrows
<1>1. ASSUME IInv
      PROVE  PendingNeverThrows
  <2>1. Pending \subseteq Txs
    BY <1>1, PendingMembers DEF IInv, Typed, TypeOK, HeldBack
  <2>2. \A t \in Pending : VerifyTransaction(chain, t) # "throws"
    BY <1>1, <2>1, KnownNeverThrows DEF IInv, PendingKnown
  <2> QED
    BY <2>2 DEF PendingNeverThrows
<1> QED
  BY <1>1, AlwaysIInv, PTL

\* The height read without the lock is that of the chain when the lock is free.
THEOREM HeightIsPublished == Spec => []HeightPublished
<1>1. IInv => HeightPublished
  BY DEF IInv
<1> QED
  BY <1>1, AlwaysIInv, PTL

\* The ledger implements the append-only chain of acceptable blocks.
THEOREM LedgerImplementsChain == Spec => ImplementsChain
<1>1. Init => Promise!Init
  BY DEF Init, Promise!Init
<1>2. ASSUME IInv, [Next]_vars
      PROVE  [Promise!Extend]_chain
  <2>1. CASE UNCHANGED chain
    BY <2>1
  <2>2. ASSUME NEW b \in Block, chain' = Append(chain, b), Acceptable(chain, b)
        PROVE  Promise!Extend
    <3>1. IsChain(chain)
      BY <1>2 DEF IInv, Typed, TypeOK, IsChain
    <3>2. chain'[Len(chain')] = b
      BY <2>2, <3>1, AppendChain
    <3> QED
      BY <2>2, <3>2 DEF Promise!Extend
  <2> QED
    BY <1>2, <2>1, <2>2, ChainStep DEF IInv
<1> QED
  BY <1>1, <1>2, AlwaysIInv, PTL DEF Spec, ImplementsChain, Promise!Spec

-----------------------------------------------------------------------------
(***************************************************************************)
(* UtxoCoversUnspent: the database that Update keeps beside the chain      *)
(* misses no unspent output.                                               *)
(*                                                                         *)
(* Update takes the last of several writes of a key.  That this write is   *)
(* good enough although it knows nothing of the others is what             *)
(* UpdateCovers shows, and it needs to know that the database holds no key *)
(* of a transaction the chain has not confirmed.                           *)
(***************************************************************************)

KeysConfirmed(set, ch) == \A u \in set : u[1] \in Confirmed(ch)

-----------------------------------------------------------------------------
(***************************************************************************)
(* One block                                                               *)
(***************************************************************************)

\* What an output that is unspent after a block is known to satisfy.
LEMMA UnspentAfter ==
  ASSUME NEW ch, IsChain(ch), NEW b \in Block, NEW o \in Unspent(Append(ch, b))
  PROVE  /\ o = <<o[1], o[2]>> /\ o[2] \in DOMAIN Outputs(o[1])
         /\ o[1] \in Confirmed(ch) \cup TxIdsOf(b)
         /\ \A k \in DOMAIN b.txs : o \notin Inputs(b.txs[k])
         /\ o[1] \in Confirmed(ch) => o \in Unspent(ch)
<1> DEFINE new == Append(ch, b)
           SpentIn(c) == UNION {Inputs(t) : t \in UNION {Range(c[i].txs) : i \in DOMAIN c}}
           MadeIn(c) == UNION {OutpointsOf(id) : id \in Confirmed(c)}
<1>1. \A c : Unspent(c) = MadeIn(c) \ SpentIn(c)
  BY DEF Unspent
<1>2. \A c, x : x \in SpentIn(c) <=> \E i \in DOMAIN c : \E t \in Range(c[i].txs) : x \in Inputs(t)
  OBVIOUS
<1>3. \A c, x : x \in MadeIn(c) <=> \E id \in Confirmed(c) : x \in OutpointsOf(id)
  OBVIOUS
<1> HIDE DEF SpentIn, MadeIn
<1>4. o \in MadeIn(new) /\ o \notin SpentIn(new)
  BY <1>1
<1>5. PICK id \in Confirmed(new) : o \in OutpointsOf(id)
  BY <1>3, <1>4
<1>6. o = <<o[1], o[2]>> /\ o[1] = id /\ o[2] \in DOMAIN Outputs(o[1])
  BY <1>5 DEF OutpointsOf
<1>7. /\ DOMAIN ch = 1 .. Len(ch) /\ DOMAIN new = 1 .. Len(ch) + 1 /\ Len(ch) \in Nat
      /\ \A i \in 1 .. Len(ch) : new[i] = ch[i]
      /\ new[Len(ch) + 1] = b
      /\ Confirmed(new) = Confirmed(ch) \cup TxIdsOf(b)
  <2>1. IsChain(new)
    BY AppendChain
  <2>2. DOMAIN new = 1 .. Len(new)
    BY <2>1, ChainType
  <2> HIDE DEF new
  <2> QED
    BY <2>2, AppendChain, ChainType DEF new
<1>8. \A k \in DOMAIN b.txs : o \notin Inputs(b.txs[k])
  <2> HIDE DEF new
  <2>1. Len(ch) + 1 \in DOMAIN new /\ new[Len(ch) + 1] = b
    BY <1>7
  <2>2. \A t \in Range(b.txs) : o \notin Inputs(t)
    BY <1>2, <1>4, <2>1
  <2> QED
    BY <2>2 DEF Range
<1>9. o \notin SpentIn(ch)
  <2> HIDE DEF new
  <2>1. \A i \in DOMAIN ch : i \in DOMAIN new /\ new[i] = ch[i]
    BY <1>7
  <2> QED
    BY <1>2, <1>4, <2>1
<1>10. o[1] \in Confirmed(ch) => o \in MadeIn(ch)
  BY <1>3, <1>5, <1>6
<1> QED
  BY <1>1, <1>5, <1>6, <1>7, <1>8, <1>9, <1>10

\* The kinds of writes in a batch, and their places.
LEMMA BatchWrites ==
  ASSUME NEW b \in Block, NEW set, NEW w \in Batch(set, b)
  PROVE  \/ w = Create(<<0, 0>>, b.id)
         \/ \E k \in DOMAIN b.txs : w = Create(<<k, Len(Vin[b.txs[k]]) + 1>>, b.txs[k])
         \/ \E k \in DOMAIN b.txs : \E j \in DOMAIN Vin[b.txs[k]] :
              /\ w = Spend(set, <<k, j>>, Vin[b.txs[k]][j])
              /\ Entry(set, Vin[b.txs[k]][j][1]) # {}
<1>1. CASE w = Create(<<0, 0>>, b.id)
  BY <1>1
<1>2. ASSUME NEW k \in DOMAIN b.txs, w \in WritesOf(set, b, k)
      PROVE  \/ w = Create(<<k, Len(Vin[b.txs[k]]) + 1>>, b.txs[k])
             \/ \E j \in DOMAIN Vin[b.txs[k]] :
                  /\ w = Spend(set, <<k, j>>, Vin[b.txs[k]][j])
                  /\ Entry(set, Vin[b.txs[k]][j][1]) # {}
  BY <1>2 DEF WritesOf
<1> QED
  BY <1>1, <1>2 DEF Batch

LEMMA BatchPlaces ==
  ASSUME NEW b \in Block, NEW set, NEW w \in Batch(set, b)
  PROVE  /\ w.at[1] \in 0 .. Len(b.txs) /\ w.at[2] \in Nat
         /\ w.at[2] <= (IF w.at[1] = 0 THEN 0 ELSE Len(Vin[b.txs[w.at[1]]]) + 1)
<1>1. CASE w = Create(<<0, 0>>, b.id)
  BY <1>1, BlockType DEF Create
<1>2. ASSUME NEW k \in DOMAIN b.txs
      PROVE  /\ k \in 1 .. Len(b.txs) /\ Len(Vin[b.txs[k]]) \in Nat
             /\ DOMAIN Vin[b.txs[k]] = 1 .. Len(Vin[b.txs[k]])
  BY BlockType, TransactionAssumption, LenProperties
<1>3. ASSUME NEW k \in DOMAIN b.txs, w = Create(<<k, Len(Vin[b.txs[k]]) + 1>>, b.txs[k])
      PROVE  /\ w.at[1] \in 0 .. Len(b.txs) /\ w.at[2] \in Nat
             /\ w.at[2] <= (IF w.at[1] = 0 THEN 0 ELSE Len(Vin[b.txs[w.at[1]]]) + 1)
  <2>1. w.at[1] = k /\ w.at[2] = Len(Vin[b.txs[k]]) + 1
    BY <1>3 DEF Create
  <2> QED
    BY <1>2, <2>1
<1>4. ASSUME NEW k \in DOMAIN b.txs, NEW j \in DOMAIN Vin[b.txs[k]],
             w = Spend(set, <<k, j>>, Vin[b.txs[k]][j])
      PROVE  /\ w.at[1] \in 0 .. Len(b.txs) /\ w.at[2] \in Nat
             /\ w.at[2] <= (IF w.at[1] = 0 THEN 0 ELSE Len(Vin[b.txs[w.at[1]]]) + 1)
  <2>1. w.at[1] = k /\ w.at[2] = j
    BY <1>4 DEF Spend
  <2> QED
    BY <1>2, <2>1
<1> QED
  BY <1>1, <1>3, <1>4, BatchWrites

\* Of the writes of a key, one is the last.
LEMMA LastWrite ==
  ASSUME NEW b \in Block, NEW set, NEW first \in Batch(set, b)
  PROVE  \E w \in Batch(set, b) :
           /\ w.key = first.key
           /\ ~\E v \in Batch(set, b) : v.key = w.key /\ Earlier(w, v)
<1> DEFINE W == {w \in Batch(set, b) : w.key = first.key}
           Rows == {w.at[1] : w \in W}
           row == Max(Rows)
           InRow == {w \in W : w.at[1] = row}
           Columns == {w.at[2] : w \in InRow}
           column == Max(Columns)
           width == IF row = 0 THEN 0 ELSE Len(Vin[b.txs[row]]) + 1
<1>1. \A w \in W : /\ w.at[1] \in Nat /\ w.at[2] \in Nat /\ w.at[1] <= Len(b.txs)
                   /\ w.at[1] \in 0 .. Len(b.txs)
                   /\ w.at[2] <= (IF w.at[1] = 0 THEN 0 ELSE Len(Vin[b.txs[w.at[1]]]) + 1)
  BY BatchPlaces, BlockType
<1>2. Len(b.txs) \in Nat /\ DOMAIN b.txs = 1 .. Len(b.txs)
  BY BlockType
<1>3. Rows \in SUBSET Nat /\ Rows # {} /\ \A n \in Rows : n <= Len(b.txs)
  BY <1>1
<1> HIDE DEF Rows, row
<1>4. row \in Rows /\ \A n \in Rows : row >= n
  BY <1>2, <1>3, GreatestExists DEF row
<1>5. row \in 0 .. Len(b.txs)
  BY <1>1, <1>4 DEF Rows
<1>6. width \in Nat
  <2>1. CASE row = 0
    BY <2>1
  <2>2. CASE row # 0
    <3>1. b.txs[row] \in Txs
      BY <1>2, <1>5, <2>2, BlockType
    <3> QED
      BY <2>2, <3>1, TransactionAssumption, LenProperties
  <2> QED
    BY <2>1, <2>2
<1>7. Columns \in SUBSET Nat /\ Columns # {} /\ \A n \in Columns : n <= width
  BY <1>1, <1>4 DEF Rows
<1> HIDE DEF Columns, column, width
<1>8. column \in Columns /\ \A n \in Columns : column >= n
  BY <1>6, <1>7, GreatestExists DEF column
<1>9. PICK w \in InRow : w.at[2] = column
  BY <1>8 DEF Columns
<1>10. ASSUME NEW v \in Batch(set, b), v.key = w.key, Earlier(w, v)
       PROVE  FALSE
  <2>1. v \in W /\ w \in W /\ w.at[1] = row
    BY <1>9, <1>10
  <2>2. v.at[1] \in Rows /\ v.at[1] \in Nat /\ v.at[2] \in Nat /\ row \in Nat
    BY <1>1, <1>3, <1>4, <2>1 DEF Rows
  <2>3. v.at[1] = row
    BY <1>4, <1>10, <2>1, <2>2 DEF Earlier
  <2>4. v.at[2] \in Columns /\ column \in Nat
    BY <1>7, <1>8, <2>1, <2>3 DEF Columns
  <2> QED
    BY <1>8, <1>9, <1>10, <2>1, <2>2, <2>3, <2>4 DEF Earlier
<1> QED
  BY <1>9, <1>10

\* Update keeps the unspent outputs.
LEMMA UpdateCovers ==
  ASSUME NEW ch, IsChain(ch), NEW b \in Block, NEW set,
         KeysConfirmed(set, ch), Unspent(ch) \subseteq set
  PROVE  Unspent(Append(ch, b)) \subseteq Update(set, b)
<1> DEFINE batch == Batch(set, b)
           final == {w \in batch : ~\E v \in batch : v.key = w.key /\ Earlier(w, v)}
           kept == {o \in set : \A w \in batch : w.key # o[1]}
<1>0. Update(set, b) = kept \cup (UNION {{w.key} \X w.left : w \in final})
  BY DEF Update
<1> SUFFICES ASSUME NEW o \in Unspent(Append(ch, b))
             PROVE  o \in Update(set, b)
  OBVIOUS
<1>1. /\ o = <<o[1], o[2]>> /\ o[2] \in DOMAIN Outputs(o[1])
      /\ o[1] \in Confirmed(ch) \cup TxIdsOf(b)
      /\ \A k \in DOMAIN b.txs : o \notin Inputs(b.txs[k])
      /\ o[1] \in Confirmed(ch) => o \in set
  BY UnspentAfter
<1>2. CASE \E w \in batch : w.key = o[1]
  <2>1. PICK w \in batch : /\ w.key = o[1]
                           /\ ~\E v \in batch : v.key = w.key /\ Earlier(w, v)
    BY <1>2, LastWrite
  <2>2. o[2] \in w.left
    <3>1. ASSUME NEW at, NEW id, w = Create(at, id)
          PROVE  o[2] \in w.left
      BY <1>1, <2>1, <3>1 DEF Create
    <3>2. ASSUME NEW k \in DOMAIN b.txs, NEW j \in DOMAIN Vin[b.txs[k]],
                 w = Spend(set, <<k, j>>, Vin[b.txs[k]][j]),
                 Entry(set, Vin[b.txs[k]][j][1]) # {}
          PROVE  o[2] \in w.left
      <4> DEFINE i == Vin[b.txs[k]][j]
      <4>1. i \in Inputs(b.txs[k]) /\ i = <<i[1], i[2]>>
        <5>1. b.txs[k] \in Txs
          BY BlockType
        <5>2. i \in Ids \X Int
          BY <5>1, TransactionAssumption, LenProperties, ElementOfSeq
        <5> QED
          BY <5>2 DEF Inputs, Range
      <4> HIDE DEF i
      <4>2. i[1] = o[1] /\ w.left = Entry(set, o[1]) \ {i[2]}
        BY <2>1, <3>2 DEF Spend, i
      <4>3. i[2] # o[2]
        BY <1>1, <4>1, <4>2
      <4>4. o[1] \in Confirmed(ch)
        <5>1. Entry(set, o[1]) # {}
          BY <3>2, <4>2 DEF i
        <5> QED
          BY <5>1 DEF Entry, KeysConfirmed
      <4>5. o[2] \in Entry(set, o[1])
        BY <1>1, <4>4 DEF Entry
      <4> QED
        BY <4>2, <4>3, <4>5
    <3> QED
      BY <3>1, <3>2, BatchWrites
  <2>3. w \in final /\ o \in {w.key} \X w.left
    BY <1>1, <2>1, <2>2
  <2> HIDE DEF final, batch, kept
  <2> QED
    BY <1>0, <2>3
<1>3. CASE ~\E w \in batch : w.key = o[1]
  <2>1. o[1] \notin TxIdsOf(b)
    <3>1. Create(<<0, 0>>, b.id) \in batch /\ Create(<<0, 0>>, b.id).key = b.id
      BY DEF Batch, Create
    <3>2. ASSUME NEW k \in DOMAIN b.txs
          PROVE  \E w \in batch : w.key = b.txs[k]
      <4> DEFINE w == Create(<<k, Len(Vin[b.txs[k]]) + 1>>, b.txs[k])
      <4>1. w \in WritesOf(set, b, k) /\ w.key = b.txs[k]
        BY DEF WritesOf, Create
      <4> QED
        BY <4>1 DEF Batch
    <3> QED
      BY <1>3, <3>1, <3>2 DEF TxIdsOf, Range
  <2>2. o \in kept
    BY <1>1, <1>3, <2>1
  <2> HIDE DEF kept
  <2> QED
    BY <1>0, <2>2
<1> QED
  BY <1>2, <1>3

\* Update brings in no key that the chain does not confirm.
LEMMA UpdateKeys ==
  ASSUME NEW ch, IsChain(ch), NEW b \in Block, NEW set, KeysConfirmed(set, ch)
  PROVE  KeysConfirmed(Update(set, b), Append(ch, b))
<1>1. Confirmed(Append(ch, b)) = Confirmed(ch) \cup TxIdsOf(b)
  BY AppendChain
<1>2. ASSUME NEW w \in Batch(set, b)
      PROVE  w.key \in Confirmed(ch) \cup TxIdsOf(b)
  <2>1. CASE w = Create(<<0, 0>>, b.id)
    BY <2>1 DEF Create, TxIdsOf
  <2>2. ASSUME NEW k \in DOMAIN b.txs, w = Create(<<k, Len(Vin[b.txs[k]]) + 1>>, b.txs[k])
        PROVE  w.key \in TxIdsOf(b)
    BY <2>2 DEF Create, TxIdsOf, Range
  <2>3. ASSUME NEW k \in DOMAIN b.txs, NEW j \in DOMAIN Vin[b.txs[k]],
               w = Spend(set, <<k, j>>, Vin[b.txs[k]][j]),
               Entry(set, Vin[b.txs[k]][j][1]) # {}
        PROVE  w.key \in Confirmed(ch)
    BY <2>3 DEF Spend, Entry, KeysConfirmed
  <2> QED
    BY <2>1, <2>2, <2>3, BatchWrites
<1> QED
  BY <1>1, <1>2 DEF Update, KeysConfirmed
-----------------------------------------------------------------------------
(***************************************************************************)
(* The rebuild                                                             *)
(***************************************************************************)

\* Where the transactions of a chain are.
LEMMA PositionType ==
  ASSUME NEW ch, IsChain(ch)
  PROVE  /\ \A q \in Positions(ch) :
              /\ q[1] \in DOMAIN ch /\ q[1] \in Nat
              /\ q[2] \in 0 .. Len(ch[q[1]].txs) /\ Len(ch[q[1]].txs) \in Nat
              /\ TxAt(ch, q) \in TxIdsOf(ch[q[1]])
         /\ \A id \in Confirmed(ch) : \E q \in Positions(ch) : TxAt(ch, q) = id
<1>1. /\ DOMAIN ch = 1 .. Len(ch) /\ Len(ch) \in Nat
      /\ \A i \in DOMAIN ch : ch[i] \in Block
  BY ChainType
<1>2. \A i \in DOMAIN ch : Len(ch[i].txs) \in Nat /\ DOMAIN ch[i].txs = 1 .. Len(ch[i].txs)
  BY <1>1, BlockType
<1>3. \A q : q \in Positions(ch) <=> \E i \in DOMAIN ch : q \in {i} \X (0 .. Len(ch[i].txs))
  BY DEF Positions
<1>4. ASSUME NEW q \in Positions(ch)
      PROVE  /\ q[1] \in DOMAIN ch /\ q[1] \in Nat
             /\ q[2] \in 0 .. Len(ch[q[1]].txs) /\ Len(ch[q[1]].txs) \in Nat
             /\ TxAt(ch, q) \in TxIdsOf(ch[q[1]])
  <2>1. PICK i \in DOMAIN ch : q \in {i} \X (0 .. Len(ch[i].txs))
    BY <1>3
  <2>2. q[1] = i /\ q[2] \in 0 .. Len(ch[i].txs)
    BY <2>1
  <2> QED
    BY <1>1, <1>2, <2>2 DEF TxAt, TxIdsOf, Range
<1>5. ASSUME NEW id \in Confirmed(ch)
      PROVE  \E q \in Positions(ch) : TxAt(ch, q) = id
  <2>1. PICK i \in DOMAIN ch : id \in TxIdsOf(ch[i])
    BY DEF Confirmed
  <2>2. CASE id = ch[i].id
    <3>1. <<i, 0>> \in Positions(ch)
      BY <1>2, <1>3
    <3> QED
      BY <2>2, <3>1 DEF TxAt
  <2>3. ASSUME NEW k \in DOMAIN ch[i].txs, id = ch[i].txs[k]
        PROVE  \E q \in Positions(ch) : TxAt(ch, q) = id
    <3>1. k \in 1 .. Len(ch[i].txs)
      BY <1>2
    <3>2. <<i, k>> \in Positions(ch) /\ k # 0
      BY <1>2, <1>3, <3>1
    <3> QED
      BY <2>3, <3>2 DEF TxAt
  <2> QED
    BY <2>1, <2>2, <2>3 DEF TxIdsOf, Range
<1> QED
  BY <1>4, <1>5

\* Of the positions that hold an id, the rebuild visits one last.
LEMMA LastVisit ==
  ASSUME NEW ch, IsChain(ch), NEW id \in Confirmed(ch)
  PROVE  \E q \in Positions(ch) :
           /\ TxAt(ch, q) = id
           /\ \A p \in Positions(ch) : TxAt(ch, p) = id => ~VisitedBefore(q, p)
<1> DEFINE P == {q \in Positions(ch) : TxAt(ch, q) = id}
           Rows == {q[1] : q \in P}
           row == Min(Rows)
           Columns == {q[2] : q \in {p \in P : p[1] = row}}
           column == Max(Columns)
           width == Len(ch[row].txs)
<1>1. P # {} /\ \A q \in P : /\ q[1] \in Nat /\ q[2] \in 0 .. Len(ch[q[1]].txs)
                             /\ Len(ch[q[1]].txs) \in Nat
  BY PositionType
<1>2. Rows \in SUBSET Nat /\ Rows # {}
  BY <1>1
<1> HIDE DEF Rows, row
<1>3. row \in Rows /\ \A n \in Rows : row <= n
  BY <1>2, LeastExists DEF row
<1>4. /\ Columns \in SUBSET Nat /\ Columns # {} /\ width \in Nat
      /\ \A n \in Columns : n <= width
  BY <1>1, <1>3 DEF Rows
<1> HIDE DEF Columns, column, width
<1>5. column \in Columns /\ \A n \in Columns : column >= n
  BY <1>4, GreatestExists DEF column
<1>6. PICK q \in P : q[1] = row /\ q[2] = column
  BY <1>5 DEF Columns
<1>7. ASSUME NEW p \in P, VisitedBefore(q, p)
      PROVE  FALSE
  <2>1. p[1] \in Rows /\ p[1] \in Nat /\ row \in Nat
    BY <1>1, <1>2, <1>3 DEF Rows
  <2>2. p[1] = row
    BY <1>3, <1>6, <1>7, <2>1 DEF VisitedBefore
  <2>3. p[2] \in Columns /\ p[2] \in Nat /\ column \in Nat
    BY <1>4, <1>5, <2>2 DEF Columns
  <2> QED
    BY <1>5, <1>6, <1>7, <2>1, <2>2, <2>3 DEF VisitedBefore
<1> QED
  BY <1>6, <1>7

\* The rebuild holds every unspent output, and confirmed keys only.
LEMMA RebuildCovers ==
  ASSUME NEW ch, IsChain(ch)
  PROVE  Unspent(ch) \subseteq FindUTXO(ch) /\ KeysConfirmed(FindUTXO(ch), ch)
<1> DEFINE kept == {q \in Positions(ch) : KeptAt(ch, q) # {}}
           final == {q \in kept : \A p \in kept :
                                    TxAt(ch, p) = TxAt(ch, q) => ~VisitedBefore(q, p)}
<1>1. FindUTXO(ch) = UNION {KeptAt(ch, q) : q \in final}
  BY DEF FindUTXO
<1>2. ASSUME NEW o \in Unspent(ch)
      PROVE  o \in FindUTXO(ch)
  <2> DEFINE made == UNION {OutpointsOf(id) : id \in Confirmed(ch)}
             spent == UNION {Inputs(t) : t \in UNION {Range(ch[i].txs) : i \in DOMAIN ch}}
  <2>1. Unspent(ch) = made \ spent
    BY DEF Unspent
  <2>2. PICK id \in Confirmed(ch) : o \in OutpointsOf(id)
    BY <2>1
  <2>3. \A i \in DOMAIN ch : \A t \in Range(ch[i].txs) : o \notin Inputs(t)
    BY <2>1
  <2>4. PICK q \in Positions(ch) :
          /\ TxAt(ch, q) = id
          /\ \A p \in Positions(ch) : TxAt(ch, p) = id => ~VisitedBefore(q, p)
    BY LastVisit
  <2>5. ASSUME NEW r \in Positions(ch), r[2] # 0
        PROVE  o \notin Inputs(TxAt(ch, r))
    <3>1. r[1] \in DOMAIN ch /\ r[2] \in 1 .. Len(ch[r[1]].txs)
      BY <2>5, PositionType
    <3>2. ch[r[1]] \in Block
      BY <3>1, ChainType
    <3>3. r[2] \in DOMAIN ch[r[1]].txs
      BY <3>1, <3>2, BlockType
    <3>4. TxAt(ch, r) \in Range(ch[r[1]].txs)
      BY <2>5, <3>3 DEF TxAt, Range
    <3> QED
      BY <2>3, <3>1, <3>4
  <2>6. o \in KeptAt(ch, q)
    BY <2>2, <2>4, <2>5 DEF KeptAt
  <2>7. q \in final
    BY <2>4, <2>6
  <2> HIDE DEF final
  <2> QED
    BY <1>1, <2>6, <2>7
<1>3. ASSUME NEW o \in FindUTXO(ch)
      PROVE  o[1] \in Confirmed(ch)
  <2>1. PICK q \in Positions(ch) : o \in KeptAt(ch, q)
    BY <1>1
  <2>2. o[1] = TxAt(ch, q)
    BY <2>1 DEF KeptAt, OutpointsOf
  <2> QED
    BY <2>2, PositionType DEF Confirmed
<1> QED
  BY <1>2, <1>3 DEF KeysConfirmed

-----------------------------------------------------------------------------
(***************************************************************************)
(* The invariant.  While a stored block is still missing from the          *)
(* database, the database covers the chain before that block.              *)
(***************************************************************************)
Behind == mode = "cliStored" \/ \E th \in Threads : pc[th] = "stored"

CoversFront ==
  \E ch \in Seq(Block) : /\ ch # <<>> /\ chain = Append(ch, Last(chain))
                         /\ KeysConfirmed(utxo, ch)
                         /\ ~stale => Unspent(ch) \subseteq utxo

UtxoInv ==
  /\ mode # "up" => \A th \in Threads : pc[th] = "idle"
  /\ KeysConfirmed(utxo, chain)
  /\ Behind => CoversFront
  /\ ~Behind /\ mode # "reindexing" /\ ~stale => Unspent(chain) \subseteq utxo

\* A step after which the database covers the chain.
LEMMA Covered ==
  ASSUME KeysConfirmed(utxo', chain'), ~stale' => Unspent(chain') \subseteq utxo', ~Behind',
         mode' # "up" => \A th \in Threads : pc'[th] = "idle"
  PROVE  UtxoInv'
BY DEF UtxoInv

\* A step that leaves both databases alone.
LEMMA DatabasesKept ==
  ASSUME UtxoInv, UNCHANGED <<chain, utxo>>, stale => stale', Behind' <=> Behind,
         mode' = "reindexing" <=> mode = "reindexing",
         mode' # "up" => \A th \in Threads : pc'[th] = "idle"
  PROVE  UtxoInv'
<1>1. CoversFront => CoversFront'
  BY DEF CoversFront, KeysConfirmed
<1> QED
  BY <1>1 DEF UtxoInv, KeysConfirmed

\* A step that stores a block when the database is up to date.
LEMMA BlockStored ==
  ASSUME Typed, UtxoInv, ~Behind, mode \in {"up", "down"},
         NEW b \in Block, chain' = Append(chain, b), UNCHANGED <<utxo, stale>>, Behind',
         mode' # "up" => \A th \in Threads : pc'[th] = "idle"
  PROVE  UtxoInv'
<1>1. IsChain(chain) /\ chain \in Seq(Block) /\ chain # <<>>
  BY DEF Typed, TypeOK, IsChain
<1>2. Last(chain') = b /\ Confirmed(chain') = Confirmed(chain) \cup TxIdsOf(b)
  BY <1>1, AppendChain
<1>3. KeysConfirmed(utxo, chain) /\ (~stale => Unspent(chain) \subseteq utxo)
  BY DEF UtxoInv
<1>4. chain' = Append(chain, Last(chain')) /\ KeysConfirmed(utxo', chain)
      /\ (~stale' => Unspent(chain) \subseteq utxo')
  BY <1>2, <1>3 DEF KeysConfirmed
<1>5. CoversFront'
  BY <1>1, <1>4 DEF CoversFront
<1>6. KeysConfirmed(utxo', chain')
  BY <1>2, <1>3 DEF KeysConfirmed
<1> QED
  BY <1>5, <1>6 DEF UtxoInv

\* Update catches up with the stored block.
LEMMA CaughtUp ==
  ASSUME Typed, UtxoInv, Behind, utxo' = Update(utxo, Last(chain)), UNCHANGED <<chain, stale>>
  PROVE  KeysConfirmed(utxo', chain') /\ (~stale' => Unspent(chain') \subseteq utxo')
<1>1. PICK ch \in Seq(Block) : /\ ch # <<>> /\ chain = Append(ch, Last(chain))
                               /\ KeysConfirmed(utxo, ch)
                               /\ ~stale => Unspent(ch) \subseteq utxo
  BY DEF UtxoInv, CoversFront
<1>2. IsChain(ch)
  BY <1>1 DEF IsChain
<1> DEFINE b == Last(chain)
<1>3. b \in Block
  <2>1. IsChain(chain)
    BY DEF Typed, TypeOK, IsChain
  <2>2. chain[Len(chain)] \in Block
    BY <2>1, ChainType
  <2> QED
    BY <2>2 DEF Last
<1> HIDE DEF b
<1>4. chain = Append(ch, b) /\ utxo' = Update(utxo, b)
  BY <1>1 DEF b
<1>5. KeysConfirmed(Update(utxo, b), Append(ch, b))
  BY <1>1, <1>2, <1>3, UpdateKeys
<1>6. ~stale => Unspent(Append(ch, b)) \subseteq Update(utxo, b)
  BY <1>1, <1>2, <1>3, UpdateCovers
<1>7. chain' = Append(ch, b)
  BY <1>4
<1> QED
  BY <1>4, <1>5, <1>6, <1>7
LEMMA UtxoStep ==
  ASSUME IInv, UtxoInv, [Next]_vars
  PROVE  UtxoInv'
<1> USE DEF Goto, At, AtFree
<1> DEFINE Idle == mode # "up" => \A th \in Threads : pc[th] = "idle"
           Kept == /\ UNCHANGED <<chain, utxo>> /\ (stale => stale') /\ (Behind' <=> Behind)
                   /\ (mode' = "reindexing" <=> mode = "reindexing") /\ Idle'
<1>0. /\ Local \subseteq Threads /\ Readers \subseteq Threads /\ Rpc \in Threads /\ None \notin Threads
      /\ DOMAIN pc = Threads /\ Typed /\ Idle
      /\ pc \in [Threads -> {"idle", "verified", "snapshot", "pow", "banned"} \cup Committing]
      /\ \A th \in Threads : lock = th <=> pc[th] \in Committing
  BY LedgerAssumption DEF Threads, Local, IInv, Typed, TypeOK, CommitExclusive, UtxoInv
<1>1. ASSUME NEW p \in Readers, NEW t \in Txs, ReceiveTx(p, t)
      PROVE  Kept
  BY <1>0, <1>1 DEF ReceiveTx, Misbehave, disk, Behind
<1>2. ASSUME NEW t \in Txs, SubmitTx(t)
      PROVE  Kept
  BY <1>0, <1>2 DEF SubmitTx, disk, Behind
<1>3. ASSUME NEW th \in Threads, AdmitTx(th)
      PROVE  Kept
  BY <1>0, <1>3 DEF AdmitTx, disk, Behind
<1>4. ASSUME NEW th \in Local, CopyMempool(th) \/ SelectTxs(th) \/ MiningFails(th)
      PROVE  Kept
  <2>1. CASE CopyMempool(th)
    BY <1>0, <2>1 DEF CopyMempool, disk, Behind
  <2>2. CASE SelectTxs(th)
    BY <1>0, <2>2 DEF SelectTxs, disk, Behind
  <2>3. CASE MiningFails(th)
    BY <1>0, <2>3 DEF MiningFails, disk, Behind
  <2> QED
    BY <1>4, <2>1, <2>2, <2>3
<1>5. ASSUME NEW th \in Threads, CleanMempool(th) \/ PublishHeight(th)
      PROVE  Kept
  <2>1. CASE CleanMempool(th)
    BY <1>0, <2>1 DEF CleanMempool, disk, Behind
  <2>2. CASE PublishHeight(th)
    BY <1>0, <2>2 DEF PublishHeight, disk, Behind
  <2> QED
    BY <1>5, <2>1, <2>2
<1>6. Start => Kept
  BY <1>0 DEF Start, disk, work, Behind
<1>7. UNCHANGED vars => Kept
  BY <1>0 DEF vars, disk, work, Behind
<1>8. ASSUME NEW th \in Threads, NEW b \in Block, AtFree(th, "idle") \/ AtFree(th, "pow"),
             AddBlock(th, b), UNCHANGED <<utxo, stale, mode>>
      PROVE  UtxoInv'
  <2>1. ~Behind /\ mode = "up"
    BY <1>0, <1>8 DEF Behind, Committing
  <2>2. Behind'
    BY <1>0, <1>8 DEF AddBlock, Behind
  <2>3. chain' = Append(chain, b) /\ mode' = "up"
    BY <1>8, <2>1 DEF AddBlock
  <2> QED
    BY <1>0, <1>8, <2>1, <2>2, <2>3, BlockStored
<1>9. ASSUME NEW p \in Readers, NEW b \in PeerBlocks, ReceiveBlock(p, b)
      PROVE  Kept \/ UtxoInv'
  <2>1. CASE AddBlock(p, b)
    <3>1. b \in Block
      BY <1>0, PeerBlockType DEF Typed, TypeOK, IsChain
    <3> QED
      BY <1>0, <1>8, <1>9, <2>1, <3>1 DEF ReceiveBlock
  <2>2. CASE Misbehave(p, BAN_SCORE_THRESHOLD) /\ UNCHANGED <<chain, lock>>
    BY <1>0, <1>9, <2>2 DEF ReceiveBlock, Misbehave, Behind
  <2> QED
    BY <1>9, <2>1, <2>2 DEF ReceiveBlock
<1>10. ASSUME NEW th \in Local, StoreMined(th)
       PROVE  UtxoInv'
  <2>1. template[th] \in Block
    BY <1>0 DEF Typed, TypeOK
  <2> QED
    BY <1>0, <1>8, <1>10, <2>1 DEF StoreMined
<1>11. ASSUME NEW th \in Threads, UpdateUtxo(th)
       PROVE  UtxoInv'
  <2>1. Behind /\ mode' = "up"
    BY <1>11 DEF UpdateUtxo, Behind
  <2>2. ~Behind'
    BY <1>0, <1>11 DEF UpdateUtxo, Behind, Committing
  <2>3. utxo' = Update(utxo, Last(chain)) /\ UNCHANGED <<chain, stale>>
    BY <1>11 DEF UpdateUtxo
  <2> QED
    BY <1>0, <2>1, <2>2, <2>3, CaughtUp, Covered
<1>12. ASSUME NEW th \in Threads, UpdateUtxoFails(th)
       PROVE  UtxoInv'
  <2>1. ~Behind' /\ mode' = "up" /\ stale' /\ UNCHANGED <<chain, utxo>>
    BY <1>0, <1>12 DEF UpdateUtxoFails, Behind, Committing, disk
  <2>2. KeysConfirmed(utxo', chain')
    BY <2>1 DEF UtxoInv, KeysConfirmed
  <2> QED
    BY <2>1, <2>2, Covered
<1>13. ASSUME Exit, (stale => stale'), Behind \/ mode = "reindexing" => stale'
       PROVE  UtxoInv'
  <2>1. ~Behind' /\ UNCHANGED <<chain, utxo>> /\ \A th \in Threads : pc'[th] = "idle"
    BY <1>13 DEF Exit, Behind, disk
  <2>2. KeysConfirmed(utxo', chain') /\ (~stale' => Unspent(chain') \subseteq utxo')
    BY <1>13, <2>1 DEF UtxoInv, KeysConfirmed
  <2> QED
    BY <2>1, <2>2, Covered
<1>14. Stop => UtxoInv'
  <2> SUFFICES ASSUME Stop PROVE UtxoInv'
    OBVIOUS
  <2>1. Exit /\ mode = "up" /\ ~Behind /\ (stale => stale')
    BY DEF Stop, Behind
  <2> QED
    BY <1>13, <2>1
<1>15. Crash => UtxoInv'
  <2> SUFFICES ASSUME Crash PROVE UtxoInv'
    OBVIOUS
  <2>1. Exit /\ (stale => stale') /\ (Behind \/ mode = "reindexing" => stale')
    BY DEF Crash, Behind
  <2> QED
    BY <1>13, <2>1
<1>16. ASSUME NEW t \in Txs, CliSend(t)
       PROVE  UtxoInv'
  <2> DEFINE next == Height(chain) + 1
             b == [id |-> <<next, Cli, GetBlockSubsidy(next)>>, prev |-> Tip(chain), txs |-> <<t>>]
  <2>1. chain' = Append(chain, b) /\ mode = "down" /\ mode' = "cliStored"
        /\ UNCHANGED <<utxo, stale, pc>>
    BY <1>16 DEF CliSend, work
  <2>2. b \in Block
    <3>1. IsChain(chain)
      BY <1>0 DEF Typed, TypeOK, IsChain
    <3>2. next \in Nat /\ Tip(chain) \in CoinbaseIds
      BY <3>1, ChainType
    <3> HIDE DEF next
    <3>3. GetBlockSubsidy(next) \in Int /\ Cli \in Makers
      BY <3>2, SubsidyType, LedgerAssumption
    <3> QED
      BY <3>2, <3>3 DEF Block, CoinbaseIds
  <2>3. ~Behind /\ Behind' /\ Idle'
    BY <1>0, <2>1 DEF Behind
  <2> HIDE DEF b
  <2> QED
    BY <1>0, <2>1, <2>2, <2>3, BlockStored
<1>17. CliUpdate => UtxoInv'
  <2> SUFFICES ASSUME CliUpdate PROVE UtxoInv'
    OBVIOUS
  <2>1. Behind /\ ~Behind' /\ Idle'
    BY <1>0 DEF CliUpdate, Behind, work
  <2>2. utxo' = Update(utxo, Last(chain)) /\ UNCHANGED <<chain, stale>>
    BY DEF CliUpdate
  <2> QED
    BY <1>0, <2>1, <2>2, CaughtUp, Covered
<1>18. ReindexWipe => UtxoInv'
  BY <1>0 DEF ReindexWipe, work, UtxoInv, KeysConfirmed, Behind
<1>19. ReindexWrite => UtxoInv'
  <2> SUFFICES ASSUME ReindexWrite PROVE UtxoInv'
    OBVIOUS
  <2>1. ~Behind' /\ Idle' /\ utxo' = FindUTXO(chain) /\ UNCHANGED chain
    BY <1>0 DEF ReindexWrite, Behind, work
  <2>2. KeysConfirmed(FindUTXO(chain), chain) /\ Unspent(chain) \subseteq FindUTXO(chain)
    BY <1>0, RebuildCovers DEF Typed, TypeOK, IsChain
  <2>3. KeysConfirmed(utxo', chain') /\ Unspent(chain') \subseteq utxo'
    BY <2>1, <2>2
  <2> QED
    BY <2>1, <2>3, Covered
<1>20. Kept => UtxoInv'
  BY DatabasesKept
<1> HIDE DEF Kept
<1> QED
  BY <1>1, <1>2, <1>3, <1>4, <1>5, <1>6, <1>7, <1>9, <1>10, <1>11, <1>12, <1>14, <1>15, <1>16,
     <1>17, <1>18, <1>19, <1>20
  DEF Next, Mine, Commit

LEMMA UtxoInit == Init => UtxoInv
<1> SUFFICES ASSUME Init PROVE UtxoInv
  OBVIOUS
<1>1. IsChain(chain)
  BY GenesisType DEF Init, IsChain
<1>2. KeysConfirmed(utxo, chain) /\ Unspent(chain) \subseteq utxo
  BY <1>1, RebuildCovers DEF Init
<1>3. ~Behind /\ mode = "up"
  BY DEF Init, Behind
<1> QED
  BY <1>2, <1>3 DEF UtxoInv

\* The UTXO database misses no unspent output, unless a fault came between
\* AddBlock and Update (or between the two writes of Reindex) and reindexutxo
\* has not been run since.
THEOREM UtxoCovers == Spec => []UtxoCoversUnspent
<1>1. UtxoInv => UtxoCoversUnspent
  BY DEF UtxoInv, UtxoCoversUnspent, Quiescent, Behind
<1> QED
  BY <1>1, UtxoInit, UtxoStep, AlwaysIInv, PTL DEF Spec

-----------------------------------------------------------------------------
(***************************************************************************)
(* The mempool.  Its limits need nothing but the types; who is evicted for *)
(* whom compares fee rates, so it needs fees to be integers, and they are  *)
(* because the inputs of what is pending are known.                        *)
(***************************************************************************)
WithinLimits(pool) ==
  /\ TotalBytes(pool) <= MAX_MEMPOOL_SIZE
  /\ Cardinality(pool) <= MAX_MEMPOOL_ENTRIES

Bounded(pool) == Cardinality(pool) <= 1 \/ WithinLimits(pool)

\* The bytes of a pool, and of a pool with one more transaction.
LEMMA BytesAdd ==
  ASSUME NEW pool \in SUBSET Txs
  PROVE  /\ IsFiniteSet(pool) /\ Cardinality(pool) \in Nat /\ TotalBytes(pool) \in Int
         /\ \A t \in Txs \ pool : /\ TotalBytes(pool \cup {t}) = Size[t] + TotalBytes(pool)
                                  /\ Cardinality(pool \cup {t}) = Cardinality(pool) + 1
         /\ \A part \in SUBSET pool : /\ TotalBytes(part) <= TotalBytes(pool)
                                      /\ Cardinality(part) <= Cardinality(pool)
<1>1. \A S : TotalBytes(S) = SumFunctionOnSet(Size, S)
  BY MappedSum, Zenon DEF TotalBytes
<1>2. ASSUME NEW S \in SUBSET Txs
      PROVE  IsFiniteSet(S) /\ Cardinality(S) \in Nat /\ \A s \in S : Size[s] \in Nat /\ Size[s] \in Int
  BY MempoolAssumption, TransactionAssumption, FS_Subset, FS_CardinalityType
<1>3. TotalBytes(pool) \in Int
  BY <1>1, <1>2, SumType
<1>4. ASSUME NEW t \in Txs \ pool
      PROVE  /\ TotalBytes(pool \cup {t}) = Size[t] + TotalBytes(pool)
             /\ Cardinality(pool \cup {t}) = Cardinality(pool) + 1
  <2>1. pool \cup {t} \in SUBSET Txs /\ t \in pool \cup {t} /\ (pool \cup {t}) \ {t} = pool
    OBVIOUS
  <2> DEFINE S == pool \cup {t}
  <2>2. IsFiniteSet(S) /\ \A s \in S : Size[s] \in Int
    BY <1>2, <2>1
  <2>3. t \in S /\ S \ {t} = pool
    BY <2>1
  <2> HIDE DEF S
  <2>4. SumFunctionOnSet(Size, S) = Size[t] + SumFunctionOnSet(Size, S \ {t})
    BY <2>2, <2>3, SumWithout
  <2>5. TotalBytes(S) = Size[t] + TotalBytes(pool)
    BY <1>1, <2>3, <2>4
  <2>6. Cardinality(pool \cup {t}) = Cardinality(pool) + 1
    BY <1>2, FS_AddElement
  <2> QED
    BY <2>5, <2>6 DEF S
<1>5. ASSUME NEW part \in SUBSET pool
      PROVE  TotalBytes(part) <= TotalBytes(pool) /\ Cardinality(part) <= Cardinality(pool)
  BY <1>1, <1>2, SumOfPart, FS_Subset
<1> QED
  BY <1>2, <1>3, <1>4, <1>5

\* What is taken from a pool leaves it within its limits.
LEMMA PartBounded ==
  ASSUME NEW pool \in SUBSET Txs, Bounded(pool), NEW part \in SUBSET pool
  PROVE  Bounded(part)
<1>1. TotalBytes(part) <= TotalBytes(pool) /\ Cardinality(part) <= Cardinality(pool)
  BY BytesAdd
<1>2. /\ TotalBytes(part) \in Int /\ TotalBytes(pool) \in Int
      /\ Cardinality(part) \in Nat /\ Cardinality(pool) \in Nat
  BY BytesAdd
<1> QED
  BY <1>1, <1>2, MempoolAssumption DEF Bounded, WithinLimits

\* AddTransaction keeps to the limits whatever it evicts.
LEMMA AddBounded ==
  ASSUME NEW pool \in SUBSET Txs, Bounded(pool), NEW t \in Txs, NEW new \in AddTransaction(pool, t)
  PROVE  Bounded(new)
<1>1. CASE t \in pool
  BY <1>1 DEF AddTransaction
<1>2. CASE t \notin pool
  <2>1. PICK out \in Evictions(pool, t) :
          new = IF Admitted(pool \ out, t) THEN (pool \ out) \cup {t} ELSE pool \ out
    BY <1>2 DEF AddTransaction
  <2> DEFINE left == pool \ out
  <2>2. left \in SUBSET pool /\ left \in SUBSET Txs /\ t \in Txs \ left
    BY <1>2
  <2>3. Bounded(left)
    BY <2>2, PartBounded
  <2> HIDE DEF left
  <2>4. CASE ~Admitted(left, t)
    BY <2>1, <2>3, <2>4 DEF left
  <2>5. CASE Admitted(left, t)
    <3>1. new = left \cup {t}
      BY <2>1, <2>5 DEF left
    <3>2. /\ TotalBytes(new) = Size[t] + TotalBytes(left)
          /\ Cardinality(new) = Cardinality(left) + 1
          /\ TotalBytes(left) \in Int /\ Cardinality(left) \in Nat
      BY <2>2, <3>1, BytesAdd
    <3>3. CASE left = {}
      BY <3>2, <3>3, FS_EmptySet DEF Bounded
    <3>4. CASE ~Full(left, t)
      BY <3>2, <3>4, MempoolAssumption DEF Full, Bounded, WithinLimits
    <3> QED
      BY <2>5, <3>3, <3>4 DEF Admitted
  <2> QED
    BY <2>4, <2>5
<1> QED
  BY <1>1, <1>2

\* The steps that touch the mempool: AddTransaction, RemoveBlockTransactions,
\* and the end of the process.
LEMMA MempoolSteps ==
  ASSUME [Next]_vars
  PROVE  \/ UNCHANGED mempool
         \/ \E th \in Threads : AdmitTx(th)
         \/ mempool' = RemoveBlockTransactions(mempool, Last(chain).txs)
         \/ mode' = "down" /\ mempool' = {}
<1>1. UNCHANGED vars => UNCHANGED mempool
  BY DEF vars
<1>2. ASSUME NEW p \in Readers, NEW t \in Txs, ReceiveTx(p, t)
      PROVE  UNCHANGED mempool
  BY <1>2 DEF ReceiveTx
<1>3. ASSUME NEW p \in Readers, NEW b \in PeerBlocks, ReceiveBlock(p, b)
      PROVE  UNCHANGED mempool
  BY <1>3 DEF ReceiveBlock
<1>4. ASSUME NEW t \in Txs, SubmitTx(t) \/ CliSend(t)
      PROVE  UNCHANGED mempool
  BY <1>4 DEF SubmitTx, CliSend
<1>5. ASSUME NEW th \in Local, Mine(th)
      PROVE  UNCHANGED mempool
  BY <1>5 DEF Mine, CopyMempool, SelectTxs, StoreMined, MiningFails
<1>6. ASSUME NEW th \in Threads, UpdateUtxo(th) \/ PublishHeight(th) \/ UpdateUtxoFails(th)
      PROVE  UNCHANGED mempool
  BY <1>6 DEF UpdateUtxo, PublishHeight, UpdateUtxoFails
<1>7. ASSUME NEW th \in Threads, CleanMempool(th)
      PROVE  mempool' = RemoveBlockTransactions(mempool, Last(chain).txs)
  BY <1>7 DEF CleanMempool
<1>8. Stop \/ Crash => mode' = "down" /\ mempool' = {}
  BY DEF Stop, Crash, Exit
<1>9. Start \/ CliUpdate \/ ReindexWipe \/ ReindexWrite => UNCHANGED mempool
  BY DEF Start, CliUpdate, ReindexWipe, ReindexWrite
<1> QED
  BY <1>1, <1>2, <1>3, <1>4, <1>5, <1>6, <1>7, <1>8, <1>9 DEF Next, Commit

LEMMA BoundedStep ==
  ASSUME Typed, MempoolBounded, [Next]_vars
  PROVE  MempoolBounded'
<1>1. mempool \in SUBSET Txs /\ Bounded(mempool)
  BY DEF Typed, TypeOK, MempoolBounded, Bounded, WithinLimits
<1>2. Bounded(mempool')
  <2>1. CASE UNCHANGED mempool
    BY <1>1, <2>1
  <2>2. ASSUME NEW th \in Threads, AdmitTx(th)
        PROVE  Bounded(mempool')
    <3>1. held[th] \in Txs /\ mempool' \in AddTransaction(mempool, held[th])
      BY <2>2 DEF AdmitTx, At, Typed, HeldOK
    <3> QED
      BY <1>1, <3>1, AddBounded
  <2>3. CASE mempool' = RemoveBlockTransactions(mempool, Last(chain).txs)
    BY <1>1, <2>3, PartBounded DEF RemoveBlockTransactions
  <2>4. CASE mempool' = {}
    BY <2>4, FS_EmptySet DEF Bounded
  <2> QED
    BY <2>1, <2>2, <2>3, <2>4, MempoolSteps
<1> QED
  BY <1>2 DEF MempoolBounded, Bounded, WithinLimits

\* The mempool stays within both limits, and holds a transaction that is too
\* big for it only alone.
THEOREM MempoolStaysBounded == Spec => []MempoolBounded
<1>1. Init => MempoolBounded
  BY FS_EmptySet DEF Init, MempoolBounded
<1>2. IInv => Typed
  BY DEF IInv
<1> QED
  BY <1>1, <1>2, BoundedStep, AlwaysIInv, PTL DEF Spec

\* Fee rates are compared by cross multiplication; the order is transitive.
LEMMA TimesMonotone ==
  ASSUME NEW n \in Nat, NEW p \in Int, NEW q \in Int, p <= q
  PROVE  n * p <= n * q
OBVIOUS

LEMMA RatesOrdered ==
  ASSUME NEW a \in Int, NEW b \in Int, NEW c \in Int,
         NEW x \in Nat \ {0}, NEW y \in Nat \ {0}, NEW z \in Nat \ {0},
         ~(a * y < b * x), a * z < c * x
  PROVE  b * z < c * y
<1>1. SUFFICES ASSUME c * y <= b * z PROVE FALSE
  OBVIOUS
<1>2. x * (c * y) <= x * (b * z)
  BY <1>1, TimesMonotone
<1>3. y * (a * z + 1) <= y * (c * x)
  <2>1. a * z + 1 <= c * x
    OBVIOUS
  <2>2. a * z + 1 \in Int /\ c * x \in Int
    OBVIOUS
  <2> QED
    BY <2>1, <2>2, TimesMonotone
<1>4. z * (b * x) <= z * (a * y)
  BY TimesMonotone
<1>5. /\ x * (c * y) = y * (c * x) /\ x * (b * z) = z * (b * x)
      /\ z * (a * y) = y * (a * z) /\ y * (a * z + 1) = y * (a * z) + y
  OBVIOUS
<1> QED
  BY <1>2, <1>3, <1>4, <1>5

FeesKnown(pool) == \A t \in pool : CalculateFee(t) \in Int

\* The loop of AddTransaction evicts only what pays less than the newcomer.
LEMMA EvictionsPayLess ==
  ASSUME NEW pool \in SUBSET Txs, FeesKnown(pool), NEW t \in Txs, CalculateFee(t) \in Int,
         NEW out \in Evictions(pool, t), NEW w \in out
  PROVE  LowerRate(w, t)
<1> DEFINE Stops(o) ==
             \/ pool \ o = {}
             \/ ~Full(pool \ o, t)
             \/ \A v \in Worst(pool \ o) : ~LowerRate(v, t)
<1>1. PICK order \in SetToSeqs(out) :
        \A k \in DOMAIN order :
          LET before == {order[j] : j \in 1 .. k - 1}
          IN  order[k] \in Worst(pool \ before) /\ ~Stops(before)
  BY Zenon DEF Evictions
<1>2. out \in SUBSET pool
  BY DEF Evictions
<1>3. IsFiniteSet(out) /\ Cardinality(out) \in Nat
  BY <1>2, BytesAdd
<1> DEFINE D == 1 .. Cardinality(out)
<1>4. order \in [D -> out] /\ \A i, j \in D : i # j => order[i] # order[j]
  BY DEF SetToSeqs
<1>5. order \in Surjection(D, out)
  <2>1. order \in Injection(D, out)
    BY <1>4 DEF Injection, IsInjective
  <2>2. IsFiniteSet(D) /\ Cardinality(D) = Cardinality(out)
    BY <1>3, FS_Interval
  <2> HIDE DEF D
  <2> QED
    BY <1>3, <2>1, <2>2, FS_Injection
<1>6. PICK k \in D : order[k] = w
  BY <1>5 DEF Surjection
<1> DEFINE left == pool \ {order[j] : j \in 1 .. k - 1}
<1>7. w \in Worst(left) /\ \E v \in Worst(left) : LowerRate(v, t)
  <2>1. k \in DOMAIN order
    BY <1>4
  <2> QED
    BY <1>1, <1>6, <2>1
<1>8. left \in SUBSET pool
  OBVIOUS
<1> HIDE DEF left
<1>9. PICK v \in Worst(left) : LowerRate(v, t)
  BY <1>7
<1>10. v \in pool /\ w \in pool /\ ~LowerRate(v, w)
  BY <1>7, <1>8, <1>9 DEF Worst
<1>11. /\ CalculateFee(v) \in Int /\ CalculateFee(w) \in Int
       /\ Size[v] \in Nat \ {0} /\ Size[w] \in Nat \ {0} /\ Size[t] \in Nat \ {0}
  BY <1>10, MempoolAssumption DEF FeesKnown
<1> QED
  BY <1>9, <1>10, <1>11, RatesOrdered DEF LowerRate

\* What is pending has known inputs, so its fee is an integer.
LEMMA PendingFees ==
  ASSUME IInv, NEW t \in Pending, t \in Txs
  PROVE  CalculateFee(t) \in Int
BY FeeType DEF IInv, PendingKnown, InputsKnown

\* While the node is up a transaction leaves the mempool because a block holds
\* it, or for a newcomer that pays more for a byte.
THEOREM EvictedPaysLess == Spec => EvictedPayLess
<1> DEFINE Excused(w) ==
             \/ mode' = "down"
             \/ w \in Confirmed(chain)
             \/ \E th \in Threads : At(th, "verified") /\ held'[th] = None /\ LowerRate(w, held[th])
<1>1. ASSUME IInv, [Next]_vars, NEW w \in mempool \ mempool'
      PROVE  Excused(w)
  <2>1. Typed /\ mempool \in SUBSET Txs /\ IsChain(chain)
    BY <1>1 DEF IInv, Typed, TypeOK, IsChain
  <2>2. ASSUME NEW th \in Threads, AdmitTx(th)
        PROVE  Excused(w)
    <3>1. /\ At(th, "verified") /\ held[th] \in Txs
          /\ mempool' \in AddTransaction(mempool, held[th])
      BY <2>1, <2>2 DEF AdmitTx, At, Typed, HeldOK
    <3>2. held'[th] = None
      BY <2>1, <2>2 DEF AdmitTx, Typed, TypeOK
    <3>3. PICK out \in Evictions(mempool, held[th]) : mempool \ out \subseteq mempool'
      BY <1>1, <3>1 DEF AddTransaction
    <3>4. w \in out
      BY <1>1, <3>3
    <3>5. FeesKnown(mempool) /\ CalculateFee(held[th]) \in Int
      <4>1. mempool \subseteq Pending /\ held[th] \in Pending
        BY <3>1, LedgerAssumption DEF Pending
      <4> QED
        BY <1>1, <2>1, <3>1, <4>1, PendingFees DEF FeesKnown
    <3>6. LowerRate(w, held[th])
      BY <2>1, <3>1, <3>3, <3>4, <3>5, EvictionsPayLess
    <3> QED
      BY <3>1, <3>2, <3>6
  <2>3. CASE mempool' = RemoveBlockTransactions(mempool, Last(chain).txs)
    <3>1. w \in Range(Last(chain).txs)
      BY <1>1, <2>3 DEF RemoveBlockTransactions
    <3>2. Len(chain) \in DOMAIN chain /\ Last(chain) = chain[Len(chain)]
      BY <2>1, ChainType DEF Last
    <3> QED
      BY <3>1, <3>2 DEF Confirmed, TxIdsOf
  <2> QED
    BY <1>1, <2>2, <2>3, MempoolSteps
<1>2. IInv /\ [Next]_vars => [\A w \in mempool \ mempool' : Excused(w)]_vars
  BY <1>1
<1> QED
  BY <1>2, AlwaysIInv, PTL DEF Spec, EvictedPayLess
=============================================================================
