-------------------------- MODULE BlockchainProofs --------------------------
(***************************************************************************)
(* Proofs about module Blockchain, for any parameters and bounds: types,   *)
(* the window of timestamps, the median time past, and the direction in    *)
(* which the difficulty is retargeted.                                     *)
(***************************************************************************)
EXTENDS Blockchain, TLAPS, WellFoundedInduction, SequenceTheorems, FiniteSetTheorems

-----------------------------------------------------------------------------
(***************************************************************************)
(* Types                                                                   *)
(***************************************************************************)

\* A retarget, at whatever difficulty and after whatever time, ends between
\* MIN_BITS and MAX_BITS.
LEMMA RetargetType ==
  ASSUME NEW bits, NEW span
  PROVE  Retarget(bits, span) \in MIN_BITS .. MAX_BITS
<1> DEFINE target == (2^(HASH_BITS - bits) * Clamp(TARGET_TIMESPAN \div 4, span, TARGET_TIMESPAN * 4))
                       \div TARGET_TIMESPAN
<1>1. NumBits(target) \in Nat
  <2> DEFINE range == 0 .. HASH_BITS + 2
  <2>1. 0 \in Int /\ HASH_BITS + 2 \in Int
    BY BlockchainAssumption
  <2>2. IsFiniteSet(range)
    BY <2>1, FS_Interval
  <2> HIDE DEF target, range
  <2>3. IsFiniteSet({k \in range : 2^k <= target})
    BY <2>2, FS_Subset
  <2> QED
    BY <2>3, FS_CardinalityType DEF NumBits, range
<1> HIDE DEF target
<1>2. HASH_BITS - NumBits(target) \in Int /\ MIN_BITS \in Int /\ MAX_BITS \in Int /\ MIN_BITS <= MAX_BITS
  BY <1>1, BlockchainAssumption
<1>3. Clamp(MIN_BITS, HASH_BITS - NumBits(target), MAX_BITS) \in MIN_BITS .. MAX_BITS
  BY <1>2 DEF Clamp
<1> QED
  BY <1>3 DEF Retarget, target

LEMMA RequiredType ==
  ASSUME TypeOK
  PROVE  GetNextWorkRequired \in MIN_BITS .. MAX_BITS
<1>1. Len(chain) \in DOMAIN chain
  BY DEF TypeOK
<1>2. Tip \in Block
  BY <1>1 DEF TypeOK, Tip
<1>3. Tip.bits \in MIN_BITS .. MAX_BITS
  BY <1>2 DEF Block
<1> QED
  BY <1>3, RetargetType DEF GetNextWorkRequired

\* What LoadRecentTimestamps reads: one timestamp of each of the newest blocks.
Newest(blocks) ==
  [k \in 1 .. Smaller(Len(blocks), MEDIAN_TIME_SPAN) |-> blocks[Len(blocks) + 1 - k].ts]

LEMMA LoadedWindow ==
  ASSUME NEW blocks \in Seq(Block)
  PROVE  /\ Newest(blocks) \in Seq(Times)
         /\ Len(Newest(blocks)) = Smaller(Len(blocks), MEDIAN_TIME_SPAN)
         /\ \A k \in 1 .. Len(Newest(blocks)) : Newest(blocks)[k] = blocks[Len(blocks) + 1 - k].ts
<1> DEFINE size == Smaller(Len(blocks), MEDIAN_TIME_SPAN)
<1>1. size \in Nat /\ size <= Len(blocks) /\ Len(blocks) \in Nat
  BY BlockchainAssumption DEF Smaller
<1> HIDE DEF size
<1>2. ASSUME NEW k \in 1 .. size
      PROVE  blocks[Len(blocks) + 1 - k].ts \in Times
  <2>1. Len(blocks) + 1 - k \in 1 .. Len(blocks)
    BY <1>1
  <2>2. blocks[Len(blocks) + 1 - k] \in Block
    BY <2>1
  <2> QED
    BY <2>2 DEF Block
<1>3. Newest(blocks) = [k \in 1 .. size |-> blocks[Len(blocks) + 1 - k].ts]
  BY DEF Newest, size
<1>4. Newest(blocks) \in [1 .. size -> Times]
  BY <1>2, <1>3
<1>5. Newest(blocks) \in Seq(Times)
  BY <1>1, <1>4, SeqDef
<1>6. Len(Newest(blocks)) = size
  BY <1>1, <1>4, <1>5, LenProperties
<1> QED
  BY <1>3, <1>5, <1>6 DEF size

\* What PushTimestamp leaves in the window: the new timestamp, then the old
\* ones, as many as fit.
LEMMA PushedWindow ==
  ASSUME NEW ts \in Times, recent \in Seq(Times)
  PROVE  /\ PushTimestamp(ts) \in Seq(Times)
         /\ Len(PushTimestamp(ts)) = Smaller(Len(recent) + 1, MEDIAN_TIME_SPAN)
         /\ PushTimestamp(ts)[1] = ts
         /\ \A k \in 2 .. Len(PushTimestamp(ts)) : PushTimestamp(ts)[k] = recent[k - 1]
<1> DEFINE all  == <<ts>> \o recent
           size == Smaller(Len(recent) + 1, MEDIAN_TIME_SPAN)
<1>1. /\ all \in Seq(Times) /\ Len(all) = Len(recent) + 1
      /\ all[1] = ts /\ \A k \in 2 .. Len(all) : all[k] = recent[k - 1]
  <2>1. <<ts>> \in Seq(Times) /\ Len(<<ts>>) = 1 /\ <<ts>>[1] = ts
    OBVIOUS
  <2> QED
    BY <2>1, ConcatProperties
<1>2. size \in 1 .. Len(all)
  BY <1>1, BlockchainAssumption, LenProperties DEF Smaller
<1> HIDE DEF all, size
<1>3. SubSeq(all, 1, size) \in Seq(Times) /\ Len(SubSeq(all, 1, size)) = size
  BY <1>1, <1>2, SubSeqProperties
<1>4. \A k \in 1 .. size : SubSeq(all, 1, size)[k] = all[k]
  BY <1>1, <1>2, SubSeqProperties
<1> QED
  BY <1>1, <1>2, <1>3, <1>4 DEF PushTimestamp, all, size

-----------------------------------------------------------------------------
(***************************************************************************)
(* The inductive invariant                                                 *)
(***************************************************************************)

\* An appended block, whoever stores it, keeps the types and the window.
LEMMA StoreKeeps ==
  ASSUME TypeOK, WindowIsCache, process # "none",
         NEW ts \in Times, Store([ts |-> ts, bits |-> GetNextWorkRequired])
  PROVE  TypeOK' /\ WindowIsCache'
<1> DEFINE b == [ts |-> ts, bits |-> GetNextWorkRequired]
<1>1. b \in Block /\ b.ts = ts
  BY RequiredType DEF Block
<1> HIDE DEF b
<1>2. chain \in Seq(Block) /\ chain' = Append(chain, b) /\ recent' = PushTimestamp(ts)
  BY <1>1 DEF TypeOK, Store, b
<1>3. /\ chain' \in Seq(Block) /\ chain' # <<>> /\ Len(chain') = Len(chain) + 1
      /\ chain'[Len(chain) + 1] = b /\ \A i \in 1 .. Len(chain) : chain'[i] = chain[i]
  BY <1>1, <1>2, AppendProperties
<1>4. recent \in Seq(Times) /\ recent = Newest(chain)
  BY DEF TypeOK, WindowIsCache, LoadRecentTimestamps, Newest
<1>5. /\ recent' \in Seq(Times) /\ Len(recent') = Smaller(Len(recent) + 1, MEDIAN_TIME_SPAN)
      /\ recent'[1] = ts /\ \A k \in 2 .. Len(recent') : recent'[k] = recent[k - 1]
  BY <1>2, <1>4, PushedWindow
<1>6. TypeOK'
  BY <1>3, <1>5 DEF TypeOK, Store
<1>7. recent' = Newest(chain')
  <2> DEFINE loaded == Newest(chain')
  <2>1. /\ loaded \in Seq(Times) /\ Len(loaded) = Smaller(Len(chain'), MEDIAN_TIME_SPAN)
        /\ \A k \in 1 .. Len(loaded) : loaded[k] = chain'[Len(chain') + 1 - k].ts
    BY <1>3, LoadedWindow
  <2>2. /\ Len(recent) = Smaller(Len(chain), MEDIAN_TIME_SPAN)
        /\ \A k \in 1 .. Len(recent) : recent[k] = chain[Len(chain) + 1 - k].ts
    BY <1>2, <1>4, LoadedWindow
  <2> HIDE DEF loaded
  <2>3. Len(chain) \in Nat /\ MEDIAN_TIME_SPAN \in Nat \ {0}
    BY <1>2, BlockchainAssumption
  <2>4. Len(recent') = Len(loaded) /\ Len(recent') <= Len(recent) + 1 /\ Len(recent') <= Len(chain')
    BY <1>3, <1>5, <2>1, <2>2, <2>3 DEF Smaller
  <2>5. ASSUME NEW k \in 1 .. Len(recent')
        PROVE  recent'[k] = loaded[k]
    <3>1. loaded[k] = chain'[Len(chain) + 2 - k].ts
      BY <1>3, <2>1, <2>3, <2>4
    <3>2. CASE k = 1
      BY <1>1, <1>3, <1>5, <2>3, <3>1, <3>2
    <3>3. CASE k # 1
      <4>1. k \in 2 .. Len(recent') /\ k - 1 \in 1 .. Len(recent) /\ Len(chain) + 2 - k \in 1 .. Len(chain)
        BY <1>3, <1>4, <1>5, <2>3, <2>4, <3>3, LenProperties
      <4>2. recent'[k] = recent[k - 1] /\ recent[k - 1] = chain[Len(chain) + 1 - (k - 1)].ts
        BY <1>5, <2>2, <4>1
      <4>3. Len(chain) + 1 - (k - 1) = Len(chain) + 2 - k
        BY <2>3, <4>1
      <4> QED
        BY <1>3, <3>1, <4>1, <4>2, <4>3
    <3> QED
      BY <3>2, <3>3
  <2> QED
    BY <1>5, <2>1, <2>4, <2>5, SeqEqual DEF loaded
<1> QED
  BY <1>6, <1>7 DEF WindowIsCache, LoadRecentTimestamps, Newest

LEMMA Invariance ==
  Spec => [](TypeOK /\ WindowIsCache)
<1>1. Init => TypeOK /\ WindowIsCache
  <2> SUFFICES ASSUME Init PROVE TypeOK /\ WindowIsCache
    OBVIOUS
  <2>1. [ts |-> now, bits |-> INITIAL_BITS] \in Block
    BY BlockchainAssumption DEF Init, Block
  <2> QED
    BY <2>1 DEF Init, TypeOK, WindowIsCache
<1>2. TypeOK /\ WindowIsCache /\ [Next]_vars => TypeOK' /\ WindowIsCache'
  <2> SUFFICES ASSUME TypeOK, WindowIsCache, [Next]_vars
               PROVE  TypeOK' /\ WindowIsCache'
    OBVIOUS
  <2>1. ASSUME NEW who \in {"node", "cli"}, Open(who)
        PROVE  TypeOK' /\ WindowIsCache'
    <3>1. TypeOK'
      BY <2>1, LoadedWindow DEF Open, TypeOK, LoadRecentTimestamps, Newest
    <3>2. recent' = LoadRecentTimestamps'
      BY <2>1 DEF Open, LoadRecentTimestamps
    <3> QED
      BY <3>1, <3>2 DEF WindowIsCache
  <2>2. ASSUME NEW ts \in Times, AddBlock(ts)
        PROVE  TypeOK' /\ WindowIsCache'
    BY <2>2, StoreKeeps DEF AddBlock
  <2>3. CASE MineBlock
    BY <2>3, StoreKeeps DEF MineBlock, TypeOK
  <2>4. CASE Exit
    BY <2>4 DEF Exit, TypeOK, WindowIsCache
  <2>5. CASE Tick
    BY <2>5 DEF Tick, TypeOK, WindowIsCache, LoadRecentTimestamps
  <2>6. CASE UNCHANGED vars
    BY <2>6 DEF vars, TypeOK, WindowIsCache, LoadRecentTimestamps
  <2> QED
    BY <2>1, <2>2, <2>3, <2>4, <2>5, <2>6 DEF Next
<1> QED
  BY <1>1, <1>2, PTL DEF Spec

\* Types: every difficulty the chain ever requires lies between MIN_BITS and
\* MAX_BITS.
THEOREM ChainTypes == Spec => []TypeOK
BY Invariance, PTL

\* The window that AddBlock and MineBlock move by hand is the one that a
\* restart reads from the database.
THEOREM WindowCached == Spec => []WindowIsCache
BY Invariance, PTL

-----------------------------------------------------------------------------
(***************************************************************************)
(* The median                                                              *)
(***************************************************************************)

LEMMA PositionsFinite ==
  ASSUME NEW window \in Seq(Times), NEW t
  PROVE  /\ IsFiniteSet(Before(window, t)) /\ Cardinality(Before(window, t)) \in Nat
         /\ IsFiniteSet(UpTo(window, t)) /\ Cardinality(UpTo(window, t)) \in Nat
<1>1. DOMAIN window = 1 .. Len(window) /\ 1 \in Int /\ Len(window) \in Int
  BY LenProperties
<1>2. IsFiniteSet(DOMAIN window)
  BY <1>1, FS_Interval
<1>3. IsFiniteSet(Before(window, t)) /\ IsFiniteSet(UpTo(window, t))
  BY <1>2, FS_Subset DEF Before, UpTo
<1> QED
  BY <1>3, FS_CardinalityType

LEMMA LeastExists ==
  ASSUME NEW S \in SUBSET Nat, S # {}
  PROVE  \E m \in S : \A n \in S : m <= n
<1> DEFINE R == {ss \in Nat \X Nat : ss[1] < ss[2]}
<1>1. IsWellFoundedOn(R, Nat)
  BY NatLessThanWellFounded DEF OpToRel
<1>2. PICK m \in S : \A n \in S : ~(<<n, m>> \in R)
  BY <1>1, WFMin
<1>3. ASSUME NEW n \in S
      PROVE  m <= n
  <2>1. n \in Nat /\ m \in Nat /\ ~(<<n, m>> \in R)
    BY <1>2
  <2>2. n < m => <<n, m>> \in R
    BY <2>1
  <2> QED
    BY <2>1, <2>2
<1> QED
  BY <1>3

\* The timestamps of a window have a bound.
LEMMA WindowBounded ==
  ASSUME NEW window \in Seq(Times)
  PROVE  \E b \in Nat : \A i \in DOMAIN window : window[i] <= b
<1>1. /\ DOMAIN window = 1 .. Len(window) /\ Len(window) \in Nat
      /\ \A i \in DOMAIN window : window[i] \in Nat
  BY LenProperties, BlockchainAssumption
<1> DEFINE From(k, b) == \A i \in DOMAIN window : i > k => window[i] <= b
           Q == {k \in Nat : \E b \in Nat : From(k, b)}
<1>2. Len(window) \in Q
  BY <1>1
<1> HIDE DEF Q
<1>3. PICK k \in Q : \A j \in Q : k <= j
  BY <1>2, LeastExists DEF Q
<1>4. PICK b \in Nat : From(k, b)
  BY DEF Q
<1>5. k \in Nat
  BY DEF Q
<1>6. CASE k = 0
  <2>1. \A i \in DOMAIN window : i > k
    BY <1>1, <1>6
  <2>2. \A i \in DOMAIN window : window[i] <= b
    BY <1>4, <2>1
  <2> QED
    BY <2>2
<1>7. CASE k \in DOMAIN window
  <2> DEFINE c == IF b < window[k] THEN window[k] ELSE b
  <2>1. c \in Nat /\ b <= c /\ window[k] <= c
    BY <1>1, <1>7
  <2> HIDE DEF c
  <2>2. From(k - 1, c)
    BY <1>1, <1>4, <1>5, <1>7, <2>1
  <2>3. k - 1 \in Nat
    BY <1>1, <1>7
  <2>4. k - 1 \in Q
    BY <2>1, <2>2, <2>3 DEF Q
  <2> QED
    BY <1>3, <1>5, <2>4
<1>8. CASE k > Len(window)
  BY <1>1, <1>2, <1>3, <1>5, <1>8
<1> QED
  BY <1>1, <1>5, <1>6, <1>7, <1>8

\* A window that is not empty has a median: the least number that is above
\* or at more than half of the window.  The number before it is not, and the
\* timestamps in between are equal to it.
LEMMA MedianExists ==
  ASSUME NEW window \in Seq(Times), window # <<>>
  PROVE  Median(window) \in Times /\ IsMedian(window, Median(window))
<1> DEFINE middle == Len(window) \div 2
           S == {t \in Nat : middle < Cardinality(UpTo(window, t))}
<1>1. /\ DOMAIN window = 1 .. Len(window) /\ Len(window) \in Nat \ {0}
      /\ \A i \in DOMAIN window : window[i] \in Nat
  BY LenProperties, EmptySeq, BlockchainAssumption
<1>2. middle \in Nat /\ middle < Len(window)
  BY <1>1
<1>3. S # {}
  <2>1. PICK b \in Nat : \A i \in DOMAIN window : window[i] <= b
    BY WindowBounded
  <2>2. UpTo(window, b) = 1 .. Len(window)
    BY <1>1, <2>1 DEF UpTo
  <2>3. Cardinality(1 .. Len(window)) = Len(window)
    BY <1>1, FS_Interval
  <2> QED
    BY <1>2, <2>2, <2>3
<1> HIDE DEF S
<1>4. PICK m \in S : \A t \in S : m <= t
  BY <1>3, LeastExists DEF S
<1>5. m \in Nat /\ middle < Cardinality(UpTo(window, m))
  BY DEF S
<1>6. Cardinality(Before(window, m)) <= middle
  <2>1. CASE m = 0
    <3>1. Before(window, m) = {}
      BY <1>1, <2>1 DEF Before
    <3> QED
      BY <1>2, <3>1, FS_EmptySet
  <2>2. CASE m # 0
    <3>1. m - 1 \in Nat /\ m - 1 \notin S
      BY <1>4, <1>5, <2>2
    <3>2. Before(window, m) = UpTo(window, m - 1)
      BY <1>1, <1>5 DEF Before, UpTo
    <3>3. ~(middle < Cardinality(UpTo(window, m - 1)))
      BY <3>1 DEF S
    <3>4. Cardinality(UpTo(window, m - 1)) \in Nat
      BY PositionsFinite
    <3> QED
      BY <1>2, <3>2, <3>3, <3>4
  <2> QED
    BY <2>1, <2>2
<1>7. m \in Times
  <2>1. Before(window, m) # UpTo(window, m)
    BY <1>2, <1>5, <1>6, PositionsFinite
  <2>2. PICK i \in DOMAIN window : window[i] <= m /\ ~(window[i] < m)
    BY <1>1, <1>5, <2>1 DEF Before, UpTo
  <2>3. window[i] = m
    BY <1>1, <1>5, <2>2
  <2> QED
    BY <2>3, LenProperties
<1>8. \E t \in Times : IsMedian(window, t)
  BY <1>5, <1>6, <1>7 DEF IsMedian
<1> QED
  BY <1>8 DEF Median

\* A timestamp after the median moves the median no further back, whether or
\* not the oldest timestamp leaves the window: those at or below the new median
\* were below the old one, which is at most half of the window.
LEMMA MedianMoves ==
  ASSUME NEW old \in Seq(Times), old # <<>>, NEW new \in Seq(Times), Len(new) >= Len(old),
         new[1] > Median(old), \A k \in 2 .. Len(new) : new[k] = old[k - 1],
         Len(new) <= Len(old) + 1
  PROVE  Median(new) >= Median(old)
<1> DEFINE m == Median(old)
           n == Median(new)
<1>1. /\ Len(old) \in Nat \ {0} /\ DOMAIN old = 1 .. Len(old) /\ \A i \in DOMAIN old : old[i] \in Nat
      /\ Len(new) \in Nat /\ DOMAIN new = 1 .. Len(new) /\ \A i \in DOMAIN new : new[i] \in Nat
  BY LenProperties, EmptySeq, BlockchainAssumption
<1>2. new # <<>>
  BY <1>1
<1>3. m \in Nat /\ IsMedian(old, m) /\ n \in Nat /\ IsMedian(new, n)
  BY <1>2, MedianExists, BlockchainAssumption
<1>4. new[1] > m
  OBVIOUS
<1> HIDE DEF m, n
<1> SUFFICES ASSUME n < m PROVE FALSE
  BY <1>3 DEF m, n
<1> DEFINE f == [i \in UpTo(new, n) |-> i - 1]
<1>5. ASSUME NEW i \in UpTo(new, n)
      PROVE  i \in Nat /\ i - 1 \in Before(old, m)
  <2>1. i \in 1 .. Len(new) /\ new[i] <= n
    BY <1>1 DEF UpTo
  <2>2. i # 1
    BY <1>1, <1>3, <1>4, <2>1
  <2>3. i \in 2 .. Len(new) /\ i - 1 \in DOMAIN old
    BY <1>1, <2>1, <2>2
  <2>4. old[i - 1] <= n
    BY <2>1, <2>3
  <2> QED
    BY <1>1, <1>3, <2>3, <2>4 DEF Before
<1>6. f \in Injection(UpTo(new, n), Before(old, m))
  <2>1. f \in [UpTo(new, n) -> Before(old, m)]
    BY <1>5
  <2>2. \A i, j \in UpTo(new, n) : f[i] = f[j] => i = j
    BY <1>5
  <2> QED
    BY <2>1, <2>2 DEF Injection, IsInjective
<1>7. Cardinality(UpTo(new, n)) <= Cardinality(Before(old, m))
  BY <1>6, FS_Injection, PositionsFinite
<1>8. Cardinality(Before(old, m)) <= Len(old) \div 2 /\ Len(new) \div 2 < Cardinality(UpTo(new, n))
  BY <1>3 DEF IsMedian
<1>9. Len(old) \div 2 <= Len(new) \div 2
  BY <1>1
<1>10. Cardinality(UpTo(new, n)) \in Nat /\ Cardinality(Before(old, m)) \in Nat
  BY PositionsFinite
<1> QED
  BY <1>1, <1>7, <1>8, <1>9, <1>10

\* No block that AddBlock accepts moves the node's median time past back.
THEOREM MedianNeverFalls == Spec => MedianGrows
<1>1. ASSUME TypeOK, WindowIsCache, [Next]_vars, process = "node", chain' # chain
      PROVE  GetMedianTimePast' >= GetMedianTimePast
  <2>1. PICK ts \in Times : AddBlock(ts)
    BY <1>1 DEF Next, Open, Exit, MineBlock, Tick, vars
  <2>2. recent \in Seq(Times) /\ recent = Newest(chain) /\ chain \in Seq(Block) /\ chain # <<>>
    BY <1>1 DEF TypeOK, WindowIsCache, LoadRecentTimestamps, Newest
  <2>3. /\ recent' \in Seq(Times) /\ Len(recent') = Smaller(Len(recent) + 1, MEDIAN_TIME_SPAN)
        /\ recent'[1] = ts /\ \A k \in 2 .. Len(recent') : recent'[k] = recent[k - 1]
    BY <2>1, <2>2, PushedWindow DEF AddBlock, Store
  <2>4. Len(chain) \in Nat \ {0} /\ Len(recent) = Smaller(Len(chain), MEDIAN_TIME_SPAN)
    BY <2>2, LoadedWindow, EmptySeq, LenProperties
  <2>5. recent # <<>> /\ Len(recent') >= Len(recent) /\ Len(recent') <= Len(recent) + 1
    BY <2>2, <2>3, <2>4, BlockchainAssumption, EmptySeq DEF Smaller
  <2>6. ts > Median(recent)
    BY <2>1 DEF AddBlock, GetMedianTimePast
  <2>7. Median(recent') >= Median(recent)
    BY <2>2, <2>3, <2>5, <2>6, MedianMoves
  <2> QED
    BY <2>7 DEF GetMedianTimePast
<1> QED
  BY <1>1, Invariance, PTL DEF Spec, MedianGrows

-----------------------------------------------------------------------------
(***************************************************************************)
(* The difficulty                                                          *)
(***************************************************************************)

\* Powers of two are positive and grow.
LEMMA PowersGrow ==
  /\ \A k \in 0 .. HASH_BITS + 2 : 2^k \in Nat /\ 2^k > 0
  /\ \A j, k \in 0 .. HASH_BITS + 2 : j <= k => 2^j <= 2^k
<1>1. HASH_BITS \in Nat  BY BlockchainAssumption
<1> DEFINE top == HASH_BITS + 2
           P(k) == 2^k
<1>2. top \in Nat /\ \A k \in 1 .. top : P(k) = 2 * P(k - 1) /\ k - 1 \in 0 .. top
  <2>1. ASSUME NEW k \in 1 .. top PROVE P(k) = 2 * P(k - 1) /\ k - 1 \in 0 .. top
    <3>1. k - 1 \in 0 .. HASH_BITS + 1 /\ (k - 1) + 1 = k  BY <1>1
    <3>2. 2^((k - 1) + 1) = 2 * 2^(k - 1)  BY <3>1, DoublingAssumption
    <3>3. QED  BY <1>1, <3>1, <3>2
  <2>2. QED  BY <1>1, <2>1
<1>3. P(0) = 1  OBVIOUS
<1> HIDE DEF top, P
<1>4. ASSUME NEW k \in 0 .. top PROVE P(k) \in Nat /\ P(k) > 0
  <2> DEFINE bad == {i \in 0 .. top : ~(P(i) \in Nat /\ P(i) > 0)}
  <2>1. CASE bad = {}  BY <2>1
  <2>2. CASE bad # {}
    <3>1. bad \in SUBSET Nat  BY <1>2
    <3>2. PICK m \in bad : \A i \in bad : m <= i  BY <2>2, <3>1, LeastExists
    <3>3. m \in 0 .. top /\ ~(P(m) \in Nat /\ P(m) > 0)  BY <3>2
    <3>4. m # 0  BY <1>3, <3>3
    <3>5. m \in 1 .. top  BY <1>2, <3>3, <3>4
    <3>6. m - 1 \in 0 .. top /\ ~(m <= m - 1) /\ P(m) = 2 * P(m - 1)  BY <1>2, <3>5
    <3>7. P(m - 1) \in Nat /\ P(m - 1) > 0  BY <3>2, <3>6
    <3>8. QED  BY <3>3, <3>6, <3>7
  <2>3. QED  BY <2>1, <2>2
<1>5. ASSUME NEW j \in 0 .. top, NEW k \in 0 .. top, j <= k PROVE P(j) <= P(k)
  <2> DEFINE bad == {i \in 0 .. top : j <= i /\ ~(P(j) <= P(i))}
  <2>1. CASE bad = {}  BY <1>5, <2>1
  <2>2. CASE bad # {}
    <3>1. bad \in SUBSET Nat  BY <1>2
    <3>2. PICK m \in bad : \A i \in bad : m <= i  BY <2>2, <3>1, LeastExists
    <3>3. m \in 0 .. top /\ j <= m /\ ~(P(j) <= P(m))  BY <3>2
    <3>4. P(j) \in Nat /\ P(m) \in Nat  BY <1>4, <3>3
    <3>5. m # j  BY <3>3, <3>4
    <3>6. m \in 1 .. top /\ j <= m - 1  BY <1>2, <3>3, <3>5
    <3>7. m - 1 \in 0 .. top /\ ~(m <= m - 1) /\ P(m) = 2 * P(m - 1)  BY <1>2, <3>6
    <3>8. P(j) <= P(m - 1)  BY <3>2, <3>6, <3>7
    <3>9. P(m - 1) \in Nat  BY <1>4, <3>7
    <3>10. QED  BY <3>3, <3>4, <3>7, <3>8, <3>9
  <2>3. QED  BY <2>1, <2>2
<1>6. QED  BY <1>4, <1>5 DEF top, P

\* A number has at most k bits if it is below 2^k, and more if it is not.
LEMMA BitsOf ==
  ASSUME NEW n \in Nat, NEW k \in 0 .. HASH_BITS
  PROVE  /\ NumBits(n) \in Nat
         /\ n < 2^k => NumBits(n) <= k
         /\ n >= 2^k => NumBits(n) >= k + 1
<1> DEFINE range == 0 .. HASH_BITS + 2
           bits == {j \in range : 2^j <= n}
<1>1. HASH_BITS \in Nat /\ k \in Nat /\ k \in range  BY BlockchainAssumption
<1>2. \A j \in range : 2^j \in Nat  BY PowersGrow
<1>3. \A i, j \in range : i <= j => 2^i <= 2^j  BY PowersGrow
<1>4. \A j \in range : j \in Nat  BY <1>1
<1>5. NumBits(n) = Cardinality(bits)  BY DEF NumBits
<1>6. IsFiniteSet(bits)
  <2>1. 0 \in Int /\ HASH_BITS + 2 \in Int  BY <1>1
  <2>2. IsFiniteSet(range)  BY <2>1, FS_Interval
  <2> HIDE DEF range
  <2>3. QED  BY <2>2, FS_Subset
<1>7. Cardinality(bits) \in Nat  BY <1>6, FS_CardinalityType
<1>8. ASSUME n < 2^k PROVE Cardinality(bits) <= k
  <2> DEFINE low == 0 .. k - 1
  <2>1. bits \subseteq low
    <3>1. ASSUME NEW j \in bits PROVE j \in low
      <4>1. j \in range /\ 2^j <= n  OBVIOUS
      <4>2. 2^j \in Nat /\ 2^k \in Nat  BY <1>1, <1>2, <4>1
      <4>3. ~(k <= j)  BY <1>1, <1>3, <1>8, <4>1, <4>2
      <4>4. j \in Nat  BY <1>4, <4>1
      <4>5. QED  BY <1>1, <4>3, <4>4
    <3>2. QED  BY <3>1
  <2>2. IsFiniteSet(low) /\ Cardinality(low) = IF 0 > k - 1 THEN 0 ELSE k - 1 - 0 + 1
    <3>1. 0 \in Int /\ k - 1 \in Int  BY <1>1
    <3>2. QED  BY <3>1, FS_Interval
  <2>3. Cardinality(low) = k  BY <1>1, <2>2
  <2> HIDE DEF bits, low
  <2>4. Cardinality(bits) <= Cardinality(low)  BY <2>1, <2>2, FS_Subset
  <2>5. QED  BY <2>3, <2>4
<1>9. ASSUME n >= 2^k PROVE Cardinality(bits) >= k + 1
  <2> DEFINE low == 0 .. k
  <2>1. low \subseteq bits
    <3>1. ASSUME NEW j \in low PROVE j \in bits
      <4>1. j \in range /\ j <= k  BY <1>1
      <4>2. 2^j \in Nat /\ 2^k \in Nat /\ 2^j <= 2^k  BY <1>1, <1>2, <1>3, <4>1
      <4>3. 2^j <= n  BY <1>9, <4>2
      <4>4. QED  BY <4>1, <4>3
    <3>2. QED  BY <3>1
  <2>2. IsFiniteSet(low) /\ Cardinality(low) = IF 0 > k THEN 0 ELSE k - 0 + 1
    <3>1. 0 \in Int /\ k \in Int  BY <1>1
    <3>2. QED  BY <3>1, FS_Interval
  <2>3. Cardinality(low) = k + 1  BY <1>1, <2>2
  <2> HIDE DEF bits, low
  <2>4. Cardinality(low) <= Cardinality(bits)  BY <1>6, <2>1, FS_Subset
  <2>5. QED  BY <1>7, <2>3, <2>4
<1> HIDE DEF bits
<1>10. QED  BY <1>5, <1>7, <1>8, <1>9

\* What is scaled down gets smaller, rounding included; what is not does not.
LEMMA Scaled ==
  ASSUME NEW p \in Nat, p > 0, NEW a \in Nat, NEW t \in Nat, t > 0
  PROVE  /\ (p * a) \div t \in Nat
         /\ a < t => (p * a) \div t < p
         /\ a >= t => (p * a) \div t >= p
<1>1. p * a \in Nat  OBVIOUS
<1> DEFINE q == (p * a) \div t
<1>2. q \in Nat  BY <1>1
<1>3. ASSUME a < t PROVE q < p  BY <1>3
<1>4. ASSUME a >= t PROVE q >= p  BY <1>4
<1> HIDE DEF q
<1>5. QED  BY <1>2, <1>3, <1>4 DEF q

\* A retarget goes in the direction of the time the interval took, whatever the
\* clamps and the rounding do.
LEMMA RetargetDirection ==
  ASSUME NEW bits \in MIN_BITS .. MAX_BITS, NEW span \in Int
  PROVE  /\ Retarget(bits, span) \in MIN_BITS .. MAX_BITS
         /\ span < TARGET_TIMESPAN => Retarget(bits, span) >= bits
         /\ span >= TARGET_TIMESPAN => Retarget(bits, span) <= bits
<1> DEFINE t == TARGET_TIMESPAN
           actual == Clamp(t \div 4, span, t * 4)
           k == HASH_BITS - bits
           p == 2^k
           target == (p * actual) \div t
           x == HASH_BITS - NumBits(target)
<1>1. /\ t \in Nat /\ t > 0 /\ MIN_BITS \in Nat /\ MAX_BITS \in Nat /\ HASH_BITS \in Nat
      /\ MAX_BITS < HASH_BITS
  BY BlockchainAssumption
<1>2. bits \in Nat /\ MIN_BITS <= bits /\ bits <= MAX_BITS  BY <1>1
<1>3. k \in 0 .. HASH_BITS /\ HASH_BITS - k = bits  BY <1>1, <1>2
<1>4. p \in Nat /\ p > 0
  <2>1. k \in 0 .. HASH_BITS + 2  BY <1>1, <1>3
  <2> HIDE DEF k
  <2>2. QED  BY <2>1, PowersGrow
<1>5. /\ actual \in Nat
      /\ span < t => actual < t
      /\ span >= t => actual >= t
  <2>1. t \div 4 \in Nat /\ t \div 4 < t /\ t * 4 \in Nat /\ t * 4 >= t  BY <1>1
  <2> HIDE DEF t
  <2>2. QED  BY <1>1, <2>1 DEF Clamp
<1>6. Retarget(bits, span) = Clamp(MIN_BITS, x, MAX_BITS)  BY DEF Retarget
<1> HIDE DEF t, actual, k, p
<1>7. /\ target \in Nat
      /\ actual < t => target < p
      /\ actual >= t => target >= p
  BY <1>1, <1>4, <1>5, Scaled
<1> HIDE DEF target
<1>8. /\ NumBits(target) \in Nat
      /\ target < p => NumBits(target) <= k
      /\ target >= p => NumBits(target) >= k + 1
  BY <1>3, <1>7, BitsOf DEF p
<1>9. k \in Int  BY <1>1, <1>3
<1>10. /\ x \in Int
       /\ span < t => x >= bits
       /\ span >= t => x <= bits
  <2>1. x \in Int  BY <1>1, <1>8
  <2>2. ASSUME span < t PROVE x >= bits
    <3>1. NumBits(target) <= k  BY <1>5, <1>7, <1>8, <2>2
    <3>2. QED  BY <1>1, <1>2, <1>3, <1>8, <1>9, <3>1
  <2>3. ASSUME span >= t PROVE x <= bits
    <3>1. NumBits(target) >= k + 1  BY <1>5, <1>7, <1>8, <2>3
    <3>2. QED  BY <1>1, <1>2, <1>3, <1>8, <1>9, <3>1
  <2> HIDE DEF x
  <2>4. QED  BY <2>1, <2>2, <2>3
<1> HIDE DEF x
<1>11. QED  BY <1>1, <1>2, <1>6, <1>10 DEF Clamp, t

\* The block at a place follows an interval, and goes in its direction.
Directed(blocks, i) ==
  i > RETARGET_INTERVAL /\ (i - 1) % RETARGET_INTERVAL = 0 =>
    LET span == blocks[i - 1].ts - blocks[i - RETARGET_INTERVAL].ts
    IN  IF span < TARGET_TIMESPAN THEN blocks[i].bits >= blocks[i - 1].bits
                                  ELSE blocks[i].bits <= blocks[i - 1].bits

\* An appended block goes in the direction of the interval it follows.
LEMMA StoreDirected ==
  ASSUME TypeOK, RetargetsTowards,
         NEW ts \in Times, Store([ts |-> ts, bits |-> GetNextWorkRequired])
  PROVE  RetargetsTowards'
<1> DEFINE b == [ts |-> ts, bits |-> GetNextWorkRequired]
           n == Len(chain)
<1>1. b \in Block /\ b.bits = GetNextWorkRequired  BY RequiredType DEF Block
<1>2. chain \in Seq(Block) /\ chain # <<>> /\ chain' = Append(chain, b)
  BY DEF TypeOK, Store
<1> HIDE DEF b
<1>3. /\ chain' \in Seq(Block) /\ Len(chain') = n + 1
      /\ chain'[n + 1] = b /\ \A i \in 1 .. n : chain'[i] = chain[i]
  BY <1>1, <1>2, AppendProperties
<1>4. n \in Nat /\ n >= 1 /\ DOMAIN chain = 1 .. n /\ DOMAIN chain' = 1 .. n + 1
  BY <1>2, <1>3, LenProperties, EmptySeq
<1>5. /\ RETARGET_INTERVAL \in Nat /\ RETARGET_INTERVAL >= 1 /\ Times \subseteq Nat
      /\ MIN_BITS \in Nat /\ MAX_BITS \in Nat
  BY BlockchainAssumption
<1>6. \A i \in 1 .. n : Directed(chain, i)  BY <1>4 DEF RetargetsTowards, Directed
<1>7. ASSUME NEW i \in 1 .. n PROVE Directed(chain', i)
  <2>1. CASE i > RETARGET_INTERVAL
    <3>1. i - 1 \in 1 .. n /\ i - RETARGET_INTERVAL \in 1 .. n  BY <1>4, <1>5, <2>1
    <3>2. /\ chain'[i] = chain[i] /\ chain'[i - 1] = chain[i - 1]
          /\ chain'[i - RETARGET_INTERVAL] = chain[i - RETARGET_INTERVAL]
      BY <1>3, <3>1
    <3>3. QED  BY <1>6, <3>2 DEF Directed
  <2>2. CASE ~(i > RETARGET_INTERVAL)  BY <2>2 DEF Directed
  <2>3. QED  BY <2>1, <2>2
<1>8. Directed(chain', n + 1)
  <2>1. SUFFICES ASSUME n + 1 > RETARGET_INTERVAL, n % RETARGET_INTERVAL = 0
                 PROVE  Directed(chain', n + 1)
    <3>1. (n + 1) - 1 = n  BY <1>4
    <3>2. QED  BY <3>1 DEF Directed
  <2> DEFINE anchor == n - (RETARGET_INTERVAL - 1)
             span == Tip.ts - chain[anchor].ts
  <2>2. anchor \in 1 .. n /\ n \in 1 .. n /\ ~(anchor < 1) /\ (n + 1) - RETARGET_INTERVAL = anchor
    BY <1>4, <1>5, <2>1
  <2>3. b.bits = Retarget(Tip.bits, span)  BY <1>1, <2>1, <2>2 DEF GetNextWorkRequired
  <2> HIDE DEF anchor
  <2>4. chain[n] \in Block /\ chain[anchor] \in Block /\ Tip = chain[n]
    BY <1>2, <2>2, ElementOfSeq DEF Tip
  <2>5. Tip.bits \in MIN_BITS .. MAX_BITS /\ Tip.ts \in Times /\ chain[anchor].ts \in Times
    BY <2>4 DEF Block
  <2>6. span \in Int  BY <1>5, <2>5
  <2>7. chain'[n] = Tip /\ chain'[anchor] = chain[anchor]  BY <1>3, <2>2, <2>4
  <2>8. span = chain'[n].ts - chain'[anchor].ts  BY <2>7
  <2> HIDE DEF span
  <2>9. IF span < TARGET_TIMESPAN THEN b.bits >= Tip.bits ELSE b.bits <= Tip.bits
    <3>1. TARGET_TIMESPAN \in Nat  BY BlockchainAssumption
    <3>2. /\ span < TARGET_TIMESPAN => b.bits >= Tip.bits
          /\ span >= TARGET_TIMESPAN => b.bits <= Tip.bits
      BY <2>3, <2>5, <2>6, RetargetDirection
    <3>3. QED  BY <2>6, <3>1, <3>2
  <2>10. (n + 1) - 1 = n  BY <1>4
  <2>11. chain'[(n + 1) - RETARGET_INTERVAL] = chain'[anchor] /\ chain'[(n + 1) - 1] = Tip
    BY <2>2, <2>7, <2>10
  <2>12. chain'[n + 1].bits = b.bits  BY <1>3
  <2>13. span = chain'[(n + 1) - 1].ts - chain'[(n + 1) - RETARGET_INTERVAL].ts
    BY <2>7, <2>8, <2>11
  <2> HIDE DEF n
  <2>14. IF chain'[(n + 1) - 1].ts - chain'[(n + 1) - RETARGET_INTERVAL].ts < TARGET_TIMESPAN
         THEN chain'[n + 1].bits >= chain'[(n + 1) - 1].bits
         ELSE chain'[n + 1].bits <= chain'[(n + 1) - 1].bits
    BY <2>9, <2>11, <2>12, <2>13
  <2>15. QED  BY <2>14 DEF Directed
<1>9. ASSUME NEW i \in 1 .. n + 1 PROVE Directed(chain', i)
  <2>1. i \in 1 .. n \/ i = n + 1  BY <1>4
  <2>2. QED  BY <1>7, <1>8, <2>1
<1>10. QED  BY <1>4, <1>9 DEF RetargetsTowards, Directed

\* The blocks that follow an interval are no easier if it was shorter than it
\* should be, and no harder if it was not: the clamps of the time and of the
\* bits, the division and the rounding to a power of two never turn the
\* direction round.
THEOREM RetargetsProperly == Spec => []RetargetsTowards
<1>1. Init => RetargetsTowards
  <2>1. SUFFICES ASSUME Init PROVE RetargetsTowards  OBVIOUS
  <2>2. DOMAIN chain = 1 .. 1  BY <2>1 DEF Init
  <2>3. \A i \in DOMAIN chain : ~(i > RETARGET_INTERVAL)  BY <2>2, BlockchainAssumption
  <2>4. QED  BY <2>3 DEF RetargetsTowards
<1>2. TypeOK /\ RetargetsTowards /\ [Next]_vars => RetargetsTowards'
  <2> SUFFICES ASSUME TypeOK, RetargetsTowards, [Next]_vars PROVE RetargetsTowards'  OBVIOUS
  <2>1. chain' = chain => RetargetsTowards'  BY DEF RetargetsTowards
  <2>2. ASSUME NEW who \in {"node", "cli"}, Open(who) PROVE RetargetsTowards'
    BY <2>1, <2>2 DEF Open
  <2>3. ASSUME NEW ts \in Times, AddBlock(ts) PROVE RetargetsTowards'
    BY <2>3, StoreDirected DEF AddBlock
  <2>4. CASE MineBlock  BY <2>4, StoreDirected DEF MineBlock, TypeOK
  <2>5. CASE Exit \/ Tick \/ UNCHANGED vars  BY <2>1, <2>5 DEF Exit, Tick, vars
  <2>6. QED  BY <2>2, <2>3, <2>4, <2>5 DEF Next
<1>3. QED  BY <1>1, <1>2, ChainTypes, PTL DEF Spec
=============================================================================
