---------------------------- MODULE ListsProofs -----------------------------
(***************************************************************************)
(* Lemmas about lists: what Only keeps of one, and how a list that is      *)
(* prefixed, lengthened or read from the front relates to the one before.  *)
(***************************************************************************)
EXTENDS Lists, SequencesExt, FiniteSetTheorems, SequenceTheorems, TLAPS

\* The first entry and the others.
LEMMA TailEntries ==
  ASSUME NEW T, NEW s \in Seq(T), s # <<>>
  PROVE  /\ Head(s) \in T /\ Head(s) = s[1] /\ Tail(s) \in Seq(T)
         /\ \A i \in DOMAIN s : i = 1 \/ (i - 1 \in DOMAIN Tail(s) /\ Tail(s)[i - 1] = s[i])
         /\ \A i \in DOMAIN Tail(s) : i + 1 \in DOMAIN s /\ Tail(s)[i] = s[i + 1]
<1>1. /\ Head(s) = s[1] /\ Tail(s) \in Seq(T) /\ Len(Tail(s)) = Len(s) - 1
      /\ \A i \in 1 .. Len(Tail(s)) : Tail(s)[i] = s[i + 1]
  BY HeadTailProperties
<1>2. Len(s) \in Nat /\ DOMAIN s = 1 .. Len(s) /\ DOMAIN Tail(s) = 1 .. Len(Tail(s))
  BY <1>1, LenProperties
<1>3. Len(s) # 0  BY EmptySeq
<1>4. 1 \in DOMAIN s  BY <1>2, <1>3
<1>5. Head(s) \in T  BY <1>1, <1>2, <1>4, ElementOfSeq
<1>6. ASSUME NEW i \in DOMAIN s, i # 1
      PROVE  i - 1 \in DOMAIN Tail(s) /\ Tail(s)[i - 1] = s[i]
  <2>1. i \in Nat /\ i - 1 \in 1 .. Len(Tail(s)) /\ (i - 1) + 1 = i  BY <1>1, <1>2, <1>6
  <2>2. Tail(s)[i - 1] = s[(i - 1) + 1]  BY <1>1, <2>1
  <2>3. QED  BY <1>2, <2>1, <2>2
<1>7. ASSUME NEW i \in DOMAIN Tail(s) PROVE i + 1 \in DOMAIN s /\ Tail(s)[i] = s[i + 1]
  BY <1>1, <1>2
<1>8. QED  BY <1>1, <1>5, <1>6, <1>7

\* A list and what is put behind it.
LEMMA ConcatEntries ==
  ASSUME NEW T, NEW s \in Seq(T), NEW r \in Seq(T)
  PROVE  /\ s \o r \in Seq(T)
         /\ \A i \in DOMAIN s : i \in DOMAIN (s \o r) /\ (s \o r)[i] = s[i]
         /\ \A i \in DOMAIN r : Len(s) + i \in DOMAIN (s \o r) /\ (s \o r)[Len(s) + i] = r[i]
<1>1. /\ s \o r \in Seq(T) /\ Len(s \o r) = Len(s) + Len(r)
      /\ \A i \in 1 .. Len(s) + Len(r) : (s \o r)[i] = IF i <= Len(s) THEN s[i] ELSE r[i - Len(s)]
  BY ConcatProperties
<1>2. /\ Len(s) \in Nat /\ DOMAIN s = 1 .. Len(s) /\ Len(r) \in Nat /\ DOMAIN r = 1 .. Len(r)
  BY LenProperties
<1>3. DOMAIN (s \o r) = 1 .. Len(s) + Len(r)  BY <1>1, LenProperties
<1>4. ASSUME NEW i \in DOMAIN s PROVE i \in DOMAIN (s \o r) /\ (s \o r)[i] = s[i]
  <2>1. i \in 1 .. Len(s) + Len(r) /\ i <= Len(s)  BY <1>2
  <2>2. QED  BY <1>1, <1>3, <2>1
<1>5. ASSUME NEW i \in DOMAIN r
      PROVE  Len(s) + i \in DOMAIN (s \o r) /\ (s \o r)[Len(s) + i] = r[i]
  <2>1. /\ Len(s) + i \in 1 .. Len(s) + Len(r) /\ ~(Len(s) + i <= Len(s))
        /\ (Len(s) + i) - Len(s) = i
    BY <1>2
  <2>2. QED  BY <1>1, <1>3, <2>1
<1>6. QED  BY <1>1, <1>4, <1>5

\* One entry more.
LEMMA AppendEntries ==
  ASSUME NEW T, NEW s \in Seq(T), NEW x \in T
  PROVE  /\ Append(s, x) \in Seq(T)
         /\ \A i \in DOMAIN s : i \in DOMAIN Append(s, x) /\ Append(s, x)[i] = s[i]
         /\ \E i \in DOMAIN Append(s, x) : Append(s, x)[i] = x
<1>1. /\ Append(s, x) \in Seq(T) /\ Len(Append(s, x)) = Len(s) + 1
      /\ \A i \in 1 .. Len(s) : Append(s, x)[i] = s[i]
      /\ Append(s, x)[Len(s) + 1] = x
  BY AppendProperties
<1>2. Len(s) \in Nat /\ DOMAIN s = 1 .. Len(s)  BY LenProperties
<1>3. DOMAIN Append(s, x) = 1 .. Len(s) + 1  BY <1>1, LenProperties
<1>4. Len(s) + 1 \in DOMAIN Append(s, x)  BY <1>2, <1>3
<1>5. QED  BY <1>1, <1>2, <1>3, <1>4

\* A part of a list, perhaps empty.
LEMMA PartEntries ==
  ASSUME NEW T, NEW s \in Seq(T), NEW a \in Nat, NEW b \in Nat,
         1 <= a, a <= b + 1, b <= Len(s)
  PROVE  /\ SubSeq(s, a, b) \in Seq(T)
         /\ Len(SubSeq(s, a, b)) = b - a + 1 /\ DOMAIN SubSeq(s, a, b) = 1 .. b - a + 1
         /\ \A i \in 1 .. b - a + 1 : SubSeq(s, a, b)[i] = s[a + i - 1]
<1>1. Len(s) \in Nat /\ DOMAIN s = 1 .. Len(s)  BY LenProperties
<1>2. a \in Int /\ b \in Int  OBVIOUS
<1>3. ASSUME NEW i \in a .. b PROVE s[i] \in T
  <2>1. i \in DOMAIN s  BY <1>1, <1>3
  <2>2. QED  BY <1>1, <2>1, ElementOfSeq
<1>4. /\ SubSeq(s, a, b) \in Seq(T)
      /\ Len(SubSeq(s, a, b)) = IF a <= b THEN b - a + 1 ELSE 0
      /\ \A i \in 1 .. b - a + 1 : SubSeq(s, a, b)[i] = s[a + i - 1]
  BY <1>2, <1>3, SubSeqProperties
<1>5. ~(a <= b) => b - a + 1 = 0  OBVIOUS
<1>6. Len(SubSeq(s, a, b)) = b - a + 1  BY <1>4, <1>5
<1>7. DOMAIN SubSeq(s, a, b) = 1 .. b - a + 1  BY <1>4, <1>6, LenProperties
<1>8. QED  BY <1>4, <1>6, <1>7

\* The list v begins with w.
Longer(v, w) == Len(w) <= Len(v) /\ \A i \in 1 .. Len(w) : v[i] = w[i]

\* So it does when something is put behind w.
LEMMA ConcatLonger ==
  ASSUME NEW T, NEW w \in Seq(T), NEW r \in Seq(T)
  PROVE  /\ w \o r \in Seq(T) /\ Longer(w \o r, w) /\ Len(w \o r) = Len(w) + Len(r)
         /\ \A i \in Len(w) + 1 .. Len(w \o r) :
              i - Len(w) \in 1 .. Len(r) /\ (w \o r)[i] = r[i - Len(w)]
<1>1. /\ w \o r \in Seq(T) /\ Len(w \o r) = Len(w) + Len(r)
      /\ \A i \in 1 .. Len(w) + Len(r) : (w \o r)[i] = IF i <= Len(w) THEN w[i] ELSE r[i - Len(w)]
  BY ConcatProperties
<1>2. Len(w) \in Nat /\ Len(r) \in Nat  BY LenProperties
<1>3. QED  BY <1>1, <1>2 DEF Longer

\* One entry more.
LEMMA AppendLonger ==
  ASSUME NEW T, NEW w \in Seq(T), NEW x \in T
  PROVE  /\ Append(w, x) \in Seq(T) /\ Longer(Append(w, x), w)
         /\ Len(Append(w, x)) = Len(w) + 1 /\ Append(w, x)[Len(w) + 1] = x
<1>1. Len(w) \in Nat  BY LenProperties
<1>2. QED  BY <1>1, AppendProperties DEF Longer

\* The entries behind the first one.
LEMMA TailShift ==
  ASSUME NEW T, NEW w \in Seq(T), w # <<>>
  PROVE  /\ Head(w) \in T /\ Head(w) = w[1] /\ Tail(w) \in Seq(T)
         /\ Len(w) \in Nat /\ Len(w) >= 1 /\ Len(Tail(w)) = Len(w) - 1
         /\ \A i \in 1 .. Len(w) - 1 : Tail(w)[i] = w[i + 1]
<1>1. Len(w) \in Nat \ {0}  BY EmptySeq
<1>2. QED  BY <1>1, HeadTailProperties

\* That is, w is a prefix of v.
LEMMA PrefixLonger ==
  ASSUME NEW T, NEW v \in Seq(T), NEW w \in Seq(T)
  PROVE  IsPrefix(w, v) <=> Longer(v, w)
<1> DEFINE start == SubSeq(v, 1, Len(w))
<1>1. Len(w) \in Nat /\ Len(v) \in Nat  BY LenProperties
<1>2. SubSeq(w, 1, Len(w)) = w  BY SubSeqFull
<1>3. IsPrefix(w, v) <=> Len(w) <= Len(v) /\ w = start  BY <1>2 DEF IsPrefix
<1>4. ASSUME Len(w) <= Len(v) PROVE w = start <=> \A i \in 1 .. Len(w) : v[i] = w[i]
  <2>1. 1 \in Nat /\ 1 <= 1 /\ 1 <= Len(w) + 1  BY <1>1
  <2>2. /\ start \in Seq(T) /\ Len(start) = Len(w) - 1 + 1
        /\ \A i \in 1 .. Len(w) - 1 + 1 : start[i] = v[1 + i - 1]
    BY <1>1, <1>4, <2>1, PartEntries
  <2>3. Len(w) - 1 + 1 = Len(w) /\ \A i \in 1 .. Len(w) : 1 + i - 1 = i  BY <1>1
  <2> HIDE DEF start
  <2>4. \A i \in 1 .. Len(w) : start[i] = v[i]  BY <2>2, <2>3
  <2>5. Len(start) = Len(w)  BY <2>2, <2>3
  <2>6. (\A i \in 1 .. Len(w) : v[i] = w[i]) => w = start
    <3>1. SUFFICES ASSUME \A i \in 1 .. Len(w) : v[i] = w[i] PROVE w = start  OBVIOUS
    <3>2. \A i \in 1 .. Len(w) : w[i] = start[i]  BY <2>4, <3>1
    <3>3. QED  BY <2>2, <2>5, <3>2, SeqEqual
  <2>7. QED  BY <2>4, <2>6
<1>5. QED  BY <1>3, <1>4 DEF Longer

\* The part of a list up to an entry.
LEMMA PartLonger ==
  ASSUME NEW T, NEW s \in Seq(T), NEW k \in 0 .. Len(s)
  PROVE  SubSeq(s, 1, k) \in Seq(T) /\ Len(SubSeq(s, 1, k)) = k /\ Longer(s, SubSeq(s, 1, k))
<1>1. Len(s) \in Nat  BY LenProperties
<1>2. 1 \in Nat /\ 1 <= 1 /\ k \in Nat /\ 1 <= k + 1 /\ k <= Len(s) /\ k - 1 + 1 = k  BY <1>1
<1>3. \A i \in 1 .. k : 1 + i - 1 = i  BY <1>2
<1> DEFINE start == SubSeq(s, 1, k)
<1>4. /\ start \in Seq(T) /\ Len(start) = k - 1 + 1
      /\ \A i \in 1 .. k - 1 + 1 : start[i] = s[1 + i - 1]
  BY <1>2, PartEntries
<1> HIDE DEF start
<1>5. Len(start) = k /\ \A i \in 1 .. k : start[i] = s[i]  BY <1>2, <1>3, <1>4
<1>6. QED  BY <1>2, <1>4, <1>5 DEF Longer, start

\* A list without its last entry.
LEMMA FrontLonger ==
  ASSUME NEW T, NEW s \in Seq(T), s # <<>>
  PROVE  Front(s) \in Seq(T) /\ Len(Front(s)) = Len(s) - 1 /\ Longer(s, Front(s))
<1>1. Len(s) \in Nat \ {0}  BY EmptySeq
<1>2. Len(s) - 1 \in 0 .. Len(s)  BY <1>1
<1>3. QED  BY <1>2, PartLonger DEF Front

\* A prefix of a prefix is one.
LEMMA LongerStill ==
  ASSUME NEW T, NEW u \in Seq(T), NEW v \in Seq(T), NEW w \in Seq(T), Longer(v, u), Longer(w, v)
  PROVE  Longer(w, u)
<1>1. Len(u) \in Nat /\ Len(v) \in Nat /\ Len(w) \in Nat  BY LenProperties
<1>2. QED  BY <1>1 DEF Longer

\* The places of the entries that Only keeps, the number of them up to a place,
\* and the place of the k-th.
Places(list, S) == {i \in DOMAIN list : list[i] \in S}

Rank(list, S, i) == Cardinality({j \in Places(list, S) : j <= i})

Place(list, S, k) == CHOOSE i \in Places(list, S) : Rank(list, S, i) = k

\* Each k up to the number of places has its place and each place its k: the rank
\* is an injection of the places into a set with as many elements.
LEMMA RankedPlaces ==
  ASSUME NEW T, NEW list \in Seq(T), NEW S
  PROVE  /\ Cardinality(Places(list, S)) \in Nat /\ Cardinality(Places(list, S)) <= Len(list)
         /\ \A k \in 1 .. Cardinality(Places(list, S)) : Place(list, S, k) \in Places(list, S)
         /\ \A i \in Places(list, S) : /\ Rank(list, S, i) \in 1 .. Cardinality(Places(list, S))
                                       /\ Place(list, S, Rank(list, S, i)) = i
<1> DEFINE P == Places(list, S)
           n == Cardinality(P)
           upto(i) == {j \in P : j <= i}
           rank == [i \in P |-> Rank(list, S, i)]
<1>1. DOMAIN list = 1 .. Len(list) /\ Len(list) \in Nat  BY LenProperties
<1>2. IsFiniteSet(1 .. Len(list)) /\ Cardinality(1 .. Len(list)) = Len(list)
  <2>1. ASSUME NEW m \in Nat PROVE IsFiniteSet(1 .. m) /\ Cardinality(1 .. m) = m
    <3>1. 1 \in Int /\ m \in Int /\ (1 > m => m = 0) /\ m - 1 + 1 = m  OBVIOUS
    <3>2. QED  BY <3>1, FS_Interval
  <2>2. QED  BY <1>1, <2>1
<1>3. P \in SUBSET (1 .. Len(list))  BY <1>1 DEF Places
<1>4. IsFiniteSet(P) /\ n \in Nat /\ n <= Len(list)
  BY <1>2, <1>3, FS_Subset, FS_CardinalityType
<1>5. \A i \in P : Rank(list, S, i) = Cardinality(upto(i))  BY DEF Rank
<1> HIDE DEF P
<1>6. ASSUME NEW i \in P
      PROVE  IsFiniteSet(upto(i)) /\ Cardinality(upto(i)) \in 1 .. n
  <2>0. i \in Int /\ i <= i  BY <1>3
  <2>1. upto(i) \in SUBSET P /\ i \in upto(i)  BY <2>0
  <2>2. IsFiniteSet(upto(i)) /\ Cardinality(upto(i)) <= n  BY <1>4, <2>1, FS_Subset
  <2>3. Cardinality(upto(i)) \in Nat /\ Cardinality(upto(i)) # 0
    BY <2>1, <2>2, FS_CardinalityType, FS_EmptySet
  <2>4. QED  BY <1>4, <2>2, <2>3
<1>7. ASSUME NEW i \in P, NEW j \in P, i < j
      PROVE  Cardinality(upto(i)) # Cardinality(upto(j))
  <2>0. i \in Int /\ j \in Int /\ P \subseteq Int  BY <1>3
  <2>1. upto(i) \in SUBSET upto(j) /\ j \in upto(j) /\ j \notin upto(i)
    <3>1. \A k \in Int : k <= i => k <= j  BY <1>7, <2>0
    <3>2. j <= j /\ ~(j <= i)  BY <1>7, <2>0
    <3>3. QED  BY <2>0, <3>1, <3>2
  <2>2. upto(i) # upto(j)  BY <2>1
  <2>3. IsFiniteSet(upto(j))  BY <1>6
  <2>4. QED  BY <2>1, <2>2, <2>3, FS_Subset
<1>8. \A i, j \in P : rank[i] = rank[j] => i = j
  <2>1. ASSUME NEW i \in P, NEW j \in P, rank[i] = rank[j], i # j PROVE FALSE
    <3>1. i < j \/ j < i  BY <1>3, <2>1
    <3>2. Cardinality(upto(i)) = Cardinality(upto(j))  BY <1>5, <2>1
    <3>3. QED  BY <1>7, <3>1, <3>2
  <2>2. QED  BY <2>1
<1>9. \A i \in P : Rank(list, S, i) \in 1 .. n  BY <1>5, <1>6
<1>10. rank \in Injection(P, 1 .. n)
  <2>1. rank \in [P -> 1 .. n]  BY <1>9
  <2>2. QED  BY <1>8, <2>1 DEF Injection, IsInjective
<1>11. rank \in Surjection(P, 1 .. n)
  <2>1. IsFiniteSet(1 .. n) /\ Cardinality(1 .. n) = n  BY <1>4, FS_Interval
  <2>2. QED  BY <1>10, <2>1, FS_Injection
<1>12. ASSUME NEW k \in 1 .. n
       PROVE  Place(list, S, k) \in P /\ Rank(list, S, Place(list, S, k)) = k
  <2>1. \E i \in P : rank[i] = k  BY <1>11 DEF Surjection
  <2>2. \E i \in P : Rank(list, S, i) = k  BY <2>1
  <2>3. Place(list, S, k) = CHOOSE i \in P : Rank(list, S, i) = k  BY DEF Place, P
  <2>4. QED  BY <2>2, <2>3
<1>13. ASSUME NEW i \in P PROVE Place(list, S, Rank(list, S, i)) = i
  <2> DEFINE k == Rank(list, S, i)
  <2>1. k \in 1 .. n  BY <1>9
  <2>2. Place(list, S, k) \in P /\ Rank(list, S, Place(list, S, k)) = k  BY <1>12, <2>1
  <2>3. rank[Place(list, S, k)] = rank[i]  BY <2>2
  <2>4. QED  BY <1>8, <2>2, <2>3
<1>14. QED  BY <1>4, <1>9, <1>12, <1>13 DEF P

\* What Only keeps, by the places.
LEMMA OnlyPlaces ==
  ASSUME NEW list, NEW S
  PROVE  Only(list, S) = [k \in 1 .. Cardinality(Places(list, S)) |-> list[Place(list, S, k)]]
BY DEF Only, Places, Rank, Place

\* Only keeps no more than there is, and nothing that is not in S.
LEMMA OnlyRange ==
  ASSUME NEW T, NEW list \in Seq(T), NEW S
  PROVE  /\ Only(list, S) \in Seq(T)
         /\ Len(Only(list, S)) <= Len(list)
         /\ \A k \in DOMAIN Only(list, S) : Only(list, S)[k] \in S
<1> DEFINE n == Cardinality(Places(list, S))
<1>1. n \in Nat /\ n <= Len(list)  BY RankedPlaces
<1>2. ASSUME NEW k \in 1 .. n PROVE list[Place(list, S, k)] \in T /\ list[Place(list, S, k)] \in S
  <2>1. Place(list, S, k) \in Places(list, S)  BY RankedPlaces
  <2>2. QED  BY <2>1, LenProperties, ElementOfSeq DEF Places
<1>3. Only(list, S) = [k \in 1 .. n |-> list[Place(list, S, k)]]  BY OnlyPlaces
<1> HIDE DEF n
<1>4. Only(list, S) \in [1 .. n -> T]  BY <1>2, <1>3
<1>5. Only(list, S) \in Seq(T) /\ Len(Only(list, S)) = n
  BY <1>1, <1>4, SeqDef, LenProperties
<1>6. \A k \in DOMAIN Only(list, S) : Only(list, S)[k] \in S  BY <1>2, <1>3
<1>7. QED  BY <1>1, <1>5, <1>6

\* It keeps whatever is in S.
LEMMA OnlyKeeps ==
  ASSUME NEW T, NEW list \in Seq(T), NEW S, NEW i \in DOMAIN list, list[i] \in S
  PROVE  \E k \in DOMAIN Only(list, S) : Only(list, S)[k] = list[i]
<1> DEFINE n == Cardinality(Places(list, S))
           k == Rank(list, S, i)
<1>1. i \in Places(list, S)  BY DEF Places
<1>2. k \in 1 .. n /\ Place(list, S, k) = i  BY <1>1, RankedPlaces
<1>3. Only(list, S) = [j \in 1 .. n |-> list[Place(list, S, j)]]  BY OnlyPlaces
<1> HIDE DEF k, n
<1>4. QED  BY <1>2, <1>3

\* Only keeps a list that has nothing but members of S as it is.
LEMMA OnlyAll ==
  ASSUME NEW T, NEW list \in Seq(T), NEW S, \A i \in 1 .. Len(list) : list[i] \in S
  PROVE  Only(list, S) = list
<1> DEFINE n == Len(list)
<1>1. n \in Nat /\ DOMAIN list = 1 .. n  BY LenProperties
<1>2. Places(list, S) = 1 .. n  BY <1>1 DEF Places
<1>3. ASSUME NEW m \in Nat PROVE Cardinality(1 .. m) = m
  <2>1. /\ IsFiniteSet(1 .. m)
        /\ Cardinality(1 .. m) = IF 1 > m THEN 0 ELSE m - 1 + 1
    BY FS_Interval
  <2>2. QED  BY <2>1
<1>4. ASSUME NEW k \in 1 .. n PROVE Rank(list, S, k) = k /\ Place(list, S, k) = k
  <2>1. {j \in Places(list, S) : j <= k} = 1 .. k  BY <1>1, <1>2
  <2>2. Rank(list, S, k) = k
    <3>1. Rank(list, S, k) = Cardinality({j \in Places(list, S) : j <= k})  BY DEF Rank
    <3>2. k \in Nat  BY <1>1
    <3>3. QED  BY <1>3, <2>1, <3>1, <3>2
  <2>3. k \in Places(list, S)  BY <1>2
  <2>4. Place(list, S, Rank(list, S, k)) = k  BY <2>3, RankedPlaces
  <2>5. QED  BY <2>2, <2>4
<1>5. Only(list, S) = [k \in 1 .. n |-> list[Place(list, S, k)]]
  BY <1>1, <1>2, <1>3, OnlyPlaces
<1>6. list = [k \in 1 .. n |-> list[k]]  BY <1>1, LenProperties
<1> HIDE DEF n
<1>7. [k \in 1 .. n |-> list[Place(list, S, k)]] = [k \in 1 .. n |-> list[k]]  BY <1>4
<1>8. QED  BY <1>5, <1>6, <1>7
=============================================================================
