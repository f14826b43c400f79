------------------------- MODULE AddressBookProofs -------------------------
(***************************************************************************)
(* Proofs about module AddressBook: the types, that only recent addresses  *)
(* are offered, and that a ban outlives the run that pronounced it.        *)
(***************************************************************************)
EXTENDS AddressBook, FiniteSetTheorems, TLAPS

\* A book is finite, and what it says is no further ahead of the clock than
\* MAX_SKEW.
IsBook(m) == m \in Map(Addresses, Times) /\ IsFiniteSet(DOMAIN m)
             /\ Cardinality(DOMAIN m) <= ADDR_MANAGER_MAX_ENTRIES

Timely(m) == \A a \in DOMAIN m : m[a] <= now + MAX_SKEW

\* Where the ban of an IP that nothing has excused is: in memory while the node
\* runs, from the first save to the last, and in the file while it does not.
Holder == IF mode = "down" THEN banlistDat ELSE banMap

BansHeld ==
  \A ip \in IPs : ~excused[ip] /\ sentence[ip] # 0 =>
    ip \in DOMAIN Holder /\ Holder[ip] = sentence[ip]

\* The inductive invariants.
TypeInv == TypeOK /\ IsBook(addresses) /\ IsBook(peersDat)

TimeInv == TypeInv /\ Timely(addresses) /\ Timely(peersDat)

BanInv == TypeInv /\ BansHeld

-----------------------------------------------------------------------------
(***************************************************************************)
(* The operations on maps                                                  *)
(***************************************************************************)

\* A map is a function on some subset.
LEMMA MapDef ==
  ASSUME NEW S, NEW T, NEW m
  PROVE  m \in Map(S, T) <=> \E D \in SUBSET S : m \in [D -> T]
BY DEF Map

\* What Update leaves is a map if it is given a key and a value of one.
LEMMA UpdateMap ==
  ASSUME NEW S, NEW T, NEW m \in Map(S, T), NEW x \in S, NEW v \in T
  PROVE  Update(m, x, v) \in Map(S, T)
<1>1. PICK D \in SUBSET S : m \in [D -> T]  BY MapDef
<1>2. DOMAIN m = D  BY <1>1
<1>3. Update(m, x, v) \in [D \cup {x} -> T]  BY <1>1, <1>2 DEF Update
<1>4. D \cup {x} \in SUBSET S  OBVIOUS
<1>5. QED  BY <1>3, <1>4, MapDef

\* The entries after Update.
LEMMA UpdateEntries ==
  ASSUME NEW m, NEW x, NEW v
  PROVE  /\ DOMAIN Update(m, x, v) = DOMAIN m \cup {x}
         /\ Update(m, x, v)[x] = v
         /\ \A y \in DOMAIN m : y # x => Update(m, x, v)[y] = m[y]
BY DEF Update

\* Without leaves a map, with what else there was.
LEMMA WithoutMap ==
  ASSUME NEW S, NEW T, NEW m \in Map(S, T), NEW x
  PROVE  Without(m, x) \in Map(S, T)
<1>1. PICK D \in SUBSET S : m \in [D -> T]  BY MapDef
<1>2. DOMAIN m = D  BY <1>1
<1>3. Without(m, x) \in [D \ {x} -> T]  BY <1>1, <1>2 DEF Without
<1>4. D \ {x} \in SUBSET S  OBVIOUS
<1>5. QED  BY <1>3, <1>4, MapDef

\* So does the restriction to some of the keys, which is what LoadFromFile and
\* a torn file leave.
LEMMA PartMap ==
  ASSUME NEW S, NEW T, NEW m \in Map(S, T), NEW D \in SUBSET DOMAIN m
  PROVE  [x \in D |-> m[x]] \in Map(S, T)
<1>1. PICK E \in SUBSET S : m \in [E -> T]  BY MapDef
<1>2. DOMAIN m = E  BY <1>1
<1>3. [x \in D |-> m[x]] \in [D -> T]  BY <1>1, <1>2
<1>4. D \in SUBSET S  BY <1>2
<1>5. QED  BY <1>3, <1>4, MapDef

\* The empty map is a book and a ban list.
LEMMA EmptyMap == ASSUME NEW S, NEW T PROVE Empty \in Map(S, T) /\ DOMAIN Empty = {}
<1>1. Empty \in [{} -> T]  BY DEF Empty
<1>2. {} \in SUBSET S  OBVIOUS
<1>3. QED  BY <1>1, <1>2, MapDef DEF Empty

\* The keys and the values of a map.
LEMMA MapType ==
  ASSUME NEW S, NEW T, NEW m \in Map(S, T)
  PROVE  DOMAIN m \subseteq S /\ \A x \in DOMAIN m : m[x] \in T
BY MapDef

\* A book may lose entries.
LEMMA PartBook ==
  ASSUME AddressBookAssumption, NEW m, IsBook(m), NEW D \in SUBSET DOMAIN m
  PROVE  IsBook([x \in D |-> m[x]])
<1>1. [x \in D |-> m[x]] \in Map(Addresses, Times)  BY PartMap DEF IsBook
<1>2. DOMAIN [x \in D |-> m[x]] = D  OBVIOUS
<1>3. IsFiniteSet(DOMAIN m)  BY DEF IsBook
<1>4. IsFiniteSet(D) /\ Cardinality(D) <= Cardinality(DOMAIN m)  BY <1>3, FS_Subset
<1>5. Cardinality(D) \in Nat /\ Cardinality(DOMAIN m) \in Nat
  BY <1>3, <1>4, FS_CardinalityType
<1>6. Cardinality(DOMAIN m) <= ADDR_MANAGER_MAX_ENTRIES  BY DEF IsBook
<1>7. Cardinality(D) <= ADDR_MANAGER_MAX_ENTRIES
  BY <1>4, <1>5, <1>6 DEF AddressBookAssumption
<1>8. QED  BY <1>1, <1>2, <1>4, <1>7 DEF IsBook

\* The empty book is one.
LEMMA EmptyBook == ASSUME AddressBookAssumption PROVE IsBook(Empty) /\ DOMAIN Empty = {}
<1>1. Empty \in Map(Addresses, Times) /\ DOMAIN Empty = {}  BY EmptyMap
<1>2. IsFiniteSet({}) /\ Cardinality({}) = 0  BY FS_EmptySet
<1>3. 0 <= ADDR_MANAGER_MAX_ENTRIES  BY DEF AddressBookAssumption
<1>4. QED  BY <1>1, <1>2, <1>3 DEF IsBook

\* An entry may be refreshed.
LEMMA RefreshBook ==
  ASSUME NEW m, IsBook(m), NEW a \in DOMAIN m, NEW t \in Times
  PROVE  IsBook(Update(m, a, t)) /\ DOMAIN Update(m, a, t) = DOMAIN m
<1>1. m \in Map(Addresses, Times)  BY DEF IsBook
<1>2. a \in Addresses  BY <1>1, MapType
<1>3. Update(m, a, t) \in Map(Addresses, Times)  BY <1>1, <1>2, UpdateMap
<1>4. DOMAIN Update(m, a, t) = DOMAIN m \cup {a}  BY UpdateEntries
<1>5. DOMAIN Update(m, a, t) = DOMAIN m  BY <1>4
<1>6. QED  BY <1>3, <1>5 DEF IsBook

\* What Add leaves is a book, without the node itself and portless addresses.
LEMMA AddedBook ==
  ASSUME AddressBookAssumption, now \in 0 .. MaxTime,
         NEW m, IsBook(m), DOMAIN m \cap ({selfAddr} \cup Portless) = {},
         NEW a \in Addresses, NEW t \in Nat, NEW b \in Added(m, a, t)
  PROVE  IsBook(b) /\ DOMAIN b \cap ({selfAddr} \cup Portless) = {}
<1> DEFINE Limit == ADDR_MANAGER_MAX_ENTRIES
<1>0. m \in Map(Addresses, Times) /\ IsFiniteSet(DOMAIN m) /\ Cardinality(DOMAIN m) <= Limit
  BY DEF IsBook
<1>1. CASE a = selfAddr \/ a \in Portless \/ t > now + MAX_SKEW
  <2>1. b = m  BY <1>1 DEF Added
  <2>2. QED  BY <2>1
<1>2. CASE ~(a = selfAddr \/ a \in Portless \/ t > now + MAX_SKEW)
  <2>1. t \in Times  BY <1>2 DEF AddressBookAssumption, Times
  <2>2. CASE a \in DOMAIN m
    <3>1. b = m \/ b = Update(m, a, t)  BY <1>2, <2>2 DEF Added
    <3>2. QED  BY <2>1, <2>2, <3>1, RefreshBook
  <2>3. CASE a \notin DOMAIN m /\ Cardinality(DOMAIN m) < Limit
    <3>1. b = Update(m, a, t)  BY <1>2, <2>3 DEF Added
    <3>2. b \in Map(Addresses, Times) /\ DOMAIN b = DOMAIN m \cup {a}
      <4>1. b \in Map(Addresses, Times)  BY <1>0, <2>1, <3>1, UpdateMap
      <4>2. DOMAIN b = DOMAIN m \cup {a}  BY <3>1, UpdateEntries
      <4>3. QED  BY <4>1, <4>2
    <3>3. /\ IsFiniteSet(DOMAIN m \cup {a})
          /\ Cardinality(DOMAIN m \cup {a}) = Cardinality(DOMAIN m) + 1
      BY <1>0, <2>3, FS_AddElement
    <3>4. Cardinality(DOMAIN m) \in Nat  BY <1>0, FS_CardinalityType
    <3>5. Cardinality(DOMAIN b) <= Limit
      <4> DEFINE k == Cardinality(DOMAIN m)
      <4>1. k \in Nat /\ k < Limit /\ Limit \in Nat  BY <2>3, <3>4 DEF AddressBookAssumption
      <4>2. Cardinality(DOMAIN b) = k + 1  BY <3>2, <3>3
      <4> HIDE DEF k, Limit
      <4>3. QED  BY <4>1, <4>2
    <3>6. IsBook(b)  BY <3>2, <3>3, <3>5 DEF IsBook
    <3>7. QED  BY <1>2, <3>2, <3>6
  <2>4. CASE a \notin DOMAIN m /\ ~(Cardinality(DOMAIN m) < Limit)
    <3>1. PICK x \in Oldest(m) : b = Update(Without(m, x), a, t)  BY <1>2, <2>4 DEF Added
    <3>2. x \in DOMAIN m  BY <3>1 DEF Oldest
    <3>3. /\ Without(m, x) \in Map(Addresses, Times)
          /\ DOMAIN Without(m, x) = DOMAIN m \ {x}
      <4>1. Without(m, x) \in Map(Addresses, Times)  BY <1>0, WithoutMap
      <4>2. DOMAIN Without(m, x) = DOMAIN m \ {x}  BY DEF Without
      <4>3. QED  BY <4>1, <4>2
    <3>4. b \in Map(Addresses, Times) /\ DOMAIN b = (DOMAIN m \ {x}) \cup {a}
      <4>1. b \in Map(Addresses, Times)  BY <2>1, <3>1, <3>3, UpdateMap
      <4>2. DOMAIN b = DOMAIN Without(m, x) \cup {a}  BY <3>1, UpdateEntries
      <4>3. QED  BY <3>3, <4>1, <4>2
    <3>5. /\ IsFiniteSet(DOMAIN m \ {x})
          /\ Cardinality(DOMAIN m \ {x}) = Cardinality(DOMAIN m) - 1
      BY <1>0, <3>2, FS_RemoveElement
    <3>6. a \notin DOMAIN m \ {x}  BY <2>4
    <3>7. /\ IsFiniteSet((DOMAIN m \ {x}) \cup {a})
          /\ Cardinality((DOMAIN m \ {x}) \cup {a}) = Cardinality(DOMAIN m \ {x}) + 1
      BY <3>5, <3>6, FS_AddElement
    <3>8. Cardinality(DOMAIN m) \in Nat  BY <1>0, FS_CardinalityType
    <3>9. Cardinality((DOMAIN m \ {x}) \cup {a}) = Cardinality(DOMAIN m)
      BY <3>5, <3>7, <3>8
    <3>10. IsBook(b)  BY <1>0, <3>4, <3>7, <3>9 DEF IsBook
    <3>11. QED  BY <1>2, <3>4, <3>10
  <2>5. QED  BY <2>2, <2>3, <2>4
<1>3. QED  BY <1>1, <1>2

\* What Add leaves is timely if it was, though the peer chooses the timestamp.
LEMMA AddedTimely ==
  ASSUME AddressBookAssumption, now \in 0 .. MaxTime,
         NEW m, IsBook(m), Timely(m),
         NEW a \in Addresses, NEW t \in Nat, NEW b \in Added(m, a, t)
  PROVE  Timely(b)
<1>0. m \in Map(Addresses, Times)  BY DEF IsBook
<1>1. CASE a = selfAddr \/ a \in Portless \/ t > now + MAX_SKEW
  BY <1>1 DEF Added
<1>2. CASE ~(a = selfAddr \/ a \in Portless \/ t > now + MAX_SKEW)
  <2>1. t <= now + MAX_SKEW /\ t \in Times  BY <1>2 DEF AddressBookAssumption, Times
  <2>2. ASSUME NEW n \in Map(Addresses, Times), Timely(n)
        PROVE  Timely(Update(n, a, t))
    <3>1. /\ DOMAIN Update(n, a, t) = DOMAIN n \cup {a}
          /\ Update(n, a, t)[a] = t
          /\ \A y \in DOMAIN n : y # a => Update(n, a, t)[y] = n[y]
      BY DEF Update
    <3>2. QED  BY <2>1, <2>2, <3>1 DEF Timely
  <2>3. ASSUME NEW x PROVE Without(m, x) \in Map(Addresses, Times) /\ Timely(Without(m, x))
    <3>1. Without(m, x) \in Map(Addresses, Times)  BY <1>0, WithoutMap
    <3>2. DOMAIN Without(m, x) = DOMAIN m \ {x}  BY DEF Without
    <3>3. \A y \in DOMAIN m \ {x} : Without(m, x)[y] = m[y]  BY DEF Without
    <3>4. QED  BY <3>1, <3>2, <3>3 DEF Timely
  <2>4. \/ b = m \/ b = Update(m, a, t)
        \/ \E x \in Oldest(m) : b = Update(Without(m, x), a, t)
    BY <1>2 DEF Added
  <2>5. QED  BY <1>0, <2>2, <2>3, <2>4
<1>3. QED  BY <1>1, <1>2

-----------------------------------------------------------------------------
(***************************************************************************)
(* Types                                                                   *)
(***************************************************************************)

\* The node starts with nothing.
LEMMA InitTypeInv == ASSUME AddressBookAssumption PROVE Init => TypeInv
<1> SUFFICES ASSUME Init PROVE TypeInv  OBVIOUS
<1>1. IsBook(Empty) /\ DOMAIN Empty = {}  BY EmptyBook
<1>2. Empty \in Bans  BY EmptyMap DEF Bans
<1>3. Empty \in Book  BY <1>1 DEF Book, IsBook
<1>4. 0 \in 0 .. MaxTime /\ 0 \in 0 .. MaxTime + BAN_DURATION  BY DEF AddressBookAssumption
<1>5. QED  BY <1>1, <1>2, <1>3, <1>4 DEF Init, TypeInv, TypeOK

\* What a step leaves of the book is one, without the node and portless ones.
Listed == IsBook(addresses) /\ DOMAIN addresses \cap ({selfAddr} \cup Portless) = {}

\* Every step keeps the types, the memory and the files among them.
LEMMA NextTypeInv == ASSUME AddressBookAssumption PROVE TypeInv /\ [Next]_vars => TypeInv'
<1> SUFFICES ASSUME TypeInv, [Next]_vars PROVE TypeInv'  OBVIOUS
<1> USE DEF memory, files, past
<1>0. /\ TypeOK /\ Listed /\ IsBook(peersDat)
      /\ now \in 0 .. MaxTime /\ now \in Nat /\ now \in Times
  BY DEF TypeInv, TypeOK, Listed, AddressBookAssumption, Times
<1>e. /\ IsBook(Empty) /\ DOMAIN Empty = {} /\ Empty \in Bans /\ Empty \in Book
  <2>1. IsBook(Empty) /\ DOMAIN Empty = {}  BY EmptyBook
  <2>2. QED  BY <2>1, EmptyMap DEF Bans, Book, IsBook
<1>b. ASSUME NEW m, IsBook(m) PROVE m \in Book  BY <1>b DEF IsBook, Book
<1>c. IsBook(peersDat') /\ Listed' =>
        /\ addresses' \in Book /\ peersDat' \in Book
        /\ DOMAIN addresses' \cap ({selfAddr'} \cup Portless) = {}
        /\ IsBook(addresses') /\ IsBook(peersDat')
  <2> SUFFICES ASSUME IsBook(peersDat'), Listed' PROVE addresses' \in Book /\ peersDat' \in Book
                 /\ DOMAIN addresses' \cap ({selfAddr'} \cup Portless) = {}
                 /\ IsBook(addresses')
    OBVIOUS
  <2>1. IsBook(addresses') /\ DOMAIN addresses' \cap ({selfAddr'} \cup Portless) = {}
    BY DEF Listed, IsBook, Times
  <2>2. QED  BY <1>b, <2>1
<1>a. ASSUME NEW a \in Addresses, NEW t \in Nat, addresses' \in Added(addresses, a, t),
             UNCHANGED <<selfAddr>>
      PROVE  Listed'
  <2>1. IsBook(addresses') /\ DOMAIN addresses' \cap ({selfAddr} \cup Portless) = {}
    BY <1>0, <1>a, AddedBook DEF Listed
  <2>2. QED  BY <1>a, <2>1 DEF Listed, IsBook, Times
<1>1. ASSUME NEW a \in Addresses, HandleVerack(a) PROVE TypeInv'
  <2>1. Listed'  BY <1>0, <1>1, <1>a DEF HandleVerack
  <2>2. IsBook(peersDat')  BY <1>0, <1>1 DEF HandleVerack
  <2>3. QED  BY <1>0, <1>1, <1>c, <2>1, <2>2 DEF HandleVerack, TypeInv, TypeOK
<1>2. ASSUME NEW a \in Addresses, ConnectToSeed(a) PROVE TypeInv'
  <2>1. Listed'  BY <1>0, <1>2, <1>a DEF ConnectToSeed
  <2>2. IsBook(peersDat')  BY <1>0, <1>2 DEF ConnectToSeed
  <2>3. QED  BY <1>0, <1>2, <1>c, <2>1, <2>2 DEF ConnectToSeed, TypeInv, TypeOK
<1>3. ASSUME NEW a \in Addresses, NEW d \in Offsets, now + d >= 0, HandleAddr(a, now + d)
      PROVE  TypeInv'
  <2>0. now + d \in Nat  BY <1>0, <1>3 DEF AddressBookAssumption
  <2>1. Listed'  BY <1>3, <1>a, <2>0 DEF HandleAddr
  <2>2. IsBook(peersDat')  BY <1>0, <1>3 DEF HandleAddr
  <2>3. QED  BY <1>0, <1>3, <1>c, <2>1, <2>2 DEF HandleAddr, TypeInv, TypeOK
<1>4. ASSUME NEW a \in Addresses, Pick(a) PROVE TypeInv'
  BY <1>4 DEF Pick, TypeInv, TypeOK, IsBook
<1>5. ASSUME NEW ip \in IPs, Ban(ip) PROVE TypeInv'
  <2>1. now + BAN_DURATION \in 0 .. MaxTime + BAN_DURATION
    BY <1>0 DEF AddressBookAssumption
  <2>2. banMap \in Bans  BY <1>0 DEF TypeOK
  <2>3. banMap' \in Bans  BY <1>5, <2>1, <2>2, UpdateMap DEF Ban, Bans
  <2>4. QED  BY <1>0, <1>5, <2>1, <2>3 DEF Ban, TypeInv, TypeOK, IsBook
<1>6. ASSUME Skip PROVE TypeInv'
  BY <1>6 DEF Skip, TypeInv, TypeOK, IsBook
<1>7. ASSUME Dial PROVE TypeInv'
  <2>1. Listed'
    <3>0. selfAddr' = selfAddr  BY <1>7 DEF Dial
    <3>1. CASE addresses' = addresses  BY <1>0, <3>0, <3>1 DEF Listed, IsBook
    <3>2. CASE /\ candidate \in DOMAIN addresses
               /\ addresses' = Update(addresses, candidate, now)
      <4>1. IsBook(addresses') /\ DOMAIN addresses' = DOMAIN addresses
        BY <1>0, <3>2, RefreshBook DEF Listed
      <4>2. QED  BY <1>0, <3>0, <4>1 DEF Listed, IsBook
    <3>3. CASE addresses' = Without(addresses, candidate)
      <4>1. DOMAIN addresses \ {candidate} \in SUBSET DOMAIN addresses  OBVIOUS
      <4>2. IsBook(addresses')  BY <1>0, <3>3, <4>1, PartBook DEF Listed, Without
      <4>3. DOMAIN addresses' \subseteq DOMAIN addresses  BY <3>3 DEF Without
      <4>4. QED  BY <1>0, <3>0, <4>2, <4>3 DEF Listed, IsBook
    <3>4. QED  BY <1>7, <3>1, <3>2, <3>3 DEF Dial
  <2>2. IsBook(peersDat')  BY <1>0, <1>7 DEF Dial
  <2>3. QED  BY <1>0, <1>7, <1>c, <2>1, <2>2 DEF Dial, TypeInv, TypeOK
<1>8. ASSUME Start PROVE TypeInv'
  <2>1. PICK self \in Wildcards : selfAddr' = self /\ addresses' = Loaded(peersDat, self)
    BY <1>8 DEF Start
  <2>2. DOMAIN peersDat \ ({self} \cup Portless) \in SUBSET DOMAIN peersDat  OBVIOUS
  <2>3. IsBook(addresses')  BY <1>0, <2>1, <2>2, PartBook DEF Loaded
  <2>4. DOMAIN addresses' \cap ({selfAddr'} \cup Portless) = {}  BY <2>1 DEF Loaded
  <2>5. Listed'  BY <2>3, <2>4 DEF Listed, IsBook
  <2>6. IsBook(peersDat')  BY <1>0, <1>8 DEF Start
  <2>7. selfAddr' \in Wildcards  BY <2>1
  <2>8. QED  BY <1>0, <1>8, <1>c, <2>5, <2>6, <2>7 DEF Start, TypeInv, TypeOK
<1>9. ASSUME StartFails PROVE TypeInv'
  <2>1. Listed'  BY <1>0, <1>9 DEF StartFails, Listed, IsBook
  <2>2. IsBook(peersDat')  BY <1>9, <1>e DEF StartFails
  <2>3. QED  BY <1>0, <1>9, <1>c, <1>e, <2>1, <2>2 DEF StartFails, TypeInv, TypeOK
<1>10. ASSUME SaveBook PROVE TypeInv'
  <2>1. Listed'  BY <1>0, <1>10 DEF SaveBook, Listed, IsBook
  <2>2. IsBook(peersDat')  BY <1>0, <1>10 DEF SaveBook, Listed
  <2>3. QED  BY <1>0, <1>10, <1>c, <2>1, <2>2 DEF SaveBook, TypeInv, TypeOK
<1>11. ASSUME SaveBans PROVE TypeInv'
  BY <1>11 DEF SaveBans, TypeInv, TypeOK, IsBook
<1>12. ASSUME JoinThreads PROVE TypeInv'
  BY <1>12 DEF JoinThreads, TypeInv, TypeOK, IsBook
<1>13. ASSUME Exit PROVE TypeInv'
  BY <1>13, <1>e DEF Exit, TypeInv, TypeOK, IsBook
<1>14. ASSUME Crash PROVE TypeInv'
  <2>1. Listed'  BY <1>14, <1>e DEF Crash, Listed, IsBook
  <2>2. IsBook(peersDat')
    <3>1. CASE peersDat' = peersDat  BY <1>0, <3>1
    <3>2. CASE peersDat' \in Torn(addresses)
      <4>1. PICK D \in SUBSET DOMAIN addresses : peersDat' = [x \in D |-> addresses[x]]
        BY <3>2 DEF Torn
      <4>2. QED  BY <1>0, <4>1, PartBook DEF Listed
    <3>3. QED  BY <1>14, <3>1, <3>2 DEF Crash
  <2>3. banlistDat' \in Bans
    <3>1. CASE banlistDat' = banlistDat  BY <1>0, <3>1 DEF TypeOK
    <3>2. CASE banlistDat' \in Torn(banMap)
      <4>1. PICK D \in SUBSET DOMAIN banMap : banlistDat' = [x \in D |-> banMap[x]]
        BY <3>2 DEF Torn
      <4>2. QED  BY <1>0, <4>1, PartMap DEF TypeOK, Bans
    <3>3. QED  BY <1>14, <3>1, <3>2 DEF Crash
  <2>4. excused' \in [IPs -> BOOLEAN]
    <3>1. \A ip \in IPs : (excused[ip] \/ ~Saved(ip, banlistDat')) \in BOOLEAN
      BY <1>0 DEF TypeOK
    <3>2. QED  BY <1>14, <3>1, Zenon DEF Crash
  <2>5. QED  BY <1>0, <1>14, <1>c, <1>e, <2>1, <2>2, <2>3, <2>4 DEF Crash, TypeInv, TypeOK
<1>15. ASSUME Tick PROVE TypeInv'
  <2>1. now' \in 0 .. MaxTime  BY <1>0, <1>15 DEF Tick, AddressBookAssumption
  <2>2. QED  BY <1>15, <2>1 DEF Tick, TypeInv, TypeOK, IsBook
<1>16. CASE UNCHANGED vars
  BY <1>16 DEF vars, TypeInv, TypeOK, IsBook
<1>17. QED
  BY <1>1, <1>2, <1>3, <1>4, <1>5, <1>6, <1>7, <1>8, <1>9, <1>10, <1>11, <1>12, <1>13,
     <1>14, <1>15, <1>16 DEF Next

\* TypeOK: the book never exceeds its limit, nor holds an address without a port or
\* the wildcard by which the node knows itself, whatever peers send and whatever is
\* loaded.  An address at which others reach the node may well be in the book.
THEOREM TypeCorrect == Spec => []TypeOK
<1>1. Init => TypeInv  BY InitTypeInv, AddressBookAssumption
<1>2. TypeInv /\ [Next]_vars => TypeInv'  BY NextTypeInv, AddressBookAssumption
<1>3. TypeInv => TypeOK  BY DEF TypeInv
<1>4. QED  BY <1>1, <1>2, <1>3, PTL DEF Spec

-----------------------------------------------------------------------------
(***************************************************************************)
(* Recent addresses                                                        *)
(***************************************************************************)

\* The remainder that stands for the difference in unsigned arithmetic.
LEMMA UnsignedDifference ==
  ASSUME NEW x \in Int, NEW w \in Nat, -w <= x, x < w
  PROVE  (x >= 0 => x % w = x) /\ (x < 0 => x % w = x + w)
OBVIOUS

\* Where every entry is timely, the age of one that lies ahead of the clock is
\* so large that it counts as stale.
LEMMA TimelyOffered ==
  ASSUME AddressBookAssumption, TimeInv
  PROVE  OnlyRecentOffered
<1>0. /\ now \in 0 .. MaxTime /\ now \in Nat /\ MAX_SKEW \in Nat /\ MaxTime \in Nat
      /\ ADDR_MAX_AGE_SECS \in Nat
      /\ UINT32 \in Nat /\ MaxTime + MAX_SKEW + ADDR_MAX_AGE_SECS < UINT32
  BY DEF AddressBookAssumption, TimeInv, TypeInv, TypeOK
<1>1. ASSUME NEW a \in DOMAIN addresses PROVE addresses[a] \in Nat /\ addresses[a] <= now + MAX_SKEW
  <2>1. addresses \in Map(Addresses, Times)  BY DEF TimeInv, TypeInv, IsBook
  <2>2. addresses[a] \in Times  BY <2>1, MapType
  <2>3. QED  BY <1>0, <2>2 DEF Times, TimeInv, Timely
<1>2. ASSUME NEW a \in NotStale
      PROVE  addresses[a] <= now /\ now <= addresses[a] + ADDR_MAX_AGE_SECS
  <2> DEFINE seen == addresses[a]
             x    == now - seen
  <2>1. a \in DOMAIN addresses /\ x % UINT32 <= ADDR_MAX_AGE_SECS  BY <1>2 DEF NotStale, Age
  <2>2. seen \in Nat /\ seen <= now + MAX_SKEW  BY <1>1, <2>1
  <2> HIDE DEF seen
  <2>3. x \in Int /\ -MAX_SKEW <= x /\ x <= MaxTime  BY <1>0, <2>2
  <2>4. x = now - seen  OBVIOUS
  <2> HIDE DEF x
  <2>5. -UINT32 <= x /\ x < UINT32  BY <1>0, <2>3
  <2>6. CASE x >= 0
    <3>1. x % UINT32 = x  BY <1>0, <2>3, <2>5, <2>6, UnsignedDifference
    <3>2. seen <= now /\ now <= seen + ADDR_MAX_AGE_SECS
      BY <1>0, <2>1, <2>2, <2>4, <2>6, <3>1
    <3>3. QED  BY <3>2 DEF seen
  <2>7. CASE x < 0
    <3>1. x % UINT32 = x + UINT32  BY <1>0, <2>3, <2>5, <2>7, UnsignedDifference
    <3>2. x + UINT32 > ADDR_MAX_AGE_SECS  BY <1>0, <2>3
    <3>3. QED  BY <1>0, <2>1, <2>3, <3>1, <3>2
  <2>8. QED  BY <2>3, <2>6, <2>7
<1>3. QED  BY <1>1, <1>2 DEF OnlyRecentOffered

\* An entry that is timely stays so, in a part of the book too.
LEMMA PartTimely ==
  ASSUME NEW m, Timely(m), NEW D \in SUBSET DOMAIN m
  PROVE  Timely([x \in D |-> m[x]])
BY DEF Timely

\* Every step keeps what is in the book and in its file timely.
LEMMA NextTimeInv == ASSUME AddressBookAssumption PROVE TimeInv /\ [Next]_vars => TimeInv'
<1> SUFFICES ASSUME TimeInv, [Next]_vars PROVE TimeInv'  OBVIOUS
<1> USE DEF memory, files, past
<1>0. /\ TypeInv /\ TypeInv' /\ IsBook(addresses) /\ IsBook(peersDat)
      /\ Timely(addresses) /\ Timely(peersDat)
      /\ now \in 0 .. MaxTime /\ now \in Nat
  BY NextTypeInv DEF TimeInv, TypeInv, TypeOK, AddressBookAssumption
<1> SUFFICES Timely(addresses)' /\ Timely(peersDat)'  BY <1>0 DEF TimeInv
<1>a. ASSUME NEW m, Timely(m), m = addresses', now' = now PROVE Timely(addresses)'
  BY <1>a DEF Timely
<1>b. ASSUME NEW m, Timely(m), m = peersDat', now' = now PROVE Timely(peersDat)'
  BY <1>b DEF Timely
<1>c. Timely(Empty)  BY EmptyBook DEF Timely
<1>1. ASSUME NEW a \in Addresses, HandleVerack(a) \/ ConnectToSeed(a)
      PROVE  Timely(addresses)' /\ Timely(peersDat)'
  <2>1. /\ addresses' \in Added(addresses, a, now)
        /\ UNCHANGED <<now, peersDat>>
    BY <1>1 DEF HandleVerack, ConnectToSeed
  <2>2. Timely(addresses')  BY <1>0, <2>1, AddedTimely
  <2>3. QED  BY <1>0, <1>a, <1>b, <2>1, <2>2
<1>2. ASSUME NEW a \in Addresses, NEW d \in Offsets, now + d >= 0, HandleAddr(a, now + d)
      PROVE  Timely(addresses)' /\ Timely(peersDat)'
  <2>0. now + d \in Nat  BY <1>0, <1>2 DEF AddressBookAssumption
  <2>1. /\ addresses' \in Added(addresses, a, now + d)
        /\ UNCHANGED <<now, peersDat>>
    BY <1>2 DEF HandleAddr
  <2>2. Timely(addresses')  BY <1>0, <2>0, <2>1, AddedTimely
  <2>3. QED  BY <1>0, <1>a, <1>b, <2>1, <2>2
<1>3. CASE UNCHANGED <<now, addresses, peersDat>>
  BY <1>0, <1>3, <1>a, <1>b
<1>4. CASE Dial
  <2>0. UNCHANGED <<now, peersDat>>  BY <1>4 DEF Dial
  <2>1. CASE addresses' = addresses  BY <1>3, <2>0, <2>1
  <2>2. CASE addresses' = Update(addresses, candidate, now)
    <3>1. Timely(Update(addresses, candidate, now))
      BY <1>0 DEF Timely, Update, AddressBookAssumption
    <3>2. QED  BY <1>0, <1>a, <1>b, <2>0, <2>2, <3>1
  <2>3. CASE addresses' = Without(addresses, candidate)
    <3>1. Timely(Without(addresses, candidate))  BY <1>0 DEF Timely, Without
    <3>2. QED  BY <1>0, <1>a, <1>b, <2>0, <2>3, <3>1
  <2>4. QED  BY <1>4, <2>1, <2>2, <2>3 DEF Dial
<1>5. CASE Start
  <2>1. PICK self \in Wildcards : addresses' = Loaded(peersDat, self)  BY <1>5 DEF Start
  <2>2. Timely(Loaded(peersDat, self))  BY <1>0, PartTimely DEF Loaded
  <2>3. UNCHANGED <<now, peersDat>>  BY <1>5 DEF Start
  <2>4. QED  BY <1>0, <1>a, <1>b, <2>1, <2>2, <2>3
<1>6. CASE StartFails
  BY <1>0, <1>6, <1>a, <1>b, <1>c DEF StartFails
<1>7. CASE SaveBook
  BY <1>0, <1>7, <1>a, <1>b DEF SaveBook
<1>8. CASE Exit
  BY <1>0, <1>8, <1>a, <1>b, <1>c DEF Exit
<1>9. CASE Crash
  <2>1. now' = now /\ addresses' = Empty  BY <1>9 DEF Crash
  <2>2. CASE peersDat' = peersDat  BY <1>0, <1>a, <1>b, <1>c, <2>1, <2>2
  <2>3. CASE peersDat' \in Torn(addresses)
    <3>1. PICK D \in SUBSET DOMAIN addresses : peersDat' = [x \in D |-> addresses[x]]
      BY <2>3 DEF Torn
    <3>2. Timely([x \in D |-> addresses[x]])  BY <1>0, PartTimely
    <3>3. QED  BY <1>a, <1>b, <1>c, <2>1, <3>1, <3>2
  <2>4. QED  BY <1>9, <2>2, <2>3 DEF Crash
<1>10. CASE Tick
  <2>1. ASSUME NEW m, IsBook(m), Timely(m), NEW a \in DOMAIN m PROVE m[a] <= now + 1 + MAX_SKEW
    <3>1. m[a] \in Times  BY <2>1, MapType DEF IsBook
    <3>2. m[a] \in Nat /\ m[a] <= now + MAX_SKEW
      BY <2>1, <3>1 DEF Timely, Times, AddressBookAssumption
    <3>3. QED  BY <1>0, <3>2 DEF AddressBookAssumption
  <2>2. now' = now + 1 /\ UNCHANGED <<addresses, peersDat>>  BY <1>10 DEF Tick
  <2>3. QED  BY <1>0, <2>1, <2>2 DEF Timely
<1>11. QED
  <2>1. (\E a \in Addresses : Pick(a)) \/ Skip \/ SaveBans \/ JoinThreads \/ UNCHANGED vars
           \/ (\E ip \in IPs : Ban(ip))
        => UNCHANGED <<now, addresses, peersDat>>
    BY DEF Pick, Skip, SaveBans, JoinThreads, vars, Ban
  <2>2. QED  BY <1>1, <1>2, <1>3, <1>4, <1>5, <1>6, <1>7, <1>8, <1>9, <1>10, <2>1 DEF Next

\* OnlyRecentOffered: no address is dialled or gossiped that was last seen too
\* long ago or lies in the future, though the age is unsigned.
THEOREM OffersRecent == Spec => []OnlyRecentOffered
<1>1. Init => TimeInv
  <2>1. ASSUME Init PROVE TimeInv
    <3>1. TypeInv /\ DOMAIN Empty = {}
      BY <2>1, InitTypeInv, EmptyBook, AddressBookAssumption
    <3>2. QED  BY <2>1, <3>1 DEF Init, TimeInv, Timely
  <2>2. QED  BY <2>1
<1>2. TimeInv /\ [Next]_vars => TimeInv'  BY NextTimeInv, AddressBookAssumption
<1>3. TimeInv => OnlyRecentOffered  BY TimelyOffered, AddressBookAssumption
<1>4. QED  BY <1>1, <1>2, <1>3, PTL DEF Spec

-----------------------------------------------------------------------------
(***************************************************************************)
(* Bans                                                                    *)
(***************************************************************************)

\* Every step keeps the ban where a start looks for it.
LEMMA NextBanInv == ASSUME AddressBookAssumption PROVE BanInv /\ [Next]_vars => BanInv'
<1> SUFFICES ASSUME BanInv, [Next]_vars PROVE BanInv'  OBVIOUS
<1> USE DEF memory, files, past
<1>0. /\ TypeInv /\ TypeInv' /\ BansHeld /\ TypeOK
      /\ excused \in [IPs -> BOOLEAN] /\ sentence \in [IPs -> 0 .. MaxTime + BAN_DURATION]
  BY NextTypeInv DEF BanInv, TypeInv, TypeOK
<1> SUFFICES BansHeld'  BY <1>0 DEF BanInv
<1>a. CASE Holder' = Holder /\ UNCHANGED <<sentence, excused>>
  BY <1>0, <1>a DEF BansHeld
<1>1. ASSUME NEW ip \in IPs, Ban(ip) PROVE BansHeld'
  <2>1. /\ mode # "down" /\ mode' # "down" /\ banMap' = Update(banMap, ip, now + BAN_DURATION)
        /\ sentence' = [sentence EXCEPT ![ip] = now + BAN_DURATION]
        /\ excused' = [excused EXCEPT ![ip] = FALSE]
    BY <1>1 DEF Ban, Running
  <2>2. Holder = banMap /\ Holder' = Update(banMap, ip, now + BAN_DURATION)  BY <2>1 DEF Holder
  <2>3. /\ DOMAIN Holder' = DOMAIN banMap \cup {ip}
        /\ Holder'[ip] = now + BAN_DURATION
        /\ \A y \in DOMAIN banMap : y # ip => Holder'[y] = banMap[y]
    BY <2>2 DEF Update
  <2>4. ASSUME NEW x \in IPs, ~excused'[x], sentence'[x] # 0
        PROVE  x \in DOMAIN Holder' /\ Holder'[x] = sentence'[x]
    <3>1. CASE x = ip  BY <1>0, <2>1, <2>3, <3>1
    <3>2. CASE x # ip
      <4>1. ~excused[x] /\ sentence[x] # 0 /\ sentence'[x] = sentence[x]
        BY <1>0, <2>1, <2>4, <3>2
      <4>2. x \in DOMAIN banMap /\ banMap[x] = sentence[x]  BY <1>0, <2>2, <4>1 DEF BansHeld
      <4>3. QED  BY <2>3, <3>2, <4>1, <4>2
    <3>3. QED  BY <3>1, <3>2
  <2>5. QED  BY <2>4 DEF BansHeld
<1>2. CASE Start
  <2>1. Holder' = Holder /\ UNCHANGED <<sentence, excused>>  BY <1>2 DEF Start, Holder
  <2>2. QED  BY <1>a, <2>1
<1>3. CASE StartFails
  BY <1>3 DEF StartFails, BansHeld
<1>4. CASE Exit
  <2>1. Holder' = Holder /\ UNCHANGED <<sentence, excused>>  BY <1>4 DEF Exit, Holder
  <2>2. QED  BY <1>a, <2>1
<1>5. CASE Crash
  <2>1. /\ Holder' = banlistDat' /\ sentence' = sentence
        /\ \A ip \in IPs : ~excused'[ip] => Saved(ip, banlistDat')
    BY <1>5 DEF Crash, Holder
  <2>2. QED  BY <2>1 DEF BansHeld, Saved
<1>6. CASE mode' # "down" /\ mode # "down" /\ UNCHANGED <<banMap, sentence, excused>>
  BY <1>a, <1>6 DEF Holder
<1>7. CASE UNCHANGED <<mode, banMap, banlistDat, sentence, excused>>
  BY <1>a, <1>7 DEF Holder
<1>8. QED
  <2>1. SaveBook \/ SaveBans \/ JoinThreads =>
          mode' # "down" /\ mode # "down" /\ UNCHANGED <<banMap, sentence, excused>>
    BY DEF SaveBook, SaveBans, JoinThreads
  <2>2. ASSUME NEW a \in Addresses, NEW t,
               HandleVerack(a) \/ ConnectToSeed(a) \/ Pick(a) \/ HandleAddr(a, t)
        PROVE  UNCHANGED <<mode, banMap, banlistDat, sentence, excused>>
    BY <2>2 DEF HandleVerack, ConnectToSeed, Pick, HandleAddr
  <2>3. Skip \/ Dial \/ Tick \/ UNCHANGED vars =>
          UNCHANGED <<mode, banMap, banlistDat, sentence, excused>>
    BY DEF Skip, Dial, Tick, vars
  <2>4. QED  BY <1>1, <1>2, <1>3, <1>4, <1>5, <1>6, <1>7, <2>1, <2>2, <2>3 DEF Next

\* BansOutlive: a ban is in force until it expires, in this run and in the next
\* ones, whatever was pronounced between the two saves of a stop.
THEOREM BansSurvive == Spec => []BansOutlive
<1>1. Init => BanInv
  <2>1. ASSUME Init PROVE BanInv
    <3>1. TypeInv  BY <2>1, InitTypeInv, AddressBookAssumption
    <3>2. BansHeld  BY <2>1 DEF Init, BansHeld
    <3>3. QED  BY <3>1, <3>2 DEF BanInv
  <2>2. QED  BY <2>1
<1>2. BanInv /\ [Next]_vars => BanInv'  BY NextBanInv, AddressBookAssumption
<1>3. BanInv => BansOutlive
  <2>1. ASSUME BanInv, mode = "up", NEW ip \in IPs, now < sentence[ip], ~excused[ip]
        PROVE  IsBanned(ip)
    <3>1. sentence[ip] # 0
      BY <2>1, AddressBookAssumption DEF BanInv, TypeInv, TypeOK, AddressBookAssumption
    <3>2. Holder = banMap  BY <2>1 DEF Holder
    <3>3. QED  BY <2>1, <3>1, <3>2 DEF BanInv, BansHeld, IsBanned
  <2>2. QED  BY <2>1 DEF BansOutlive
<1>4. QED  BY <1>1, <1>2, <1>3, PTL DEF Spec
=============================================================================
