---------------------------- MODULE AddressBook ----------------------------
(***************************************************************************)
(* The address book and the ban list of a node and their two files         *)
(* (src/addrManager.cpp, src/banManager.cpp and their users in             *)
(* src/node.cpp).                                                          *)
(*                                                                         *)
(* Both are loaded by Start and written by Stop, which runs twice: once    *)
(* from startNode and once from the node's destructor.  A start that fails *)
(* before the files are loaded reaches the destructor as well.  An address *)
(* is an IP and a port.  The node listens on every interface under one     *)
(* port, and 0.0.0.0 with that port is what it takes for its own address   *)
(* and tells its peers: that address stays out of the book, the one that   *)
(* peers reach it at does not.                                             *)
(***************************************************************************)
EXTENDS Integers, FiniteSets

CONSTANTS
  Addresses,
  IPs,
  IpOf,             \* the IP of an address that is no wildcard
  Wildcards,        \* addresses of the form 0.0.0.0:port
  Portless,         \* addresses with port 0
  None,
  ADDR_MANAGER_MAX_ENTRIES, ADDR_MAX_AGE_SECS,
  MAX_SKEW,         \* how far ahead of the clock a timestamp may be: 600
  BAN_DURATION,
  UINT32,           \* 2 ^ 32, the modulus of the difference of timestamps
  Offsets,          \* bound: timestamps of peers relative to the clock
  MaxTime           \* bound: when the clock stops

ASSUME AddressBookAssumption ==
  /\ IpOf \in [Addresses \ Wildcards -> IPs]
  /\ Wildcards \subseteq Addresses /\ Portless \subseteq Addresses
  /\ None \notin Addresses
  /\ ADDR_MANAGER_MAX_ENTRIES \in Nat \ {0} /\ ADDR_MAX_AGE_SECS \in Nat
  /\ MAX_SKEW \in Nat /\ BAN_DURATION \in Nat \ {0}
  /\ Offsets \subseteq Int /\ MaxTime \in Nat
  /\ UINT32 \in Nat /\ MaxTime + MAX_SKEW + ADDR_MAX_AGE_SECS < UINT32

VARIABLES
  mode,       \* "up", or how far the way down has gone
  now,        \* the clock
  selfAddr,   \* what SetSelfAddr has been given
  addresses,  \* addresses known, with the time each was last seen
  banMap,     \* banned IPs, with the time the ban ends
  peersDat, banlistDat,   \* the files
  candidate,  \* address the outbound thread is about to dial
  (* history *)
  sentence,   \* when the latest ban of an IP ends
  excused     \* a crash or a failed start has come before the ban was saved

memory == <<addresses, banMap>>
files  == <<peersDat, banlistDat>>
past   == <<sentence, excused>>
vars   == <<mode, now, selfAddr, memory, files, candidate, past>>

Times == 0 .. MaxTime + MAX_SKEW

\* Functions on a subset of a set: the two maps.
Map(S, T) == UNION {[D -> T] : D \in SUBSET S}

Book == {m \in Map(Addresses, Times) : Cardinality(DOMAIN m) <= ADDR_MANAGER_MAX_ENTRIES}
Bans == Map(IPs, 0 .. MaxTime + BAN_DURATION)

Empty == [x \in {} |-> 0]

Running == mode \in {"up", "saving", "joining"}

TypeOK ==
  /\ mode \in {"down", "up", "saving", "joining", "leaving", "ending"}
  /\ now \in 0 .. MaxTime
  /\ selfAddr \in Wildcards
  /\ addresses \in Book /\ peersDat \in Book
  /\ DOMAIN addresses \cap ({selfAddr} \cup Portless) = {}
  /\ banMap \in Bans /\ banlistDat \in Bans
  /\ candidate \in Addresses \cup {None}
  /\ sentence \in [IPs -> 0 .. MaxTime + BAN_DURATION]
  /\ excused \in [IPs -> BOOLEAN]

-----------------------------------------------------------------------------
(***************************************************************************)
(* The two managers                                                        *)
(***************************************************************************)
Without(m, x)   == [y \in DOMAIN m \ {x} |-> m[y]]
Update(m, x, v) == [y \in DOMAIN m \cup {x} |-> IF y = x THEN v ELSE m[y]]

Oldest(m) == {x \in DOMAIN m : \A y \in DOMAIN m : m[x] <= m[y]}

\* What Add may leave of the book m: the entry refreshed, a new entry, a new
\* entry instead of one of the oldest, or m as it is.
Added(m, a, t) ==
  IF a = selfAddr \/ a \in Portless \/ t > now + MAX_SKEW THEN {m}
  ELSE IF a \in DOMAIN m THEN {IF t > m[a] THEN Update(m, a, t) ELSE m}
  ELSE IF Cardinality(DOMAIN m) < ADDR_MANAGER_MAX_ENTRIES THEN {Update(m, a, t)}
  ELSE {Update(Without(m, x), a, t) : x \in Oldest(m)}

\* Mutant of Age: signed arithmetic.
SignedAge(m, a) == now - m[a]

\* now - addr.time, in unsigned arithmetic
Age(m, a) == (now - m[a]) % UINT32

\* GetAddressesForGossip; of these, GetRandomAddresses leaves out the connected.
NotStale == {a \in DOMAIN addresses : Age(addresses, a) <= ADDR_MAX_AGE_SECS}

IsBanned(ip) == ip \in DOMAIN banMap /\ now < banMap[ip]

\* No connection comes from a wildcard, so none is banned.
Rejected(a) == a \notin Wildcards /\ IsBanned(IpOf[a])

\* What LoadFromFile takes from a file.
Loaded(file, self) == [a \in DOMAIN file \ ({self} \cup Portless) |-> file[a]]

-----------------------------------------------------------------------------
(***************************************************************************)
(* Messages and connections                                                *)
(***************************************************************************)
Init ==
  /\ mode = "down" /\ now = 0
  /\ selfAddr \in Wildcards
  /\ addresses = Empty /\ banMap = Empty
  /\ peersDat = Empty /\ banlistDat = Empty
  /\ candidate = None
  /\ sentence = [ip \in IPs |-> 0] /\ excused = [ip \in IPs |-> FALSE]

\* HandleVerack: the address a peer has given as its own, which is a wildcard.
HandleVerack(a) ==
  /\ Running /\ a \in Wildcards
  /\ addresses' \in Added(addresses, a, now)
  /\ UNCHANGED <<mode, now, selfAddr, banMap, files, candidate, past>>

\* ConnectToSeed: the address the user has given.
ConnectToSeed(a) ==
  /\ mode = "up" /\ a \notin Wildcards
  /\ addresses' \in Added(addresses, a, now)
  /\ UNCHANGED <<mode, now, selfAddr, banMap, files, candidate, past>>

\* HandleAddr: AddMultiple, here for a message with one address.
HandleAddr(a, t) ==
  /\ Running
  /\ addresses' \in Added(addresses, a, t)
  /\ UNCHANGED <<mode, now, selfAddr, banMap, files, candidate, past>>

\* RunOutboundLoop picks an address.
Pick(a) ==
  /\ Running /\ candidate = None /\ a \in NotStale
  /\ candidate' = a
  /\ UNCHANGED <<mode, now, selfAddr, memory, files, past>>

\* It skips the address if the IP is banned, marks it good if the connection
\* and the version message succeed, and removes it if they fail.
Skip ==
  /\ Running /\ candidate # None /\ Rejected(candidate)
  /\ candidate' = None
  /\ UNCHANGED <<mode, now, selfAddr, memory, files, past>>

Dial ==
  /\ Running /\ candidate # None /\ ~Rejected(candidate)
  /\ candidate' = None
  /\ \/ addresses' = IF candidate \in DOMAIN addresses
                     THEN Update(addresses, candidate, now) ELSE addresses
     \/ addresses' = Without(addresses, candidate)
  /\ UNCHANGED <<mode, now, selfAddr, banMap, files, past>>

\* Misbehave
Ban(ip) ==
  /\ Running
  /\ banMap' = Update(banMap, ip, now + BAN_DURATION)
  /\ sentence' = [sentence EXCEPT ![ip] = now + BAN_DURATION]
  /\ excused' = [excused EXCEPT ![ip] = FALSE]
  /\ UNCHANGED <<mode, now, selfAddr, addresses, files, candidate>>

-----------------------------------------------------------------------------
(***************************************************************************)
(* Start, stop and crash                                                   *)
(***************************************************************************)

\* Mutant of Start: the book is loaded before SetSelfAddr.
StartLoadsFirst ==
  /\ mode = "down"
  /\ mode' = "up"
  /\ addresses' = Loaded(peersDat, selfAddr)
  /\ selfAddr' \in Wildcards
  /\ banMap' = banlistDat
  /\ UNCHANGED <<now, files, candidate, past>>

\* SetSelfAddr, then the two files.  Expired bans are loaded as well.
Start ==
  /\ mode = "down"
  /\ mode' = "up"
  /\ \E self \in Wildcards :
       /\ selfAddr' = self
       /\ addresses' = Loaded(peersDat, self)
  /\ banMap' = banlistDat
  /\ UNCHANGED <<now, files, candidate, past>>

\* server.Start throws, the port being in use: the destructor saves what has
\* not been loaded.
StartFails ==
  /\ mode = "down"
  /\ peersDat' = Empty /\ banlistDat' = Empty
  /\ excused' = [ip \in IPs |-> TRUE]
  /\ UNCHANGED <<mode, now, selfAddr, memory, candidate, sentence>>

\* The two saves of Stop.  Threads go on between them and until they are joined.
SaveBook ==
  /\ \/ mode = "up" /\ mode' = "saving"
     \/ mode = "leaving" /\ mode' = "ending"
  /\ peersDat' = addresses
  /\ UNCHANGED <<now, selfAddr, memory, banlistDat, candidate, past>>

SaveBans ==
  /\ mode = "saving" /\ mode' = "joining"
  /\ banlistDat' = banMap
  /\ UNCHANGED <<now, selfAddr, memory, peersDat, candidate, past>>

JoinThreads ==
  /\ mode = "joining" /\ mode' = "leaving"
  /\ candidate' = None
  /\ UNCHANGED <<now, selfAddr, memory, files, past>>

\* Mutant of Exit: Stop runs once.
ExitUnsaved ==
  /\ mode = "ending" /\ mode' = "down"
  /\ addresses' = Empty /\ banMap' = Empty
  /\ UNCHANGED <<now, selfAddr, files, candidate, past>>

\* The second save of the bans, by the destructor.
Exit ==
  /\ mode = "ending" /\ mode' = "down"
  /\ banlistDat' = banMap
  /\ addresses' = Empty /\ banMap' = Empty
  /\ UNCHANGED <<now, selfAddr, peersDat, candidate, past>>

\* What a crash leaves of a file that is being written: it has been truncated,
\* and of the entries, which are in no order, some are there.
Torn(m) == {[x \in D |-> m[x]] : D \in SUBSET DOMAIN m}

Saved(ip, file) == ip \in DOMAIN file /\ file[ip] = sentence[ip]

\* A crash, perhaps in the middle of a save.
Crash ==
  /\ mode # "down"
  /\ mode' = "down"
  /\ addresses' = Empty /\ banMap' = Empty /\ candidate' = None
  /\ \/ UNCHANGED files
     \/ mode \in {"up", "leaving"} /\ peersDat' \in Torn(addresses) /\ UNCHANGED banlistDat
     \/ mode \in {"saving", "ending"} /\ banlistDat' \in Torn(banMap) /\ UNCHANGED peersDat
  /\ excused' = [ip \in IPs |-> excused[ip] \/ ~Saved(ip, banlistDat')]
  /\ UNCHANGED <<now, selfAddr, sentence>>

Tick ==
  /\ now < MaxTime
  /\ now' = now + 1
  /\ UNCHANGED <<mode, selfAddr, memory, files, candidate, past>>

-----------------------------------------------------------------------------
Next ==
  \/ \E a \in Addresses :
       \/ HandleVerack(a) \/ ConnectToSeed(a) \/ Pick(a)
       \/ \E d \in Offsets : now + d >= 0 /\ HandleAddr(a, now + d)
  \/ \E ip \in IPs : Ban(ip)
  \/ Skip \/ Dial
  \/ Start \/ StartFails \/ SaveBook \/ SaveBans \/ JoinThreads \/ Exit \/ Crash \/ Tick

Spec == Init /\ [][Next]_vars

-----------------------------------------------------------------------------
(***************************************************************************)
(* Properties                                                              *)
(***************************************************************************)

\* An address that is given to a peer or dialled was seen at most
\* ADDR_MAX_AGE_SECS ago and is not from the future, though peers choose the
\* timestamps, a few may lie ahead and the difference is unsigned; nor is any
\* entry further ahead than a clock may be wrong, restarts or not.
OnlyRecentOffered ==
  /\ \A a \in NotStale : addresses[a] <= now /\ now <= addresses[a] + ADDR_MAX_AGE_SECS
  /\ \A a \in DOMAIN addresses : addresses[a] <= now + MAX_SKEW

\* A ban lasts until it expires, over restarts, over the messages that are
\* handled while the files are written, and over crashes once it is saved.
BansOutlive ==
  mode = "up" =>
    \A ip \in IPs : now < sentence[ip] /\ ~excused[ip] => IsBanned(ip)
=============================================================================
