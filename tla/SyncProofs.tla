----------------------------- MODULE SyncProofs -----------------------------
(***************************************************************************)
(* Proofs about module Sync: the types, that whatever needs a complete     *)
(* handshake comes behind the verack that completes it, that a node runs   *)
(* one synchronisation at a time, that one that ends has brought the node  *)
(* onto the chain of the peer it chose, and that one that nothing hinders  *)
(* always goes on.                                                         *)
(*                                                                         *)
(* All of it for any nodes of which none dials itself and no two dial each *)
(* other (SyncAssumption): an end of a connection is named by its nodes.   *)
(***************************************************************************)
EXTENDS Sync, ListsProofs

\* What a node knows of its chain, of blocks to come, and of its synchronisation.
BlocksInv ==
  /\ chain \in [Nodes -> Block \cup {<<>>}]
  /\ mining \in [Nodes -> Block \cup {None}] /\ announcing \in [Nodes -> Block \cup {None}]

SyncingInv ==
  /\ syncing \in [Nodes -> BOOLEAN] /\ hindered \in [Nodes -> BOOLEAN]
  /\ syncPeerAddr \in [Nodes -> Address \cup {None}]

BannedInv == banned \in [Nodes -> SUBSET Nodes] /\ score \in [Ends -> Nat]

LinkInv ==
  /\ dialled \in [Ends -> Nat] /\ open \in [Ends -> BOOLEAN]
  /\ versionSent \in [Ends -> BOOLEAN] /\ handshakeComplete \in [Ends -> BOOLEAN]
  /\ pinged \in [Ends -> BOOLEAN] /\ remoteHeight \in [Ends -> -1 .. MaxHeight]

NetInv == net \in [Ends -> Seq(Message)]

CountInv == msgCount \in [Ends -> 0 .. MAX_PEER_MESSAGES_PER_SEC]

ThreadInv ==
  reader \in [Ends -> {"reading", "behind", "serving"}] /\ gathered \in [Ends -> Seq(Block)]

TypeInv ==
  BlocksInv /\ SyncingInv /\ BannedInv /\ LinkInv /\ NetInv /\ CountInv /\ ThreadInv

(***************************************************************************)
(* What is on the way from one end of a connection to the other, put with  *)
(* the values of the two ends that it depends on: said, the sender has     *)
(* sent its version; greeted, the height the sender has been told, or -1;  *)
(* heard, the height the receiver has been told; done, the receiver's      *)
(* handshake is complete; there, the receiver is open.                     *)
(***************************************************************************)
Has(w, type) == \E i \in 1 .. Len(w) : w[i].type = type

Before(w, i, types) == \A j \in 1 .. i - 1 : w[j].type \in types

Behind(w, i, type) == \E j \in 1 .. i - 1 : w[j].type = type

\* Only the pings of the monitor come before the version.
VersionFirst(w, said, heard) ==
  \A i \in 1 .. Len(w) : w[i].type = "version" => said /\ heard = -1 /\ Before(w, i, {"ping"})

\* The verack comes after the version, and there is one at most.
VerackNext(w, greeted, heard, done) ==
  \A i \in 1 .. Len(w) : w[i].type = "verack" =>
    /\ greeted # -1 /\ ~done /\ Before(w, i, {"version", "ping"})
    /\ heard # -1 \/ Has(w, "version")

\* Everything else comes after the verack.
OthersLater(w, done) ==
  \A i \in 1 .. Len(w) : w[i].type \notin {"version", "verack", "ping"} =>
    done \/ Behind(w, i, "verack")

\* What has been sent has been read, is on the way, or is lost with the receiver.
Handshake(w, said, greeted, heard, done, there) ==
  /\ w # <<>> => there
  /\ done => heard # -1 /\ greeted # -1
  /\ greeted # -1 \/ heard # -1 => said
  /\ there /\ greeted # -1 => done \/ Has(w, "verack")
  /\ there /\ said => heard # -1 \/ Has(w, "version")

Wire(w, said, greeted, heard, done, there) ==
  /\ VersionFirst(w, said, heard)
  /\ VerackNext(w, greeted, heard, done)
  /\ OthersLater(w, done)
  /\ Handshake(w, said, greeted, heard, done, there)

WireInv ==
  \A e \in Ends : Wire(net[e], versionSent[e], remoteHeight[e], remoteHeight[Back(e)],
                       handshakeComplete[Back(e)], open[Back(e)])

ReaderInv ==
  \A e \in Ends : /\ reader[e] = "behind" => remoteHeight[e] # -1
                  /\ reader[e] = "serving" => handshakeComplete[e]

\* A monitor sends one ping before the handshake, and nothing else costs points
\* but what bans: sent, the ping has been sent; points, the receiver's score.
Tally(w, sent, points, isBanned) ==
  /\ Has(w, "ping") => sent
  /\ \A i, j \in 1 .. Len(w) : w[i].type = "ping" /\ w[j].type = "ping" => i = j
  /\ ~isBanned /\ points # 0 => points = EARLY_SCORE /\ sent /\ ~Has(w, "ping")

TallyInv == \A e \in Ends : Tally(net[e], pinged[e], score[Back(e)], e[1] \in banned[e[2]])

\* As long as a node's request is not answered nothing on the way can end the
\* synchronisation it belongs to, nor can anything before it is sent.
Ask(w, back, heard, at, chosen) ==
  /\ \A i \in 1 .. Len(w) : w[i].type = "getblocks" =>
       /\ chosen /\ ~Has(back, "block")
       /\ \A j \in 1 .. i - 1 : w[j].type \notin {"getblocks", "getdata"}
  /\ heard = -1 \/ at = "behind" => ~Has(w, "getdata") /\ ~Has(back, "block")

AskInv ==
  \A e \in Ends : Ask(net[e], net[Back(e)], remoteHeight[e], reader[e], IsSyncPeer(e))

\* What a peer sends is on its chain, and it has the height that it says.
True(m, ch) ==
  /\ m.type = "block" => IsPrefix(m.block, ch)
  /\ m.type = "version" => m.height <= Len(ch)

Carries(w, ch) == \A i \in 1 .. Len(w) : True(w[i], ch)

CarryInv == \A e \in Ends : Carries(net[e], chain[e[1]])

-----------------------------------------------------------------------------
(***************************************************************************)
(* Messages that are read                                                  *)
(***************************************************************************)

\* A list of messages after the first has been read.
LEMMA ReadHas ==
  ASSUME NEW w \in Seq(Message), w # <<>>, NEW type
  PROVE  /\ Has(Tail(w), type) => Has(w, type)
         /\ Has(w, type) => Head(w).type = type \/ Has(Tail(w), type)
<1> DEFINE t == Tail(w)
           n == Len(w)
<1>1. /\ n \in Nat /\ n >= 1 /\ Len(t) = n - 1 /\ Head(w) = w[1]
      /\ \A i \in 1 .. n - 1 : t[i] = w[i + 1]
  BY TailShift
<1>2. Has(t, type) <=> \E i \in 1 .. Len(t) : t[i].type = type  BY DEF Has
<1>3. Has(w, type) <=> \E i \in 1 .. n : w[i].type = type  BY DEF Has
<1> HIDE DEF t, n
<1>4. ASSUME Has(t, type) PROVE Has(w, type)
  <2>1. PICK i \in 1 .. n - 1 : t[i].type = type  BY <1>1, <1>2, <1>4
  <2>2. i + 1 \in 1 .. n /\ w[i + 1].type = type  BY <1>1, <2>1
  <2>3. QED  BY <1>3, <2>2
<1>5. ASSUME Has(w, type) PROVE Head(w).type = type \/ Has(t, type)
  <2>1. PICK i \in 1 .. n : w[i].type = type  BY <1>3, <1>5
  <2>2. CASE i = 1  BY <1>1, <2>1, <2>2
  <2>3. CASE i # 1
    <3>1. i - 1 \in 1 .. n - 1 /\ t[i - 1] = w[(i - 1) + 1] /\ (i - 1) + 1 = i
      BY <1>1, <2>3
    <3>2. QED  BY <1>1, <1>2, <2>1, <3>1
  <2>4. QED  BY <2>2, <2>3
<1>6. QED  BY <1>4, <1>5 DEF t

\* What was before an entry is before it still, without the first.
LEMMA ReadBefore ==
  ASSUME NEW w \in Seq(Message), w # <<>>, NEW types, NEW i \in 1 .. Len(w) - 1
  PROVE  /\ i + 1 \in 1 .. Len(w) /\ Tail(w)[i] = w[i + 1]
         /\ Before(w, i + 1, types) => Head(w).type \in types /\ Before(Tail(w), i, types)
         /\ Head(w).type \in types /\ Before(Tail(w), i, types) => Before(w, i + 1, types)
<1> DEFINE t == Tail(w)
           n == Len(w)
<1>1. /\ n \in Nat /\ n >= 1 /\ Head(w) = w[1] /\ \A k \in 1 .. n - 1 : t[k] = w[k + 1]
  BY TailShift
<1>2. Before(t, i, types) <=> \A j \in 1 .. i - 1 : t[j].type \in types  BY DEF Before
<1>3. Before(w, i + 1, types) <=> \A j \in 1 .. (i + 1) - 1 : w[j].type \in types  BY DEF Before
<1>4. i \in 1 .. n - 1  OBVIOUS
<1> HIDE DEF t, n
<1>5. i + 1 \in 1 .. n /\ t[i] = w[i + 1] /\ (i + 1) - 1 = i  BY <1>1, <1>4
<1>6. ASSUME Before(w, i + 1, types) PROVE Head(w).type \in types /\ Before(t, i, types)
  <2>1. ASSUME NEW j \in 1 .. i - 1 PROVE t[j].type \in types
    <3>1. j + 1 \in 1 .. i /\ t[j] = w[j + 1]  BY <1>1, <1>4, <2>1
    <3>2. QED  BY <1>3, <1>5, <1>6, <3>1
  <2>2. 1 \in 1 .. i  BY <1>1, <1>4
  <2>3. QED  BY <1>1, <1>2, <1>3, <1>5, <1>6, <2>1, <2>2
<1>7. ASSUME Head(w).type \in types, Before(t, i, types) PROVE Before(w, i + 1, types)
  <2>1. ASSUME NEW j \in 1 .. i PROVE w[j].type \in types
    <3>1. CASE j = 1  BY <1>1, <1>7, <3>1
    <3>2. CASE j # 1
      <4>1. j - 1 \in 1 .. i - 1 /\ t[j - 1] = w[(j - 1) + 1] /\ (j - 1) + 1 = j
        BY <1>1, <1>4, <3>2
      <4>2. QED  BY <1>2, <1>7, <4>1
    <3>3. QED  BY <3>1, <3>2
  <2>2. QED  BY <1>3, <1>5, <2>1
<1>8. QED  BY <1>5, <1>6, <1>7 DEF t, n

\* What was behind a message of a type is behind it still, unless that was the first.
LEMMA ReadBehind ==
  ASSUME NEW w \in Seq(Message), w # <<>>, NEW type, NEW i \in 1 .. Len(w) - 1
  PROVE  Behind(w, i + 1, type) => Head(w).type = type \/ Behind(Tail(w), i, type)
<1> DEFINE t == Tail(w)
           n == Len(w)
<1>1. /\ n \in Nat /\ Head(w) = w[1] /\ \A k \in 1 .. n - 1 : t[k] = w[k + 1]
  BY TailShift
<1>2. Behind(t, i, type) <=> \E j \in 1 .. i - 1 : t[j].type = type  BY DEF Behind
<1>3. Behind(w, i + 1, type) <=> \E j \in 1 .. (i + 1) - 1 : w[j].type = type  BY DEF Behind
<1>4. i \in 1 .. n - 1  OBVIOUS
<1> HIDE DEF t, n
<1>5. ASSUME Behind(w, i + 1, type), Head(w).type # type PROVE Behind(t, i, type)
  <2>1. PICK j \in 1 .. (i + 1) - 1 : w[j].type = type  BY <1>3, <1>5
  <2>2. j # 1  BY <1>1, <1>5, <2>1
  <2>3. j - 1 \in 1 .. i - 1 /\ t[j - 1] = w[(j - 1) + 1] /\ (j - 1) + 1 = j
    BY <1>1, <1>4, <2>1, <2>2
  <2>4. QED  BY <1>2, <2>1, <2>3
<1>6. QED  BY <1>5 DEF t

\* The receiver reads a message: a version tells it the height, a verack
\* completes its handshake.
LEMMA WireRead ==
  ASSUME NEW w \in Seq(Message), w # <<>>,
         NEW said, NEW greeted, NEW heard, NEW done, NEW there,
         Wire(w, said, greeted, heard, done, there),
         NEW heardNow, NEW doneNow,
         IF Head(w).type = "version" THEN heardNow # -1 ELSE heardNow = heard,
         IF Head(w).type = "verack" THEN doneNow ELSE doneNow = done
  PROVE  Wire(Tail(w), said, greeted, heardNow, doneNow, there)
<1> DEFINE t == Tail(w)
<1>1. Len(w) \in Nat /\ Len(w) >= 1 /\ Len(t) = Len(w) - 1 /\ Head(w) = w[1]  BY TailShift
<1>2. /\ VersionFirst(w, said, heard) /\ VerackNext(w, greeted, heard, done)
      /\ OthersLater(w, done) /\ Handshake(w, said, greeted, heard, done, there)
  BY DEF Wire
<1>3. 1 \in 1 .. Len(w) /\ \A types : Before(w, 1, types)  BY <1>1 DEF Before
<1>4. ASSUME NEW i \in 1 .. Len(t)
      PROVE  /\ i \in 1 .. Len(w) - 1 /\ i + 1 \in 1 .. Len(w) /\ t[i] = w[i + 1]
             /\ \A types : Before(w, i + 1, types) <=> Head(w).type \in types /\ Before(t, i, types)
  BY <1>1, ReadBefore
<1>5. \A type : Has(t, type) => Has(w, type)  BY ReadHas
<1>6. \A type : Has(w, type) => Head(w).type = type \/ Has(t, type)  BY ReadHas
<1> HIDE DEF t
<1>7. VersionFirst(t, said, heardNow)
  <2>1. ASSUME NEW i \in 1 .. Len(t), t[i].type = "version"
        PROVE  said /\ heardNow = -1 /\ Before(t, i, {"ping"})
    <3>1. said /\ heard = -1 /\ Before(w, i + 1, {"ping"})  BY <1>2, <1>4, <2>1 DEF VersionFirst
    <3>2. Head(w).type \in {"ping"} /\ Before(t, i, {"ping"})  BY <1>4, <3>1
    <3>3. QED  BY <3>1, <3>2
  <2>2. QED  BY <2>1 DEF VersionFirst
<1>8. VerackNext(t, greeted, heardNow, doneNow)
  <2>1. ASSUME NEW i \in 1 .. Len(t), t[i].type = "verack"
        PROVE  /\ greeted # -1 /\ ~doneNow /\ Before(t, i, {"version", "ping"})
               /\ heardNow # -1 \/ Has(t, "version")
    <3>1. /\ greeted # -1 /\ ~done /\ Before(w, i + 1, {"version", "ping"})
          /\ heard # -1 \/ Has(w, "version")
      BY <1>2, <1>4, <2>1 DEF VerackNext
    <3>2. Head(w).type \in {"version", "ping"} /\ Before(t, i, {"version", "ping"})  BY <1>4, <3>1
    <3>3. ~doneNow  BY <3>1, <3>2
    <3>4. heardNow # -1 \/ Has(t, "version")  BY <1>6, <3>1, <3>2
    <3>5. QED  BY <3>1, <3>2, <3>3, <3>4
  <2>2. QED  BY <2>1 DEF VerackNext
<1>9. OthersLater(t, doneNow)
  <2>1. ASSUME NEW i \in 1 .. Len(t), t[i].type \notin {"version", "verack", "ping"}, ~doneNow
        PROVE  Behind(t, i, "verack")
    <3>1. ~done /\ Head(w).type # "verack"  BY <2>1
    <3>2. Behind(w, i + 1, "verack")  BY <1>2, <1>4, <2>1, <3>1 DEF OthersLater
    <3>3. Behind(w, i + 1, "verack") => Head(w).type = "verack" \/ Behind(t, i, "verack")
      BY <1>4, ReadBehind DEF t
    <3>4. QED  BY <3>1, <3>2, <3>3
  <2>2. QED  BY <2>1 DEF OthersLater
<1>10. Handshake(t, said, greeted, heardNow, doneNow, there)
  <2>1. t # <<>> => there  BY <1>2 DEF Handshake
  <2>2. Head(w).type = "version" => said /\ heard = -1  BY <1>1, <1>2, <1>3 DEF VersionFirst
  <2>3. Head(w).type = "verack" => greeted # -1 /\ heard # -1
    <3>1. ASSUME Head(w).type = "verack", Has(w, "version") PROVE FALSE
      <4>1. PICK i \in 1 .. Len(w) : w[i].type = "version"  BY <3>1 DEF Has
      <4>2. Before(w, i, {"ping"}) /\ i # 1  BY <1>1, <1>2, <3>1, <4>1 DEF VersionFirst
      <4>3. 1 \in 1 .. i - 1  BY <4>2
      <4>4. QED  BY <1>1, <3>1, <4>2, <4>3 DEF Before
    <3>2. QED  BY <1>1, <1>2, <1>3, <3>1 DEF VerackNext
  <2>4. doneNow => heardNow # -1 /\ greeted # -1  BY <1>2, <2>3 DEF Handshake
  <2>5. greeted # -1 \/ heardNow # -1 => said  BY <1>2, <2>2 DEF Handshake
  <2>6. there /\ greeted # -1 => doneNow \/ Has(t, "verack")  BY <1>2, <1>6 DEF Handshake
  <2>7. there /\ said => heardNow # -1 \/ Has(t, "version")  BY <1>2, <1>6 DEF Handshake
  <2>8. QED  BY <2>1, <2>4, <2>5, <2>6, <2>7 DEF Handshake
<1>11. QED  BY <1>7, <1>8, <1>9, <1>10 DEF Wire, t

-----------------------------------------------------------------------------
(***************************************************************************)
(* Messages that are sent                                                  *)
(***************************************************************************)

\* What was on the way is before what is sent.
LEMMA SentBehind ==
  ASSUME NEW w \in Seq(Message), NEW v \in Seq(Message), Longer(v, w)
  PROVE  /\ Len(w) \in Nat /\ Len(v) \in Nat /\ Len(w) <= Len(v)
         /\ \A i \in 1 .. Len(w) : i \in 1 .. Len(v) /\ v[i] = w[i]
         /\ \A i \in 1 .. Len(v) : i \in 1 .. Len(w) \/ i \in Len(w) + 1 .. Len(v)
<1>1. Len(w) \in Nat /\ Len(v) \in Nat  BY LenProperties
<1>2. Len(w) <= Len(v) /\ \A i \in 1 .. Len(w) : v[i] = w[i]  BY DEF Longer
<1>3. \A i \in 1 .. Len(w) : i \in 1 .. Len(v)  BY <1>1, <1>2
<1>4. \A i \in 1 .. Len(v) : i \in 1 .. Len(w) \/ i \in Len(w) + 1 .. Len(v)  BY <1>1
<1>5. QED  BY <1>1, <1>2, <1>3, <1>4

\* What is before an entry stays there.
LEMMA SentBefore ==
  ASSUME NEW w \in Seq(Message), NEW v \in Seq(Message), Longer(v, w), NEW i \in 1 .. Len(w)
  PROVE  /\ \A types : Before(w, i, types) => Before(v, i, types)
         /\ \A type : Behind(w, i, type) => Behind(v, i, type)
<1>1. \A j \in 1 .. i - 1 : v[j] = w[j]
  <2>1. Len(w) \in Nat /\ \A j \in 1 .. Len(w) : v[j] = w[j]  BY SentBehind
  <2>2. QED  BY <2>1
<1>2. QED  BY <1>1 DEF Before, Behind

\* What is on the way stays so.
LEMMA SentHas ==
  ASSUME NEW w \in Seq(Message), NEW v \in Seq(Message), Longer(v, w), NEW type, Has(w, type)
  PROVE  Has(v, type)
<1>1. \A i \in 1 .. Len(w) : i \in 1 .. Len(v) /\ v[i] = w[i]  BY SentBehind
<1>2. QED  BY <1>1 DEF Has

\* A ping, or what follows the handshake.
LEMMA WireMore ==
  ASSUME NEW w \in Seq(Message), NEW v \in Seq(Message), Longer(v, w),
         NEW said, NEW greeted, NEW heard, NEW done,
         Wire(w, said, greeted, heard, done, TRUE),
         \A i \in Len(w) + 1 .. Len(v) : v[i].type \notin {"version", "verack"},
         greeted # -1 \/ \A i \in Len(w) + 1 .. Len(v) : v[i].type = "ping"
  PROVE  Wire(v, said, greeted, heard, done, TRUE)
<1>1. /\ VersionFirst(w, said, heard) /\ VerackNext(w, greeted, heard, done)
      /\ OthersLater(w, done) /\ Handshake(w, said, greeted, heard, done, TRUE)
  BY DEF Wire
<1>2. /\ Len(w) \in Nat /\ Len(v) \in Nat /\ Len(w) <= Len(v)
      /\ \A i \in 1 .. Len(w) : i \in 1 .. Len(v) /\ v[i] = w[i]
      /\ \A i \in 1 .. Len(v) : i \in 1 .. Len(w) \/ i \in Len(w) + 1 .. Len(v)
  BY SentBehind
<1>b. ASSUME NEW i \in 1 .. Len(w)
      PROVE  /\ \A types : Before(w, i, types) => Before(v, i, types)
             /\ \A type : Behind(w, i, type) => Behind(v, i, type)
  BY SentBefore
<1>h. \A type : Has(w, type) => Has(v, type)  BY SentHas
<1>3. VersionFirst(v, said, heard)  BY <1>1, <1>2, <1>b DEF VersionFirst
<1>4. VerackNext(v, greeted, heard, done)  BY <1>1, <1>2, <1>b, <1>h DEF VerackNext
<1>5. OthersLater(v, done)
  <2>1. ASSUME NEW i \in 1 .. Len(v), v[i].type \notin {"version", "verack", "ping"}, ~done
        PROVE  Behind(v, i, "verack")
    <3>1. CASE i \in 1 .. Len(w)  BY <1>1, <1>2, <2>1, <3>1, <1>b DEF OthersLater
    <3>2. CASE i \in Len(w) + 1 .. Len(v)
      <4>1. Has(w, "verack")  BY <1>1, <2>1, <3>2 DEF Handshake
      <4>2. PICK k \in 1 .. Len(w) : w[k].type = "verack"  BY <4>1 DEF Has
      <4>3. k \in 1 .. i - 1 /\ v[k].type = "verack"  BY <1>2, <3>2, <4>2
      <4>4. QED  BY <4>3 DEF Behind
    <3>3. QED  BY <1>2, <3>1, <3>2
  <2>2. QED  BY <2>1 DEF OthersLater
<1>6. Handshake(v, said, greeted, heard, done, TRUE)  BY <1>1, <1>2, <1>h DEF Handshake
<1>7. QED  BY <1>3, <1>4, <1>5, <1>6 DEF Wire

\* The answer to a version.  Before it is given the wire carries pings, and the
\* version of a node that has dialled.
LEMMA WireAnswer ==
  ASSUME NEW w \in Seq(Message), NEW v \in Seq(Message), Longer(v, w),
         NEW said, NEW heard, NEW done,
         Wire(w, said, -1, heard, done, TRUE),
         NEW greetedNow, greetedNow # -1,
         IF said THEN Len(v) = Len(w) + 1
                 ELSE Len(v) = Len(w) + 2 /\ v[Len(w) + 1].type = "version",
         v[Len(v)].type = "verack"
  PROVE  Wire(v, TRUE, greetedNow, heard, done, TRUE)
<1>1. /\ VersionFirst(w, said, heard) /\ VerackNext(w, -1, heard, done)
      /\ OthersLater(w, done) /\ Handshake(w, said, -1, heard, done, TRUE)
  BY DEF Wire
<1>2. /\ Len(w) \in Nat /\ Len(v) \in Nat /\ Len(w) <= Len(v)
      /\ \A i \in 1 .. Len(w) : i \in 1 .. Len(v) /\ v[i] = w[i]
      /\ \A i \in 1 .. Len(v) : i \in 1 .. Len(w) \/ i \in Len(w) + 1 .. Len(v)
  BY SentBehind
<1>b. ASSUME NEW i \in 1 .. Len(w)
      PROVE  /\ \A types : Before(w, i, types) => Before(v, i, types)
             /\ \A type : Behind(w, i, type) => Behind(v, i, type)
  BY SentBefore
<1>h. \A type : Has(w, type) => Has(v, type)  BY SentHas
<1>3. ~done /\ (~said => heard = -1)  BY <1>1 DEF Handshake
<1>4. \A i \in 1 .. Len(w) : w[i].type # "verack"  BY <1>1 DEF VerackNext
<1>5. \A i \in 1 .. Len(w) : w[i].type \in {"version", "ping"}
  <2>1. \A i \in 1 .. Len(w) : ~Behind(w, i, "verack")  BY <1>2, <1>4 DEF Behind
  <2>2. QED  BY <1>1, <1>3, <1>4, <2>1 DEF OthersLater
<1>6. ~said => \A i \in 1 .. Len(w) : w[i].type = "ping"  BY <1>1, <1>5 DEF VersionFirst
<1>7. VersionFirst(v, TRUE, heard)
  <2>1. ASSUME NEW i \in 1 .. Len(v), v[i].type = "version"
        PROVE  heard = -1 /\ Before(v, i, {"ping"})
    <3>1. CASE i \in 1 .. Len(w)  BY <1>1, <1>2, <2>1, <3>1, <1>b DEF VersionFirst
    <3>2. CASE i \in Len(w) + 1 .. Len(v)
      <4>1. i # Len(v)  BY <2>1
      <4>2. ~said /\ i = Len(w) + 1  BY <1>2, <3>2, <4>1
      <4>3. \A j \in 1 .. i - 1 : v[j].type = "ping"  BY <1>2, <1>6, <4>2
      <4>4. QED  BY <1>3, <4>2, <4>3 DEF Before
    <3>3. QED  BY <1>2, <3>1, <3>2
  <2>2. QED  BY <2>1 DEF VersionFirst
<1>8. Has(v, "verack") /\ (heard # -1 \/ Has(v, "version"))
  <2>1. Len(v) \in 1 .. Len(v)  BY <1>2
  <2>2. ~said => Len(w) + 1 \in 1 .. Len(v)  BY <1>2
  <2>3. Has(v, "verack")  BY <2>1 DEF Has
  <2>4. ~said => Has(v, "version")  BY <2>2 DEF Has
  <2>5. said => heard # -1 \/ Has(v, "version")  BY <1>1, <1>2, <1>h DEF Handshake
  <2>6. QED  BY <2>3, <2>4, <2>5
<1>9. VerackNext(v, greetedNow, heard, done)
  <2>1. ASSUME NEW i \in 1 .. Len(v), v[i].type = "verack"
        PROVE  Before(v, i, {"version", "ping"})
    <3>1. i \in Len(w) + 1 .. Len(v) /\ ~(~said /\ i = Len(w) + 1)  BY <1>2, <1>4, <2>1
    <3>2. i = Len(v)  BY <1>2, <3>1
    <3>3. ASSUME NEW j \in 1 .. i - 1 PROVE v[j].type \in {"version", "ping"}
      <4>1. j \in 1 .. Len(w) \/ (~said /\ j = Len(w) + 1)  BY <1>2, <3>2
      <4>2. QED  BY <1>2, <1>5, <4>1
    <3>4. QED  BY <3>3 DEF Before
  <2>2. QED  BY <1>3, <1>8, <2>1 DEF VerackNext
<1>10. OthersLater(v, done)
  <2>1. ASSUME NEW i \in 1 .. Len(v) PROVE v[i].type \in {"version", "verack", "ping"}
    <3>1. CASE i \in 1 .. Len(w)  BY <1>2, <1>5, <3>1
    <3>2. CASE i \in Len(w) + 1 .. Len(v)
      <4>1. i = Len(v) \/ (~said /\ i = Len(w) + 1)  BY <1>2, <3>2
      <4>2. QED  BY <4>1
    <3>3. QED  BY <1>2, <3>1, <3>2
  <2>2. QED  BY <2>1 DEF OthersLater
<1>11. Handshake(v, TRUE, greetedNow, heard, done, TRUE)  BY <1>3, <1>8 DEF Handshake
<1>12. QED  BY <1>7, <1>9, <1>10, <1>11 DEF Wire

\* Nothing is on the way to a receiver that is closed.
LEMMA WireClosed ==
  ASSUME NEW w, NEW said, NEW greeted, NEW heard, NEW done,
         NEW there, Wire(w, said, greeted, heard, done, there)
  PROVE  Wire(<<>>, said, greeted, heard, done, FALSE)
<1>1. Len(<<>>) = 0  BY EmptySeq
<1>2. \A i \in 1 .. Len(<<>>) : FALSE  BY <1>1
<1>3. Handshake(<<>>, said, greeted, heard, done, FALSE)  BY DEF Wire, Handshake
<1>4. QED  BY <1>2, <1>3 DEF Wire, VersionFirst, VerackNext, OthersLater

\* What a node that is not told any more would have answered.
LEMMA WireUnanswered ==
  ASSUME NEW w, NEW said, NEW greeted, NEW heard, NEW done,
         Wire(w, said, greeted, heard, done, FALSE), NEW greetedNow, greetedNow # -1
  PROVE  Wire(w, TRUE, greetedNow, heard, done, FALSE)
<1>1. w = <<>>  BY DEF Wire, Handshake
<1>2. Len(<<>>) = 0  BY EmptySeq
<1>3. \A i \in 1 .. Len(<<>>) : FALSE  BY <1>2
<1>4. Handshake(<<>>, TRUE, greetedNow, heard, done, FALSE)  BY DEF Wire, Handshake
<1>5. QED  BY <1>1, <1>3, <1>4 DEF Wire, VersionFirst, VerackNext, OthersLater

\* A new connection: the version of the node that dials, and nothing else.
LEMMA WireNew ==
  /\ Wire(<<>>, FALSE, -1, -1, FALSE, TRUE)
  /\ \A m : m.type = "version" => Wire(<<m>>, TRUE, -1, -1, FALSE, TRUE)
<1>1. Len(<<>>) = 0  BY EmptySeq
<1>2. \A i \in 1 .. Len(<<>>) : FALSE  BY <1>1
<1>3. Wire(<<>>, FALSE, -1, -1, FALSE, TRUE)
  BY <1>2 DEF Wire, VersionFirst, VerackNext, OthersLater, Handshake
<1>4. ASSUME NEW m, m.type = "version" PROVE Wire(<<m>>, TRUE, -1, -1, FALSE, TRUE)
  <2> DEFINE w == <<m>>
  <2>1. Len(w) = 1 /\ w[1] = m  OBVIOUS
  <2> HIDE DEF w
  <2>2. \A i \in 1 .. Len(w) : i = 1 /\ w[i].type = "version" /\ Before(w, i, {"ping"})
    BY <1>4, <2>1 DEF Before
  <2>3. Has(w, "version")  BY <1>4, <2>1 DEF Has
  <2>4. VersionFirst(w, TRUE, -1) /\ VerackNext(w, -1, -1, FALSE) /\ OthersLater(w, FALSE)
    BY <2>2 DEF VersionFirst, VerackNext, OthersLater
  <2>5. Handshake(w, TRUE, -1, -1, FALSE, TRUE)  BY <2>3 DEF Handshake
  <2>6. QED  BY <2>4, <2>5 DEF Wire, w
<1>5. QED  BY <1>3, <1>4

-----------------------------------------------------------------------------
(***************************************************************************)
(* The score                                                               *)
(***************************************************************************)

\* Only the ping costs points, and it is read once.
LEMMA TallyRead ==
  ASSUME SyncAssumption, NEW w \in Seq(Message), w # <<>>, NEW sent,
         NEW points \in Nat, NEW isBanned, Tally(w, sent, points, isBanned),
         NEW pointsNow \in Nat, NEW isBannedNow,
         ~isBannedNow => /\ ~isBanned
                         /\ \/ pointsNow = points
                            \/ Head(w).type = "ping" /\ pointsNow = points + EARLY_SCORE
  PROVE  Tally(Tail(w), sent, pointsNow, isBannedNow)
<1> DEFINE t == Tail(w)
<1>1. /\ Len(w) \in Nat /\ Len(w) >= 1 /\ Len(t) = Len(w) - 1 /\ Head(w) = w[1]
      /\ \A i \in 1 .. Len(w) - 1 : t[i] = w[i + 1]
  BY TailShift
<1>2. /\ Has(w, "ping") => sent
      /\ \A i, j \in 1 .. Len(w) : w[i].type = "ping" /\ w[j].type = "ping" => i = j
      /\ ~isBanned /\ points # 0 => points = EARLY_SCORE /\ sent /\ ~Has(w, "ping")
  BY DEF Tally
<1>3. Has(t, "ping") => Has(w, "ping")  BY ReadHas
<1> HIDE DEF t
<1>4. 1 \in 1 .. Len(w) /\ \A i \in 1 .. Len(t) : i + 1 \in 1 .. Len(w) /\ i + 1 # 1 /\ t[i] = w[i + 1]
  BY <1>1
<1>5. Head(w).type = "ping" => Has(w, "ping") /\ ~Has(t, "ping")
  <2>1. ASSUME Head(w).type = "ping", NEW i \in 1 .. Len(t), t[i].type = "ping" PROVE FALSE
    BY <1>1, <1>2, <1>4, <2>1
  <2>2. QED  BY <1>1, <1>4, <2>1 DEF Has
<1>6. ASSUME NEW i \in 1 .. Len(t), NEW j \in 1 .. Len(t), t[i].type = "ping", t[j].type = "ping"
      PROVE  i = j
  <2>1. i + 1 = j + 1  BY <1>2, <1>4, <1>6
  <2>2. QED  BY <1>1, <2>1
<1>7. ASSUME ~isBannedNow, pointsNow # 0
      PROVE  pointsNow = EARLY_SCORE /\ sent /\ ~Has(t, "ping")
  <2>1. CASE pointsNow = points  BY <1>2, <1>3, <1>7, <2>1
  <2>2. CASE Head(w).type = "ping" /\ pointsNow = points + EARLY_SCORE
    <3>1. points = 0 /\ sent  BY <1>2, <1>5, <1>7, <2>2
    <3>2. 0 + EARLY_SCORE = EARLY_SCORE  BY DEF SyncAssumption
    <3>3. QED  BY <1>5, <2>2, <3>1, <3>2
  <2>3. QED  BY <1>7, <2>1, <2>2
<1>8. QED  BY <1>2, <1>3, <1>6, <1>7 DEF Tally, t

\* Other messages do not matter, and the ping is sent once.
LEMMA TallyMore ==
  ASSUME NEW w \in Seq(Message), NEW v \in Seq(Message), Longer(v, w), NEW sent,
         NEW points \in Nat, NEW isBanned, Tally(w, sent, points, isBanned),
         NEW sentNow,
         \/ sentNow = sent /\ \A i \in Len(w) + 1 .. Len(v) : v[i].type # "ping"
         \/ ~sent /\ sentNow /\ Len(v) = Len(w) + 1
  PROVE  Tally(v, sentNow, points, isBanned)
<1>1. /\ Len(w) \in Nat /\ Len(v) \in Nat /\ Len(w) <= Len(v)
      /\ \A i \in 1 .. Len(w) : i \in 1 .. Len(v) /\ v[i] = w[i]
      /\ \A i \in 1 .. Len(v) : i \in 1 .. Len(w) \/ i \in Len(w) + 1 .. Len(v)
  BY SentBehind
<1>2. /\ Has(w, "ping") => sent
      /\ \A i, j \in 1 .. Len(w) : w[i].type = "ping" /\ w[j].type = "ping" => i = j
      /\ ~isBanned /\ points # 0 => points = EARLY_SCORE /\ sent /\ ~Has(w, "ping")
  BY DEF Tally
<1>3. CASE sentNow = sent /\ \A i \in Len(w) + 1 .. Len(v) : v[i].type # "ping"
  <2>1. \A i \in 1 .. Len(v) : v[i].type = "ping" => i \in 1 .. Len(w) /\ w[i].type = "ping"
    BY <1>1, <1>3
  <2>2. Has(v, "ping") => Has(w, "ping")  BY <2>1 DEF Has
  <2>3. \A i, j \in 1 .. Len(v) : v[i].type = "ping" /\ v[j].type = "ping" => i = j
    BY <1>2, <2>1
  <2>4. QED  BY <1>2, <1>3, <2>2, <2>3 DEF Tally
<1>4. CASE ~sent /\ sentNow /\ Len(v) = Len(w) + 1
  <2>1. \A i \in 1 .. Len(w) : w[i].type # "ping"  BY <1>2, <1>4 DEF Has
  <2>2. \A i \in 1 .. Len(v) : v[i].type = "ping" => i = Len(v)  BY <1>1, <1>4, <2>1
  <2>3. \A i, j \in 1 .. Len(v) : v[i].type = "ping" /\ v[j].type = "ping" => i = j  BY <2>2
  <2>4. QED  BY <1>2, <1>4, <2>3 DEF Tally
<1>5. QED  BY <1>3, <1>4

\* What was on the way is lost, the peer banned perhaps.
LEMMA TallyLost ==
  ASSUME NEW w, NEW sent, NEW points, NEW isBanned,
         Tally(w, sent, points, isBanned), NEW pointsNow, NEW isBannedNow,
         ~isBannedNow => ~isBanned /\ pointsNow = points
  PROVE  Tally(<<>>, sent, pointsNow, isBannedNow)
<1>1. Len(<<>>) = 0  BY EmptySeq
<1>2. \A i \in 1 .. Len(<<>>) : FALSE  BY <1>1
<1>3. ~Has(<<>>, "ping")  BY <1>2 DEF Has
<1>4. QED  BY <1>2, <1>3 DEF Tally

\* A new connection.
LEMMA TallyNew ==
  ASSUME NEW isBanned
  PROVE  Tally(<<>>, FALSE, 0, isBanned) /\ \A m : m.type = "version" => Tally(<<m>>, FALSE, 0, isBanned)
<1>1. Len(<<>>) = 0  BY EmptySeq
<1>2. \A i \in 1 .. Len(<<>>) : FALSE  BY <1>1
<1>3. ~Has(<<>>, "ping")  BY <1>2 DEF Has
<1>4. Tally(<<>>, FALSE, 0, isBanned)  BY <1>2, <1>3 DEF Tally
<1>5. ASSUME NEW m, m.type = "version" PROVE Tally(<<m>>, FALSE, 0, isBanned)
  <2> DEFINE w == <<m>>
  <2>1. Len(w) = 1 /\ w[1] = m  OBVIOUS
  <2> HIDE DEF w
  <2>2. \A i \in 1 .. Len(w) : w[i].type # "ping"  BY <1>5, <2>1
  <2>3. ~Has(w, "ping")  BY <2>2 DEF Has
  <2>4. QED  BY <2>2, <2>3 DEF Tally, w
<1>6. QED  BY <1>4, <1>5

-----------------------------------------------------------------------------
(***************************************************************************)
(* The request for blocks                                                  *)
(***************************************************************************)

\* The peer reads what a node has sent.  Blocks are the answer to a getdata, and
\* no request is behind one.
LEMMA AskServed ==
  ASSUME NEW w \in Seq(Message), w # <<>>, NEW back, NEW heard, NEW at, NEW chosen,
         Ask(w, back, heard, at, chosen),
         NEW backNow, Has(backNow, "block") => Has(back, "block") \/ Head(w).type = "getdata"
  PROVE  Ask(Tail(w), backNow, heard, at, chosen)
<1> DEFINE t == Tail(w)
<1>1. /\ Len(w) \in Nat /\ Len(w) >= 1 /\ Len(t) = Len(w) - 1 /\ Head(w) = w[1]
      /\ \A i \in 1 .. Len(w) - 1 : t[i] = w[i + 1]
  BY TailShift
<1>2. /\ \A i \in 1 .. Len(w) : w[i].type = "getblocks" =>
           /\ chosen /\ ~Has(back, "block")
           /\ \A j \in 1 .. i - 1 : w[j].type \notin {"getblocks", "getdata"}
      /\ heard = -1 \/ at = "behind" => ~Has(w, "getdata") /\ ~Has(back, "block")
  BY DEF Ask
<1>3. Has(t, "getdata") => Has(w, "getdata")  BY ReadHas
<1>4. Head(w).type = "getdata" => Has(w, "getdata")  BY <1>1 DEF Has
<1> HIDE DEF t
<1>5. ASSUME NEW i \in 1 .. Len(t), t[i].type = "getblocks"
      PROVE  /\ chosen /\ ~Has(backNow, "block")
             /\ \A j \in 1 .. i - 1 : t[j].type \notin {"getblocks", "getdata"}
  <2>1. i + 1 \in 1 .. Len(w) /\ w[i + 1].type = "getblocks" /\ (i + 1) - 1 = i  BY <1>1, <1>5
  <2>2. /\ chosen /\ ~Has(back, "block")
        /\ \A j \in 1 .. i : w[j].type \notin {"getblocks", "getdata"}
    BY <1>2, <2>1
  <2>3. Head(w).type # "getdata"
    <3>1. 1 \in 1 .. i  BY <1>1
    <3>2. QED  BY <1>1, <2>2, <3>1
  <2>4. ASSUME NEW j \in 1 .. i - 1 PROVE t[j].type \notin {"getblocks", "getdata"}
    <3>1. j + 1 \in 1 .. i /\ t[j] = w[j + 1]  BY <1>1
    <3>2. QED  BY <2>2, <3>1
  <2>5. QED  BY <2>2, <2>3, <2>4
<1>6. heard = -1 \/ at = "behind" => ~Has(t, "getdata") /\ ~Has(backNow, "block")
  BY <1>2, <1>3, <1>4
<1>7. QED  BY <1>5, <1>6 DEF Ask, t

\* The node reads on and sends more, no request for blocks, and no getdata before
\* it has heard of the peer's height and has seen to the synchronisation.
LEMMA AskMore ==
  ASSUME NEW w \in Seq(Message), NEW v \in Seq(Message), Longer(v, w),
         NEW back, NEW heard, NEW at, NEW chosen, Ask(w, back, heard, at, chosen),
         NEW backNow, Has(backNow, "block") => Has(back, "block"), NEW heardNow, NEW atNow,
         \A i \in Len(w) + 1 .. Len(v) : v[i].type # "getblocks",
         heardNow = -1 \/ atNow = "behind" =>
           /\ heard = -1 \/ at = "behind"
           /\ \A i \in Len(w) + 1 .. Len(v) : v[i].type # "getdata"
  PROVE  Ask(v, backNow, heardNow, atNow, chosen)
<1>1. /\ Len(w) \in Nat /\ Len(v) \in Nat /\ Len(w) <= Len(v)
      /\ \A i \in 1 .. Len(w) : i \in 1 .. Len(v) /\ v[i] = w[i]
      /\ \A i \in 1 .. Len(v) : i \in 1 .. Len(w) \/ i \in Len(w) + 1 .. Len(v)
  BY SentBehind
<1>2. /\ \A i \in 1 .. Len(w) : w[i].type = "getblocks" =>
           /\ chosen /\ ~Has(back, "block")
           /\ \A j \in 1 .. i - 1 : w[j].type \notin {"getblocks", "getdata"}
      /\ heard = -1 \/ at = "behind" => ~Has(w, "getdata") /\ ~Has(back, "block")
  BY DEF Ask
<1>3. ASSUME NEW i \in 1 .. Len(v), v[i].type = "getblocks"
      PROVE  /\ chosen /\ ~Has(backNow, "block")
             /\ \A j \in 1 .. i - 1 : v[j].type \notin {"getblocks", "getdata"}
  <2>1. i \in 1 .. Len(w) /\ w[i].type = "getblocks"  BY <1>1, <1>3
  <2>2. \A j \in 1 .. i - 1 : v[j] = w[j]  BY <1>1, <2>1
  <2>3. QED  BY <1>2, <2>1, <2>2
<1>4. ASSUME heardNow = -1 \/ atNow = "behind" PROVE ~Has(v, "getdata") /\ ~Has(backNow, "block")
  <2>1. ~Has(w, "getdata") /\ ~Has(back, "block")  BY <1>2, <1>4
  <2>2. \A i \in 1 .. Len(w) : w[i].type # "getdata"  BY <2>1 DEF Has
  <2>3. \A i \in 1 .. Len(v) : v[i].type # "getdata"  BY <1>1, <1>4, <2>2
  <2>4. ~Has(v, "getdata")  BY <2>3 DEF Has
  <2>5. QED  BY <2>1, <2>4
<1>5. QED  BY <1>3, <1>4 DEF Ask

\* The request that begins a synchronisation.
LEMMA AskBegins ==
  ASSUME NEW w \in Seq(Message), NEW v \in Seq(Message), Longer(v, w), Len(v) = Len(w) + 1,
         v[Len(w) + 1].type = "getblocks",
         NEW back, NEW heard, NEW chosen, Ask(w, back, heard, "behind", chosen),
         ~Has(w, "getblocks"), NEW atNow
  PROVE  Ask(v, back, heard, atNow, TRUE)
<1>1. /\ Len(w) \in Nat /\ Len(v) \in Nat
      /\ \A i \in 1 .. Len(w) : i \in 1 .. Len(v) /\ v[i] = w[i]
      /\ \A i \in 1 .. Len(v) : i \in 1 .. Len(w) \/ i \in Len(w) + 1 .. Len(v)
  BY SentBehind
<1>2. ~Has(w, "getdata") /\ ~Has(back, "block")  BY DEF Ask
<1>3. \A i \in 1 .. Len(w) : w[i].type \notin {"getblocks", "getdata"}  BY <1>2 DEF Has
<1>4. ASSUME NEW i \in 1 .. Len(v), v[i].type = "getblocks"
      PROVE  \A j \in 1 .. i - 1 : v[j].type \notin {"getblocks", "getdata"}
  <2>1. \A j \in 1 .. i - 1 : j \in 1 .. Len(w)  BY <1>1
  <2>2. QED  BY <1>1, <1>3, <2>1
<1>5. \A i \in 1 .. Len(v) : v[i].type # "getdata"
  <2>1. \A i \in 1 .. Len(v) : i \in 1 .. Len(w) \/ i = Len(w) + 1  BY <1>1
  <2>2. QED  BY <1>1, <1>3, <2>1
<1>6. ~Has(v, "getdata")  BY <1>5 DEF Has
<1>7. QED  BY <1>2, <1>4, <1>6 DEF Ask

\* Without a request it does not matter whether the node synchronises.
LEMMA AskFree ==
  ASSUME NEW w, NEW back, NEW heard, NEW at, NEW chosen, Ask(w, back, heard, at, chosen),
         ~Has(w, "getblocks"), NEW atNow, atNow # "behind" \/ atNow = at, NEW chosenNow
  PROVE  Ask(w, back, heard, atNow, chosenNow)
BY DEF Ask, Has

\* Nothing is on the way to the peer, no block to the node if none was.
LEMMA AskLost ==
  ASSUME NEW w, NEW back, NEW heard, NEW at, NEW chosen, Ask(w, back, heard, at, chosen),
         NEW backNow, Has(backNow, "block") => Has(back, "block"), NEW chosenNow
  PROVE  Ask(<<>>, backNow, heard, at, chosenNow)
<1>1. Len(<<>>) = 0  BY EmptySeq
<1>2. \A i \in 1 .. Len(<<>>) : FALSE  BY <1>1
<1>3. ~Has(<<>>, "getdata")  BY <1>2 DEF Has
<1>4. QED  BY <1>2, <1>3 DEF Ask

\* Less is on the way to the node.
LEMMA AskLess ==
  ASSUME NEW w, NEW back, NEW heard, NEW at, NEW chosen, Ask(w, back, heard, at, chosen),
         NEW backNow, Has(backNow, "block") => Has(back, "block")
  PROVE  Ask(w, backNow, heard, at, chosen)
BY DEF Ask

\* A new connection.
LEMMA AskNew ==
  ASSUME NEW at, NEW chosen
  PROVE  /\ Ask(<<>>, <<>>, -1, at, chosen)
         /\ \A m : m.type = "version" => /\ Ask(<<m>>, <<>>, -1, at, chosen)
                                         /\ Ask(<<>>, <<m>>, -1, at, chosen)
<1>1. Len(<<>>) = 0  BY EmptySeq
<1>2. \A i \in 1 .. Len(<<>>) : FALSE  BY <1>1
<1>3. \A type : ~Has(<<>>, type)  BY <1>2 DEF Has
<1>4. Ask(<<>>, <<>>, -1, at, chosen)  BY <1>2, <1>3 DEF Ask
<1>5. ASSUME NEW m, m.type = "version"
      PROVE  Ask(<<m>>, <<>>, -1, at, chosen) /\ Ask(<<>>, <<m>>, -1, at, chosen)
  <2> DEFINE w == <<m>>
  <2>1. Len(w) = 1 /\ w[1] = m  OBVIOUS
  <2> HIDE DEF w
  <2>2. \A i \in 1 .. Len(w) : w[i].type \notin {"getblocks", "getdata", "block"}  BY <1>5, <2>1
  <2>3. ~Has(w, "getdata") /\ ~Has(w, "block")  BY <2>2 DEF Has
  <2>4. Ask(w, <<>>, -1, at, chosen)  BY <1>3, <2>2, <2>3 DEF Ask
  <2>5. Ask(<<>>, w, -1, at, chosen)  BY <1>2, <1>3, <2>3 DEF Ask
  <2>6. QED  BY <2>4, <2>5 DEF w
<1>6. QED  BY <1>4, <1>5

-----------------------------------------------------------------------------
(***************************************************************************)
(* Blocks on the way                                                       *)
(***************************************************************************)

\* Those that have not been read yet.
LEMMA CarriesRead ==
  ASSUME NEW w \in Seq(Message), w # <<>>, NEW ch, Carries(w, ch)
  PROVE  Carries(Tail(w), ch)
<1> DEFINE t == Tail(w)
<1>1. /\ Len(w) \in Nat /\ Len(t) = Len(w) - 1 /\ \A i \in 1 .. Len(w) - 1 : t[i] = w[i + 1]
  BY TailShift
<1> HIDE DEF t
<1>2. \A i \in 1 .. Len(t) : i + 1 \in 1 .. Len(w) /\ t[i] = w[i + 1]  BY <1>1
<1>3. QED  BY <1>2 DEF Carries, t

\* Those that are sent are on the chain.
LEMMA CarriesMore ==
  ASSUME NEW w \in Seq(Message), NEW v \in Seq(Message), Longer(v, w), NEW ch, Carries(w, ch),
         \A i \in Len(w) + 1 .. Len(v) : True(v[i], ch)
  PROVE  Carries(v, ch)
<1>1. /\ \A i \in 1 .. Len(w) : v[i] = w[i]
      /\ \A i \in 1 .. Len(v) : i \in 1 .. Len(w) \/ i \in Len(w) + 1 .. Len(v)
  BY SentBehind
<1>2. QED  BY <1>1 DEF Carries

\* An empty wire, and one with a version.
LEMMA CarriesNone ==
  ASSUME NEW ch
  PROVE  Carries(<<>>, ch) /\ \A m : True(m, ch) => Carries(<<m>>, ch)
<1>1. Len(<<>>) = 0  BY EmptySeq
<1>2. Carries(<<>>, ch)  BY <1>1 DEF Carries
<1>3. ASSUME NEW m, True(m, ch) PROVE Carries(<<m>>, ch)
  <2> DEFINE w == <<m>>
  <2>1. Len(w) = 1 /\ w[1] = m  OBVIOUS
  <2> HIDE DEF w
  <2>2. QED  BY <1>3, <2>1 DEF Carries, w
<1>4. QED  BY <1>2, <1>3

-----------------------------------------------------------------------------
(***************************************************************************)
(* Ends, blocks and messages                                               *)
(***************************************************************************)

\* The ends of the connections are pairs of different nodes, and each has another.
LEMMA EndFacts ==
  ASSUME SyncAssumption, NEW e \in Ends
  PROVE  /\ e[1] \in Nodes /\ e[2] \in Nodes /\ e = <<e[1], e[2]>> /\ e[1] # e[2]
         /\ Back(e) \in Ends /\ Back(Back(e)) = e /\ Back(e) # e
         /\ Back(e)[1] = e[2] /\ Back(e)[2] = e[1]
<1>1. ASSUME NEW d \in Dials
      PROVE  d[1] \in Nodes /\ d[2] \in Nodes /\ d = <<d[1], d[2]>> /\ d[1] # d[2]
  BY DEF SyncAssumption
<1>2. e \in Dials \/ \E d \in Dials : e = Back(d)  BY DEF Ends, Back
<1>3. e[1] \in Nodes /\ e[2] \in Nodes /\ e = <<e[1], e[2]>> /\ e[1] # e[2]
  BY <1>1, <1>2 DEF Back
<1>4. Back(e) \in Ends
  <2>1. CASE e \in Dials  BY <2>1 DEF Ends, Back
  <2>2. ASSUME NEW d \in Dials, e = Back(d) PROVE Back(e) \in Ends
    <3>1. Back(e) = d  BY <1>1, <2>2 DEF Back
    <3>2. QED  BY <3>1 DEF Ends
  <2>3. QED  BY <1>2, <2>1, <2>2
<1>5. QED  BY <1>3, <1>4 DEF Back

\* A connection is one end of itself.
LEMMA DialEnds == ASSUME SyncAssumption, NEW d \in Dials PROVE d \in Ends /\ Back(d) \in Ends
BY DEF Ends, Back

\* A block is a list of miners, and what comes after the genesis block at most is one.
LEMMA BlockFacts ==
  ASSUME SyncAssumption
  PROVE  /\ \A b \in Block : b \in Seq(Nodes) /\ Len(b) \in 1 .. MaxHeight
         /\ \A b \in Seq(Nodes) : Len(b) \in 1 .. MaxHeight => b \in Block
<1>1. MaxHeight \in Nat  BY DEF SyncAssumption
<1>2. ASSUME NEW b \in Block PROVE b \in Seq(Nodes) /\ Len(b) \in 1 .. MaxHeight
  <2>1. PICK k \in 1 .. MaxHeight : b \in [1 .. k -> Nodes]  BY DEF Block
  <2>2. k \in Nat  BY <1>1
  <2>3. b \in Seq(Nodes)  BY <2>1, <2>2, SeqDef
  <2>4. Len(b) = k
    <3>1. DOMAIN b = 1 .. k /\ DOMAIN b = 1 .. Len(b) /\ Len(b) \in Nat  BY <2>1, <2>3, LenProperties
    <3>2. QED  BY <2>2, <3>1
  <2>5. QED  BY <2>3, <2>4
<1>3. ASSUME NEW b \in Seq(Nodes), Len(b) \in 1 .. MaxHeight PROVE b \in Block
  <2>1. b \in [1 .. Len(b) -> Nodes]  BY LenProperties
  <2>2. QED  BY <1>3, <2>1 DEF Block
<1>4. QED  BY <1>2, <1>3

\* A chain is a list of miners that is not too long.
LEMMA ChainFacts ==
  ASSUME SyncAssumption
  PROVE  \A c : c \in Block \cup {<<>>} <=> c \in Seq(Nodes) /\ Len(c) \in 0 .. MaxHeight
<1>1. MaxHeight \in Nat  BY DEF SyncAssumption
<1>2. <<>> \in Seq(Nodes) /\ Len(<<>>) = 0  BY EmptySeq
<1>3. ASSUME NEW c \in Seq(Nodes), Len(c) = 0 PROVE c = <<>>  BY <1>3, EmptySeq
<1>4. ASSUME NEW c \in Block PROVE c \in Seq(Nodes) /\ Len(c) \in 0 .. MaxHeight
  <2>1. c \in Seq(Nodes) /\ Len(c) \in 1 .. MaxHeight  BY BlockFacts
  <2>2. QED  BY <1>1, <2>1
<1>5. ASSUME NEW c, c \in Seq(Nodes), Len(c) \in 0 .. MaxHeight PROVE c \in Block \/ c = <<>>
  <2>1. CASE Len(c) = 0  BY <1>3, <1>5, <2>1
  <2>2. CASE Len(c) # 0
    <3>1. Len(c) \in 1 .. MaxHeight  BY <1>1, <1>5, <2>2
    <3>2. QED  BY <1>5, <3>1, BlockFacts
  <2>3. QED  BY <2>1, <2>2
<1>6. ASSUME NEW c, c = <<>> PROVE c \in Seq(Nodes) /\ Len(c) \in 0 .. MaxHeight
  <2>1. 0 \in 0 .. MaxHeight  BY <1>1
  <2>2. QED  BY <1>2, <1>6, <2>1
<1>7. ASSUME NEW c PROVE c \in Block \cup {<<>>} <=> c \in Seq(Nodes) /\ Len(c) \in 0 .. MaxHeight
  <2>1. c \in Block \cup {<<>>} <=> c \in Block \/ c = <<>>  OBVIOUS
  <2>2. QED  BY <1>4, <1>5, <1>6, <2>1
<1>8. QED  BY <1>7

\* What the messages carry.
LEMMA MessageFacts ==
  ASSUME NEW m \in Message
  PROVE  /\ m.type = "version" => m.height \in 0 .. MaxHeight
         /\ m.type = "getblocks" => m.tip \in Block \cup {<<>>}
         /\ m.type \in {"inv", "getdata"} => m.hashes \in Seq(Block)
         /\ m.type = "block" => m.block \in Block
         /\ m.type \in {"version", "verack", "getaddr", "ping", "pong", "getblocks", "inv",
                        "getdata", "block"}
BY DEF Message

\* The messages that are sent.
LEMMA Sendable ==
  /\ \A h \in 0 .. MaxHeight : [type |-> "version", height |-> h] \in Message
  /\ \A type \in {"verack", "getaddr", "ping", "pong"} : [type |-> type] \in Message
  /\ \A tip \in Block \cup {<<>>} : [type |-> "getblocks", tip |-> tip] \in Message
  /\ \A hashes \in Seq(Block) : /\ [type |-> "inv", hashes |-> hashes] \in Message
                                /\ [type |-> "getdata", hashes |-> hashes] \in Message
  /\ \A b \in Block : [type |-> "block", block |-> b] \in Message
BY DEF Message

\* The blocks after a tip.
LEMMA HashesAfter ==
  ASSUME SyncAssumption, NEW ch \in Block \cup {<<>>}, NEW tip \in Block \cup {<<>>}
  PROVE  GetBlockHashesAfter(ch, tip) \in Seq(Block)
<1>1. /\ ch \in Seq(Nodes) /\ Len(ch) \in 0 .. MaxHeight
      /\ tip \in Seq(Nodes) /\ Len(tip) \in 0 .. MaxHeight /\ MaxHeight \in Nat
  BY ChainFacts DEF SyncAssumption
<1> DEFINE n == Len(ch) - Len(tip)
           after == [i \in 1 .. n |-> SubSeq(ch, 1, Len(tip) + i)]
<1>2. CASE IsPrefix(tip, ch)
  <2>1. Len(tip) <= Len(ch)  BY <1>2 DEF IsPrefix
  <2>2. n \in Nat  BY <1>1, <2>1
  <2>3. ASSUME NEW i \in 1 .. n PROVE SubSeq(ch, 1, Len(tip) + i) \in Block
    <3>1. Len(tip) + i \in 0 .. Len(ch) /\ Len(tip) + i \in 1 .. MaxHeight  BY <1>1, <2>1
    <3>2. SubSeq(ch, 1, Len(tip) + i) \in Seq(Nodes) /\ Len(SubSeq(ch, 1, Len(tip) + i)) = Len(tip) + i
      BY <1>1, <3>1, PartLonger
    <3>3. QED  BY <3>1, <3>2, BlockFacts
  <2>4. after \in [1 .. n -> Block]  BY <2>3
  <2>5. after \in Seq(Block)
    <3> HIDE DEF after, n
    <3>1. QED  BY <2>2, <2>4, SeqDef
  <2>6. QED  BY <1>2, <2>5 DEF GetBlockHashesAfter
<1>3. CASE ~IsPrefix(tip, ch)
  <2>1. <<>> \in Seq(Block)  BY EmptySeq
  <2>2. QED  BY <1>3, <2>1 DEF GetBlockHashesAfter
<1>4. QED  BY <1>2, <1>3

\* The answer to a getdata: blocks of the chain.
LEMMA BlocksFound ==
  ASSUME SyncAssumption, NEW n \in Nodes, chain[n] \in Block \cup {<<>>}, NEW hashes \in Seq(Block)
  PROVE  LET found == Only(hashes, Stored(n))
             msgs == [i \in DOMAIN found |-> [type |-> "block", block |-> found[i]]]
         IN  /\ msgs \in Seq(Message)
             /\ \A i \in 1 .. Len(msgs) : msgs[i].type = "block" /\ IsPrefix(msgs[i].block, chain[n])
<1> DEFINE found == Only(hashes, Stored(n))
           msgs == [i \in DOMAIN found |-> [type |-> "block", block |-> found[i]]]
<1>1. found \in Seq(Block) /\ \A k \in DOMAIN found : found[k] \in Stored(n)  BY OnlyRange
<1>2. chain[n] \in Seq(Nodes)  BY ChainFacts
<1>3. ASSUME NEW b \in Stored(n) PROVE IsPrefix(b, chain[n])
  <2>1. Len(chain[n]) \in Nat  BY <1>2, LenProperties
  <2>2. PICK k \in 1 .. Len(chain[n]) : b = SubSeq(chain[n], 1, k)  BY DEF Stored, Height
  <2>3. k \in 0 .. Len(chain[n])  BY <2>1
  <2>4. b \in Seq(Nodes) /\ Longer(chain[n], b)  BY <1>2, <2>2, <2>3, PartLonger
  <2>5. QED  BY <1>2, <2>4, PrefixLonger
<1> HIDE DEF found
<1>4. Len(found) \in Nat /\ DOMAIN found = 1 .. Len(found)  BY <1>1, LenProperties
<1>5. ASSUME NEW i \in 1 .. Len(found) PROVE [type |-> "block", block |-> found[i]] \in Message
  <2>1. found[i] \in Block  BY <1>1, ElementOfSeq
  <2>2. QED  BY <2>1, Sendable
<1>6. msgs \in [1 .. Len(found) -> Message]  BY <1>4, <1>5
<1>7. msgs \in Seq(Message)  BY <1>4, <1>6, SeqDef
<1>8. Len(msgs) = Len(found)
  <2>1. DOMAIN msgs = 1 .. Len(found)  BY <1>4
  <2>2. DOMAIN msgs = 1 .. Len(msgs) /\ Len(msgs) \in Nat  BY <1>7, LenProperties
  <2> HIDE DEF msgs
  <2>3. QED  BY <1>4, <2>1, <2>2
<1>9. ASSUME NEW i \in 1 .. Len(msgs)
      PROVE  msgs[i].type = "block" /\ IsPrefix(msgs[i].block, chain[n])
  <2>1. i \in DOMAIN found  BY <1>4, <1>8
  <2>2. msgs[i] = [type |-> "block", block |-> found[i]]  BY <2>1
  <2>3. IsPrefix(found[i], chain[n])  BY <1>1, <1>3, <2>1
  <2>4. QED  BY <2>2, <2>3
<1>10. QED  BY <1>7, <1>9 DEF found

\* What is on the chain stays on it when the chain grows.
LEMMA CarriesGrow ==
  ASSUME SyncAssumption, NEW w \in Seq(Message), NEW ch \in Seq(Nodes), NEW new \in Seq(Nodes),
         Longer(new, ch), Carries(w, ch)
  PROVE  Carries(w, new)
<1>1. ASSUME NEW i \in 1 .. Len(w) PROVE True(w[i], new)
  <2> DEFINE m == w[i]
  <2>1. m \in Message  BY ElementOfSeq
  <2>2. True(m, ch)  BY <1>1 DEF Carries
  <2> HIDE DEF m
  <2>3. ASSUME m.type = "block" PROVE IsPrefix(m.block, new)
    <3>1. IsPrefix(m.block, ch)  BY <2>2, <2>3 DEF True
    <3>2. m.block \in Seq(Nodes)  BY <2>1, <2>3, MessageFacts, BlockFacts
    <3>3. Longer(ch, m.block)  BY <3>1, <3>2, PrefixLonger
    <3>4. Longer(new, m.block)  BY <3>2, <3>3, LongerStill
    <3>5. QED  BY <3>2, <3>4, PrefixLonger
  <2>4. ASSUME m.type = "version" PROVE m.height <= Len(new)
    <3>1. m.height <= Len(ch)  BY <2>2, <2>4 DEF True
    <3>2. m.height \in 0 .. MaxHeight  BY <2>1, <2>4, MessageFacts
    <3>3. MaxHeight \in Nat  BY DEF SyncAssumption
    <3>4. Len(ch) \in Nat /\ Len(new) \in Nat /\ Len(ch) <= Len(new)
      BY LenProperties DEF Longer
    <3>5. QED  BY <3>1, <3>2, <3>3, <3>4
  <2>5. QED  BY <2>3, <2>4 DEF True, m
<1>2. QED  BY <1>1 DEF Carries

\* Most messages say nothing about the chain.
LEMMA Plain == \A m, ch : m.type \notin {"block", "version"} => True(m, ch)
BY DEF True

-----------------------------------------------------------------------------
(***************************************************************************)
(* Types                                                                   *)
(***************************************************************************)

\* The parts make up TypeOK.
LEMMA TypeParts == TypeInv <=> TypeOK
BY DEF TypeInv, TypeOK, BlocksInv, SyncingInv, BannedInv, LinkInv, NetInv, CountInv, ThreadInv

\* What the reader e is about to read.
LEMMA HeadMessage ==
  ASSUME SyncAssumption, NetInv, NEW e \in Ends, net[Back(e)] # <<>>
  PROVE  /\ net[Back(e)] \in Seq(Message) /\ Head(net[Back(e)]) \in Message
         /\ Tail(net[Back(e)]) \in Seq(Message)
<1>1. net[Back(e)] \in Seq(Message)  BY EndFacts DEF NetInv
<1>2. QED  BY <1>1, TailShift

\* The network after the end e has read a message and answered.
LEMMA ExchangeNet ==
  ASSUME SyncAssumption, NetInv, NEW e \in Ends, net[Back(e)] # <<>>, NEW msgs \in Seq(Message)
  PROVE  /\ Exchange(e, msgs) \in [Ends -> Seq(Message)]
         /\ Exchange(e, msgs)[Back(e)] = Tail(net[Back(e)])
         /\ Exchange(e, msgs)[e] = IF open[Back(e)] THEN net[e] \o msgs ELSE net[e]
         /\ \A x \in Ends : x # e /\ x # Back(e) => Exchange(e, msgs)[x] = net[x]
<1>1. Back(e) \in Ends /\ Back(e) # e  BY EndFacts
<1>2. net \in [Ends -> Seq(Message)] /\ net[e] \in Seq(Message)  BY DEF NetInv
<1>3. Tail(net[Back(e)]) \in Seq(Message)  BY HeadMessage
<1>4. net[e] \o msgs \in Seq(Message)  BY <1>2, ConcatLonger
<1>5. QED  BY <1>1, <1>2, <1>3, <1>4 DEF Exchange

\* A message more on the way from the end e.
LEMMA SendNet ==
  ASSUME NetInv, NEW e \in Ends, NEW m \in Message
  PROVE  [net EXCEPT ![e] = Append(@, m)] \in [Ends -> Seq(Message)]
<1>1. net \in [Ends -> Seq(Message)] /\ net[e] \in Seq(Message)  BY DEF NetInv
<1>2. Append(net[e], m) \in Seq(Message)  BY <1>1, AppendLonger
<1>3. QED  BY <1>1, <1>2

\* Nothing on the way from the end e.
LEMMA ClearNet ==
  ASSUME NEW f \in [Ends -> Seq(Message)], NEW e \in Ends
  PROVE  [f EXCEPT ![e] = <<>>] \in [Ends -> Seq(Message)]
<1>1. <<>> \in Seq(Message)  BY EmptySeq
<1>2. ASSUME NEW empty \in Seq(Message) PROVE [f EXCEPT ![e] = empty] \in [Ends -> Seq(Message)]
  OBVIOUS
<1>3. QED  BY <1>1, <1>2

\* The count of the messages stays within its limit.
LEMMA RateType ==
  ASSUME SyncAssumption, CountInv, NEW e \in Ends, WithinRate(e)
  PROVE  CountInv'
<1>1. MAX_PEER_MESSAGES_PER_SEC \in Nat  BY DEF SyncAssumption
<1>2. \A k \in 0 .. MAX_PEER_MESSAGES_PER_SEC :
        k < MAX_PEER_MESSAGES_PER_SEC => k + 1 \in 0 .. MAX_PEER_MESSAGES_PER_SEC
  BY <1>1
<1>3. msgCount \in [Ends -> 0 .. MAX_PEER_MESSAGES_PER_SEC]  BY DEF CountInv
<1>4. QED  BY <1>2, <1>3 DEF WithinRate, CountInv

\* What closing an end leaves.
LEMMA DisconnectType ==
  ASSUME SyncAssumption, NetInv, SyncingInv, open \in [Ends -> BOOLEAN],
         NEW e \in Ends, Disconnect(e)
  PROVE  /\ open' \in [Ends -> BOOLEAN] /\ net' \in [Ends -> Seq(Message)]
         /\ hindered' \in [Nodes -> BOOLEAN]
<1>1. Back(e) \in Ends /\ e[1] \in Nodes  BY EndFacts
<1>2. net' \in [Ends -> Seq(Message)]  BY <1>1, ClearNet DEF Disconnect, NetInv
<1>3. IsSyncPeer(e) \in BOOLEAN  BY <1>1 DEF IsSyncPeer, SyncingInv
<1>4. hindered' \in [Nodes -> BOOLEAN]  BY <1>1, <1>3 DEF Disconnect, SyncingInv
<1>5. QED  BY <1>2, <1>4 DEF Disconnect

\* What a penalty leaves.
LEMMA MisbehaveType ==
  ASSUME SyncAssumption, NetInv, SyncingInv, BannedInv, open \in [Ends -> BOOLEAN],
         NEW e \in Ends, net[Back(e)] # <<>>, NEW points \in Nat, Misbehave(e, points)
  PROVE  /\ open' \in [Ends -> BOOLEAN] /\ net' \in [Ends -> Seq(Message)]
         /\ hindered' \in [Nodes -> BOOLEAN] /\ BannedInv'
<1>1. e[1] \in Nodes /\ e[2] \in Nodes  BY EndFacts
<1>2. score' \in [Ends -> Nat]  BY DEF Misbehave, BannedInv
<1>3. CASE score[e] + points >= BAN_SCORE_THRESHOLD
  <2>1. banned' = [banned EXCEPT ![e[1]] = @ \cup {e[2]}] /\ Disconnect(e)
    BY <1>3 DEF Misbehave
  <2>2. banned' \in [Nodes -> SUBSET Nodes]  BY <1>1, <2>1 DEF BannedInv
  <2>3. QED  BY <1>2, <2>1, <2>2, DisconnectType DEF BannedInv
<1>4. CASE ~(score[e] + points >= BAN_SCORE_THRESHOLD)
  <2>1. net' = Exchange(e, <<>>) /\ UNCHANGED <<banned, open, hindered>>
    BY <1>4 DEF Misbehave
  <2>2. <<>> \in Seq(Message)  BY EmptySeq
  <2>3. net' \in [Ends -> Seq(Message)]  BY <2>1, <2>2, ExchangeNet
  <2>4. QED  BY <1>2, <2>1, <2>3 DEF BannedInv, SyncingInv
<1>5. QED  BY <1>3, <1>4

\* A version says the height of the chain.
LEMMA VersionSendable ==
  ASSUME SyncAssumption, BlocksInv, NEW n \in Nodes
  PROVE  Version(n) \in Message /\ Version(n).type = "version"
<1>1. chain[n] \in Block \cup {<<>>}  BY DEF BlocksInv
<1>2. Height(n) \in 0 .. MaxHeight  BY <1>1, ChainFacts DEF Height
<1>3. QED  BY <1>2, Sendable DEF Version

\* The answer to a version ends with a verack.
LEMMA AnswerSendable ==
  ASSUME SyncAssumption, BlocksInv, LinkInv, NEW e \in Ends
  PROVE  /\ Answer(e) \in Seq(Message)
         /\ versionSent[e] => Len(Answer(e)) = 1
         /\ ~versionSent[e] => Len(Answer(e)) = 2 /\ Answer(e)[1].type = "version"
                                                  /\ Answer(e)[1] = Version(e[1])
         /\ Answer(e)[Len(Answer(e))].type = "verack"
<1>1. Version(e[1]) \in Message /\ Version(e[1]).type = "version"  BY EndFacts, VersionSendable
<1>2. Verack \in Message /\ Verack.type = "verack"  BY Sendable DEF Verack
<1> HIDE DEF Verack, Version
<1>3. <<Verack>> \in Seq(Message) /\ Len(<<Verack>>) = 1 /\ <<Verack>>[1] = Verack  BY <1>2
<1>4. CASE versionSent[e]
  <2>1. Answer(e) = <<>> \o <<Verack>>  BY <1>4 DEF Answer
  <2>2. Answer(e) = <<Verack>>  BY <1>3, <2>1, ConcatEmptySeq
  <2>3. QED  BY <1>2, <1>3, <1>4, <2>2
<1>5. CASE ~versionSent[e]
  <2>1. Answer(e) = <<Version(e[1])>> \o <<Verack>>  BY <1>5 DEF Answer
  <2>2. /\ <<Version(e[1])>> \in Seq(Message) /\ Len(<<Version(e[1])>>) = 1
        /\ <<Version(e[1])>>[1] = Version(e[1])
    BY <1>1
  <2>3. /\ Answer(e) \in Seq(Message) /\ Len(Answer(e)) = 1 + 1
        /\ \A i \in 1 .. 1 + 1 :
             Answer(e)[i] = IF i <= 1 THEN <<Version(e[1])>>[i] ELSE <<Verack>>[i - 1]
    BY <1>3, <2>1, <2>2, ConcatProperties
  <2>4. Len(Answer(e)) = 2 /\ Answer(e)[1] = Version(e[1]) /\ Answer(e)[2] = Verack
    BY <1>3, <2>2, <2>3
  <2>5. QED  BY <1>1, <1>2, <1>5, <2>3, <2>4
<1>6. QED  BY <1>4, <1>5

\* Nodes start with the chains they have stored and without connections.
LEMMA InitTypeInv == ASSUME SyncAssumption PROVE Init => TypeInv
<1> SUFFICES ASSUME Init PROVE TypeInv  OBVIOUS
<1>1. BlocksInv  BY DEF Init, BlocksInv, SyncAssumption
<1>2. SyncingInv  BY DEF Init, SyncingInv
<1>3. BannedInv  BY DEF Init, BannedInv
<1>4. LinkInv
  <2>1. MaxHeight \in Nat  BY DEF SyncAssumption
  <2>2. -1 \in -1 .. MaxHeight  BY <2>1
  <2>3. QED  BY <2>2 DEF Init, LinkInv
<1>5. NetInv
  <2>1. <<>> \in Seq(Message)  BY EmptySeq
  <2>2. QED  BY <2>1 DEF Init, Empty, NetInv
<1>6. CountInv  BY DEF Init, CountInv, SyncAssumption
<1>7. ThreadInv
  <2>1. <<>> \in Seq(Block)  BY EmptySeq
  <2>2. QED  BY <2>1 DEF Init, Empty, ThreadInv
<1>8. QED  BY <1>1, <1>2, <1>3, <1>4, <1>5, <1>6, <1>7 DEF TypeInv

\* Every step keeps the types.
LEMMA NextTypeInv == ASSUME SyncAssumption PROVE TypeInv /\ [Next]_vars => TypeInv'
<1> SUFFICES ASSUME TypeInv, [Next]_vars PROVE TypeInv'  OBVIOUS
<1>0. BlocksInv /\ SyncingInv /\ BannedInv /\ LinkInv /\ NetInv /\ CountInv /\ ThreadInv
  BY DEF TypeInv
<1>a. UNCHANGED <<chain, mining, announcing>> => BlocksInv'  BY <1>0 DEF BlocksInv
<1>b. UNCHANGED <<syncing, hindered, syncPeerAddr>> => SyncingInv'  BY <1>0 DEF SyncingInv
<1>c. UNCHANGED <<banned, score>> => BannedInv'  BY <1>0 DEF BannedInv
<1>d. UNCHANGED <<dialled, open, versionSent, handshakeComplete, pinged, remoteHeight>> => LinkInv'
  BY <1>0 DEF LinkInv
<1>e. UNCHANGED net => NetInv'  BY <1>0 DEF NetInv
<1>f. UNCHANGED msgCount => CountInv'  BY <1>0 DEF CountInv
<1>g. UNCHANGED <<reader, gathered>> => ThreadInv'  BY <1>0 DEF ThreadInv
<1>o. open \in [Ends -> BOOLEAN]  BY <1>0 DEF LinkInv
<1>z. <<>> \in Seq(Message)  BY EmptySeq
<1>p. BAN_SCORE_THRESHOLD \in Nat /\ EARLY_SCORE \in Nat /\ MaxHeight \in Nat
  BY DEF SyncAssumption
<1>1. ASSUME NEW d \in Dials, Connect(d) PROVE TypeInv'
  <2>1. d \in Ends /\ Back(d) \in Ends /\ d[1] \in Nodes  BY DialEnds, EndFacts
  <2>2. LinkInv'
    <3>1. -1 \in -1 .. MaxHeight  BY <1>p
    <3>2. dialled' \in [Ends -> Nat]  BY <1>0, <1>1, <2>1 DEF Connect, LinkInv
    <3>3. open' \in [Ends -> BOOLEAN]  BY <1>0, <1>1 DEF Connect, LinkInv
    <3>4. versionSent' \in [Ends -> BOOLEAN]  BY <1>0, <1>1 DEF Connect, LinkInv
    <3>5. handshakeComplete' \in [Ends -> BOOLEAN]  BY <1>0, <1>1 DEF Connect, LinkInv
    <3>6. pinged' \in [Ends -> BOOLEAN]  BY <1>0, <1>1 DEF Connect, LinkInv
    <3>7. remoteHeight' \in [Ends -> -1 .. MaxHeight]  BY <1>0, <1>1, <3>1 DEF Connect, LinkInv
    <3>8. QED  BY <3>2, <3>3, <3>4, <3>5, <3>6, <3>7 DEF LinkInv
  <2>3. NetInv'
    <3> DEFINE v == <<Version(d[1])>>
               f == [x \in Ends |-> IF x \in {d, Back(d)} THEN <<>> ELSE net[x]]
    <3>1. v \in Seq(Message)
      <4>1. Version(d[1]) \in Message  BY <1>0, <2>1, VersionSendable
      <4>2. QED  BY <4>1
    <3>2. net' = [f EXCEPT ![d] = v]  BY <1>1 DEF Connect
    <3> HIDE DEF v
    <3>3. f \in [Ends -> Seq(Message)]  BY <1>0, <1>z DEF NetInv
    <3> HIDE DEF f
    <3>4. QED  BY <3>1, <3>2, <3>3 DEF NetInv
  <2>4. CountInv'  BY <1>0, <1>1 DEF Connect, CountInv, SyncAssumption
  <2>5. BannedInv'  BY <1>0, <1>1 DEF Connect, BannedInv, nodeVars
  <2>6. QED  BY <1>1, <1>a, <1>b, <1>g, <2>2, <2>3, <2>4, <2>5 DEF Connect, nodeVars, TypeInv
<1>2. ASSUME NEW d \in Dials, Break(d) PROVE TypeInv'
  <2>1. d \in Ends /\ Back(d) \in Ends  BY DialEnds
  <2>2. open' \in [Ends -> BOOLEAN]  BY <1>o, <1>2, <2>1 DEF Break
  <2>3. NetInv'
    <3> DEFINE f == [net EXCEPT ![d] = <<>>]
    <3>1. f \in [Ends -> Seq(Message)]  BY <1>0, <2>1, ClearNet DEF NetInv
    <3>2. net' = [f EXCEPT ![Back(d)] = <<>>]  BY <1>2 DEF Break
    <3> HIDE DEF f
    <3>3. QED  BY <2>1, <3>1, <3>2, ClearNet DEF NetInv
  <2>4. SyncingInv'
    <3>1. hindered' \in [Nodes -> BOOLEAN]
      <4>1. hindered' = [n \in Nodes |-> hindered[n] \/ \E e \in {d, Back(d)} : e[1] = n /\ IsSyncPeer(e)]
        BY <1>2 DEF Break
      <4>2. hindered \in [Nodes -> BOOLEAN]  BY <1>0 DEF SyncingInv
      <4>3. QED  BY <4>1, <4>2
    <3>2. QED  BY <1>0, <1>2, <3>1 DEF Break, SyncingInv
  <2>5. LinkInv'  BY <1>0, <1>2, <2>2 DEF Break, LinkInv
  <2>6. QED  BY <1>2, <1>a, <1>c, <1>f, <1>g, <2>3, <2>4, <2>5 DEF Break, TypeInv
<1>3. ASSUME NEW e \in Ends, EndOfStream(e) PROVE TypeInv'
  <2>1. /\ open' \in [Ends -> BOOLEAN] /\ net' \in [Ends -> Seq(Message)]
        /\ hindered' \in [Nodes -> BOOLEAN]
    BY <1>0, <1>o, <1>3, DisconnectType DEF EndOfStream
  <2>2. LinkInv'  BY <1>0, <1>3, <2>1 DEF EndOfStream, LinkInv
  <2>3. SyncingInv'  BY <1>0, <1>3, <2>1 DEF EndOfStream, SyncingInv
  <2>4. NetInv'  BY <2>1 DEF NetInv
  <2>5. QED  BY <1>3, <1>a, <1>c, <1>f, <1>g, <2>2, <2>3, <2>4 DEF EndOfStream, TypeInv
<1>4. ASSUME NEW e \in Ends, ExceedRate(e) PROVE TypeInv'
  <2>1. /\ open' \in [Ends -> BOOLEAN] /\ net' \in [Ends -> Seq(Message)]
        /\ hindered' \in [Nodes -> BOOLEAN] /\ BannedInv'
    BY <1>0, <1>o, <1>p, <1>4, MisbehaveType DEF ExceedRate
  <2>2. LinkInv'  BY <1>0, <1>4, <2>1 DEF ExceedRate, LinkInv
  <2>3. SyncingInv'  BY <1>0, <1>4, <2>1 DEF ExceedRate, SyncingInv
  <2>4. NetInv'  BY <2>1 DEF NetInv
  <2>5. QED  BY <1>4, <1>a, <1>f, <1>g, <2>1, <2>2, <2>3, <2>4 DEF ExceedRate, TypeInv
<1>5. ASSUME NEW e \in Ends, HandleVersion(e) PROVE TypeInv'
  <2>1. net[Back(e)] # <<>> /\ Head(net[Back(e)]).type = "version"
    BY <1>5 DEF HandleVersion, Delivered
  <2>2. Head(net[Back(e)]).height \in -1 .. MaxHeight
    <3>1. Head(net[Back(e)]).height \in 0 .. MaxHeight  BY <1>0, <2>1, HeadMessage, MessageFacts
    <3>2. QED  BY <1>p, <3>1
  <2>3. remoteHeight' \in [Ends -> -1 .. MaxHeight]
    BY <1>0, <1>5, <2>2 DEF HandleVersion, LinkInv
  <2>4. LinkInv'  BY <1>0, <1>5, <2>3 DEF HandleVersion, LinkInv
  <2>5. ThreadInv'  BY <1>0, <1>5 DEF HandleVersion, ThreadInv
  <2>6. NetInv'
    <3>1. Answer(e) \in Seq(Message)  BY <1>0, AnswerSendable
    <3>2. QED  BY <1>0, <1>5, <2>1, <3>1, ExchangeNet DEF HandleVersion, NetInv
  <2>7. CountInv'  BY <1>0, <1>5, RateType DEF HandleVersion
  <2>8. QED  BY <1>5, <1>a, <1>b, <1>c, <2>4, <2>5, <2>6, <2>7 DEF HandleVersion, nodeVars, TypeInv
<1>6. ASSUME NEW e \in Ends, StartSync(e) PROVE TypeInv'
  <2>1. e[1] \in Nodes /\ e[2] \in Nodes  BY EndFacts
  <2>2. SyncingInv'
    <3>1. RemoteAddress(e) \in Address  BY <1>0, <2>1 DEF RemoteAddress, Address, LinkInv
    <3>2. open[e] \in BOOLEAN /\ open[Back(e)] \in BOOLEAN  BY <1>o, EndFacts
    <3>3. CASE syncing[e[1]]  BY <1>0, <1>6, <3>3 DEF StartSync, SyncingInv
    <3>4. CASE ~syncing[e[1]]
      <4>1. /\ syncing' = [syncing EXCEPT ![e[1]] = TRUE]
            /\ syncPeerAddr' = [syncPeerAddr EXCEPT ![e[1]] = RemoteAddress(e)]
            /\ hindered' = [hindered EXCEPT ![e[1]] = ~(open[e] /\ open[Back(e)])]
        BY <1>6, <3>4 DEF StartSync
      <4>2. QED  BY <1>0, <2>1, <3>1, <3>2, <4>1 DEF SyncingInv
    <3>5. QED  BY <3>3, <3>4
  <2>3. NetInv'
    <3>1. GetBlocks(e[1]) \in Message  BY <1>0, <2>1, Sendable DEF GetBlocks, BlocksInv
    <3>2. net' = net \/ net' = [net EXCEPT ![e] = Append(@, GetBlocks(e[1]))]  BY <1>6 DEF StartSync
    <3>3. [net EXCEPT ![e] = Append(@, GetBlocks(e[1]))] \in [Ends -> Seq(Message)]
      BY <1>0, <3>1, SendNet
    <3>4. QED  BY <1>0, <3>2, <3>3 DEF NetInv
  <2>4. ThreadInv'  BY <1>0, <1>6 DEF StartSync, ThreadInv
  <2>5. QED  BY <1>6, <1>a, <1>c, <1>d, <1>f, <2>2, <2>3, <2>4 DEF StartSync, TypeInv
<1>7. ASSUME NEW e \in Ends, HandleVerack(e) PROVE TypeInv'
  <2>1. net[Back(e)] # <<>>  BY <1>7 DEF HandleVerack, Delivered
  <2>2. NetInv'
    <3>1. <<[type |-> "getaddr"]>> \in Seq(Message)
      <4>1. [type |-> "getaddr"] \in Message  BY Sendable
      <4>2. QED  BY <4>1
    <3>2. QED  BY <1>0, <1>7, <2>1, <3>1, ExchangeNet DEF HandleVerack, NetInv
  <2>3. LinkInv'  BY <1>0, <1>7 DEF HandleVerack, LinkInv
  <2>4. CountInv'  BY <1>0, <1>7, RateType DEF HandleVerack
  <2>5. QED  BY <1>7, <1>a, <1>b, <1>c, <1>g, <2>2, <2>3, <2>4 DEF HandleVerack, nodeVars, TypeInv
<1>8. ASSUME NEW e \in Ends, EarlyMessage(e) PROVE TypeInv'
  <2>1. net[Back(e)] # <<>>  BY <1>8 DEF EarlyMessage, Delivered
  <2>2. /\ open' \in [Ends -> BOOLEAN] /\ net' \in [Ends -> Seq(Message)]
        /\ hindered' \in [Nodes -> BOOLEAN] /\ BannedInv'
    BY <1>0, <1>o, <1>p, <1>8, <2>1, MisbehaveType DEF EarlyMessage
  <2>3. LinkInv'  BY <1>0, <1>8, <2>2 DEF EarlyMessage, LinkInv
  <2>4. SyncingInv'  BY <1>0, <1>8, <2>2 DEF EarlyMessage, SyncingInv
  <2>5. NetInv'  BY <2>2 DEF NetInv
  <2>6. CountInv'  BY <1>0, <1>8, RateType DEF EarlyMessage
  <2>7. QED  BY <1>8, <1>a, <1>g, <2>2, <2>3, <2>4, <2>5, <2>6 DEF EarlyMessage, TypeInv
<1>9. ASSUME NEW e \in Ends, SendPing(e) PROVE TypeInv'
  <2>1. [type |-> "ping"] \in Message  BY Sendable
  <2>2. net' = net \/ net' = [net EXCEPT ![e] = Append(@, [type |-> "ping"])]  BY <1>9 DEF SendPing
  <2>3. NetInv'
    <3>1. [net EXCEPT ![e] = Append(@, [type |-> "ping"])] \in [Ends -> Seq(Message)]
      BY <1>0, <2>1, SendNet
    <3>2. QED  BY <1>0, <2>2, <3>1 DEF NetInv
  <2>4. LinkInv'  BY <1>0, <1>9 DEF SendPing, LinkInv
  <2>5. QED  BY <1>9, <1>a, <1>b, <1>c, <1>f, <1>g, <2>3, <2>4 DEF SendPing, nodeVars, TypeInv
<1>10. ASSUME NEW e \in Ends, HandlePing(e) PROVE TypeInv'
  <2>1. net[Back(e)] # <<>> /\ WithinRate(e)  BY <1>10 DEF HandlePing, Dispatched, Delivered
  <2>2. NetInv'
    <3>1. <<[type |-> "pong"]>> \in Seq(Message)
      <4>1. [type |-> "pong"] \in Message  BY Sendable
      <4>2. QED  BY <4>1
    <3>2. QED  BY <1>0, <1>10, <2>1, <3>1, ExchangeNet DEF HandlePing, NetInv
  <2>3. CountInv'  BY <1>0, <2>1, RateType
  <2>4. QED  BY <1>10, <1>a, <1>b, <1>c, <1>d, <1>g, <2>2, <2>3 DEF HandlePing, nodeVars, TypeInv
<1>11. ASSUME NEW e \in Ends, HandleOther(e) PROVE TypeInv'
  <2>1. net[Back(e)] # <<>> /\ WithinRate(e)  BY <1>11 DEF HandleOther, Dispatched, Delivered
  <2>2. NetInv'  BY <1>0, <1>z, <1>11, <2>1, ExchangeNet DEF HandleOther, NetInv
  <2>3. CountInv'  BY <1>0, <2>1, RateType
  <2>4. QED  BY <1>11, <1>a, <1>b, <1>c, <1>d, <1>g, <2>2, <2>3 DEF HandleOther, nodeVars, TypeInv
<1>12. ASSUME NEW e \in Ends, HandleGetBlocks(e) PROVE TypeInv'
  <2>1. /\ net[Back(e)] # <<>> /\ WithinRate(e) /\ Head(net[Back(e)]).type = "getblocks"
        /\ e[1] \in Nodes /\ e[2] \in Nodes
    BY <1>12, EndFacts DEF HandleGetBlocks, Dispatched, Delivered
  <2>2. NetInv'  BY <1>0, <1>z, <1>12, <2>1, ExchangeNet DEF HandleGetBlocks, NetInv
  <2>3. CountInv'  BY <1>0, <2>1, RateType
  <2> DEFINE hashes == GetBlockHashesAfter(chain[e[1]], Head(net[Back(e)]).tip)
  <2>4. hashes \in Seq(Block)
    <3>1. Head(net[Back(e)]).tip \in Block \cup {<<>>}  BY <1>0, <2>1, HeadMessage, MessageFacts
    <3>2. chain[e[1]] \in Block \cup {<<>>}  BY <1>0, <2>1 DEF BlocksInv
    <3>3. QED  BY <3>1, <3>2, HashesAfter
  <2>5. \/ hindered' = [hindered EXCEPT ![e[2]] = TRUE] /\ UNCHANGED <<reader, gathered>>
        \/ /\ UNCHANGED hindered
           /\ reader' = [reader EXCEPT ![e] = "serving"]
           /\ gathered' = [gathered EXCEPT ![e] = hashes]
    BY <1>12 DEF HandleGetBlocks
  <2> HIDE DEF hashes
  <2>6. ThreadInv'  BY <1>0, <2>4, <2>5 DEF ThreadInv
  <2>7. SyncingInv'
    <3>1. hindered' \in [Nodes -> BOOLEAN]  BY <1>0, <2>1, <2>5 DEF SyncingInv
    <3>2. QED  BY <1>0, <1>12, <3>1 DEF HandleGetBlocks, SyncingInv
  <2>8. QED  BY <1>12, <1>a, <1>c, <1>d, <2>2, <2>3, <2>6, <2>7 DEF HandleGetBlocks, TypeInv
<1>13. ASSUME NEW e \in Ends, SendInv(e) PROVE TypeInv'
  <2>1. gathered[e] \in Seq(Block) /\ <<>> \in Seq(Block)  BY <1>0, EmptySeq DEF ThreadInv
  <2>2. Inv(gathered[e]) \in Message  BY <2>1, Sendable DEF Inv
  <2>3. net' = net \/ net' = [net EXCEPT ![e] = Append(@, Inv(gathered[e]))]  BY <1>13 DEF SendInv
  <2>4. NetInv'
    <3>1. [net EXCEPT ![e] = Append(@, Inv(gathered[e]))] \in [Ends -> Seq(Message)]
      BY <1>0, <2>2, SendNet
    <3>2. QED  BY <1>0, <2>3, <3>1 DEF NetInv
  <2>5. ThreadInv'
    <3>1. reader' \in [Ends -> {"reading", "behind", "serving"}]  BY <1>0, <1>13 DEF SendInv, ThreadInv
    <3>2. ASSUME NEW empty \in Seq(Block) PROVE [gathered EXCEPT ![e] = empty] \in [Ends -> Seq(Block)]
      BY <1>0 DEF ThreadInv
    <3>3. gathered' \in [Ends -> Seq(Block)]  BY <1>13, <2>1, <3>2 DEF SendInv
    <3>4. QED  BY <3>1, <3>3 DEF ThreadInv
  <2>6. QED  BY <1>13, <1>a, <1>b, <1>c, <1>d, <1>f, <2>4, <2>5 DEF SendInv, nodeVars, TypeInv
<1>14. ASSUME NEW e \in Ends, HandleInv(e) PROVE TypeInv'
  <2>1. net[Back(e)] # <<>> /\ WithinRate(e) /\ Head(net[Back(e)]).type = "inv"
    BY <1>14 DEF HandleInv, Dispatched, Delivered
  <2> DEFINE m == [type |-> "getdata", hashes |-> Head(net[Back(e)]).hashes]
  <2>2. NetInv'
    <3>1. Head(net[Back(e)]).hashes \in Seq(Block)  BY <1>0, <2>1, HeadMessage, MessageFacts
    <3>2. m \in Message  BY <3>1, Sendable
    <3>3. net' = Exchange(e, <<m>>)  BY <1>14 DEF HandleInv
    <3> HIDE DEF m
    <3>4. <<m>> \in Seq(Message)  BY <3>2
    <3>5. QED  BY <1>0, <2>1, <3>3, <3>4, ExchangeNet DEF NetInv
  <2>3. CountInv'  BY <1>0, <2>1, RateType
  <2>4. QED  BY <1>14, <1>a, <1>b, <1>c, <1>d, <1>g, <2>2, <2>3 DEF HandleInv, nodeVars, TypeInv
<1>15. ASSUME NEW e \in Ends, HandleGetData(e) PROVE TypeInv'
  <2>1. /\ net[Back(e)] # <<>> /\ WithinRate(e) /\ Head(net[Back(e)]).type = "getdata"
        /\ e[1] \in Nodes
    BY <1>15, EndFacts DEF HandleGetData, Dispatched, Delivered
  <2> DEFINE found == Only(Head(net[Back(e)]).hashes, Stored(e[1]))
             msgs == [i \in DOMAIN found |-> [type |-> "block", block |-> found[i]]]
  <2>2. NetInv'
    <3>1. Head(net[Back(e)]).hashes \in Seq(Block)  BY <1>0, <2>1, HeadMessage, MessageFacts
    <3>2. chain[e[1]] \in Block \cup {<<>>}  BY <1>0, <2>1 DEF BlocksInv
    <3>3. msgs \in Seq(Message)  BY <2>1, <3>1, <3>2, BlocksFound
    <3>4. net' = Exchange(e, msgs)  BY <1>15 DEF HandleGetData
    <3> HIDE DEF msgs
    <3>5. QED  BY <1>0, <2>1, <3>3, <3>4, ExchangeNet DEF NetInv
  <2>3. CountInv'  BY <1>0, <2>1, RateType
  <2>4. QED  BY <1>15, <1>a, <1>b, <1>c, <1>d, <1>g, <2>2, <2>3 DEF HandleGetData, nodeVars, TypeInv
<1>16. ASSUME NEW e \in Ends, HandleBlock(e) PROVE TypeInv'
  <2> DEFINE b == Head(net[Back(e)]).block
  <2>1. /\ net[Back(e)] # <<>> /\ WithinRate(e) /\ Head(net[Back(e)]).type = "block"
        /\ e[1] \in Nodes
    BY <1>16, EndFacts DEF HandleBlock, Dispatched, Delivered
  <2>2. b \in Block  BY <1>0, <2>1, HeadMessage, MessageFacts
  <2>3. CountInv'  BY <1>0, <2>1, RateType
  <2>4. UNCHANGED <<mining, announcing, dialled, versionSent, handshakeComplete, remoteHeight,
                    pinged, reader, gathered>>
    BY <1>16 DEF HandleBlock
  <2>5. \/ Misbehave(e, BAN_SCORE_THRESHOLD) /\ UNCHANGED <<chain, syncing, syncPeerAddr>>
        \/ StoresBlock(e, b)
        \/ /\ net' = Exchange(e, <<>>)
           /\ UNCHANGED <<chain, syncing, syncPeerAddr, banned, open, score, hindered>>
    BY <1>16 DEF HandleBlock
  <2> HIDE DEF b
  <2>6. CASE Misbehave(e, BAN_SCORE_THRESHOLD) /\ UNCHANGED <<chain, syncing, syncPeerAddr>>
    <3>1. /\ open' \in [Ends -> BOOLEAN] /\ net' \in [Ends -> Seq(Message)]
          /\ hindered' \in [Nodes -> BOOLEAN] /\ BannedInv'
      BY <1>0, <1>o, <1>p, <2>1, <2>6, MisbehaveType
    <3>2. LinkInv'  BY <1>0, <2>4, <3>1 DEF LinkInv
    <3>3. SyncingInv'  BY <1>0, <2>6, <3>1 DEF SyncingInv
    <3>4. NetInv'  BY <3>1 DEF NetInv
    <3>5. QED  BY <1>a, <1>g, <2>3, <2>4, <2>6, <3>1, <3>2, <3>3, <3>4 DEF TypeInv
  <2>7. CASE StoresBlock(e, b)
    <3>1. BlocksInv'  BY <1>0, <2>1, <2>2, <2>4, <2>7 DEF StoresBlock, BlocksInv
    <3>2. SyncingInv'
      <4>1. syncing' \in [Nodes -> BOOLEAN]
        <5>1. \E ends : syncing' = [syncing EXCEPT ![e[1]] = @ /\ ~ends]  BY <2>7 DEF StoresBlock
        <5>2. QED  BY <1>0, <5>1 DEF SyncingInv
      <4>2. hindered' \in [Nodes -> BOOLEAN]
        <5>1. \E late : hindered' = [hindered EXCEPT ![e[1]] = @ \/ late]  BY <2>7 DEF StoresBlock
        <5>2. QED  BY <1>0, <5>1 DEF SyncingInv
      <4>3. syncPeerAddr' \in [Nodes -> Address \cup {None}]
        <5>1. \E ends : syncPeerAddr' = [syncPeerAddr EXCEPT ![e[1]] = IF ends THEN None ELSE @]
          BY <2>7 DEF StoresBlock
        <5>2. QED  BY <1>0, <5>1 DEF SyncingInv
      <4>4. QED  BY <4>1, <4>2, <4>3 DEF SyncingInv
    <3>3. NetInv'  BY <1>0, <1>z, <2>1, <2>7, ExchangeNet DEF StoresBlock, NetInv
    <3>4. LinkInv' /\ BannedInv'  BY <1>c, <1>d, <2>4, <2>7 DEF StoresBlock
    <3>5. QED  BY <1>g, <2>3, <2>4, <3>1, <3>2, <3>3, <3>4 DEF TypeInv
  <2>8. CASE /\ net' = Exchange(e, <<>>)
             /\ UNCHANGED <<chain, syncing, syncPeerAddr, banned, open, score, hindered>>
    <3>1. NetInv'  BY <1>0, <1>z, <2>1, <2>8, ExchangeNet DEF NetInv
    <3>2. QED  BY <1>a, <1>b, <1>c, <1>d, <1>g, <2>3, <2>4, <2>8, <3>1 DEF TypeInv
  <2>9. QED  BY <2>5, <2>6, <2>7, <2>8
<1>17. ASSUME NEW n \in Nodes, StartMining(n) PROVE TypeInv'
  <2>1. Append(chain[n], n) \in Block
    <3>1. chain[n] \in Seq(Nodes) /\ Len(chain[n]) \in 0 .. MaxHeight  BY <1>0, ChainFacts DEF BlocksInv
    <3>2. Append(chain[n], n) \in Seq(Nodes) /\ Len(Append(chain[n], n)) = Len(chain[n]) + 1
      BY <3>1, AppendLonger
    <3>3. Len(chain[n]) < MaxHeight  BY <1>17 DEF StartMining, Height
    <3>4. Len(Append(chain[n], n)) \in 1 .. MaxHeight  BY <1>p, <3>1, <3>2, <3>3
    <3>5. QED  BY <3>2, <3>4, BlockFacts
  <2>2. BlocksInv'  BY <1>0, <1>17, <2>1 DEF StartMining, BlocksInv
  <2>3. QED  BY <1>17, <1>b, <1>c, <1>d, <1>e, <1>f, <1>g, <2>2 DEF StartMining, endVars, TypeInv
<1>18. ASSUME NEW n \in Nodes, StoreMined(n) PROVE TypeInv'
  <2>1. mining[n] \in Block  BY <1>0, <1>18 DEF StoreMined, BlocksInv
  <2>2. BlocksInv'  BY <1>0, <1>18, <2>1 DEF StoreMined, BlocksInv
  <2>3. hindered' \in [Nodes -> BOOLEAN]
    <3>1. UNCHANGED hindered \/ hindered' = [hindered EXCEPT ![n] = @ \/ syncing[n]]
      BY <1>18 DEF StoreMined
    <3>2. QED  BY <1>0, <3>1 DEF SyncingInv
  <2>4. SyncingInv'  BY <1>0, <1>18, <2>3 DEF StoreMined, SyncingInv
  <2>5. QED  BY <1>18, <1>c, <1>d, <1>e, <1>f, <1>g, <2>2, <2>4 DEF StoreMined, endVars, TypeInv
<1>19. ASSUME NEW n \in Nodes, Announce(n) PROVE TypeInv'
  <2>1. announcing[n] \in Block  BY <1>0, <1>19 DEF Announce, BlocksInv
  <2>2. Inv(<<announcing[n]>>) \in Message
    <3>1. <<announcing[n]>> \in Seq(Block)  BY <2>1
    <3>2. QED  BY <3>1, Sendable DEF Inv
  <2>3. NetInv'
    <3> DEFINE m == Inv(<<announcing[n]>>)
    <3>1. net' = [x \in Ends |-> IF x[1] = n /\ open[x] /\ handshakeComplete[x] /\ open[Back(x)]
                                 THEN Append(net[x], m) ELSE net[x]]
      BY <1>19 DEF Announce
    <3>2. m \in Message  BY <2>2
    <3> HIDE DEF m
    <3>3. ASSUME NEW x \in Ends PROVE net[x] \in Seq(Message) /\ Append(net[x], m) \in Seq(Message)
      <4>1. net[x] \in Seq(Message)  BY <1>0 DEF NetInv
      <4>2. QED  BY <3>2, <4>1, AppendLonger
    <3>4. QED  BY <3>1, <3>3 DEF NetInv
  <2>4. BlocksInv'  BY <1>0, <1>19 DEF Announce, BlocksInv
  <2>5. QED  BY <1>19, <1>b, <1>c, <1>d, <1>f, <1>g, <2>3, <2>4 DEF Announce, TypeInv
<1>20. CASE UNCHANGED vars
  BY <1>a, <1>b, <1>c, <1>d, <1>e, <1>f, <1>g, <1>20 DEF vars, nodeVars, endVars, TypeInv
<1>21. Miners \subseteq Nodes  BY DEF SyncAssumption
<1>22. QED
  BY <1>1, <1>2, <1>3, <1>4, <1>5, <1>6, <1>7, <1>8, <1>9, <1>10, <1>11, <1>12, <1>13, <1>14,
     <1>15, <1>16, <1>17, <1>18, <1>19, <1>20, <1>21 DEF Next, ReaderStep

\* No step leaves the types; a chain never outgrows the limit, and every message
\* is one that a handler reads.
THEOREM TypeCorrect == Spec => []TypeOK
<1>1. Init => TypeInv  BY SyncAssumption, InitTypeInv
<1>2. TypeInv /\ [Next]_vars => TypeInv'  BY SyncAssumption, NextTypeInv
<1>3. TypeInv => TypeOK  BY TypeParts
<1>4. QED  BY <1>1, <1>2, <1>3, PTL DEF Spec

-----------------------------------------------------------------------------
(***************************************************************************)
(* The handshake                                                           *)
(***************************************************************************)

\* A penalty bans the peer and closes the connection, or is only counted; one of
\* BAN_SCORE_THRESHOLD bans.
LEMMA Penalty ==
  ASSUME SyncAssumption, BannedInv, NEW a \in Ends, NEW points \in Nat, Misbehave(a, points)
  PROVE  /\ score' = [score EXCEPT ![a] = @ + points]
         /\ \/ banned' = [banned EXCEPT ![a[1]] = @ \cup {a[2]}] /\ Disconnect(a)
            \/ points # BAN_SCORE_THRESHOLD /\ net' = Exchange(a, <<>>)
               /\ UNCHANGED <<banned, open, hindered>>
<1>1. score[a] \in Nat /\ BAN_SCORE_THRESHOLD \in Nat  BY DEF BannedInv, SyncAssumption
<1>2. points = BAN_SCORE_THRESHOLD => score[a] + points >= BAN_SCORE_THRESHOLD  BY <1>1
<1>3. QED  BY <1>2 DEF Misbehave

\* The wire that an end sends on, with the types of what goes with it.
LEMMA WireOf ==
  ASSUME SyncAssumption, LinkInv, NetInv, WireInv, NEW x \in Ends
  PROVE  /\ Wire(net[x], versionSent[x], remoteHeight[x], remoteHeight[Back(x)],
                 handshakeComplete[Back(x)], open[Back(x)])
         /\ net[x] \in Seq(Message) /\ versionSent[x] \in BOOLEAN
         /\ handshakeComplete[Back(x)] \in BOOLEAN /\ open[Back(x)] \in BOOLEAN
BY EndFacts DEF LinkInv, NetInv, WireInv

\* An end whose handshake is complete has been told the height, and so has the
\* other.
LEMMA BothTold ==
  ASSUME SyncAssumption, LinkInv, NetInv, WireInv, NEW a \in Ends, handshakeComplete[a]
  PROVE  remoteHeight[a] # -1 /\ remoteHeight[Back(a)] # -1
<1>1. Back(a) \in Ends /\ Back(Back(a)) = a  BY EndFacts
<1>2. Wire(net[Back(a)], versionSent[Back(a)], remoteHeight[Back(a)], remoteHeight[a],
           handshakeComplete[a], open[a])
  BY <1>1, WireOf
<1>3. QED  BY <1>2 DEF Wire, Handshake

\* What a reader finds before its handshake is complete.
LEMMA EarlyHead ==
  ASSUME SyncAssumption, LinkInv, NetInv, WireInv, NEW a \in Ends, ~handshakeComplete[a],
         net[Back(a)] # <<>>
  PROVE  Head(net[Back(a)]).type \in {"version", "verack", "ping"}
<1> DEFINE w == net[Back(a)]
<1>1. Back(a) \in Ends /\ Back(Back(a)) = a  BY EndFacts
<1>2. OthersLater(w, handshakeComplete[a])  BY <1>1, WireOf DEF Wire
<1>3. w \in Seq(Message) /\ w # <<>>  BY <1>1, WireOf
<1> HIDE DEF w
<1>4. Head(w) = w[1] /\ 1 \in 1 .. Len(w)
  <2>1. Head(w) = w[1] /\ Len(w) \in Nat /\ Len(w) >= 1  BY <1>3, TailShift
  <2>2. QED  BY <2>1
<1>5. ~Behind(w, 1, "verack")  BY DEF Behind
<1>6. w[1].type \in {"version", "verack", "ping"}  BY <1>2, <1>4, <1>5 DEF OthersLater
<1>7. QED  BY <1>4, <1>6 DEF w

\* A reader has read a message that is not a version and has sent what comes
\* after a handshake.
LEMMA WireAfterRead ==
  ASSUME SyncAssumption, LinkInv, NetInv, WireInv, NEW a \in Ends, net[Back(a)] # <<>>,
         NEW msgs \in Seq(Message), net' = Exchange(a, msgs),
         UNCHANGED <<open, versionSent, remoteHeight>>,
         Head(net[Back(a)]).type # "version",
         handshakeComplete' = IF Head(net[Back(a)]).type = "verack"
                              THEN [handshakeComplete EXCEPT ![a] = TRUE] ELSE handshakeComplete,
         \A i \in 1 .. Len(msgs) : msgs[i].type \notin {"version", "verack"},
         msgs = <<>> \/ remoteHeight[a] # -1
  PROVE  WireInv'
<1> DEFINE b == Back(a)
<1>1. b \in Ends /\ b # a /\ Back(b) = a  BY EndFacts
<1>2. /\ net'[b] = Tail(net[b]) /\ net'[a] = IF open[b] THEN net[a] \o msgs ELSE net[a]
      /\ \A x \in Ends : x # a /\ x # b => net'[x] = net[x]
  BY ExchangeNet
<1>3. /\ \A x \in Ends : x # a => handshakeComplete'[x] = handshakeComplete[x]
      /\ handshakeComplete'[a] \in BOOLEAN
      /\ IF Head(net[b]).type = "verack" THEN handshakeComplete'[a]
                                         ELSE handshakeComplete'[a] = handshakeComplete[a]
  BY DEF LinkInv
<1>4. open' = open /\ versionSent' = versionSent /\ remoteHeight' = remoteHeight  OBVIOUS
<1> HIDE DEF b
<1>5. Wire(net'[b], versionSent[b], remoteHeight[b], remoteHeight[a], handshakeComplete'[a], open[a])
  <2>1. /\ Wire(net[b], versionSent[b], remoteHeight[b], remoteHeight[a], handshakeComplete[a], open[a])
        /\ net[b] \in Seq(Message) /\ versionSent[b] \in BOOLEAN
        /\ handshakeComplete[a] \in BOOLEAN /\ open[a] \in BOOLEAN
    BY <1>1, WireOf
  <2>2. net[b] # <<>> /\ Head(net[b]).type # "version"  BY DEF b
  <2>3. Wire(Tail(net[b]), versionSent[b], remoteHeight[b], remoteHeight[a], handshakeComplete'[a], open[a])
    BY <1>3, <2>1, <2>2, WireRead
  <2>4. QED  BY <1>2, <2>3
<1>6. Wire(net'[a], versionSent[a], remoteHeight[a], remoteHeight[b], handshakeComplete[b], open[b])
  <2>1. /\ Wire(net[a], versionSent[a], remoteHeight[a], remoteHeight[b], handshakeComplete[b], open[b])
        /\ net[a] \in Seq(Message) /\ versionSent[a] \in BOOLEAN
        /\ handshakeComplete[b] \in BOOLEAN /\ open[b] \in BOOLEAN
    BY WireOf DEF b
  <2>2. CASE ~open[b]  BY <1>2, <2>1, <2>2
  <2>3. CASE open[b]
    <3> DEFINE v == net[a] \o msgs
    <3>1. /\ v \in Seq(Message) /\ Longer(v, net[a]) /\ Len(v) = Len(net[a]) + Len(msgs)
          /\ \A i \in Len(net[a]) + 1 .. Len(v) :
               i - Len(net[a]) \in 1 .. Len(msgs) /\ v[i] = msgs[i - Len(net[a])]
      BY <2>1, ConcatLonger
    <3> HIDE DEF v
    <3>2. \A i \in Len(net[a]) + 1 .. Len(v) : v[i].type \notin {"version", "verack"}  BY <3>1
    <3>3. remoteHeight[a] # -1 \/ \A i \in Len(net[a]) + 1 .. Len(v) : v[i].type = "ping"
      <4>1. CASE msgs = <<>>
        <5>1. Len(msgs) = 0  BY <4>1, EmptySeq
        <5>2. Len(net[a]) \in Nat  BY <2>1, LenProperties
        <5>3. \A i \in Len(net[a]) + 1 .. Len(v) : FALSE  BY <3>1, <5>1, <5>2
        <5>4. QED  BY <5>3
      <4>2. QED  BY <4>1
    <3>4. open[b] = TRUE  BY <2>1, <2>3
    <3>5. Wire(v, versionSent[a], remoteHeight[a], remoteHeight[b], handshakeComplete[b], TRUE)
      BY <2>1, <3>1, <3>2, <3>3, <3>4, WireMore
    <3>6. net'[a] = v  BY <1>2, <2>3 DEF v
    <3>7. QED  BY <3>4, <3>5, <3>6
  <2>4. QED  BY <2>2, <2>3
<1>7. ASSUME NEW x \in Ends
      PROVE  Wire(net'[x], versionSent'[x], remoteHeight'[x], remoteHeight'[Back(x)],
                  handshakeComplete'[Back(x)], open'[Back(x)])
  <2>1. CASE x = b  BY <1>1, <1>4, <1>5, <2>1
  <2>2. CASE x = a
    <3>1. Back(x) = b /\ b # a  BY <1>1, <2>2 DEF b
    <3>2. handshakeComplete'[b] = handshakeComplete[b]  BY <1>1, <1>3
    <3>3. QED  BY <1>4, <1>6, <2>2, <3>1, <3>2
  <2>3. CASE x # a /\ x # b
    <3>1. Back(x) # a /\ Back(x) \in Ends  BY <2>3, EndFacts DEF b
    <3>2. handshakeComplete'[Back(x)] = handshakeComplete[Back(x)]  BY <1>3, <3>1
    <3>3. QED  BY <1>2, <1>4, <2>3, <3>2, WireOf
  <2>4. QED  BY <2>1, <2>2, <2>3
<1>8. QED  BY <1>7 DEF WireInv

\* An end has been closed.
LEMMA WireAfterClose ==
  ASSUME SyncAssumption, LinkInv, NetInv, WireInv, NEW a \in Ends,
         open' = [open EXCEPT ![a] = FALSE], net' = [net EXCEPT ![Back(a)] = <<>>],
         UNCHANGED <<versionSent, remoteHeight, handshakeComplete>>
  PROVE  WireInv'
<1>1. Back(a) \in Ends /\ Back(a) # a /\ Back(Back(a)) = a  BY EndFacts
<1>2. /\ net'[Back(a)] = <<>> /\ \A x \in Ends : x # Back(a) => net'[x] = net[x]
      /\ open'[a] = FALSE /\ \A x \in Ends : x # a => open'[x] = open[x]
  BY <1>1 DEF NetInv, LinkInv
<1>3. versionSent' = versionSent /\ remoteHeight' = remoteHeight
      /\ handshakeComplete' = handshakeComplete
  OBVIOUS
<1>4. ASSUME NEW x \in Ends
      PROVE  Wire(net'[x], versionSent'[x], remoteHeight'[x], remoteHeight'[Back(x)],
                  handshakeComplete'[Back(x)], open'[Back(x)])
  <2>1. /\ Wire(net[x], versionSent[x], remoteHeight[x], remoteHeight[Back(x)],
                handshakeComplete[Back(x)], open[Back(x)])
        /\ net[x] \in Seq(Message) /\ versionSent[x] \in BOOLEAN
        /\ handshakeComplete[Back(x)] \in BOOLEAN /\ open[Back(x)] \in BOOLEAN
    BY WireOf
  <2>2. CASE x = Back(a)
    <3>1. Wire(<<>>, versionSent[x], remoteHeight[x], remoteHeight[Back(x)],
               handshakeComplete[Back(x)], FALSE)
      BY <2>1, WireClosed
    <3>2. net'[x] = <<>> /\ open'[Back(x)] = FALSE  BY <1>1, <1>2, <2>2
    <3>3. QED  BY <1>3, <3>1, <3>2
  <2>3. CASE x # Back(a)
    <3>1. Back(x) # a /\ Back(x) \in Ends  BY <2>3, EndFacts
    <3>2. net'[x] = net[x] /\ open'[Back(x)] = open[Back(x)]  BY <1>2, <2>3, <3>1
    <3>3. QED  BY <1>3, <2>1, <3>2
  <2>4. QED  BY <2>2, <2>3
<1>5. QED  BY <1>4 DEF WireInv

\* An end has sent a ping, or what comes after a handshake.
LEMMA WireAfterSend ==
  ASSUME SyncAssumption, LinkInv, NetInv, WireInv, NEW a \in Ends, NEW m \in Message, open[Back(a)],
         net' = [net EXCEPT ![a] = Append(@, m)],
         UNCHANGED <<open, versionSent, remoteHeight, handshakeComplete>>,
         m.type \notin {"version", "verack"}, m.type = "ping" \/ remoteHeight[a] # -1
  PROVE  WireInv'
<1>1. /\ open' = open /\ versionSent' = versionSent /\ remoteHeight' = remoteHeight
      /\ handshakeComplete' = handshakeComplete
  OBVIOUS
<1> DEFINE v == Append(net[a], m)
<1>2. net'[a] = v /\ \A x \in Ends : x # a => net'[x] = net[x]  BY DEF NetInv
<1>3. Wire(v, versionSent[a], remoteHeight[a], remoteHeight[Back(a)], handshakeComplete[Back(a)],
           open[Back(a)])
  <2>1. /\ Wire(net[a], versionSent[a], remoteHeight[a], remoteHeight[Back(a)],
                handshakeComplete[Back(a)], open[Back(a)])
        /\ net[a] \in Seq(Message) /\ versionSent[a] \in BOOLEAN
        /\ handshakeComplete[Back(a)] \in BOOLEAN /\ open[Back(a)] = TRUE
    BY WireOf
  <2>2. /\ v \in Seq(Message) /\ Longer(v, net[a])
        /\ Len(v) = Len(net[a]) + 1 /\ v[Len(net[a]) + 1] = m
    BY <2>1, AppendLonger
  <2> HIDE DEF v
  <2>3. Len(net[a]) \in Nat  BY <2>1, LenProperties
  <2>4. \A i \in Len(net[a]) + 1 .. Len(v) : v[i] = m  BY <2>2, <2>3
  <2>5. /\ \A i \in Len(net[a]) + 1 .. Len(v) : v[i].type \notin {"version", "verack"}
        /\ remoteHeight[a] # -1 \/ \A i \in Len(net[a]) + 1 .. Len(v) : v[i].type = "ping"
    BY <2>4
  <2>6. Wire(net[a], versionSent[a], remoteHeight[a], remoteHeight[Back(a)],
             handshakeComplete[Back(a)], TRUE)
    BY <2>1
  <2>7. Wire(v, versionSent[a], remoteHeight[a], remoteHeight[Back(a)],
             handshakeComplete[Back(a)], TRUE)
    BY <2>1, <2>2, <2>5, <2>6, WireMore
  <2>8. QED  BY <2>1, <2>7
<1> HIDE DEF v
<1>4. QED  BY <1>1, <1>2, <1>3 DEF WireInv

\* Nothing is on the way to begin with.
LEMMA InitWireInv == ASSUME SyncAssumption PROVE Init => WireInv /\ ReaderInv
<1> SUFFICES ASSUME Init PROVE WireInv /\ ReaderInv  OBVIOUS
<1>1. Wire(<<>>, FALSE, -1, -1, FALSE, FALSE)
  <2>1. Wire(<<>>, FALSE, -1, -1, FALSE, TRUE)  BY WireNew
  <2>2. QED  BY <2>1, WireClosed
<1>2. \A e \in Ends : Back(e) \in Ends  BY EndFacts
<1>3. \A e \in Ends : /\ net[e] = <<>> /\ versionSent[e] = FALSE /\ remoteHeight[e] = -1
                      /\ handshakeComplete[e] = FALSE /\ open[e] = FALSE /\ reader[e] = "reading"
  BY DEF Init, Empty
<1>4. WireInv  BY <1>1, <1>2, <1>3 DEF WireInv
<1>5. ReaderInv  BY <1>3 DEF ReaderInv
<1>6. QED  BY <1>4, <1>5

\* What an end that has read a version answers keeps the order.
LEMMA VersionWire ==
  ASSUME SyncAssumption, BlocksInv, LinkInv, NetInv, WireInv, NEW e \in Ends, HandleVersion(e)
  PROVE  WireInv'
<1> DEFINE b == Back(e)
           h == Head(net[b]).height
<1>1. b \in Ends /\ b # e /\ Back(b) = e  BY EndFacts
<1>2. /\ net[b] # <<>> /\ Head(net[b]).type = "version" /\ net' = Exchange(e, Answer(e))
      /\ versionSent' = [versionSent EXCEPT ![e] = TRUE]
      /\ remoteHeight' = [remoteHeight EXCEPT ![e] = h]
      /\ open' = open /\ handshakeComplete' = handshakeComplete
  BY DEF HandleVersion, Delivered
<1>3. h # -1
  <2>1. h \in 0 .. MaxHeight  BY <1>2, HeadMessage, MessageFacts
  <2>2. QED  BY <2>1
<1>4. /\ Answer(e) \in Seq(Message)
      /\ versionSent[e] => Len(Answer(e)) = 1
      /\ ~versionSent[e] => Len(Answer(e)) = 2 /\ Answer(e)[1].type = "version"
      /\ Answer(e)[Len(Answer(e))].type = "verack"
  BY AnswerSendable
<1>5. /\ net'[b] = Tail(net[b]) /\ net'[e] = IF open[b] THEN net[e] \o Answer(e) ELSE net[e]
      /\ \A x \in Ends : x # e /\ x # b => net'[x] = net[x]
  BY <1>2, <1>4, ExchangeNet
<1>6. /\ versionSent'[e] = TRUE /\ \A x \in Ends : x # e => versionSent'[x] = versionSent[x]
      /\ remoteHeight'[e] = h /\ \A x \in Ends : x # e => remoteHeight'[x] = remoteHeight[x]
  BY <1>2 DEF LinkInv
<1>7. /\ Wire(net[b], versionSent[b], remoteHeight[b], remoteHeight[e], handshakeComplete[e], open[e])
      /\ net[b] \in Seq(Message) /\ versionSent[b] \in BOOLEAN
      /\ handshakeComplete[e] \in BOOLEAN /\ open[e] \in BOOLEAN
  BY <1>1, WireOf
<1>8. /\ Wire(net[e], versionSent[e], remoteHeight[e], remoteHeight[b], handshakeComplete[b], open[b])
      /\ net[e] \in Seq(Message) /\ versionSent[e] \in BOOLEAN
      /\ handshakeComplete[b] \in BOOLEAN /\ open[b] \in BOOLEAN
  BY WireOf
<1> HIDE DEF b, h
<1>9. Wire(net'[b], versionSent[b], remoteHeight[b], h, handshakeComplete[e], open[e])
  <2>1. Wire(Tail(net[b]), versionSent[b], remoteHeight[b], h, handshakeComplete[e], open[e])
    <3>1. Head(net[b]).type # "verack"  BY <1>2
    <3>2. IF Head(net[b]).type = "version" THEN h # -1 ELSE h = remoteHeight[e]  BY <1>2, <1>3
    <3>3. IF Head(net[b]).type = "verack" THEN handshakeComplete[e]
                                          ELSE handshakeComplete[e] = handshakeComplete[e]
      BY <3>1
    <3>4. QED  BY <1>2, <1>7, <3>2, <3>3, WireRead
  <2>2. QED  BY <1>5, <2>1
<1>10. remoteHeight[e] = -1
  <2>1. VersionFirst(net[b], versionSent[b], remoteHeight[e])  BY <1>7 DEF Wire
  <2>2. 1 \in 1 .. Len(net[b]) /\ net[b][1].type = "version"
    <3>1. Len(net[b]) \in Nat /\ Len(net[b]) >= 1 /\ Head(net[b]) = net[b][1]
      BY <1>2, <1>7, TailShift
    <3>2. QED  BY <1>2, <3>1
  <2>3. QED  BY <2>1, <2>2 DEF VersionFirst
<1>11. Wire(net'[e], TRUE, h, remoteHeight[b], handshakeComplete[b], open[b])
  <2>1. CASE open[b]
    <3> DEFINE v == net[e] \o Answer(e)
               n == Len(net[e])
    <3>1. open[b] = TRUE  BY <1>8, <2>1
    <3>2. net'[e] = v  BY <1>5, <2>1
    <3>3. /\ v \in Seq(Message) /\ Longer(v, net[e]) /\ Len(v) = n + Len(Answer(e))
          /\ \A i \in n + 1 .. Len(v) : i - n \in 1 .. Len(Answer(e)) /\ v[i] = Answer(e)[i - n]
      BY <1>4, <1>8, ConcatLonger
    <3>4. n \in Nat /\ Len(Answer(e)) \in {1, 2}  BY <1>4, <1>8, LenProperties
    <3> HIDE DEF v, n
    <3>5. /\ Len(v) \in n + 1 .. Len(v) /\ Len(v) - n = Len(Answer(e))
          /\ n + 1 \in n + 1 .. Len(v) /\ (n + 1) - n = 1
      <4>1. CASE Len(Answer(e)) = 1  BY <3>3, <3>4, <4>1
      <4>2. CASE Len(Answer(e)) = 2  BY <3>3, <3>4, <4>2
      <4>3. QED  BY <3>4, <4>1, <4>2
    <3>6. v[Len(v)].type = "verack"  BY <1>4, <3>3, <3>5
    <3>7. v[n + 1] = Answer(e)[1]
      <4>1. v[n + 1] = Answer(e)[(n + 1) - n]  BY <3>3, <3>5
      <4>2. QED  BY <3>5, <4>1
    <3>8. IF versionSent[e] THEN Len(v) = n + 1 ELSE Len(v) = n + 2 /\ v[n + 1].type = "version"
      BY <1>4, <3>3, <3>7, <3>4
    <3>9. Wire(net[e], versionSent[e], -1, remoteHeight[b], handshakeComplete[b], TRUE)
      BY <1>8, <1>10, <3>1
    <3>10. Wire(v, TRUE, h, remoteHeight[b], handshakeComplete[b], TRUE)
      BY <1>3, <1>8, <3>3, <3>6, <3>8, <3>9, WireAnswer DEF n
    <3>11. QED  BY <3>1, <3>2, <3>10
  <2>2. CASE ~open[b]
    <3>1. open[b] = FALSE /\ net'[e] = net[e]  BY <1>5, <1>8, <2>2
    <3>2. Wire(net[e], versionSent[e], remoteHeight[e], remoteHeight[b], handshakeComplete[b], FALSE)
      BY <1>8, <3>1
    <3>3. Wire(net[e], TRUE, h, remoteHeight[b], handshakeComplete[b], FALSE)
      BY <1>3, <1>8, <3>2, WireUnanswered
    <3>4. QED  BY <3>1, <3>3
  <2>3. QED  BY <2>1, <2>2
<1>12. ASSUME NEW x \in Ends
       PROVE  Wire(net'[x], versionSent'[x], remoteHeight'[x], remoteHeight'[Back(x)],
                   handshakeComplete'[Back(x)], open'[Back(x)])
  <2>1. CASE x = b  BY <1>1, <1>2, <1>6, <1>9, <2>1
  <2>2. CASE x = e
    <3>1. Back(x) = b  BY <2>2 DEF b
    <3>2. QED  BY <1>1, <1>2, <1>6, <1>11, <2>2, <3>1
  <2>3. CASE x # e /\ x # b
    <3>1. Back(x) # e /\ Back(x) \in Ends  BY <2>3, EndFacts DEF b
    <3>2. QED  BY <1>2, <1>5, <1>6, <2>3, <3>1, WireOf
  <2>4. QED  BY <2>1, <2>2, <2>3
<1>13. QED  BY <1>12 DEF WireInv

\* A penalty that does not ban leaves what reading a message leaves, and one that
\* bans what closing the end leaves.
LEMMA PenaltyWire ==
  ASSUME SyncAssumption, LinkInv, NetInv, BannedInv, WireInv, NEW a \in Ends, net[Back(a)] # <<>>,
         NEW points \in Nat, Misbehave(a, points),
         Head(net[Back(a)]).type \notin {"version", "verack"} \/ points = BAN_SCORE_THRESHOLD,
         UNCHANGED <<versionSent, remoteHeight, handshakeComplete>>
  PROVE  WireInv'
<1>1. CASE Disconnect(a)
  <2>1. open' = [open EXCEPT ![a] = FALSE] /\ net' = [net EXCEPT ![Back(a)] = <<>>]
    BY <1>1 DEF Disconnect
  <2>2. QED  BY <2>1, WireAfterClose
<1>2. CASE points # BAN_SCORE_THRESHOLD /\ net' = Exchange(a, <<>>) /\ open' = open
  <2>1. <<>> \in Seq(Message) /\ \A i \in 1 .. Len(<<>>) : FALSE  BY EmptySeq
  <2>2. Head(net[Back(a)]).type # "version" /\ Head(net[Back(a)]).type # "verack"  BY <1>2
  <2>3. UNCHANGED <<open, versionSent, remoteHeight>>  BY <1>2
  <2>4. \A i \in 1 .. Len(<<>>) : <<>>[i].type \notin {"version", "verack"}  BY <2>1
  <2>5. QED  BY <1>2, <2>1, <2>2, <2>3, <2>4, WireAfterRead
<1>3. QED  BY <1>1, <1>2, Penalty

\* One message that answers another one keeps the order.
LEMMA AnswerWire ==
  ASSUME SyncAssumption, LinkInv, NetInv, WireInv, NEW a \in Ends, net[Back(a)] # <<>>,
         NEW m \in Message, net' = Exchange(a, <<m>>),
         UNCHANGED <<open, versionSent, remoteHeight, handshakeComplete>>, handshakeComplete[a],
         Head(net[Back(a)]).type \notin {"version", "verack"}, m.type \notin {"version", "verack"}
  PROVE  WireInv'
<1>1. <<m>> \in Seq(Message) /\ \A i \in 1 .. Len(<<m>>) : <<m>>[i].type \notin {"version", "verack"}
  OBVIOUS
<1>2. remoteHeight[a] # -1  BY BothTold
<1> DEFINE msgs == <<m>>
<1> HIDE DEF msgs
<1>3. QED  BY <1>1, <1>2, WireAfterRead DEF msgs

\* A message that is not answered keeps the order.
LEMMA SilentWire ==
  ASSUME SyncAssumption, LinkInv, NetInv, WireInv, NEW a \in Ends, net[Back(a)] # <<>>,
         net' = Exchange(a, <<>>),
         UNCHANGED <<open, versionSent, remoteHeight, handshakeComplete>>,
         Head(net[Back(a)]).type \notin {"version", "verack"}
  PROVE  WireInv'
<1>1. <<>> \in Seq(Message) /\ \A i \in 1 .. Len(<<>>) : <<>>[i].type \notin {"version", "verack"}
  BY EmptySeq
<1>2. QED  BY <1>1, WireAfterRead

\* What a new connection consists of.
LEMMA Connected ==
  ASSUME SyncAssumption, LinkInv, NetInv, NEW d \in Dials, Connect(d)
  PROVE  /\ d \in Ends /\ Back(d) \in Ends /\ Back(d) # d /\ Back(Back(d)) = d
         /\ net'[d] = <<Version(d[1])>> /\ net'[Back(d)] = <<>>
         /\ versionSent'[d] = TRUE /\ versionSent'[Back(d)] = FALSE
         /\ \A x \in {d, Back(d)} : /\ open'[x] = TRUE /\ handshakeComplete'[x] = FALSE
                                    /\ remoteHeight'[x] = -1 /\ score'[x] = 0
                                    /\ pinged'[x] = FALSE /\ reader[x] = "reading"
<1>1. d \in Ends /\ Back(d) \in Ends /\ Back(d) # d /\ Back(Back(d)) = d  BY DialEnds, EndFacts
<1> DEFINE b == Back(d)
           v == <<Version(d[1])>>
<1>2. /\ net' = [[x \in Ends |-> IF x \in {d, b} THEN <<>> ELSE net[x]] EXCEPT ![d] = v]
      /\ versionSent' = [[x \in Ends |-> IF x \in {d, b} THEN FALSE ELSE versionSent[x]] EXCEPT ![d] = TRUE]
      /\ open' = [x \in Ends |-> IF x \in {d, b} THEN TRUE ELSE open[x]]
      /\ handshakeComplete' = [x \in Ends |-> IF x \in {d, b} THEN FALSE ELSE handshakeComplete[x]]
      /\ remoteHeight' = [x \in Ends |-> IF x \in {d, b} THEN -1 ELSE remoteHeight[x]]
      /\ score' = [x \in Ends |-> IF x \in {d, b} THEN 0 ELSE score[x]]
      /\ pinged' = [x \in Ends |-> IF x \in {d, b} THEN FALSE ELSE pinged[x]]
      /\ reader[d] = "reading" /\ reader[b] = "reading"
  BY DEF Connect
<1> HIDE DEF b, v
<1>3. d \in Ends /\ b \in Ends /\ b # d  BY <1>1 DEF b
<1>4. net'[d] = v /\ net'[b] = <<>>  BY <1>2, <1>3
<1>5. versionSent'[d] = TRUE /\ versionSent'[b] = FALSE  BY <1>2, <1>3
<1>6. \A x \in {d, b} : /\ open'[x] = TRUE /\ handshakeComplete'[x] = FALSE
                        /\ remoteHeight'[x] = -1 /\ score'[x] = 0
                        /\ pinged'[x] = FALSE /\ reader[x] = "reading"
  BY <1>2, <1>3
<1>7. QED  BY <1>1, <1>4, <1>5, <1>6 DEF b, v

\* It does not touch the others.
LEMMA Unconnected ==
  ASSUME SyncAssumption, NEW d \in Dials, Connect(d), NEW x \in Ends, x # d, x # Back(d)
  PROVE  /\ net'[x] = net[x] /\ versionSent'[x] = versionSent[x] /\ open'[x] = open[x]
         /\ handshakeComplete'[x] = handshakeComplete[x] /\ remoteHeight'[x] = remoteHeight[x]
         /\ score'[x] = score[x] /\ pinged'[x] = pinged[x] /\ dialled'[x] = dialled[x]
<1>1. d \in Ends  BY DialEnds
<1> DEFINE b == Back(d)
           v == <<Version(d[1])>>
<1>2. /\ net' = [[y \in Ends |-> IF y \in {d, b} THEN <<>> ELSE net[y]] EXCEPT ![d] = v]
      /\ versionSent' = [[y \in Ends |-> IF y \in {d, b} THEN FALSE ELSE versionSent[y]] EXCEPT ![d] = TRUE]
      /\ open' = [y \in Ends |-> IF y \in {d, b} THEN TRUE ELSE open[y]]
      /\ handshakeComplete' = [y \in Ends |-> IF y \in {d, b} THEN FALSE ELSE handshakeComplete[y]]
      /\ remoteHeight' = [y \in Ends |-> IF y \in {d, b} THEN -1 ELSE remoteHeight[y]]
      /\ score' = [y \in Ends |-> IF y \in {d, b} THEN 0 ELSE score[y]]
      /\ pinged' = [y \in Ends |-> IF y \in {d, b} THEN FALSE ELSE pinged[y]]
      /\ dialled' = [y \in Ends |-> IF y \in {d, b} THEN dialled[d] + 1 ELSE dialled[y]]
  BY DEF Connect
<1>3. x # b  OBVIOUS
<1> HIDE DEF b, v
<1>4. QED  BY <1>1, <1>2, <1>3

\* What a connection that breaks leaves.
LEMMA Broken ==
  ASSUME SyncAssumption, LinkInv, NetInv, NEW d \in Dials, Break(d)
  PROVE  /\ d \in Ends /\ Back(d) \in Ends /\ Back(d) # d /\ Back(Back(d)) = d
         /\ \A x \in {d, Back(d)} : net'[x] = <<>> /\ open'[x] = FALSE
         /\ \A x \in Ends : x # d /\ x # Back(d) => net'[x] = net[x] /\ open'[x] = open[x]
<1>1. d \in Ends /\ Back(d) \in Ends /\ Back(d) # d /\ Back(Back(d)) = d  BY DialEnds, EndFacts
<1> DEFINE b == Back(d)
<1>2. /\ open' = [open EXCEPT ![d] = FALSE, ![b] = FALSE]
      /\ net' = [net EXCEPT ![d] = <<>>, ![b] = <<>>]
  BY DEF Break
<1> HIDE DEF b
<1>3. d \in Ends /\ b \in Ends /\ b # d  BY <1>1 DEF b
<1>4. \A x \in {d, b} : net'[x] = <<>> /\ open'[x] = FALSE  BY <1>2, <1>3 DEF NetInv, LinkInv
<1>5. \A x \in Ends : x # d /\ x # b => net'[x] = net[x] /\ open'[x] = open[x]
  BY <1>2, <1>3 DEF NetInv, LinkInv
<1>6. QED  BY <1>1, <1>4, <1>5 DEF b

\* A block that is announced comes behind what is on the way, and only to peers
\* whose height is known.
LEMMA Announced ==
  ASSUME SyncAssumption, BlocksInv, LinkInv, NetInv, NEW n \in Nodes, Announce(n), NEW x \in Ends
  PROVE  LET m == Inv(<<announcing[n]>>)
         IN  /\ m \in Message /\ m.type = "inv"
             /\ \/ net'[x] = net[x]
                \/ net'[x] = Append(net[x], m) /\ open[Back(x)] /\ handshakeComplete[x]
<1>1. announcing[n] \in Block  BY DEF Announce, BlocksInv
<1>2. <<announcing[n]>> \in Seq(Block)  BY <1>1
<1>3. Inv(<<announcing[n]>>) \in Message /\ Inv(<<announcing[n]>>).type = "inv"
  BY <1>2, Sendable DEF Inv
<1> DEFINE m == Inv(<<announcing[n]>>)
<1>4. net' = [e \in Ends |-> IF e[1] = n /\ open[e] /\ handshakeComplete[e] /\ open[Back(e)]
                             THEN Append(net[e], m) ELSE net[e]]
  BY DEF Announce
<1> HIDE DEF m
<1>5. \/ net'[x] = net[x]
      \/ net'[x] = Append(net[x], m) /\ open[Back(x)] /\ handshakeComplete[x]
  <2>1. CASE x[1] = n /\ open[x] /\ handshakeComplete[x] /\ open[Back(x)]
    <3>1. net'[x] = Append(net[x], m)  BY <1>4, <2>1
    <3>2. QED  BY <2>1, <3>1
  <2>2. CASE ~(x[1] = n /\ open[x] /\ handshakeComplete[x] /\ open[Back(x)])
    <3>1. net'[x] = net[x]  BY <1>4, <2>2
    <3>2. QED  BY <3>1
  <2>3. QED  BY <2>1, <2>2
<1>6. QED  BY <1>3, <1>5 DEF m

\* A new connection keeps the order.
LEMMA ConnectWire ==
  ASSUME SyncAssumption, BlocksInv, LinkInv, NetInv, WireInv, NEW d \in Dials, Connect(d)
  PROVE  WireInv'
<1> DEFINE b == Back(d)
<1>0. /\ d \in Ends /\ b \in Ends /\ b # d /\ Back(b) = d
      /\ net'[d] = <<Version(d[1])>> /\ net'[b] = <<>>
      /\ versionSent'[d] = TRUE /\ versionSent'[b] = FALSE
  BY Connected
<1>1. /\ open'[d] = TRUE /\ open'[b] = TRUE
      /\ handshakeComplete'[d] = FALSE /\ handshakeComplete'[b] = FALSE
      /\ remoteHeight'[d] = -1 /\ remoteHeight'[b] = -1
  BY Connected
<1>2. Wire(<<Version(d[1])>>, TRUE, -1, -1, FALSE, TRUE) /\ Wire(<<>>, FALSE, -1, -1, FALSE, TRUE)
  <2>1. Version(d[1]).type = "version"  BY <1>0, EndFacts, VersionSendable
  <2>2. QED  BY <2>1, WireNew
<1> HIDE DEF b
<1>3. ASSUME NEW x \in Ends
      PROVE  Wire(net'[x], versionSent'[x], remoteHeight'[x], remoteHeight'[Back(x)],
                  handshakeComplete'[Back(x)], open'[Back(x)])
  <2>1. CASE x = d
    <3>1. Back(x) = b  BY <2>1 DEF b
    <3>2. QED  BY <1>0, <1>1, <1>2, <2>1, <3>1
  <2>2. CASE x = b
    <3>1. Back(x) = d  BY <1>0, <2>2
    <3>2. QED  BY <1>0, <1>1, <1>2, <2>2, <3>1
  <2>3. CASE x # d /\ x # b
    <3>1. Back(x) # d /\ Back(x) # b /\ Back(x) \in Ends  BY <1>0, <2>3, EndFacts
    <3>2. /\ net'[x] = net[x] /\ versionSent'[x] = versionSent[x]
          /\ remoteHeight'[x] = remoteHeight[x]
      BY <2>3, Unconnected DEF b
    <3>3. /\ remoteHeight'[Back(x)] = remoteHeight[Back(x)] /\ open'[Back(x)] = open[Back(x)]
          /\ handshakeComplete'[Back(x)] = handshakeComplete[Back(x)]
      BY <3>1, Unconnected DEF b
    <3>4. QED  BY <3>2, <3>3, WireOf
  <2>4. QED  BY <2>1, <2>2, <2>3
<1>4. QED  BY <1>3 DEF WireInv

\* A connection that breaks keeps the order.
LEMMA BreakWire ==
  ASSUME SyncAssumption, LinkInv, NetInv, WireInv, NEW d \in Dials, Break(d)
  PROVE  WireInv'
<1> DEFINE b == Back(d)
<1>1. /\ d \in Ends /\ b \in Ends /\ b # d /\ Back(b) = d
      /\ \A x \in {d, b} : net'[x] = <<>> /\ open'[x] = FALSE
      /\ \A x \in Ends : x # d /\ x # b => net'[x] = net[x] /\ open'[x] = open[x]
  BY Broken
<1>2. /\ versionSent' = versionSent /\ remoteHeight' = remoteHeight
      /\ handshakeComplete' = handshakeComplete
  BY DEF Break
<1>3. ASSUME NEW x \in Ends
      PROVE  Wire(net'[x], versionSent'[x], remoteHeight'[x], remoteHeight'[Back(x)],
                  handshakeComplete'[Back(x)], open'[Back(x)])
  <2>1. Wire(net[x], versionSent[x], remoteHeight[x], remoteHeight[Back(x)],
             handshakeComplete[Back(x)], open[Back(x)])
    BY WireOf
  <2>2. CASE x = d \/ x = b
    <3>1. Wire(<<>>, versionSent[x], remoteHeight[x], remoteHeight[Back(x)],
               handshakeComplete[Back(x)], FALSE)
      BY <2>1, WireClosed
    <3>2. net'[x] = <<>> /\ open'[Back(x)] = FALSE  BY <1>1, <2>2
    <3>3. QED  BY <1>2, <3>1, <3>2
  <2>3. CASE x # d /\ x # b
    <3>1. Back(x) # d /\ Back(x) # b /\ Back(x) \in Ends  BY <1>1, <2>3, EndFacts
    <3>2. QED  BY <1>1, <1>2, <2>1, <2>3, <3>1
  <2>4. QED  BY <2>2, <2>3
<1>4. QED  BY <1>3 DEF WireInv

\* An announcement keeps the order.
LEMMA AnnounceWire ==
  ASSUME SyncAssumption, BlocksInv, LinkInv, NetInv, WireInv, NEW n \in Nodes, Announce(n)
  PROVE  WireInv'
<1> DEFINE m == Inv(<<announcing[n]>>)
<1>1. /\ versionSent' = versionSent /\ remoteHeight' = remoteHeight
      /\ handshakeComplete' = handshakeComplete /\ open' = open
  BY DEF Announce
<1>2. ASSUME NEW x \in Ends
      PROVE  Wire(net'[x], versionSent[x], remoteHeight[x], remoteHeight[Back(x)],
                  handshakeComplete[Back(x)], open[Back(x)])
  <2>1. /\ m \in Message /\ m.type = "inv"
        /\ \/ net'[x] = net[x]
           \/ net'[x] = Append(net[x], m) /\ open[Back(x)] /\ handshakeComplete[x]
    BY Announced
  <2> HIDE DEF m
  <2>2. /\ Wire(net[x], versionSent[x], remoteHeight[x], remoteHeight[Back(x)],
                handshakeComplete[Back(x)], open[Back(x)])
        /\ net[x] \in Seq(Message) /\ open[Back(x)] \in BOOLEAN
    BY WireOf
  <2>3. CASE net'[x] = net[x]  BY <2>2, <2>3
  <2>4. CASE net'[x] = Append(net[x], m) /\ open[Back(x)] /\ handshakeComplete[x]
    <3> DEFINE v == Append(net[x], m)
    <3>1. /\ v \in Seq(Message) /\ Longer(v, net[x])
          /\ Len(v) = Len(net[x]) + 1 /\ v[Len(net[x]) + 1] = m
      BY <2>1, <2>2, AppendLonger
    <3>2. net'[x] = v /\ open[Back(x)] = TRUE  BY <2>2, <2>4
    <3> HIDE DEF v
    <3>3. Len(net[x]) \in Nat  BY <2>2, LenProperties
    <3>4. \A i \in Len(net[x]) + 1 .. Len(v) : v[i] = m  BY <3>1, <3>3
    <3>5. \A i \in Len(net[x]) + 1 .. Len(v) : v[i].type \notin {"version", "verack"}
      BY <2>1, <3>4
    <3>6. remoteHeight[x] # -1  BY <2>4, BothTold
    <3>7. Wire(net[x], versionSent[x], remoteHeight[x], remoteHeight[Back(x)],
               handshakeComplete[Back(x)], TRUE)
      BY <2>2, <3>2
    <3>8. Wire(v, versionSent[x], remoteHeight[x], remoteHeight[Back(x)],
               handshakeComplete[Back(x)], TRUE)
      BY <2>2, <3>1, <3>5, <3>6, <3>7, WireMore
    <3>9. QED  BY <3>2, <3>8
  <2>5. QED  BY <2>1, <2>3, <2>4
<1>3. QED  BY <1>1, <1>2 DEF WireInv

\* A penalty is a number of points.
LEMMA Points == ASSUME SyncAssumption PROVE EARLY_SCORE \in Nat /\ BAN_SCORE_THRESHOLD \in Nat
BY DEF SyncAssumption

\* Every step keeps the order of what is on the way.
LEMMA NextWireInv ==
  ASSUME SyncAssumption PROVE TypeInv /\ WireInv /\ ReaderInv /\ [Next]_vars => WireInv'
<1> SUFFICES ASSUME TypeInv, WireInv, ReaderInv, [Next]_vars PROVE WireInv'  OBVIOUS
<1>0. BlocksInv /\ BannedInv /\ LinkInv /\ NetInv /\ ThreadInv  BY DEF TypeInv
<1>a. UNCHANGED <<net, open, versionSent, remoteHeight, handshakeComplete>> => WireInv'
  BY DEF WireInv
<1>1. ASSUME NEW d \in Dials, Connect(d) PROVE WireInv'  BY <1>0, <1>1, ConnectWire
<1>2. ASSUME NEW d \in Dials, Break(d) PROVE WireInv'  BY <1>0, <1>2, BreakWire
<1>3. ASSUME NEW e \in Ends, EndOfStream(e) PROVE WireInv'
  BY <1>0, <1>3, WireAfterClose DEF EndOfStream, Disconnect
<1>4. ASSUME NEW e \in Ends, ExceedRate(e) PROVE WireInv'
  <2>1. /\ net[Back(e)] # <<>> /\ Misbehave(e, BAN_SCORE_THRESHOLD)
        /\ UNCHANGED <<versionSent, remoteHeight, handshakeComplete>>
    BY <1>4 DEF ExceedRate
  <2>2. QED  BY <1>0, <2>1, Points, PenaltyWire
<1>5. ASSUME NEW e \in Ends, HandleVersion(e) PROVE WireInv'  BY <1>0, <1>5, VersionWire
<1>6. ASSUME NEW e \in Ends, StartSync(e) PROVE WireInv'
  <2>1. UNCHANGED <<open, versionSent, remoteHeight, handshakeComplete>>  BY <1>6 DEF StartSync
  <2>2. \/ net' = net
        \/ net' = [net EXCEPT ![e] = Append(@, GetBlocks(e[1]))] /\ open[Back(e)]
    BY <1>6 DEF StartSync
  <2>3. remoteHeight[e] # -1  BY <1>6 DEF StartSync, ReaderInv
  <2>4. GetBlocks(e[1]) \in Message /\ GetBlocks(e[1]).type = "getblocks"
    BY <1>0, EndFacts, Sendable DEF GetBlocks, BlocksInv
  <2>5. QED  BY <1>0, <1>a, <2>1, <2>2, <2>3, <2>4, WireAfterSend
<1>7. ASSUME NEW e \in Ends, HandleVerack(e) PROVE WireInv'
  <2> DEFINE m == [type |-> "getaddr"]
  <2>1. /\ net[Back(e)] # <<>> /\ Head(net[Back(e)]).type = "verack" /\ net' = Exchange(e, <<m>>)
        /\ handshakeComplete' = [handshakeComplete EXCEPT ![e] = TRUE]
        /\ UNCHANGED <<open, versionSent, remoteHeight>>
    BY <1>7 DEF HandleVerack, Delivered
  <2>2. m \in Message /\ m.type \notin {"version", "verack"}  BY Sendable
  <2> DEFINE msgs == <<m>>
  <2>3. msgs \in Seq(Message) /\ \A i \in 1 .. Len(msgs) : msgs[i].type \notin {"version", "verack"}
    <3> HIDE DEF m
    <3>1. QED  BY <2>2
  <2>4. net' = Exchange(e, msgs)  BY <2>1
  <2> HIDE DEF msgs
  <2>5. remoteHeight[e] # -1
    <3>1. Back(e) \in Ends /\ Back(Back(e)) = e  BY EndFacts
    <3>2. /\ Wire(net[Back(e)], versionSent[Back(e)], remoteHeight[Back(e)], remoteHeight[e],
                  handshakeComplete[e], open[e])
          /\ net[Back(e)] \in Seq(Message)
      BY <1>0, <3>1, WireOf
    <3>3. Wire(Tail(net[Back(e)]), versionSent[Back(e)], remoteHeight[Back(e)], remoteHeight[e],
               TRUE, open[e])
      BY <2>1, <3>2, WireRead
    <3>4. QED  BY <3>3 DEF Wire, Handshake
  <2>6. QED  BY <1>0, <2>1, <2>3, <2>4, <2>5, WireAfterRead
<1>8. ASSUME NEW e \in Ends, EarlyMessage(e) PROVE WireInv'
  <2>1. /\ net[Back(e)] # <<>> /\ Head(net[Back(e)]).type \notin {"version", "verack"}
        /\ Misbehave(e, EARLY_SCORE) /\ UNCHANGED <<versionSent, remoteHeight, handshakeComplete>>
    BY <1>8 DEF EarlyMessage, Delivered
  <2>2. QED  BY <1>0, <2>1, Points, PenaltyWire
<1>9. ASSUME NEW e \in Ends, SendPing(e) PROVE WireInv'
  <2>1. UNCHANGED <<open, versionSent, remoteHeight, handshakeComplete>>  BY <1>9 DEF SendPing
  <2>2. \/ net' = net
        \/ net' = [net EXCEPT ![e] = Append(@, [type |-> "ping"])] /\ open[Back(e)]
    BY <1>9 DEF SendPing
  <2>3. [type |-> "ping"] \in Message  BY Sendable
  <2>4. QED  BY <1>0, <1>a, <2>1, <2>2, <2>3, WireAfterSend
<1>10. ASSUME NEW e \in Ends, HandlePing(e) PROVE WireInv'
  <2>1. /\ net[Back(e)] # <<>> /\ Head(net[Back(e)]).type = "ping" /\ handshakeComplete[e]
        /\ net' = Exchange(e, <<[type |-> "pong"]>>)
        /\ UNCHANGED <<open, versionSent, remoteHeight, handshakeComplete>>
    BY <1>10 DEF HandlePing, Dispatched, Delivered
  <2>2. [type |-> "pong"] \in Message  BY Sendable
  <2>3. QED  BY <1>0, <2>1, <2>2, AnswerWire
<1>11. ASSUME NEW e \in Ends, HandleOther(e) PROVE WireInv'
  <2>1. /\ net[Back(e)] # <<>> /\ Head(net[Back(e)]).type \notin {"version", "verack"}
        /\ net' = Exchange(e, <<>>)
        /\ UNCHANGED <<open, versionSent, remoteHeight, handshakeComplete>>
    BY <1>11 DEF HandleOther, Dispatched, Delivered
  <2>2. QED  BY <1>0, <2>1, SilentWire
<1>12. ASSUME NEW e \in Ends, HandleGetBlocks(e) PROVE WireInv'
  <2>1. /\ net[Back(e)] # <<>> /\ Head(net[Back(e)]).type \notin {"version", "verack"}
        /\ net' = Exchange(e, <<>>)
        /\ UNCHANGED <<open, versionSent, remoteHeight, handshakeComplete>>
    BY <1>12 DEF HandleGetBlocks, Dispatched, Delivered
  <2>2. QED  BY <1>0, <2>1, SilentWire
<1>13. ASSUME NEW e \in Ends, SendInv(e) PROVE WireInv'
  <2>1. UNCHANGED <<open, versionSent, remoteHeight, handshakeComplete>>  BY <1>13 DEF SendInv
  <2>2. \/ net' = net
        \/ net' = [net EXCEPT ![e] = Append(@, Inv(gathered[e]))] /\ open[Back(e)]
    BY <1>13 DEF SendInv
  <2>3. Inv(gathered[e]) \in Message /\ Inv(gathered[e]).type = "inv"
    BY <1>0, Sendable DEF Inv, ThreadInv
  <2>4. handshakeComplete[e]  BY <1>13 DEF SendInv, ReaderInv
  <2>5. remoteHeight[e] # -1  BY <1>0, <2>4, BothTold
  <2>6. QED  BY <1>0, <1>a, <2>1, <2>2, <2>3, <2>5, WireAfterSend
<1>14. ASSUME NEW e \in Ends, HandleInv(e) PROVE WireInv'
  <2> DEFINE m == [type |-> "getdata", hashes |-> Head(net[Back(e)]).hashes]
  <2>1. /\ net[Back(e)] # <<>> /\ Head(net[Back(e)]).type = "inv" /\ handshakeComplete[e]
        /\ net' = Exchange(e, <<m>>)
        /\ UNCHANGED <<open, versionSent, remoteHeight, handshakeComplete>>
    BY <1>14 DEF HandleInv, Dispatched, Delivered
  <2>2. m \in Message /\ m.type = "getdata"  BY <1>0, <2>1, HeadMessage, MessageFacts, Sendable
  <2> HIDE DEF m
  <2>3. QED  BY <1>0, <2>1, <2>2, AnswerWire
<1>15. ASSUME NEW e \in Ends, HandleGetData(e) PROVE WireInv'
  <2> DEFINE found == Only(Head(net[Back(e)]).hashes, Stored(e[1]))
             msgs == [i \in DOMAIN found |-> [type |-> "block", block |-> found[i]]]
  <2>1. /\ net[Back(e)] # <<>> /\ Head(net[Back(e)]).type = "getdata" /\ handshakeComplete[e]
        /\ net' = Exchange(e, msgs)
        /\ UNCHANGED <<open, versionSent, remoteHeight, handshakeComplete>>
    BY <1>15 DEF HandleGetData, Dispatched, Delivered
  <2>2. msgs \in Seq(Message) /\ \A i \in 1 .. Len(msgs) : msgs[i].type = "block"
    <3>1. Head(net[Back(e)]).hashes \in Seq(Block)  BY <1>0, <2>1, HeadMessage, MessageFacts
    <3>2. e[1] \in Nodes /\ chain[e[1]] \in Block \cup {<<>>}  BY <1>0, EndFacts DEF BlocksInv
    <3>3. QED  BY <3>1, <3>2, BlocksFound
  <2>3. remoteHeight[e] # -1  BY <1>0, <2>1, BothTold
  <2> HIDE DEF msgs
  <2>4. QED  BY <1>0, <2>1, <2>2, <2>3, WireAfterRead
<1>16. ASSUME NEW e \in Ends, HandleBlock(e) PROVE WireInv'
  <2>1. /\ net[Back(e)] # <<>> /\ Head(net[Back(e)]).type \notin {"version", "verack"}
        /\ UNCHANGED <<versionSent, remoteHeight, handshakeComplete>>
    BY <1>16 DEF HandleBlock, Dispatched, Delivered
  <2>2. Misbehave(e, BAN_SCORE_THRESHOLD) \/ (net' = Exchange(e, <<>>) /\ UNCHANGED open)
    BY <1>16 DEF HandleBlock, StoresBlock
  <2>3. QED  BY <1>0, <2>1, <2>2, Points, PenaltyWire, SilentWire
<1>17. ASSUME NEW n \in Nodes, StartMining(n) PROVE WireInv'
  BY <1>a, <1>17 DEF StartMining, endVars
<1>18. ASSUME NEW n \in Nodes, StoreMined(n) PROVE WireInv'
  BY <1>a, <1>18 DEF StoreMined, endVars
<1>19. ASSUME NEW n \in Nodes, Announce(n) PROVE WireInv'  BY <1>0, <1>19, AnnounceWire
<1>20. CASE UNCHANGED vars  BY <1>a, <1>20 DEF vars, endVars
<1>21. Miners \subseteq Nodes  BY DEF SyncAssumption
<1>22. QED
  BY <1>1, <1>2, <1>3, <1>4, <1>5, <1>6, <1>7, <1>8, <1>9, <1>10, <1>11, <1>12, <1>13, <1>14,
     <1>15, <1>16, <1>17, <1>18, <1>19, <1>20, <1>21 DEF Next, ReaderStep

\* A reader that is to start a synchronisation or to send hashes has got so far by
\* the handshake.
LEMMA NextReaderInv ==
  ASSUME SyncAssumption PROVE TypeInv /\ ReaderInv /\ [Next]_vars => ReaderInv'
<1> SUFFICES ASSUME TypeInv, ReaderInv, [Next]_vars PROVE ReaderInv'  OBVIOUS
<1>0. LinkInv /\ NetInv /\ ThreadInv  BY DEF TypeInv
<1>a. UNCHANGED <<reader, remoteHeight, handshakeComplete>> => ReaderInv'  BY DEF ReaderInv
<1>b. \A e \in Ends : reader' = [reader EXCEPT ![e] = "reading"]
        /\ UNCHANGED <<remoteHeight, handshakeComplete>> => ReaderInv'
  BY <1>0 DEF ReaderInv, ThreadInv
<1>1. ASSUME NEW d \in Dials, Connect(d) PROVE ReaderInv'
  <2>1. reader[d] = "reading" /\ reader[Back(d)] = "reading" /\ reader' = reader
    BY <1>1 DEF Connect
  <2>2. ASSUME NEW x \in Ends, x # d, x # Back(d)
        PROVE  handshakeComplete'[x] = handshakeComplete[x] /\ remoteHeight'[x] = remoteHeight[x]
    BY <1>1, <2>2, Unconnected
  <2>3. QED  BY <2>1, <2>2 DEF ReaderInv
<1>2. ASSUME NEW e \in Ends, HandleVersion(e) PROVE ReaderInv'
  <2> DEFINE h == Head(net[Back(e)]).height
  <2>1. /\ remoteHeight' = [remoteHeight EXCEPT ![e] = h]
        /\ reader' = [reader EXCEPT ![e] = IF h > Height(e[1]) /\ ~syncing[e[1]] THEN "behind"
                                                                             ELSE "reading"]
        /\ handshakeComplete' = handshakeComplete
    BY <1>2 DEF HandleVersion
  <2>2. h # -1
    <3>1. h \in 0 .. MaxHeight
      BY <1>0, <1>2, HeadMessage, MessageFacts DEF HandleVersion, Delivered
    <3>2. QED  BY <3>1
  <2> HIDE DEF h
  <2>3. \E at \in {"behind", "reading"} : reader' = [reader EXCEPT ![e] = at]  BY <2>1
  <2>4. QED  BY <1>0, <2>1, <2>2, <2>3 DEF ReaderInv, LinkInv, ThreadInv
<1>3. ASSUME NEW e \in Ends, HandleVerack(e) PROVE ReaderInv'
  BY <1>0, <1>3 DEF HandleVerack, ReaderInv, LinkInv
<1>4. ASSUME NEW e \in Ends, HandleGetBlocks(e) PROVE ReaderInv'
  <2>1. /\ handshakeComplete[e] /\ UNCHANGED <<remoteHeight, handshakeComplete>>
        /\ reader' = reader \/ reader' = [reader EXCEPT ![e] = "serving"]
    BY <1>4 DEF HandleGetBlocks, Dispatched
  <2>2. QED  BY <1>0, <2>1 DEF ReaderInv, ThreadInv
<1>5. QED
  BY <1>a, <1>b, <1>1, <1>2, <1>3, <1>4
  DEF Next, ReaderStep, Break, EndOfStream, ExceedRate, StartSync, EarlyMessage, SendPing, HandlePing,
      HandleOther, SendInv, HandleInv, HandleGetData, HandleBlock, StartMining, StoreMined, Announce,
      vars, endVars

-----------------------------------------------------------------------------
(***************************************************************************)
(* The score                                                               *)
(***************************************************************************)

\* The wire that an end sends on, and what it has cost.
LEMMA TallyOf ==
  ASSUME SyncAssumption, BannedInv, NetInv, TallyInv, NEW x \in Ends
  PROVE  /\ Tally(net[x], pinged[x], score[Back(x)], x[1] \in banned[x[2]])
         /\ net[x] \in Seq(Message) /\ score[Back(x)] \in Nat
BY EndFacts DEF BannedInv, NetInv, TallyInv

\* A reader has read a message and has sent others, but no ping.
LEMMA TallyAfterRead ==
  ASSUME SyncAssumption, BannedInv, BannedInv', NetInv, TallyInv, NEW a \in Ends,
         net[Back(a)] # <<>>, NEW msgs \in Seq(Message), net' = Exchange(a, msgs),
         UNCHANGED <<banned, pinged>>,
         \A i \in 1 .. Len(msgs) : msgs[i].type # "ping",
         \A x \in Ends : x # a => score'[x] = score[x],
         \/ score'[a] = score[a]
         \/ Head(net[Back(a)]).type = "ping" /\ score'[a] = score[a] + EARLY_SCORE
  PROVE  TallyInv'
<1> DEFINE b == Back(a)
<1>1. b \in Ends /\ b # a /\ Back(b) = a  BY EndFacts
<1>2. /\ net'[b] = Tail(net[b]) /\ net'[a] = IF open[b] THEN net[a] \o msgs ELSE net[a]
      /\ \A x \in Ends : x # a /\ x # b => net'[x] = net[x]
  BY ExchangeNet
<1>3. banned' = banned /\ pinged' = pinged  OBVIOUS
<1> HIDE DEF b
<1>4. Tally(net'[b], pinged[b], score'[a], b[1] \in banned[b[2]])
  <2>1. Tally(net[b], pinged[b], score[a], b[1] \in banned[b[2]])
        /\ net[b] \in Seq(Message) /\ score[a] \in Nat
    BY <1>1, TallyOf
  <2>2. score'[a] \in Nat  BY DEF BannedInv
  <2>3. net[b] # <<>>  BY DEF b
  <2>4. score'[a] = score[a] \/ (Head(net[b]).type = "ping" /\ score'[a] = score[a] + EARLY_SCORE)
    BY DEF b
  <2>5. Tally(Tail(net[b]), pinged[b], score'[a], b[1] \in banned[b[2]])
    BY <2>1, <2>2, <2>3, <2>4, TallyRead
  <2>6. QED  BY <1>2, <2>5
<1>5. Tally(net'[a], pinged[a], score[b], a[1] \in banned[a[2]])
  <2>1. /\ Tally(net[a], pinged[a], score[b], a[1] \in banned[a[2]])
        /\ net[a] \in Seq(Message) /\ score[b] \in Nat
    BY TallyOf DEF b
  <2>2. CASE ~open[b]  BY <1>2, <2>1, <2>2
  <2>3. CASE open[b]
    <3> DEFINE v == net[a] \o msgs
    <3>1. /\ v \in Seq(Message) /\ Longer(v, net[a])
          /\ \A i \in Len(net[a]) + 1 .. Len(v) :
               i - Len(net[a]) \in 1 .. Len(msgs) /\ v[i] = msgs[i - Len(net[a])]
      BY <2>1, ConcatLonger
    <3>2. net'[a] = v  BY <1>2, <2>3
    <3> HIDE DEF v
    <3>3. \A i \in Len(net[a]) + 1 .. Len(v) : v[i].type # "ping"  BY <3>1
    <3>4. Tally(v, pinged[a], score[b], a[1] \in banned[a[2]])  BY <2>1, <3>1, <3>3, TallyMore
    <3>5. QED  BY <3>2, <3>4
  <2>4. QED  BY <2>2, <2>3
<1>6. ASSUME NEW x \in Ends PROVE Tally(net'[x], pinged'[x], score'[Back(x)], x[1] \in banned'[x[2]])
  <2>1. CASE x = b  BY <1>1, <1>3, <1>4, <2>1
  <2>2. CASE x = a
    <3>1. Back(x) = b /\ score'[b] = score[b]  BY <1>1, <2>2 DEF b
    <3>2. QED  BY <1>3, <1>5, <2>2, <3>1
  <2>3. CASE x # a /\ x # b
    <3>1. Back(x) # a /\ Back(x) \in Ends  BY <2>3, EndFacts DEF b
    <3>2. QED  BY <1>2, <1>3, <2>3, <3>1, TallyOf
  <2>4. QED  BY <2>1, <2>2, <2>3
<1>7. QED  BY <1>6 DEF TallyInv

\* An end has been closed, and has banned the peer perhaps.
LEMMA TallyAfterClose ==
  ASSUME SyncAssumption, BannedInv, NetInv, TallyInv, NEW a \in Ends,
         net' = [net EXCEPT ![Back(a)] = <<>>], pinged' = pinged,
         \A x \in Ends : x # a => score'[x] = score[x],
         \/ banned' = banned /\ score' = score
         \/ banned' = [banned EXCEPT ![a[1]] = @ \cup {a[2]}]
  PROVE  TallyInv'
<1> DEFINE b == Back(a)
<1>1. /\ b \in Ends /\ b # a /\ Back(b) = a /\ b[1] = a[2] /\ b[2] = a[1]
      /\ a[1] \in Nodes /\ a[2] \in Nodes
  BY EndFacts
<1>2. net'[b] = <<>> /\ \A x \in Ends : x # b => net'[x] = net[x]  BY <1>1 DEF NetInv
<1> HIDE DEF b
<1>3. Tally(net'[b], pinged'[b], score'[a], b[1] \in banned'[b[2]])
  <2>1. Tally(net[b], pinged[b], score[a], b[1] \in banned[b[2]])  BY <1>1, TallyOf
  <2>2. b[1] \notin banned'[b[2]] => b[1] \notin banned[b[2]] /\ score'[a] = score[a]
    BY <1>1 DEF BannedInv
  <2> DEFINE was == b[1] \in banned[b[2]]
             is == b[1] \in banned'[b[2]]
  <2>3. Tally(net[b], pinged[b], score[a], was) /\ (~is => ~was /\ score'[a] = score[a])
    BY <2>1, <2>2
  <2> HIDE DEF was, is
  <2>4. Tally(<<>>, pinged[b], score'[a], is)  BY <2>3, TallyLost
  <2>5. Tally(net'[b], pinged'[b], score'[a], is)  BY <1>2, <2>4
  <2>6. QED  BY <2>5 DEF is
<1>4. ASSUME NEW x \in Ends, x # b
      PROVE  Tally(net'[x], pinged'[x], score'[Back(x)], x[1] \in banned'[x[2]])
  <2>1. Back(x) # a /\ Back(x) \in Ends  BY <1>4, EndFacts DEF b
  <2>2. x[1] \in banned'[x[2]] <=> x[1] \in banned[x[2]]
    <3>1. x[2] # a[1] \/ x[1] # a[2]
      <4>1. x = <<x[1], x[2]>>  BY EndFacts
      <4>2. QED  BY <1>4, <4>1 DEF b, Back
    <3>2. x[1] \in Nodes /\ x[2] \in Nodes  BY EndFacts
    <3>3. QED  BY <1>1, <3>1, <3>2 DEF BannedInv
  <2>3. net'[x] = net[x] /\ score'[Back(x)] = score[Back(x)]  BY <1>2, <1>4, <2>1
  <2>4. Tally(net[x], pinged[x], score[Back(x)], x[1] \in banned[x[2]])  BY TallyOf
  <2> DEFINE was == x[1] \in banned[x[2]]
             is == x[1] \in banned'[x[2]]
  <2>5. was = is  BY <2>2
  <2> HIDE DEF was, is
  <2>6. Tally(net[x], pinged[x], score[Back(x)], was)  BY <2>4 DEF was
  <2>7. Tally(net'[x], pinged'[x], score'[Back(x)], is)  BY <2>3, <2>5, <2>6
  <2>8. QED  BY <2>7 DEF is
<1>5. QED  BY <1>1, <1>3, <1>4 DEF TallyInv

\* An end has sent a message: the only ping, or another one.
LEMMA TallyAfterSend ==
  ASSUME SyncAssumption, BannedInv, NetInv, TallyInv, NEW a \in Ends, NEW m \in Message,
         net' = [net EXCEPT ![a] = Append(@, m)], UNCHANGED <<score, banned>>,
         \A x \in Ends : x # a => pinged'[x] = pinged[x],
         (pinged'[a] = pinged[a] /\ m.type # "ping") \/ (pinged[a] = FALSE /\ pinged'[a] = TRUE)
  PROVE  TallyInv'
<1> DEFINE v == Append(net[a], m)
<1>1. net'[a] = v /\ \A x \in Ends : x # a => net'[x] = net[x]  BY DEF NetInv
<1>2. score' = score /\ banned' = banned  OBVIOUS
<1>3. Tally(v, pinged'[a], score[Back(a)], a[1] \in banned[a[2]])
  <2>1. /\ Tally(net[a], pinged[a], score[Back(a)], a[1] \in banned[a[2]])
        /\ net[a] \in Seq(Message) /\ score[Back(a)] \in Nat
    BY TallyOf
  <2>2. /\ v \in Seq(Message) /\ Longer(v, net[a])
        /\ Len(v) = Len(net[a]) + 1 /\ v[Len(net[a]) + 1] = m
    BY <2>1, AppendLonger
  <2> HIDE DEF v
  <2>3. Len(net[a]) \in Nat  BY <2>1, LenProperties
  <2>4. \A i \in Len(net[a]) + 1 .. Len(v) : v[i] = m  BY <2>2, <2>3
  <2>5. CASE pinged'[a] = pinged[a] /\ m.type # "ping"
    <3>1. \A i \in Len(net[a]) + 1 .. Len(v) : v[i].type # "ping"  BY <2>4, <2>5
    <3>2. QED  BY <2>1, <2>2, <2>5, <3>1, TallyMore
  <2>6. CASE pinged[a] = FALSE /\ pinged'[a] = TRUE
    <3>1. Tally(net[a], FALSE, score[Back(a)], a[1] \in banned[a[2]])  BY <2>1, <2>6
    <3>2. Tally(v, TRUE, score[Back(a)], a[1] \in banned[a[2]])  BY <2>1, <2>2, <3>1, TallyMore
    <3>3. QED  BY <2>6, <3>2
  <2>7. QED  BY <2>5, <2>6
<1> HIDE DEF v
<1>4. ASSUME NEW x \in Ends PROVE Tally(net'[x], pinged'[x], score'[Back(x)], x[1] \in banned'[x[2]])
  <2>1. CASE x = a  BY <1>1, <1>2, <1>3, <2>1
  <2>2. CASE x # a  BY <1>1, <1>2, <2>2, TallyOf
  <2>3. QED  BY <2>1, <2>2
<1>5. QED  BY <1>4 DEF TallyInv

\* A penalty: a ping too early, or one that bans.
LEMMA PenaltyTally ==
  ASSUME SyncAssumption, BannedInv, BannedInv', NetInv, TallyInv, NEW a \in Ends,
         net[Back(a)] # <<>>, NEW points \in Nat, Misbehave(a, points), pinged' = pinged,
         \/ points = BAN_SCORE_THRESHOLD
         \/ points = EARLY_SCORE /\ Head(net[Back(a)]).type = "ping"
  PROVE  TallyInv'
<1>1. score' = [score EXCEPT ![a] = @ + points]  BY DEF Misbehave
<1>2. score'[a] = score[a] + points /\ \A x \in Ends : x # a => score'[x] = score[x]
  BY <1>1 DEF BannedInv
<1>3. CASE banned' = [banned EXCEPT ![a[1]] = @ \cup {a[2]}] /\ Disconnect(a)
  <2>1. net' = [net EXCEPT ![Back(a)] = <<>>]  BY <1>3 DEF Disconnect
  <2>2. QED  BY <1>2, <1>3, <2>1, TallyAfterClose
<1>4. CASE points # BAN_SCORE_THRESHOLD /\ net' = Exchange(a, <<>>) /\ UNCHANGED <<banned, open, hindered>>
  <2>1. <<>> \in Seq(Message) /\ \A i \in 1 .. Len(<<>>) : <<>>[i].type # "ping"  BY EmptySeq
  <2>2. Head(net[Back(a)]).type = "ping" /\ score'[a] = score[a] + EARLY_SCORE  BY <1>2, <1>4
  <2>3. UNCHANGED <<banned, pinged>>  BY <1>4
  <2>4. QED  BY <1>2, <1>4, <2>1, <2>2, <2>3, TallyAfterRead
<1>5. QED  BY <1>3, <1>4, Penalty

\* A message is answered with others, none of them a ping, and costs nothing.
LEMMA FreeTally ==
  ASSUME SyncAssumption, BannedInv, BannedInv', NetInv, TallyInv, NEW a \in Ends,
         net[Back(a)] # <<>>, NEW msgs \in Seq(Message), net' = Exchange(a, msgs),
         \A i \in 1 .. Len(msgs) : msgs[i].type # "ping", UNCHANGED <<banned, pinged, score>>
  PROVE  TallyInv'
<1>1. UNCHANGED <<banned, pinged>> /\ score'[a] = score[a] /\ \A x \in Ends : x # a => score'[x] = score[x]
  OBVIOUS
<1>2. QED  BY <1>1, TallyAfterRead

\* With one, and with none.
LEMMA OneFreeTally ==
  ASSUME SyncAssumption, BannedInv, BannedInv', NetInv, TallyInv, NEW a \in Ends,
         net[Back(a)] # <<>>, UNCHANGED <<banned, pinged, score>>
  PROVE  /\ net' = Exchange(a, <<>>) => TallyInv'
         /\ \A m \in Message : m.type # "ping" /\ net' = Exchange(a, <<m>>) => TallyInv'
<1>1. ASSUME net' = Exchange(a, <<>>) PROVE TallyInv'
  <2>1. <<>> \in Seq(Message) /\ \A i \in 1 .. Len(<<>>) : <<>>[i].type # "ping"  BY EmptySeq
  <2>2. QED  BY <1>1, <2>1, FreeTally
<1>2. ASSUME NEW m \in Message, m.type # "ping", net' = Exchange(a, <<m>>) PROVE TallyInv'
  <2> DEFINE msgs == <<m>>
  <2>1. /\ msgs \in Seq(Message) /\ \A i \in 1 .. Len(msgs) : msgs[i].type # "ping"
        /\ net' = Exchange(a, msgs)
    BY <1>2
  <2> HIDE DEF msgs
  <2>2. QED  BY <2>1, FreeTally
<1>3. QED  BY <1>1, <1>2

\* Nothing has been sent to begin with.
LEMMA InitTallyInv == ASSUME SyncAssumption PROVE Init => TallyInv
<1> SUFFICES ASSUME Init PROVE TallyInv  OBVIOUS
<1>1. \A e \in Ends : Back(e) \in Ends  BY EndFacts
<1>2. \A e \in Ends : net[e] = <<>> /\ pinged[e] = FALSE /\ score[e] = 0  BY DEF Init, Empty
<1>3. ASSUME NEW e \in Ends PROVE Tally(net[e], pinged[e], score[Back(e)], e[1] \in banned[e[2]])
  BY <1>1, <1>2, TallyNew
<1>4. QED  BY <1>3 DEF TallyInv

\* What a new connection has cost.
LEMMA ConnectTally ==
  ASSUME SyncAssumption, BlocksInv, BannedInv, LinkInv, NetInv, TallyInv, NEW d \in Dials, Connect(d)
  PROVE  TallyInv'
<1> DEFINE b == Back(d)
<1>1. /\ d \in Ends /\ b \in Ends /\ b # d /\ Back(b) = d
      /\ net'[d] = <<Version(d[1])>> /\ net'[b] = <<>>
  BY Connected
<1>2. score'[d] = 0 /\ score'[b] = 0 /\ pinged'[d] = FALSE /\ pinged'[b] = FALSE  BY Connected
<1>3. banned' = banned  BY DEF Connect, nodeVars
<1>4. Version(d[1]).type = "version"  BY <1>1, EndFacts, VersionSendable
<1> HIDE DEF b
<1>5. ASSUME NEW x \in Ends PROVE Tally(net'[x], pinged'[x], score'[Back(x)], x[1] \in banned'[x[2]])
  <2>1. CASE x = d
    <3>1. Back(x) = b  BY <2>1 DEF b
    <3> DEFINE is == x[1] \in banned'[x[2]]
               m == Version(d[1])
    <3>2. m.type = "version" /\ net'[x] = <<m>>  BY <1>1, <1>4, <2>1
    <3> HIDE DEF is, m
    <3>3. Tally(<<m>>, FALSE, 0, is)  BY <3>2, TallyNew
    <3>4. Tally(net'[x], pinged'[x], score'[Back(x)], is)  BY <1>2, <2>1, <3>1, <3>2, <3>3
    <3>5. QED  BY <3>4 DEF is
  <2>2. CASE x = b
    <3>1. Back(x) = d  BY <1>1, <2>2
    <3>2. QED  BY <1>1, <1>2, <2>2, <3>1, TallyNew
  <2>3. CASE x # d /\ x # b
    <3>1. Back(x) # d /\ Back(x) # b /\ Back(x) \in Ends  BY <1>1, <2>3, EndFacts
    <3>2. net'[x] = net[x] /\ pinged'[x] = pinged[x]  BY <2>3, Unconnected DEF b
    <3>3. score'[Back(x)] = score[Back(x)]  BY <3>1, Unconnected DEF b
    <3>4. QED  BY <1>3, <3>2, <3>3, TallyOf
  <2>4. QED  BY <2>1, <2>2, <2>3
<1>6. QED  BY <1>5 DEF TallyInv

\* A connection that breaks costs nothing.
LEMMA BreakTally ==
  ASSUME SyncAssumption, LinkInv, BannedInv, NetInv, TallyInv, NEW d \in Dials, Break(d)
  PROVE  TallyInv'
<1> DEFINE b == Back(d)
<1>1. /\ \A x \in {d, b} : net'[x] = <<>>
      /\ \A x \in Ends : x # d /\ x # b => net'[x] = net[x]
  BY Broken
<1>2. score' = score /\ pinged' = pinged /\ banned' = banned  BY DEF Break
<1> HIDE DEF b
<1>3. ASSUME NEW x \in Ends PROVE Tally(net'[x], pinged'[x], score'[Back(x)], x[1] \in banned'[x[2]])
  <2> DEFINE was == x[1] \in banned[x[2]]
  <2>1. Tally(net[x], pinged[x], score[Back(x)], was)  BY TallyOf
  <2> HIDE DEF was
  <2>2. Tally(<<>>, pinged[x], score[Back(x)], was)  BY <2>1, TallyLost
  <2>3. net'[x] = net[x] \/ net'[x] = <<>>  BY <1>1
  <2>4. Tally(net'[x], pinged'[x], score'[Back(x)], was)  BY <1>2, <2>1, <2>2, <2>3
  <2>5. QED  BY <1>2, <2>4 DEF was
<1>4. QED  BY <1>3 DEF TallyInv

\* Nor does an announcement.
LEMMA AnnounceTally ==
  ASSUME SyncAssumption, BlocksInv, LinkInv, BannedInv, NetInv, TallyInv, NEW n \in Nodes, Announce(n)
  PROVE  TallyInv'
<1> DEFINE m == Inv(<<announcing[n]>>)
<1>1. score' = score /\ pinged' = pinged /\ banned' = banned  BY DEF Announce
<1>2. ASSUME NEW x \in Ends PROVE Tally(net'[x], pinged[x], score[Back(x)], x[1] \in banned[x[2]])
  <2>1. m \in Message /\ m.type = "inv" /\ (net'[x] = net[x] \/ net'[x] = Append(net[x], m))
    BY Announced
  <2> HIDE DEF m
  <2>2. /\ Tally(net[x], pinged[x], score[Back(x)], x[1] \in banned[x[2]])
        /\ net[x] \in Seq(Message) /\ score[Back(x)] \in Nat
    BY TallyOf
  <2>3. CASE net'[x] = net[x]  BY <2>2, <2>3
  <2>4. CASE net'[x] = Append(net[x], m)
    <3> DEFINE v == Append(net[x], m)
    <3>1. /\ v \in Seq(Message) /\ Longer(v, net[x])
          /\ Len(v) = Len(net[x]) + 1 /\ v[Len(net[x]) + 1] = m
      BY <2>1, <2>2, AppendLonger
    <3> HIDE DEF v
    <3>2. Len(net[x]) \in Nat  BY <2>2, LenProperties
    <3>3. \A i \in Len(net[x]) + 1 .. Len(v) : v[i].type # "ping"  BY <2>1, <3>1, <3>2
    <3>4. Tally(v, pinged[x], score[Back(x)], x[1] \in banned[x[2]])  BY <2>2, <3>1, <3>3, TallyMore
    <3>5. QED  BY <2>4, <3>4 DEF v
  <2>5. QED  BY <2>1, <2>3, <2>4
<1>3. QED  BY <1>1, <1>2 DEF TallyInv

\* Every step keeps the score.
LEMMA NextTallyInv ==
  ASSUME SyncAssumption
  PROVE  TypeInv /\ TypeInv' /\ WireInv /\ TallyInv /\ [Next]_vars => TallyInv'
<1> SUFFICES ASSUME TypeInv, TypeInv', WireInv, TallyInv, [Next]_vars PROVE TallyInv'  OBVIOUS
<1>0. BlocksInv /\ BannedInv /\ BannedInv' /\ LinkInv /\ NetInv /\ ThreadInv  BY DEF TypeInv
<1>a. UNCHANGED <<net, pinged, score, banned>> => TallyInv'  BY DEF TallyInv
<1>1. ASSUME NEW d \in Dials, Connect(d) PROVE TallyInv'  BY <1>0, <1>1, ConnectTally
<1>2. ASSUME NEW d \in Dials, Break(d) PROVE TallyInv'  BY <1>0, <1>2, BreakTally
<1>3. ASSUME NEW e \in Ends, EndOfStream(e) PROVE TallyInv'
  <2>1. /\ net' = [net EXCEPT ![Back(e)] = <<>>] /\ pinged' = pinged
        /\ banned' = banned /\ score' = score
    BY <1>3 DEF EndOfStream, Disconnect
  <2>2. QED  BY <1>0, <2>1, TallyAfterClose
<1>4. ASSUME NEW e \in Ends, ExceedRate(e) PROVE TallyInv'
  <2>1. net[Back(e)] # <<>> /\ Misbehave(e, BAN_SCORE_THRESHOLD) /\ pinged' = pinged
    BY <1>4 DEF ExceedRate
  <2>2. QED  BY <1>0, <2>1, Points, PenaltyTally
<1>5. ASSUME NEW e \in Ends, HandleVersion(e) PROVE TallyInv'
  <2>1. /\ net[Back(e)] # <<>> /\ net' = Exchange(e, Answer(e))
        /\ UNCHANGED <<banned, pinged, score>>
    BY <1>5 DEF HandleVersion, Delivered, nodeVars
  <2>2. /\ Answer(e) \in Seq(Message)
        /\ \A i \in 1 .. Len(Answer(e)) : Answer(e)[i].type # "ping"
    <3>1. /\ Answer(e) \in Seq(Message)
          /\ versionSent[e] => Len(Answer(e)) = 1
          /\ ~versionSent[e] => Len(Answer(e)) = 2 /\ Answer(e)[1].type = "version"
          /\ Answer(e)[Len(Answer(e))].type = "verack"
      BY <1>0, AnswerSendable
    <3>2. QED  BY <3>1
  <2>3. QED  BY <1>0, <2>1, <2>2, FreeTally
<1>6. ASSUME NEW e \in Ends, StartSync(e) PROVE TallyInv'
  <2>1. UNCHANGED <<pinged, score, banned>>  BY <1>6 DEF StartSync
  <2>2. net' = net \/ net' = [net EXCEPT ![e] = Append(@, GetBlocks(e[1]))]  BY <1>6 DEF StartSync
  <2>3. GetBlocks(e[1]) \in Message /\ GetBlocks(e[1]).type = "getblocks"
    BY <1>0, EndFacts, Sendable DEF GetBlocks, BlocksInv
  <2>4. QED  BY <1>0, <1>a, <2>1, <2>2, <2>3, TallyAfterSend
<1>7. ASSUME NEW e \in Ends, HandleVerack(e) PROVE TallyInv'
  <2>1. /\ net[Back(e)] # <<>> /\ net' = Exchange(e, <<[type |-> "getaddr"]>>)
        /\ UNCHANGED <<banned, pinged, score>>
    BY <1>7 DEF HandleVerack, Delivered, nodeVars
  <2>2. [type |-> "getaddr"] \in Message  BY Sendable
  <2>3. QED  BY <1>0, <2>1, <2>2, OneFreeTally
<1>8. ASSUME NEW e \in Ends, EarlyMessage(e) PROVE TallyInv'
  <2>1. /\ net[Back(e)] # <<>> /\ Head(net[Back(e)]).type \notin {"version", "verack"}
        /\ ~handshakeComplete[e] /\ Misbehave(e, EARLY_SCORE) /\ pinged' = pinged
    BY <1>8 DEF EarlyMessage, Delivered
  <2>2. Head(net[Back(e)]).type = "ping"  BY <1>0, <2>1, EarlyHead
  <2>3. QED  BY <1>0, <2>1, <2>2, Points, PenaltyTally
<1>9. ASSUME NEW e \in Ends, SendPing(e) PROVE TallyInv'
  <2>1. /\ pinged[e] = FALSE /\ pinged' = [pinged EXCEPT ![e] = TRUE]
        /\ UNCHANGED <<score, banned>>
    BY <1>0, <1>9 DEF SendPing, nodeVars, LinkInv
  <2>2. net' = net \/ net' = [net EXCEPT ![e] = Append(@, [type |-> "ping"])]  BY <1>9 DEF SendPing
  <2>3. [type |-> "ping"] \in Message  BY Sendable
  <2>4. pinged'[e] = TRUE /\ \A x \in Ends : x # e => pinged'[x] = pinged[x]
    BY <1>0, <2>1 DEF LinkInv
  <2>5. CASE net' = net
    <3>1. ASSUME NEW x \in Ends
          PROVE  Tally(net[x], pinged'[x], score[Back(x)], x[1] \in banned[x[2]])
      <4>1. Tally(net[x], pinged[x], score[Back(x)], x[1] \in banned[x[2]])  BY <1>0, TallyOf
      <4>2. pinged'[x] = pinged[x] \/ pinged'[x] = TRUE  BY <2>4
      <4>3. QED  BY <4>1, <4>2 DEF Tally
    <3>2. QED  BY <2>1, <2>5, <3>1 DEF TallyInv
  <2>6. CASE net' = [net EXCEPT ![e] = Append(@, [type |-> "ping"])]
    BY <1>0, <2>1, <2>3, <2>4, <2>6, TallyAfterSend
  <2>7. QED  BY <2>2, <2>5, <2>6
<1>10. ASSUME NEW e \in Ends, HandlePing(e) PROVE TallyInv'
  <2>1. /\ net[Back(e)] # <<>> /\ net' = Exchange(e, <<[type |-> "pong"]>>)
        /\ UNCHANGED <<banned, pinged, score>>
    BY <1>10 DEF HandlePing, Dispatched, Delivered, nodeVars
  <2>2. [type |-> "pong"] \in Message  BY Sendable
  <2>3. QED  BY <1>0, <2>1, <2>2, OneFreeTally
<1>11. ASSUME NEW e \in Ends, HandleOther(e) PROVE TallyInv'
  <2>1. /\ net[Back(e)] # <<>> /\ net' = Exchange(e, <<>>) /\ UNCHANGED <<banned, pinged, score>>
    BY <1>11 DEF HandleOther, Dispatched, Delivered, nodeVars
  <2>2. QED  BY <1>0, <2>1, OneFreeTally
<1>12. ASSUME NEW e \in Ends, HandleGetBlocks(e) PROVE TallyInv'
  <2>1. /\ net[Back(e)] # <<>> /\ net' = Exchange(e, <<>>) /\ UNCHANGED <<banned, pinged, score>>
    BY <1>12 DEF HandleGetBlocks, Dispatched, Delivered
  <2>2. QED  BY <1>0, <2>1, OneFreeTally
<1>13. ASSUME NEW e \in Ends, SendInv(e) PROVE TallyInv'
  <2>1. UNCHANGED <<pinged, score, banned>>  BY <1>13 DEF SendInv, nodeVars
  <2>2. net' = net \/ net' = [net EXCEPT ![e] = Append(@, Inv(gathered[e]))]  BY <1>13 DEF SendInv
  <2>3. Inv(gathered[e]) \in Message /\ Inv(gathered[e]).type = "inv"
    BY <1>0, Sendable DEF Inv, ThreadInv
  <2>4. QED  BY <1>0, <1>a, <2>1, <2>2, <2>3, TallyAfterSend
<1>14. ASSUME NEW e \in Ends, HandleInv(e) PROVE TallyInv'
  <2> DEFINE m == [type |-> "getdata", hashes |-> Head(net[Back(e)]).hashes]
  <2>1. /\ net[Back(e)] # <<>> /\ Head(net[Back(e)]).type = "inv" /\ net' = Exchange(e, <<m>>)
        /\ UNCHANGED <<banned, pinged, score>>
    BY <1>14 DEF HandleInv, Dispatched, Delivered, nodeVars
  <2>2. m \in Message /\ m.type = "getdata"  BY <1>0, <2>1, HeadMessage, MessageFacts, Sendable
  <2> HIDE DEF m
  <2>3. QED  BY <1>0, <2>1, <2>2, OneFreeTally
<1>15. ASSUME NEW e \in Ends, HandleGetData(e) PROVE TallyInv'
  <2> DEFINE found == Only(Head(net[Back(e)]).hashes, Stored(e[1]))
             msgs == [i \in DOMAIN found |-> [type |-> "block", block |-> found[i]]]
  <2>1. /\ net[Back(e)] # <<>> /\ Head(net[Back(e)]).type = "getdata" /\ net' = Exchange(e, msgs)
        /\ UNCHANGED <<banned, pinged, score>>
    BY <1>15 DEF HandleGetData, Dispatched, Delivered, nodeVars
  <2>2. msgs \in Seq(Message) /\ \A i \in 1 .. Len(msgs) : msgs[i].type = "block"
    <3>1. Head(net[Back(e)]).hashes \in Seq(Block)  BY <1>0, <2>1, HeadMessage, MessageFacts
    <3>2. e[1] \in Nodes /\ chain[e[1]] \in Block \cup {<<>>}  BY <1>0, EndFacts DEF BlocksInv
    <3>3. QED  BY <3>1, <3>2, BlocksFound
  <2> HIDE DEF msgs
  <2>3. QED  BY <1>0, <2>1, <2>2, FreeTally
<1>16. ASSUME NEW e \in Ends, HandleBlock(e) PROVE TallyInv'
  <2>1. net[Back(e)] # <<>> /\ pinged' = pinged
    BY <1>16 DEF HandleBlock, Dispatched, Delivered
  <2>2. \/ Misbehave(e, BAN_SCORE_THRESHOLD)
        \/ net' = Exchange(e, <<>>) /\ UNCHANGED <<banned, score>>
    BY <1>16 DEF HandleBlock, StoresBlock
  <2>3. QED  BY <1>0, <2>1, <2>2, Points, PenaltyTally, OneFreeTally
<1>17. ASSUME NEW n \in Nodes, StartMining(n) PROVE TallyInv'
  BY <1>a, <1>17 DEF StartMining, endVars
<1>18. ASSUME NEW n \in Nodes, StoreMined(n) PROVE TallyInv'
  BY <1>a, <1>18 DEF StoreMined, endVars
<1>19. ASSUME NEW n \in Nodes, Announce(n) PROVE TallyInv'  BY <1>0, <1>19, AnnounceTally
<1>20. CASE UNCHANGED vars  BY <1>a, <1>20 DEF vars, nodeVars, endVars
<1>21. Miners \subseteq Nodes  BY DEF SyncAssumption
<1>22. QED
  BY <1>1, <1>2, <1>3, <1>4, <1>5, <1>6, <1>7, <1>8, <1>9, <1>10, <1>11, <1>12, <1>13, <1>14,
     <1>15, <1>16, <1>17, <1>18, <1>19, <1>20, <1>21 DEF Next, ReaderStep

\* A node that follows the protocol is not punished for being fast, whatever the
\* interleaving of its readers, its miner and its monitor.
THEOREM NobodyIsEarly == Spec => []NoEarlyMessages
<1> DEFINE I == TypeInv /\ WireInv /\ ReaderInv /\ TallyInv
<1>1. Init => I  BY SyncAssumption, InitTypeInv, InitWireInv, InitTallyInv
<1>2. I /\ [Next]_vars => I'
  <2> SUFFICES ASSUME I, [Next]_vars PROVE I'  OBVIOUS
  <2>1. TypeInv'  BY SyncAssumption, NextTypeInv
  <2>2. WireInv'  BY SyncAssumption, NextWireInv
  <2>3. ReaderInv'  BY SyncAssumption, NextReaderInv
  <2>4. TallyInv'  BY <2>1, SyncAssumption, NextTallyInv
  <2>5. QED  BY <2>1, <2>2, <2>3, <2>4
<1>3. I => NoEarlyMessages
  <2> SUFFICES ASSUME I PROVE NoEarlyMessages  OBVIOUS
  <2>0. BannedInv /\ LinkInv /\ NetInv  BY DEF TypeInv
  <2>1. ASSUME NEW e \in Ends, e[2] \notin banned[e[1]] PROVE score[e] <= EARLY_SCORE
    <3>1. Back(e) \in Ends /\ Back(Back(e)) = e /\ Back(e)[1] = e[2] /\ Back(e)[2] = e[1]
      BY SyncAssumption, EndFacts
    <3>2. score[e] # 0 => score[e] = EARLY_SCORE  BY <2>1, <3>1 DEF TallyInv, Tally
    <3>3. score[e] \in Nat /\ EARLY_SCORE \in Nat  BY <2>0, SyncAssumption, Points DEF BannedInv
    <3>4. QED  BY <3>2, <3>3
  <2>2. ASSUME NEW e \in Ends, net[Back(e)] # <<>>, ~handshakeComplete[e]
        PROVE  Head(net[Back(e)]).type \in {"version", "verack", "ping"}
    BY <2>0, <2>2, SyncAssumption, EarlyHead
  <2>3. QED  BY <2>1, <2>2 DEF NoEarlyMessages
<1>4. QED  BY <1>1, <1>2, <1>3, PTL DEF Spec

-----------------------------------------------------------------------------
(***************************************************************************)
(* The synchronisation                                                     *)
(***************************************************************************)

\* The wire that an end sends on, that of the other end, and its request.
LEMMA AskOf ==
  ASSUME SyncAssumption, NetInv, AskInv, NEW x \in Ends
  PROVE  /\ Ask(net[x], net[Back(x)], remoteHeight[x], reader[x], IsSyncPeer(x))
         /\ net[x] \in Seq(Message) /\ net[Back(x)] \in Seq(Message)
BY EndFacts DEF NetInv, AskInv

\* The peer that a node synchronises with depends on nothing else.
LEMMA SamePeer ==
  ASSUME UNCHANGED <<syncing, syncPeerAddr, dialled>>, NEW x \in Ends
  PROVE  IsSyncPeer(x)' = IsSyncPeer(x)
BY DEF IsSyncPeer, RemoteAddress

\* A node synchronises with one peer.
LEMMA OnePeer ==
  ASSUME SyncAssumption, NEW x \in Ends, NEW y \in Ends, x[1] = y[1], IsSyncPeer(x), IsSyncPeer(y)
  PROVE  x = y
<1>1. RemoteAddress(x) = RemoteAddress(y)  BY DEF IsSyncPeer
<1>2. RemoteAddress(x)[1] = x[2] /\ RemoteAddress(y)[1] = y[2]  BY DEF RemoteAddress
<1>3. x[2] = y[2]  BY <1>1, <1>2
<1>4. x = <<x[1], x[2]>> /\ y = <<y[1], y[2]>>  BY EndFacts
<1>5. QED  BY <1>3, <1>4

\* What has been put behind a list.
LEMMA ConcatHas ==
  ASSUME NEW w \in Seq(Message), NEW r \in Seq(Message), NEW type, Has(w \o r, type)
  PROVE  Has(w, type) \/ \E i \in 1 .. Len(r) : r[i].type = type
<1> DEFINE v == w \o r
<1>1. /\ v \in Seq(Message) /\ Longer(v, w)
      /\ \A i \in Len(w) + 1 .. Len(v) : i - Len(w) \in 1 .. Len(r) /\ v[i] = r[i - Len(w)]
  BY ConcatLonger
<1>2. PICK i \in 1 .. Len(v) : v[i].type = type  BY DEF Has
<1> HIDE DEF v
<1>3. /\ \A j \in 1 .. Len(w) : v[j] = w[j]
      /\ i \in 1 .. Len(w) \/ i \in Len(w) + 1 .. Len(v)
  BY <1>1, SentBehind
<1>4. CASE i \in 1 .. Len(w)  BY <1>2, <1>3, <1>4 DEF Has
<1>5. CASE i \in Len(w) + 1 .. Len(v)  BY <1>1, <1>2, <1>5
<1>6. QED  BY <1>3, <1>4, <1>5

\* One message more.
LEMMA AppendHas ==
  ASSUME NEW w \in Seq(Message), NEW m \in Message, NEW type, Has(Append(w, m), type)
  PROVE  Has(w, type) \/ m.type = type
<1> DEFINE v == Append(w, m)
<1>1. v \in Seq(Message) /\ Longer(v, w) /\ Len(v) = Len(w) + 1 /\ v[Len(w) + 1] = m
  BY AppendLonger
<1>2. PICK i \in 1 .. Len(v) : v[i].type = type  BY DEF Has
<1> HIDE DEF v
<1>3. Len(w) \in Nat /\ \A j \in 1 .. Len(w) : v[j] = w[j]  BY <1>1, SentBehind
<1>4. CASE i = Len(w) + 1  BY <1>1, <1>2, <1>4
<1>5. CASE i # Len(w) + 1
  <2>1. i \in 1 .. Len(w)  BY <1>1, <1>3, <1>5
  <2>2. QED  BY <1>2, <1>3, <2>1 DEF Has
<1>6. QED  BY <1>4, <1>5

\* An empty list has no message.
LEMMA NoneHas == \A type : ~Has(<<>>, type)
<1>1. Len(<<>>) = 0  BY EmptySeq
<1>2. QED  BY <1>1 DEF Has

\* Without a request it does not matter which peer was chosen.
LEMMA NoRequest ==
  ASSUME NEW w, NEW back, NEW heard, NEW at, NEW chosen, Ask(w, back, heard, at, chosen),
         ~chosen \/ Has(back, "block")
  PROVE  ~Has(w, "getblocks")
BY DEF Ask, Has

\* A reader has read a message and has sent others, but no request for blocks.
LEMMA AskAfterRead ==
  ASSUME SyncAssumption, NetInv, AskInv, NEW a \in Ends, net[Back(a)] # <<>>,
         NEW msgs \in Seq(Message), net' = Exchange(a, msgs),
         \A i \in 1 .. Len(msgs) : /\ msgs[i].type # "getblocks"
                                   /\ msgs[i].type = "block" => Head(net[Back(a)]).type = "getdata",
         \A x \in Ends : x # a => remoteHeight'[x] = remoteHeight[x] /\ reader'[x] = reader[x],
         remoteHeight'[a] = -1 \/ reader'[a] = "behind" =>
           /\ remoteHeight[a] = -1 \/ reader[a] = "behind"
           /\ \A i \in 1 .. Len(msgs) : msgs[i].type # "getdata",
         NEW x \in Ends
  PROVE  Ask(net'[x], net'[Back(x)], remoteHeight'[x], reader'[x], IsSyncPeer(x))
<1> DEFINE b == Back(a)
<1>1. b \in Ends /\ b # a /\ Back(b) = a  BY EndFacts
<1>2. /\ net'[b] = Tail(net[b]) /\ net'[a] = IF open[b] THEN net[a] \o msgs ELSE net[a]
      /\ \A y \in Ends : y # a /\ y # b => net'[y] = net[y]
  BY ExchangeNet
<1>3. net[a] \in Seq(Message) /\ net[b] \in Seq(Message)  BY AskOf
<1>4. net[b] # <<>>  OBVIOUS
<1>5. Has(net'[a], "block") => Has(net[a], "block") \/ Head(net[b]).type = "getdata"
  <2>1. Has(net[a] \o msgs, "block") =>
          Has(net[a], "block") \/ \E i \in 1 .. Len(msgs) : msgs[i].type = "block"
    BY <1>3, ConcatHas
  <2>2. QED  BY <1>2, <2>1
<1>6. Has(Tail(net[b]), "block") => Has(net[b], "block")  BY <1>3, <1>4, ReadHas
<1> HIDE DEF b
<1>7. CASE x = b
  <2>1. Ask(net[b], net[a], remoteHeight[b], reader[b], IsSyncPeer(b))  BY <1>1, AskOf
  <2>2. Ask(Tail(net[b]), net'[a], remoteHeight[b], reader[b], IsSyncPeer(b))
    BY <1>3, <1>4, <1>5, <2>1, AskServed
  <2>3. remoteHeight'[b] = remoteHeight[b] /\ reader'[b] = reader[b]  BY <1>1
  <2>4. QED  BY <1>1, <1>2, <1>7, <2>2, <2>3
<1>8. CASE x = a
  <2>1. Ask(net[a], net[b], remoteHeight[a], reader[a], IsSyncPeer(a))  BY AskOf DEF b
  <2> DEFINE v == net'[a]
             heard == remoteHeight'[a]
             at == reader'[a]
             back == Tail(net[b])
  <2>2. /\ v \in Seq(Message) /\ Longer(v, net[a])
        /\ \A i \in Len(net[a]) + 1 .. Len(v) : \E j \in 1 .. Len(msgs) : v[i] = msgs[j]
    <3>1. CASE open[b]
      <4>1. v = net[a] \o msgs  BY <1>2, <3>1
      <4>2. QED  BY <1>3, <4>1, ConcatLonger
    <3>2. CASE ~open[b]
      <4>1. v = net[a]  BY <1>2, <3>2
      <4>2. Longer(net[a], net[a]) /\ Len(net[a]) \in Nat  BY <1>3, LenProperties DEF Longer
      <4>3. \A i \in Len(net[a]) + 1 .. Len(net[a]) : FALSE  BY <4>2
      <4>4. QED  BY <1>3, <4>1, <4>2, <4>3
    <3>3. QED  BY <3>1, <3>2
  <2>3. \A i \in Len(net[a]) + 1 .. Len(v) : v[i].type # "getblocks"  BY <2>2
  <2>4. heard = -1 \/ at = "behind" =>
          /\ remoteHeight[a] = -1 \/ reader[a] = "behind"
          /\ \A i \in Len(net[a]) + 1 .. Len(v) : v[i].type # "getdata"
    BY <2>2
  <2>5. Has(back, "block") => Has(net[b], "block")  BY <1>6
  <2>6. net'[b] = back  BY <1>2
  <2> HIDE DEF v, heard, at, back
  <2>7. Ask(v, back, heard, at, IsSyncPeer(a))  BY <1>3, <2>1, <2>2, <2>3, <2>4, <2>5, AskMore
  <2>8. Back(x) = b  BY <1>8 DEF b
  <2>9. QED  BY <1>8, <2>6, <2>7, <2>8 DEF v, heard, at
<1>9. CASE x # a /\ x # b
  <2>1. Back(x) # a /\ Back(x) # b /\ Back(x) \in Ends  BY <1>1, <1>9, EndFacts
  <2>2. net'[x] = net[x] /\ net'[Back(x)] = net[Back(x)]  BY <1>2, <1>9, <2>1
  <2>3. remoteHeight'[x] = remoteHeight[x] /\ reader'[x] = reader[x]  BY <1>9
  <2>4. QED  BY <2>2, <2>3, AskOf
<1>10. QED  BY <1>7, <1>8, <1>9

\* An end has been closed.
LEMMA AskAfterClose ==
  ASSUME SyncAssumption, NetInv, AskInv, NEW a \in Ends, net' = [net EXCEPT ![Back(a)] = <<>>],
         UNCHANGED <<syncing, syncPeerAddr, dialled, remoteHeight, reader>>
  PROVE  AskInv'
<1> DEFINE b == Back(a)
<1>1. b \in Ends /\ b # a /\ Back(b) = a  BY EndFacts
<1>2. net'[b] = <<>> /\ \A x \in Ends : x # b => net'[x] = net[x]  BY <1>1 DEF NetInv
<1>3. remoteHeight' = remoteHeight /\ reader' = reader  OBVIOUS
<1> HIDE DEF b
<1>4. ASSUME NEW x \in Ends
      PROVE  Ask(net'[x], net'[Back(x)], remoteHeight[x], reader[x], IsSyncPeer(x))
  <2>1. Ask(net[x], net[Back(x)], remoteHeight[x], reader[x], IsSyncPeer(x)) /\ Back(x) \in Ends
    BY AskOf, EndFacts
  <2>2. net'[Back(x)] = <<>> \/ net'[Back(x)] = net[Back(x)]  BY <1>2, <2>1
  <2>3. Has(net'[Back(x)], "block") => Has(net[Back(x)], "block")  BY <2>2, NoneHas
  <2>4. CASE x = b
    <3>1. Ask(<<>>, net'[Back(x)], remoteHeight[x], reader[x], IsSyncPeer(x))
      BY <2>1, <2>3, AskLost
    <3>2. QED  BY <1>2, <2>4, <3>1
  <2>5. CASE x # b
    <3>1. Ask(net[x], net'[Back(x)], remoteHeight[x], reader[x], IsSyncPeer(x))
      BY <2>1, <2>3, AskLess
    <3>2. QED  BY <1>2, <2>5, <3>1
  <2>6. QED  BY <2>4, <2>5
<1>5. QED  BY <1>3, <1>4, SamePeer DEF AskInv

\* Ends have sent a message each, or none: neither a request nor a block.
LEMMA AskAfterSend ==
  ASSUME SyncAssumption, NetInv, AskInv, NEW m \in Message,
         m.type \notin {"getblocks", "getdata", "block"},
         \A x \in Ends : net'[x] = net[x] \/ net'[x] = Append(net[x], m),
         UNCHANGED <<syncing, syncPeerAddr, dialled, remoteHeight>>,
         \A x \in Ends : reader'[x] = reader[x] \/ reader'[x] = "reading"
  PROVE  AskInv'
<1>1. remoteHeight' = remoteHeight  OBVIOUS
<1>2. ASSUME NEW x \in Ends
      PROVE  Ask(net'[x], net'[Back(x)], remoteHeight[x], reader'[x], IsSyncPeer(x))
  <2>1. /\ Ask(net[x], net[Back(x)], remoteHeight[x], reader[x], IsSyncPeer(x))
        /\ net[x] \in Seq(Message) /\ net[Back(x)] \in Seq(Message) /\ Back(x) \in Ends
    BY AskOf, EndFacts
  <2>2. Has(net'[Back(x)], "block") => Has(net[Back(x)], "block")
    <3>1. net'[Back(x)] = net[Back(x)] \/ net'[Back(x)] = Append(net[Back(x)], m)  BY <2>1
    <3>2. Has(Append(net[Back(x)], m), "block") => Has(net[Back(x)], "block") \/ m.type = "block"
      BY <2>1, AppendHas
    <3>3. QED  BY <3>1, <3>2
  <2> DEFINE v == net'[x]
             at == reader'[x]
             back == net'[Back(x)]
  <2>3. /\ v \in Seq(Message) /\ Longer(v, net[x])
        /\ \A i \in Len(net[x]) + 1 .. Len(v) : v[i] = m
    <3>1. Len(net[x]) \in Nat  BY <2>1, LenProperties
    <3>2. CASE v = net[x]
      <4>1. Longer(net[x], net[x]) /\ \A i \in Len(net[x]) + 1 .. Len(net[x]) : FALSE
        BY <3>1 DEF Longer
      <4>2. QED  BY <2>1, <3>2, <4>1
    <3>3. CASE v = Append(net[x], m)
      <4> HIDE DEF v
      <4>1. /\ v \in Seq(Message) /\ Longer(v, net[x])
            /\ Len(v) = Len(net[x]) + 1 /\ v[Len(net[x]) + 1] = m
        BY <2>1, <3>3, AppendLonger
      <4>2. QED  BY <3>1, <4>1
    <3>4. QED  BY <3>2, <3>3
  <2>4. at = "behind" => reader[x] = "behind"  OBVIOUS
  <2> HIDE DEF v, at, back
  <2>5. Has(back, "block") => Has(net[Back(x)], "block")  BY <2>2 DEF back
  <2>6. \A i \in Len(net[x]) + 1 .. Len(v) : v[i].type # "getblocks" /\ v[i].type # "getdata"
    BY <2>3
  <2>7. Ask(v, back, remoteHeight[x], at, IsSyncPeer(x))
    BY <2>1, <2>3, <2>4, <2>5, <2>6, AskMore
  <2>8. QED  BY <2>7 DEF v, at, back
<1>3. QED  BY <1>1, <1>2, SamePeer DEF AskInv

\* Nothing has been asked for to begin with.
LEMMA InitAskInv == ASSUME SyncAssumption PROVE Init => AskInv
<1> SUFFICES ASSUME Init PROVE AskInv  OBVIOUS
<1>1. \A e \in Ends : Back(e) \in Ends  BY EndFacts
<1>2. \A e \in Ends : net[e] = <<>> /\ remoteHeight[e] = -1  BY DEF Init, Empty
<1>3. QED  BY <1>1, <1>2, AskNew DEF AskInv

\* Nor over a new connection.
LEMMA ConnectAsk ==
  ASSUME SyncAssumption, BlocksInv, LinkInv, NetInv, AskInv, NEW d \in Dials, Connect(d)
  PROVE  AskInv'
<1> DEFINE b == Back(d)
           m == Version(d[1])
<1>1. d \in Ends /\ b \in Ends /\ b # d /\ Back(b) = d /\ net'[d] = <<m>> /\ net'[b] = <<>>
  BY Connected
<1>2. remoteHeight'[d] = -1 /\ remoteHeight'[b] = -1  BY Connected
<1>3. reader' = reader /\ syncing' = syncing /\ syncPeerAddr' = syncPeerAddr
  BY DEF Connect, nodeVars
<1>4. m.type = "version"  BY <1>1, EndFacts, VersionSendable
<1> HIDE DEF b, m
<1>5. ASSUME NEW chosen, NEW at
      PROVE  Ask(<<m>>, <<>>, -1, at, chosen) /\ Ask(<<>>, <<m>>, -1, at, chosen)
  BY <1>4, AskNew
<1>6. ASSUME NEW x \in Ends
      PROVE  Ask(net'[x], net'[Back(x)], remoteHeight'[x], reader[x], IsSyncPeer(x)')
  <2> DEFINE chosen == IsSyncPeer(x)'
  <2>1. CASE x = d
    <3>1. Back(x) = b  BY <2>1 DEF b
    <3> HIDE DEF chosen
    <3>2. Ask(net'[x], net'[Back(x)], remoteHeight'[x], reader[x], chosen)
      BY <1>1, <1>2, <1>5, <2>1, <3>1
    <3>3. QED  BY <3>2 DEF chosen
  <2>2. CASE x = b
    <3>1. Back(x) = d  BY <1>1, <2>2
    <3> HIDE DEF chosen
    <3>2. Ask(net'[x], net'[Back(x)], remoteHeight'[x], reader[x], chosen)
      BY <1>1, <1>2, <1>5, <2>2, <3>1
    <3>3. QED  BY <3>2 DEF chosen
  <2>3. CASE x # d /\ x # b
    <3>1. Back(x) # d /\ Back(x) # b /\ Back(x) \in Ends  BY <1>1, <2>3, EndFacts
    <3>2. net'[x] = net[x] /\ remoteHeight'[x] = remoteHeight[x] /\ dialled'[x] = dialled[x]
      BY <2>3, Unconnected DEF b
    <3>3. net'[Back(x)] = net[Back(x)]  BY <3>1, Unconnected DEF b
    <3>4. chosen = IsSyncPeer(x)  BY <1>3, <3>2 DEF IsSyncPeer, RemoteAddress
    <3> HIDE DEF chosen
    <3>5. Ask(net'[x], net'[Back(x)], remoteHeight'[x], reader[x], chosen)
      BY <3>2, <3>3, <3>4, AskOf
    <3>6. QED  BY <3>5 DEF chosen
  <2>4. QED  BY <2>1, <2>2, <2>3
<1>7. QED  BY <1>3, <1>6 DEF AskInv

\* Nor over one that breaks.
LEMMA BreakAsk ==
  ASSUME SyncAssumption, LinkInv, NetInv, AskInv, NEW d \in Dials, Break(d)
  PROVE  AskInv'
<1> DEFINE b == Back(d)
<1>1. /\ d \in Ends /\ b \in Ends /\ b # d /\ Back(b) = d
      /\ \A x \in {d, b} : net'[x] = <<>>
      /\ \A x \in Ends : x # d /\ x # b => net'[x] = net[x]
  BY Broken
<1>2. remoteHeight' = remoteHeight /\ reader' = reader
      /\ UNCHANGED <<syncing, syncPeerAddr, dialled>>
  BY DEF Break
<1> HIDE DEF b
<1>3. ASSUME NEW x \in Ends
      PROVE  Ask(net'[x], net'[Back(x)], remoteHeight[x], reader[x], IsSyncPeer(x))
  <2>1. Ask(net[x], net[Back(x)], remoteHeight[x], reader[x], IsSyncPeer(x)) /\ Back(x) \in Ends
    BY AskOf, EndFacts
  <2>2. net'[Back(x)] = <<>> \/ net'[Back(x)] = net[Back(x)]  BY <1>1, <2>1
  <2>3. Has(net'[Back(x)], "block") => Has(net[Back(x)], "block")  BY <2>2, NoneHas
  <2>4. CASE net'[x] = <<>>
    <3>1. Ask(<<>>, net'[Back(x)], remoteHeight[x], reader[x], IsSyncPeer(x))
      BY <2>1, <2>3, AskLost
    <3>2. QED  BY <2>4, <3>1
  <2>5. CASE net'[x] = net[x]
    <3>1. Ask(net[x], net'[Back(x)], remoteHeight[x], reader[x], IsSyncPeer(x))
      BY <2>1, <2>3, AskLess
    <3>2. QED  BY <2>5, <3>1
  <2>6. QED  BY <1>1, <2>4, <2>5
<1>4. QED  BY <1>2, <1>3, SamePeer DEF AskInv

\* A synchronisation begins when no request of the node is on the way.
LEMMA StartAsk ==
  ASSUME SyncAssumption, BlocksInv, SyncingInv, LinkInv, NetInv, ThreadInv, AskInv,
         NEW e \in Ends, StartSync(e)
  PROVE  AskInv'
<1> DEFINE n == e[1]
           m == GetBlocks(n)
<1>1. n \in Nodes /\ Back(e) \in Ends /\ Back(e) # e  BY EndFacts
<1>2. /\ reader[e] = "behind" /\ reader' = [reader EXCEPT ![e] = "reading"]
      /\ remoteHeight' = remoteHeight /\ dialled' = dialled
  BY DEF StartSync
<1>3. m \in Message /\ m.type = "getblocks"
  BY <1>1, Sendable DEF GetBlocks, BlocksInv
<1>4. /\ reader'[e] = "reading" /\ \A x \in Ends : x # e => reader'[x] = reader[x]
  BY <1>2 DEF ThreadInv
<1>5. CASE syncing[n]
  <2>1. net' = net /\ UNCHANGED <<syncing, syncPeerAddr, dialled, remoteHeight>>
    BY <1>2, <1>5 DEF StartSync
  <2>2. [type |-> "ping"] \in Message  BY Sendable
  <2> DEFINE p == [type |-> "ping"]
  <2>3. p \in Message /\ p.type \notin {"getblocks", "getdata", "block"}  BY <2>2
  <2> HIDE DEF p
  <2>4. QED  BY <1>4, <2>1, <2>3, AskAfterSend
<1>6. CASE ~syncing[n]
  <2>1. /\ syncing' = [syncing EXCEPT ![n] = TRUE]
        /\ syncPeerAddr' = [syncPeerAddr EXCEPT ![n] = RemoteAddress(e)]
        /\ \/ net' = net
           \/ net' = [net EXCEPT ![e] = Append(@, m)]
    BY <1>6 DEF StartSync
  <2> HIDE DEF m
  <2>2. /\ net'[e] = net[e] \/ net'[e] = Append(net[e], m)
        /\ \A x \in Ends : x # e => net'[x] = net[x]
    BY <2>1 DEF NetInv
  <2>3. ASSUME NEW x \in Ends, x[1] = n PROVE ~Has(net[x], "getblocks")
    <3>1. ~IsSyncPeer(x)  BY <1>6, <2>3 DEF IsSyncPeer
    <3>2. Ask(net[x], net[Back(x)], remoteHeight[x], reader[x], IsSyncPeer(x))  BY AskOf
    <3>3. QED  BY <3>1, <3>2, NoRequest
  <2>4. ASSUME NEW x \in Ends
        PROVE  Ask(net'[x], net'[Back(x)], remoteHeight[x], reader'[x], IsSyncPeer(x)')
    <3> DEFINE now == IsSyncPeer(x)'
    <3>1. /\ Ask(net[x], net[Back(x)], remoteHeight[x], reader[x], IsSyncPeer(x))
          /\ net[x] \in Seq(Message) /\ net[Back(x)] \in Seq(Message) /\ Back(x) \in Ends
          /\ x[1] \in Nodes /\ x = <<x[1], x[2]>> /\ Back(Back(x)) = x /\ Back(x)[1] = x[2]
          /\ x[1] # x[2]
      BY AskOf, EndFacts
    <3>2. CASE x = e
      <4>1. net'[Back(x)] = net[Back(x)]  BY <1>1, <2>2, <3>2
      <4>2. ~Has(net[x], "getblocks")  BY <2>3, <3>2
      <4>3. CASE net'[x] = net[x]
        <5> HIDE DEF now
        <5>1. Ask(net[x], net[Back(x)], remoteHeight[x], "reading", now)
          BY <3>1, <4>2, AskFree
        <5>2. Ask(net'[x], net'[Back(x)], remoteHeight[x], reader'[x], now)
          BY <1>4, <3>2, <4>1, <4>3, <5>1
        <5>3. QED  BY <5>2 DEF now
      <4>4. CASE net'[x] = Append(net[x], m)
        <5> DEFINE v == Append(net[x], m)
        <5>1. /\ v \in Seq(Message) /\ Longer(v, net[x])
              /\ Len(v) = Len(net[x]) + 1 /\ v[Len(net[x]) + 1] = m
          BY <1>3, <3>1, AppendLonger
        <5>2. now = TRUE
          <6>1. syncing'[n] = TRUE /\ syncPeerAddr'[n] = RemoteAddress(e)
            BY <1>1, <2>1 DEF SyncingInv
          <6>2. RemoteAddress(e)' = RemoteAddress(e)  BY <1>2 DEF RemoteAddress
          <6>3. QED  BY <3>2, <6>1, <6>2 DEF IsSyncPeer
        <5> HIDE DEF v, now
        <5>3. v[Len(net[x]) + 1].type = "getblocks"  BY <1>3, <5>1
        <5>4. Ask(net[x], net[Back(x)], remoteHeight[x], "behind", IsSyncPeer(x))
          BY <1>2, <3>1, <3>2
        <5>5. Ask(v, net[Back(x)], remoteHeight[x], "reading", TRUE)
          BY <3>1, <4>2, <5>1, <5>3, <5>4, AskBegins
        <5>6. Ask(net'[x], net'[Back(x)], remoteHeight[x], reader'[x], now)
          BY <1>4, <3>2, <4>1, <4>4, <5>2, <5>5 DEF v
        <5>7. QED  BY <5>6 DEF now
      <4>5. QED  BY <2>2, <3>2, <4>3, <4>4
    <3>3. CASE x # e /\ x[1] = n
      <4>1. Back(x) # e  BY <3>1, <3>3
      <4>2. /\ net'[x] = net[x] /\ net'[Back(x)] = net[Back(x)] /\ reader'[x] = reader[x]
            /\ ~Has(net[x], "getblocks")
        BY <1>4, <2>2, <2>3, <3>1, <3>3, <4>1
      <4> HIDE DEF now
      <4>3. Ask(net[x], net[Back(x)], remoteHeight[x], reader[x], now)
        BY <3>1, <4>2, AskFree
      <4>4. Ask(net'[x], net'[Back(x)], remoteHeight[x], reader'[x], now)  BY <4>2, <4>3
      <4>5. QED  BY <4>4 DEF now
    <3>4. CASE x[1] # n
      <4>1. x # e  BY <3>4
      <4>2. net'[x] = net[x] /\ reader'[x] = reader[x]  BY <1>4, <2>2, <4>1
      <4>3. Has(net'[Back(x)], "block") => Has(net[Back(x)], "block")
        <5>1. Has(Append(net[Back(x)], m), "block") => Has(net[Back(x)], "block") \/ m.type = "block"
          BY <1>3, <3>1, AppendHas
        <5>2. net'[Back(x)] = net[Back(x)] \/ net'[Back(x)] = Append(net[Back(x)], m)
          BY <2>2, <3>1
        <5>3. QED  BY <1>3, <5>1, <5>2
      <4>4. now = IsSyncPeer(x)
        <5>1. syncing'[x[1]] = syncing[x[1]] /\ syncPeerAddr'[x[1]] = syncPeerAddr[x[1]]
          BY <1>1, <2>1, <3>1, <3>4 DEF SyncingInv
        <5>2. RemoteAddress(x)' = RemoteAddress(x)  BY <1>2 DEF RemoteAddress
        <5>3. QED  BY <5>1, <5>2 DEF IsSyncPeer
      <4> HIDE DEF now
      <4>5. Ask(net[x], net'[Back(x)], remoteHeight[x], reader[x], IsSyncPeer(x))
        BY <3>1, <4>3, AskLess
      <4>6. Ask(net'[x], net'[Back(x)], remoteHeight[x], reader'[x], now)
        BY <4>2, <4>4, <4>5
      <4>7. QED  BY <4>6 DEF now
    <3>5. QED  BY <3>2, <3>3, <3>4
  <2>5. QED  BY <1>2, <2>4 DEF AskInv
<1>7. QED  BY <1>5, <1>6

\* A block that is stored and ends a synchronisation is on the way when no request
\* of the node is.
LEMMA StoresAsk ==
  ASSUME SyncAssumption, SyncingInv, NetInv, AskInv, NEW e \in Ends, net[Back(e)] # <<>>,
         Head(net[Back(e)]).type = "block", NEW b, StoresBlock(e, b),
         UNCHANGED <<dialled, remoteHeight, reader>>
  PROVE  AskInv'
<1> DEFINE n == e[1]
<1>1. n \in Nodes /\ Back(e) \in Ends /\ Back(e) # e  BY EndFacts
<1>2. /\ net' = Exchange(e, <<>>) /\ reader' = reader /\ remoteHeight' = remoteHeight
      /\ dialled' = dialled
  BY DEF StoresBlock
<1>3. /\ \A y \in Nodes : y # n => syncing'[y] = syncing[y] /\ syncPeerAddr'[y] = syncPeerAddr[y]
      /\ IsSyncPeer(e) \/ (syncing'[n] = syncing[n] /\ syncPeerAddr'[n] = syncPeerAddr[n])
  <2> DEFINE ends == IsSyncPeer(e) /\ Len(b) >= remoteHeight[e]
  <2>1. /\ syncing' = [syncing EXCEPT ![n] = @ /\ ~ends]
        /\ syncPeerAddr' = [syncPeerAddr EXCEPT ![n] = IF ends THEN None ELSE @]
    BY DEF StoresBlock
  <2>2. ends => IsSyncPeer(e)  OBVIOUS
  <2> HIDE DEF ends
  <2>3. syncing[n] \in BOOLEAN  BY <1>1 DEF SyncingInv
  <2>4. QED  BY <1>1, <2>1, <2>2, <2>3 DEF SyncingInv
<1>4. ASSUME NEW x \in Ends
      PROVE  Ask(net'[x], net'[Back(x)], remoteHeight[x], reader[x], IsSyncPeer(x))
  <2>1. <<>> \in Seq(Message) /\ \A i \in 1 .. Len(<<>>) : FALSE  BY EmptySeq
  <2> DEFINE msgs == <<>>
  <2>2. /\ msgs \in Seq(Message) /\ net' = Exchange(e, msgs)
        /\ \A i \in 1 .. Len(msgs) : /\ msgs[i].type # "getblocks"
                                     /\ msgs[i].type = "block" => Head(net[Back(e)]).type = "getdata"
        /\ remoteHeight'[e] = -1 \/ reader'[e] = "behind" =>
             /\ remoteHeight[e] = -1 \/ reader[e] = "behind"
             /\ \A i \in 1 .. Len(msgs) : msgs[i].type # "getdata"
        /\ \A y \in Ends : y # e => remoteHeight'[y] = remoteHeight[y] /\ reader'[y] = reader[y]
    BY <1>2, <2>1
  <2> HIDE DEF msgs
  <2>3. Ask(net'[x], net'[Back(x)], remoteHeight'[x], reader'[x], IsSyncPeer(x))
    BY <2>2, AskAfterRead
  <2>4. QED  BY <1>2, <2>3
<1>5. ~Has(net'[e], "getblocks")
  <2>1. Ask(net[e], net[Back(e)], remoteHeight[e], reader[e], IsSyncPeer(e)) /\ net[e] \in Seq(Message)
    BY AskOf
  <2>2. Has(net[Back(e)], "block")
    <3>1. /\ Len(net[Back(e)]) \in Nat /\ Len(net[Back(e)]) >= 1
          /\ Head(net[Back(e)]) = net[Back(e)][1]
      BY HeadMessage, TailShift
    <3>2. 1 \in 1 .. Len(net[Back(e)])  BY <3>1
    <3>3. QED  BY <3>1, <3>2 DEF Has
  <2>3. ~Has(net[e], "getblocks")  BY <2>1, <2>2, NoRequest
  <2>4. net'[e] = net[e]
    <3>1. net[e] \o <<>> = net[e]  BY <2>1, ConcatEmptySeq
    <3>2. <<>> \in Seq(Message)  BY EmptySeq
    <3>3. net'[e] = IF open[Back(e)] THEN net[e] \o <<>> ELSE net[e]  BY <1>2, <3>2, ExchangeNet
    <3>4. QED  BY <3>1, <3>3
  <2>5. QED  BY <2>3, <2>4
<1>6. ASSUME NEW x \in Ends
      PROVE  Ask(net'[x], net'[Back(x)], remoteHeight[x], reader[x], IsSyncPeer(x)')
  <2> DEFINE now == IsSyncPeer(x)'
  <2>1. x[1] \in Nodes  BY EndFacts
  <2>2. RemoteAddress(x)' = RemoteAddress(x)  BY <1>2 DEF RemoteAddress
  <2>3. CASE x[1] # n \/ ~IsSyncPeer(e)
    <3>1. syncing'[x[1]] = syncing[x[1]] /\ syncPeerAddr'[x[1]] = syncPeerAddr[x[1]]
      BY <1>3, <2>1, <2>3
    <3>2. now = IsSyncPeer(x)  BY <2>2, <3>1 DEF IsSyncPeer
    <3> HIDE DEF now
    <3>3. Ask(net'[x], net'[Back(x)], remoteHeight[x], reader[x], now)  BY <1>4, <3>2
    <3>4. QED  BY <3>3 DEF now
  <2>4. CASE x[1] = n /\ IsSyncPeer(e)
    <3>1. ~Has(net'[x], "getblocks")
      <4>1. CASE x = e  BY <1>5, <4>1
      <4>2. CASE x # e
        <5>1. ~IsSyncPeer(x)  BY <2>4, <4>2, OnePeer
        <5>2. QED  BY <1>4, <5>1, NoRequest
      <4>3. QED  BY <4>1, <4>2
    <3> HIDE DEF now
    <3>2. Ask(net'[x], net'[Back(x)], remoteHeight[x], reader[x], now)  BY <1>4, <3>1, AskFree
    <3>3. QED  BY <3>2 DEF now
  <2>5. QED  BY <2>3, <2>4
<1>7. QED  BY <1>2, <1>6 DEF AskInv

\* A message has been answered, and the synchronisations are what they were.
LEMMA AnswerAsk ==
  ASSUME SyncAssumption, NetInv, AskInv, NEW a \in Ends, net[Back(a)] # <<>>,
         NEW msgs \in Seq(Message), net' = Exchange(a, msgs),
         \A i \in 1 .. Len(msgs) : /\ msgs[i].type # "getblocks"
                                   /\ msgs[i].type = "block" => Head(net[Back(a)]).type = "getdata",
         \A x \in Ends : x # a => remoteHeight'[x] = remoteHeight[x] /\ reader'[x] = reader[x],
         remoteHeight'[a] = -1 \/ reader'[a] = "behind" =>
           /\ remoteHeight[a] = -1 \/ reader[a] = "behind"
           /\ \A i \in 1 .. Len(msgs) : msgs[i].type # "getdata",
         UNCHANGED <<syncing, syncPeerAddr, dialled>>
  PROVE  AskInv'
<1>1. ASSUME NEW x \in Ends
      PROVE  Ask(net'[x], net'[Back(x)], remoteHeight'[x], reader'[x], IsSyncPeer(x))
  BY AskAfterRead
<1>2. QED  BY <1>1, SamePeer DEF AskInv

\* It has not been answered, or with one message.
LEMMA OneAnswerAsk ==
  ASSUME SyncAssumption, NetInv, AskInv, NEW a \in Ends, net[Back(a)] # <<>>,
         UNCHANGED <<syncing, syncPeerAddr, dialled, remoteHeight>>,
         \A x \in Ends : reader'[x] = reader[x] \/ (x = a /\ reader'[x] # "behind")
  PROVE  /\ net' = Exchange(a, <<>>) => AskInv'
         /\ \A m \in Message :
              /\ m.type \notin {"getblocks", "block"} /\ net' = Exchange(a, <<m>>)
              /\ m.type # "getdata" \/ (remoteHeight[a] # -1 /\ reader[a] # "behind")
              => AskInv'
<1>1. UNCHANGED <<syncing, syncPeerAddr, dialled>> /\ remoteHeight' = remoteHeight  OBVIOUS
<1>2. /\ \A x \in Ends : x # a => remoteHeight'[x] = remoteHeight[x] /\ reader'[x] = reader[x]
      /\ remoteHeight'[a] = -1 \/ reader'[a] = "behind" => remoteHeight[a] = -1 \/ reader[a] = "behind"
  BY <1>1
<1>3. ASSUME net' = Exchange(a, <<>>) PROVE AskInv'
  <2> DEFINE msgs == <<>>
  <2>1. msgs \in Seq(Message) /\ \A i \in 1 .. Len(msgs) : FALSE  BY EmptySeq
  <2>2. net' = Exchange(a, msgs)  BY <1>3
  <2> HIDE DEF msgs
  <2>3. QED  BY <1>1, <1>2, <2>1, <2>2, AnswerAsk
<1>4. ASSUME NEW m \in Message, m.type \notin {"getblocks", "block"}, net' = Exchange(a, <<m>>),
             m.type # "getdata" \/ (remoteHeight[a] # -1 /\ reader[a] # "behind")
      PROVE  AskInv'
  <2> DEFINE msgs == <<m>>
  <2>1. msgs \in Seq(Message) /\ \A i \in 1 .. Len(msgs) : msgs[i] = m  OBVIOUS
  <2>2. net' = Exchange(a, msgs)  BY <1>4
  <2> HIDE DEF msgs
  <2>3. \A i \in 1 .. Len(msgs) : msgs[i].type # "getblocks" /\ msgs[i].type # "block"
    BY <1>4, <2>1
  <2>4. remoteHeight'[a] = -1 \/ reader'[a] = "behind" =>
          /\ remoteHeight[a] = -1 \/ reader[a] = "behind"
          /\ \A i \in 1 .. Len(msgs) : msgs[i].type # "getdata"
    BY <1>1, <1>2, <1>4, <2>1
  <2>5. QED  BY <1>1, <1>2, <2>1, <2>2, <2>3, <2>4, AnswerAsk
<1>5. QED  BY <1>3, <1>4

\* A penalty leaves the synchronisations to their peers.
LEMMA PenaltyAsk ==
  ASSUME SyncAssumption, BannedInv, NetInv, AskInv, NEW a \in Ends, net[Back(a)] # <<>>,
         NEW points \in Nat, Misbehave(a, points),
         UNCHANGED <<syncing, syncPeerAddr, dialled, remoteHeight, reader>>
  PROVE  AskInv'
<1>1. CASE Disconnect(a)
  <2>1. net' = [net EXCEPT ![Back(a)] = <<>>]  BY <1>1 DEF Disconnect
  <2>2. QED  BY <2>1, AskAfterClose
<1>2. CASE net' = Exchange(a, <<>>)
  <2>1. /\ UNCHANGED <<syncing, syncPeerAddr, dialled, remoteHeight>>
        /\ \A x \in Ends : reader'[x] = reader[x]
    OBVIOUS
  <2>2. QED  BY <1>2, <2>1, OneAnswerAsk
<1>3. QED  BY <1>1, <1>2, Penalty

\* Who reads a version has not been told the height before.
LEMMA FirstVersion ==
  ASSUME SyncAssumption, LinkInv, NetInv, WireInv, NEW a \in Ends, net[Back(a)] # <<>>,
         Head(net[Back(a)]).type = "version"
  PROVE  remoteHeight[a] = -1
<1> DEFINE w == net[Back(a)]
<1>1. Back(a) \in Ends /\ Back(Back(a)) = a  BY EndFacts
<1>2. w \in Seq(Message) /\ VersionFirst(w, versionSent[Back(a)], remoteHeight[a])
  BY <1>1, WireOf DEF Wire
<1>3. w # <<>> /\ Head(w).type = "version"  OBVIOUS
<1> HIDE DEF w
<1>4. Len(w) \in Nat /\ Len(w) >= 1 /\ Head(w) = w[1]  BY <1>2, <1>3, TailShift
<1>5. 1 \in 1 .. Len(w) /\ w[1].type = "version"  BY <1>3, <1>4
<1>6. QED  BY <1>2, <1>5 DEF VersionFirst

\* Every step keeps a node to the request it has sent.
LEMMA NextAskInv ==
  ASSUME SyncAssumption PROVE TypeInv /\ WireInv /\ AskInv /\ [Next]_vars => AskInv'
<1> SUFFICES ASSUME TypeInv, WireInv, AskInv, [Next]_vars PROVE AskInv'  OBVIOUS
<1>0. BlocksInv /\ SyncingInv /\ BannedInv /\ LinkInv /\ NetInv /\ ThreadInv  BY DEF TypeInv
<1>a. UNCHANGED <<net, syncing, syncPeerAddr, dialled, remoteHeight, reader>> => AskInv'
  <2>1. SUFFICES ASSUME UNCHANGED <<net, syncing, syncPeerAddr, dialled, remoteHeight, reader>>
                 PROVE  AskInv'
    OBVIOUS
  <2>2. UNCHANGED <<syncing, syncPeerAddr, dialled>>  BY <2>1
  <2>3. QED  BY <2>1, <2>2, SamePeer DEF AskInv
<1>1. ASSUME NEW d \in Dials, Connect(d) PROVE AskInv'  BY <1>0, <1>1, ConnectAsk
<1>2. ASSUME NEW d \in Dials, Break(d) PROVE AskInv'  BY <1>0, <1>2, BreakAsk
<1>3. ASSUME NEW e \in Ends, EndOfStream(e) PROVE AskInv'
  <2>1. /\ net' = [net EXCEPT ![Back(e)] = <<>>]
        /\ UNCHANGED <<syncing, syncPeerAddr, dialled, remoteHeight, reader>>
    BY <1>3 DEF EndOfStream, Disconnect
  <2>2. QED  BY <1>0, <2>1, AskAfterClose
<1>4. ASSUME NEW e \in Ends, ExceedRate(e) PROVE AskInv'
  <2>1. /\ net[Back(e)] # <<>> /\ Misbehave(e, BAN_SCORE_THRESHOLD)
        /\ UNCHANGED <<syncing, syncPeerAddr, dialled, remoteHeight, reader>>
    BY <1>4 DEF ExceedRate
  <2>2. QED  BY <1>0, <2>1, Points, PenaltyAsk
<1>5. ASSUME NEW e \in Ends, HandleVersion(e) PROVE AskInv'
  <2>1. /\ net[Back(e)] # <<>> /\ Head(net[Back(e)]).type = "version"
        /\ net' = Exchange(e, Answer(e)) /\ UNCHANGED <<syncing, syncPeerAddr, dialled>>
        /\ \E h : remoteHeight' = [remoteHeight EXCEPT ![e] = h]
        /\ \E at : reader' = [reader EXCEPT ![e] = at]
    BY <1>5 DEF HandleVersion, Delivered, nodeVars
  <2>2. remoteHeight[e] = -1  BY <1>0, <2>1, FirstVersion
  <2>3. /\ Answer(e) \in Seq(Message)
        /\ \A i \in 1 .. Len(Answer(e)) : Answer(e)[i].type \in {"version", "verack"}
    <3>1. /\ Answer(e) \in Seq(Message)
          /\ versionSent[e] => Len(Answer(e)) = 1
          /\ ~versionSent[e] => Len(Answer(e)) = 2 /\ Answer(e)[1].type = "version"
          /\ Answer(e)[Len(Answer(e))].type = "verack"
      BY <1>0, AnswerSendable
    <3>2. QED  BY <3>1
  <2>4. \A x \in Ends : x # e => remoteHeight'[x] = remoteHeight[x] /\ reader'[x] = reader[x]
    BY <1>0, <2>1 DEF LinkInv, ThreadInv
  <2>5. \A i \in 1 .. Len(Answer(e)) :
          Answer(e)[i].type # "getblocks" /\ Answer(e)[i].type # "getdata" /\ Answer(e)[i].type # "block"
    BY <2>3
  <2>6. QED  BY <1>0, <2>1, <2>2, <2>3, <2>4, <2>5, AnswerAsk
<1>6. ASSUME NEW e \in Ends, StartSync(e) PROVE AskInv'  BY <1>0, <1>6, StartAsk
<1>7. ASSUME NEW e \in Ends, HandleVerack(e) PROVE AskInv'
  <2>1. /\ net[Back(e)] # <<>> /\ net' = Exchange(e, <<[type |-> "getaddr"]>>)
        /\ UNCHANGED <<syncing, syncPeerAddr, dialled, remoteHeight>> /\ reader' = reader
    BY <1>7 DEF HandleVerack, Delivered, nodeVars
  <2>2. [type |-> "getaddr"] \in Message  BY Sendable
  <2>3. QED  BY <1>0, <2>1, <2>2, OneAnswerAsk
<1>8. ASSUME NEW e \in Ends, EarlyMessage(e) PROVE AskInv'
  <2>1. /\ net[Back(e)] # <<>> /\ Misbehave(e, EARLY_SCORE)
        /\ UNCHANGED <<syncing, syncPeerAddr, dialled, remoteHeight, reader>>
    BY <1>8 DEF EarlyMessage, Delivered
  <2>2. QED  BY <1>0, <2>1, Points, PenaltyAsk
<1>9. ASSUME NEW e \in Ends, SendPing(e) PROVE AskInv'
  <2> DEFINE m == [type |-> "ping"]
  <2>1. /\ UNCHANGED <<syncing, syncPeerAddr, dialled, remoteHeight>> /\ reader' = reader
        /\ net' = net \/ net' = [net EXCEPT ![e] = Append(@, m)]
    BY <1>9 DEF SendPing, nodeVars
  <2>2. m \in Message /\ m.type \notin {"getblocks", "getdata", "block"}  BY Sendable
  <2> HIDE DEF m
  <2>3. \A x \in Ends : net'[x] = net[x] \/ net'[x] = Append(net[x], m)  BY <1>0, <2>1 DEF NetInv
  <2>4. QED  BY <1>0, <2>1, <2>2, <2>3, AskAfterSend
<1>10. ASSUME NEW e \in Ends, HandlePing(e) PROVE AskInv'
  <2>1. /\ net[Back(e)] # <<>> /\ net' = Exchange(e, <<[type |-> "pong"]>>)
        /\ UNCHANGED <<syncing, syncPeerAddr, dialled, remoteHeight>> /\ reader' = reader
    BY <1>10 DEF HandlePing, Dispatched, Delivered, nodeVars
  <2>2. [type |-> "pong"] \in Message  BY Sendable
  <2>3. QED  BY <1>0, <2>1, <2>2, OneAnswerAsk
<1>11. ASSUME NEW e \in Ends, HandleOther(e) PROVE AskInv'
  <2>1. /\ net[Back(e)] # <<>> /\ net' = Exchange(e, <<>>)
        /\ UNCHANGED <<syncing, syncPeerAddr, dialled, remoteHeight>> /\ reader' = reader
    BY <1>11 DEF HandleOther, Dispatched, Delivered, nodeVars
  <2>2. QED  BY <1>0, <2>1, OneAnswerAsk
<1>12. ASSUME NEW e \in Ends, HandleGetBlocks(e) PROVE AskInv'
  <2>1. /\ net[Back(e)] # <<>> /\ net' = Exchange(e, <<>>)
        /\ UNCHANGED <<syncing, syncPeerAddr, dialled, remoteHeight>>
        /\ reader' = reader \/ reader' = [reader EXCEPT ![e] = "serving"]
    BY <1>12 DEF HandleGetBlocks, Dispatched, Delivered
  <2>2. \A x \in Ends : reader'[x] = reader[x] \/ (x = e /\ reader'[x] # "behind")
    BY <1>0, <2>1 DEF ThreadInv
  <2>3. QED  BY <1>0, <2>1, <2>2, OneAnswerAsk
<1>13. ASSUME NEW e \in Ends, SendInv(e) PROVE AskInv'
  <2> DEFINE m == Inv(gathered[e])
  <2>1. /\ UNCHANGED <<syncing, syncPeerAddr, dialled, remoteHeight>>
        /\ reader' = [reader EXCEPT ![e] = "reading"]
        /\ net' = net \/ net' = [net EXCEPT ![e] = Append(@, m)]
    BY <1>13 DEF SendInv, nodeVars
  <2>2. m \in Message /\ m.type \notin {"getblocks", "getdata", "block"}
    BY <1>0, Sendable DEF Inv, ThreadInv
  <2> HIDE DEF m
  <2>3. \A x \in Ends : net'[x] = net[x] \/ net'[x] = Append(net[x], m)  BY <1>0, <2>1 DEF NetInv
  <2>4. \A x \in Ends : reader'[x] = reader[x] \/ reader'[x] = "reading"
    BY <1>0, <2>1 DEF ThreadInv
  <2>5. QED  BY <1>0, <2>1, <2>2, <2>3, <2>4, AskAfterSend
<1>14. ASSUME NEW e \in Ends, HandleInv(e) PROVE AskInv'
  <2> DEFINE m == [type |-> "getdata", hashes |-> Head(net[Back(e)]).hashes]
  <2>1. /\ net[Back(e)] # <<>> /\ Head(net[Back(e)]).type = "inv" /\ net' = Exchange(e, <<m>>)
        /\ handshakeComplete[e] /\ reader[e] = "reading"
        /\ UNCHANGED <<syncing, syncPeerAddr, dialled, remoteHeight>> /\ reader' = reader
    BY <1>14 DEF HandleInv, Dispatched, Delivered, nodeVars
  <2>2. m \in Message /\ m.type = "getdata"  BY <1>0, <2>1, HeadMessage, MessageFacts, Sendable
  <2>3. remoteHeight[e] # -1  BY <1>0, <2>1, BothTold
  <2> HIDE DEF m
  <2>4. QED  BY <1>0, <2>1, <2>2, <2>3, OneAnswerAsk
<1>15. ASSUME NEW e \in Ends, HandleGetData(e) PROVE AskInv'
  <2> DEFINE found == Only(Head(net[Back(e)]).hashes, Stored(e[1]))
             msgs == [i \in DOMAIN found |-> [type |-> "block", block |-> found[i]]]
  <2>1. /\ net[Back(e)] # <<>> /\ Head(net[Back(e)]).type = "getdata" /\ net' = Exchange(e, msgs)
        /\ UNCHANGED <<syncing, syncPeerAddr, dialled>>
        /\ remoteHeight' = remoteHeight /\ reader' = reader
    BY <1>15 DEF HandleGetData, Dispatched, Delivered, nodeVars
  <2>2. msgs \in Seq(Message) /\ \A i \in 1 .. Len(msgs) : msgs[i].type = "block"
    <3>1. Head(net[Back(e)]).hashes \in Seq(Block)  BY <1>0, <2>1, HeadMessage, MessageFacts
    <3>2. e[1] \in Nodes /\ chain[e[1]] \in Block \cup {<<>>}  BY <1>0, EndFacts DEF BlocksInv
    <3>3. QED  BY <3>1, <3>2, BlocksFound
  <2> HIDE DEF msgs
  <2>3. QED  BY <1>0, <2>1, <2>2, AnswerAsk
<1>16. ASSUME NEW e \in Ends, HandleBlock(e) PROVE AskInv'
  <2> DEFINE b == Head(net[Back(e)]).block
  <2>1. /\ net[Back(e)] # <<>> /\ Head(net[Back(e)]).type = "block"
        /\ UNCHANGED <<dialled, remoteHeight, reader>>
    BY <1>16 DEF HandleBlock, Dispatched, Delivered
  <2>2. \/ Misbehave(e, BAN_SCORE_THRESHOLD) /\ UNCHANGED <<syncing, syncPeerAddr>>
        \/ StoresBlock(e, b)
        \/ net' = Exchange(e, <<>>) /\ UNCHANGED <<syncing, syncPeerAddr>>
    BY <1>16 DEF HandleBlock
  <2> HIDE DEF b
  <2>3. CASE Misbehave(e, BAN_SCORE_THRESHOLD) /\ UNCHANGED <<syncing, syncPeerAddr>>
    BY <1>0, <2>1, <2>3, Points, PenaltyAsk
  <2>4. CASE StoresBlock(e, b)  BY <1>0, <2>1, <2>4, StoresAsk
  <2>5. CASE net' = Exchange(e, <<>>) /\ UNCHANGED <<syncing, syncPeerAddr>>
    BY <1>0, <2>1, <2>5, OneAnswerAsk
  <2>6. QED  BY <2>2, <2>3, <2>4, <2>5
<1>17. ASSUME NEW n \in Nodes, StartMining(n) PROVE AskInv'
  BY <1>a, <1>17 DEF StartMining, endVars
<1>18. ASSUME NEW n \in Nodes, StoreMined(n) PROVE AskInv'
  BY <1>a, <1>18 DEF StoreMined, endVars
<1>19. ASSUME NEW n \in Nodes, Announce(n) PROVE AskInv'
  <2> DEFINE m == Inv(<<announcing[n]>>)
  <2>1. UNCHANGED <<syncing, syncPeerAddr, dialled, remoteHeight>> /\ reader' = reader
    BY <1>19 DEF Announce
  <2>2. announcing[n] \in Block  BY <1>0, <1>19 DEF Announce, BlocksInv
  <2>3. m \in Message /\ m.type = "inv"
    <3>1. <<announcing[n]>> \in Seq(Block)  BY <2>2
    <3>2. QED  BY <3>1, Sendable DEF Inv
  <2>4. \A x \in Ends : net'[x] = net[x] \/ net'[x] = Append(net[x], m)
    BY <1>0, <1>19, Announced
  <2> HIDE DEF m
  <2>5. QED  BY <1>0, <2>1, <2>3, <2>4, AskAfterSend
<1>20. CASE UNCHANGED vars  BY <1>a, <1>20 DEF vars, nodeVars, endVars
<1>21. Miners \subseteq Nodes  BY DEF SyncAssumption
<1>22. QED
  BY <1>1, <1>2, <1>3, <1>4, <1>5, <1>6, <1>7, <1>8, <1>9, <1>10, <1>11, <1>12, <1>13, <1>14,
     <1>15, <1>16, <1>17, <1>18, <1>19, <1>20, <1>21 DEF Next, ReaderStep

\* However the handshakes of its peers interleave, a node starts one synchronisation
\* at a time: one request for blocks at most is on the way from it.
THEOREM SyncsAreSingle == Spec => []OneSyncAtATime
<1> DEFINE I == TypeInv /\ WireInv /\ ReaderInv /\ AskInv
<1>1. Init => I  BY SyncAssumption, InitTypeInv, InitWireInv, InitAskInv
<1>2. I /\ [Next]_vars => I'
  <2> SUFFICES ASSUME I, [Next]_vars PROVE I'  OBVIOUS
  <2>1. TypeInv'  BY SyncAssumption, NextTypeInv
  <2>2. WireInv'  BY SyncAssumption, NextWireInv
  <2>3. ReaderInv'  BY SyncAssumption, NextReaderInv
  <2>4. AskInv'  BY SyncAssumption, NextAskInv
  <2>5. QED  BY <2>1, <2>2, <2>3, <2>4
<1>3. I => OneSyncAtATime
  <2> SUFFICES ASSUME I, NEW x \in Ends, NEW y \in Ends, NEW i \in Requests(x), NEW j \in Requests(y),
                      x[1] = y[1]
               PROVE  x = y /\ i = j
    BY DEF OneSyncAtATime
  <2>0. NetInv  BY DEF TypeInv
  <2>1. /\ net[x] \in Seq(Message) /\ net[y] \in Seq(Message)
        /\ Ask(net[x], net[Back(x)], remoteHeight[x], reader[x], IsSyncPeer(x))
        /\ Ask(net[y], net[Back(y)], remoteHeight[y], reader[y], IsSyncPeer(y))
    BY <2>0, SyncAssumption, AskOf
  <2>2. /\ i \in 1 .. Len(net[x]) /\ net[x][i].type = "getblocks"
        /\ j \in 1 .. Len(net[y]) /\ net[y][j].type = "getblocks"
        /\ Len(net[x]) \in Nat /\ Len(net[y]) \in Nat
    BY <2>1, LenProperties DEF Requests
  <2>3. IsSyncPeer(x) /\ IsSyncPeer(y)  BY <2>1, <2>2 DEF Ask
  <2>4. x = y  BY <2>3, SyncAssumption, OnePeer
  <2>5. /\ \A k \in 1 .. i - 1 : net[x][k].type \notin {"getblocks", "getdata"}
        /\ \A k \in 1 .. j - 1 : net[y][k].type \notin {"getblocks", "getdata"}
    BY <2>1, <2>2 DEF Ask
  <2>6. ~(j \in 1 .. i - 1) /\ ~(i \in 1 .. j - 1)  BY <2>2, <2>4, <2>5
  <2>7. QED  BY <2>2, <2>4, <2>6
<1>4. QED  BY <1>1, <1>2, <1>3, PTL DEF Spec

-----------------------------------------------------------------------------
(***************************************************************************)
(* The chain of the peer                                                   *)
(***************************************************************************)

\* The wire that an end sends on, and the chain of its node.
LEMMA CarryOf ==
  ASSUME SyncAssumption, BlocksInv, NetInv, CarryInv, NEW x \in Ends
  PROVE  /\ Carries(net[x], chain[x[1]]) /\ net[x] \in Seq(Message)
         /\ x[1] \in Nodes /\ chain[x[1]] \in Seq(Nodes)
<1>1. x[1] \in Nodes  BY EndFacts
<1>2. chain[x[1]] \in Block \cup {<<>>}  BY <1>1 DEF BlocksInv
<1>3. QED  BY <1>1, <1>2, ChainFacts DEF NetInv, CarryInv

\* A block that extends a chain makes it longer.
LEMMA Extends ==
  ASSUME SyncAssumption, NEW ch, NEW b \in Block, Front(b) = ch
  PROVE  b \in Seq(Nodes) /\ Longer(b, ch)
<1>1. b \in Seq(Nodes) /\ Len(b) \in 1 .. MaxHeight  BY BlockFacts
<1>2. MaxHeight \in Nat  BY DEF SyncAssumption
<1>3. Len(b) # 0  BY <1>1, <1>2
<1>4. b # <<>>  BY <1>3, EmptySeq
<1>5. QED  BY <1>1, <1>4, FrontLonger

\* A reader has read a message and has sent others: their blocks are on its chain.
LEMMA CarryAfterRead ==
  ASSUME SyncAssumption, BlocksInv, NetInv, CarryInv, NEW a \in Ends, net[Back(a)] # <<>>,
         NEW msgs \in Seq(Message), net' = Exchange(a, msgs),
         \A i \in 1 .. Len(msgs) : True(msgs[i], chain[a[1]]),
         NEW x \in Ends
  PROVE  Carries(net'[x], chain[x[1]])
<1> DEFINE b == Back(a)
<1>1. b \in Ends /\ b # a  BY EndFacts
<1>2. /\ net'[b] = Tail(net[b]) /\ net'[a] = IF open[b] THEN net[a] \o msgs ELSE net[a]
      /\ \A y \in Ends : y # a /\ y # b => net'[y] = net[y]
  <2>1. /\ Exchange(a, msgs)[b] = Tail(net[b])
        /\ Exchange(a, msgs)[a] = IF open[b] THEN net[a] \o msgs ELSE net[a]
        /\ \A y \in Ends : y # a /\ y # b => Exchange(a, msgs)[y] = net[y]
    BY ExchangeNet
  <2>2. net' = Exchange(a, msgs)  OBVIOUS
  <2>3. QED  BY <2>1, <2>2
<1>3. net[b] # <<>>  OBVIOUS
<1> HIDE DEF b
<1>4. CASE x = b
  <2>1. Carries(net[b], chain[b[1]]) /\ net[b] \in Seq(Message)  BY <1>1, CarryOf
  <2>2. Carries(Tail(net[b]), chain[b[1]])  BY <1>3, <2>1, CarriesRead
  <2>3. QED  BY <1>2, <1>4, <2>2
<1>5. CASE x = a
  <2>1. Carries(net[a], chain[a[1]]) /\ net[a] \in Seq(Message)  BY CarryOf
  <2>2. CASE ~open[b]  BY <1>2, <1>5, <2>1, <2>2
  <2>3. CASE open[b]
    <3> DEFINE v == net[a] \o msgs
    <3>1. /\ v \in Seq(Message) /\ Longer(v, net[a])
          /\ \A i \in Len(net[a]) + 1 .. Len(v) :
               i - Len(net[a]) \in 1 .. Len(msgs) /\ v[i] = msgs[i - Len(net[a])]
      BY <2>1, ConcatLonger
    <3>2. net'[a] = v  BY <1>2, <2>3
    <3> HIDE DEF v
    <3>3. \A i \in Len(net[a]) + 1 .. Len(v) : True(v[i], chain[a[1]])
      BY <3>1
    <3>4. Carries(v, chain[a[1]])  BY <2>1, <3>1, <3>3, CarriesMore
    <3>5. QED  BY <1>5, <3>2, <3>4
  <2>4. QED  BY <2>2, <2>3
<1>6. CASE x # a /\ x # b  BY <1>2, <1>6, CarryOf
<1>7. QED  BY <1>4, <1>5, <1>6

\* It has sent nothing, or one message.
LEMMA CarryAfterOne ==
  ASSUME SyncAssumption, BlocksInv, NetInv, CarryInv, NEW a \in Ends, net[Back(a)] # <<>>,
         NEW x \in Ends
  PROVE  /\ net' = Exchange(a, <<>>) => Carries(net'[x], chain[x[1]])
         /\ \A m \in Message : True(m, chain[a[1]]) /\ net' = Exchange(a, <<m>>)
                                 => Carries(net'[x], chain[x[1]])
<1>1. ASSUME net' = Exchange(a, <<>>) PROVE Carries(net'[x], chain[x[1]])
  <2> DEFINE msgs == <<>>
  <2>1. msgs \in Seq(Message) /\ \A i \in 1 .. Len(msgs) : FALSE  BY EmptySeq
  <2>2. net' = Exchange(a, msgs)  BY <1>1
  <2> HIDE DEF msgs
  <2>3. QED  BY <2>1, <2>2, CarryAfterRead
<1>2. ASSUME NEW m \in Message, True(m, chain[a[1]]), net' = Exchange(a, <<m>>)
      PROVE  Carries(net'[x], chain[x[1]])
  <2> DEFINE msgs == <<m>>
  <2>1. msgs \in Seq(Message) /\ \A i \in 1 .. Len(msgs) : msgs[i] = m  OBVIOUS
  <2>2. net' = Exchange(a, msgs)  BY <1>2
  <2> HIDE DEF msgs
  <2>3. \A i \in 1 .. Len(msgs) : True(msgs[i], chain[a[1]])  BY <1>2, <2>1
  <2>4. QED  BY <2>1, <2>2, <2>3, CarryAfterRead
<1>3. QED  BY <1>1, <1>2

\* A wire is what it was, has lost everything, or has one message more.
LEMMA CarryAfterSend ==
  ASSUME SyncAssumption, BlocksInv, NetInv, CarryInv, NEW x \in Ends,
         NEW m \in Message, True(m, chain[x[1]]),
         net'[x] = net[x] \/ net'[x] = <<>> \/ net'[x] = <<m>> \/ net'[x] = Append(net[x], m)
  PROVE  Carries(net'[x], chain[x[1]])
<1> DEFINE w == net[x]
           ch == chain[x[1]]
<1>1. Carries(w, ch) /\ w \in Seq(Message) /\ True(m, ch)  BY CarryOf
<1>2. CASE net'[x] = w  BY <1>1, <1>2
<1>3. CASE net'[x] = <<>> \/ net'[x] = <<m>>
  <2> HIDE DEF ch
  <2>1. Carries(<<>>, ch)  BY CarriesNone
  <2>2. Carries(<<m>>, ch)  BY <1>1, CarriesNone
  <2>3. Carries(net'[x], ch)  BY <1>3, <2>1, <2>2
  <2>4. QED  BY <2>3 DEF ch
<1>4. CASE net'[x] = Append(w, m)
  <2> DEFINE v == Append(w, m)
  <2> HIDE DEF w, ch
  <2>1. v \in Seq(Message) /\ Longer(v, w) /\ Len(v) = Len(w) + 1 /\ v[Len(w) + 1] = m
    BY <1>1, AppendLonger
  <2> HIDE DEF v
  <2>2. Len(w) \in Nat  BY <1>1, LenProperties
  <2>3. \A i \in Len(w) + 1 .. Len(v) : True(v[i], ch)  BY <1>1, <2>1, <2>2
  <2>4. Carries(v, ch)  BY <1>1, <2>1, <2>3, CarriesMore
  <2>5. QED  BY <1>4, <2>4 DEF v, ch
<1>5. QED  BY <1>2, <1>3, <1>4

\* A penalty sends nothing.
LEMMA CarryPenalty ==
  ASSUME SyncAssumption, BlocksInv, BannedInv, NetInv, CarryInv, NEW a \in Ends,
         net[Back(a)] # <<>>, NEW points \in Nat, Misbehave(a, points), NEW x \in Ends
  PROVE  Carries(net'[x], chain[x[1]])
<1>1. CASE Disconnect(a)
  <2>1. net' = [net EXCEPT ![Back(a)] = <<>>]  BY <1>1 DEF Disconnect
  <2>2. net'[x] = net[x] \/ net'[x] = <<>>  BY <2>1 DEF NetInv
  <2>3. Verack \in Message /\ True(Verack, chain[x[1]])  BY Sendable, Plain DEF Verack
  <2>4. QED  BY <2>2, <2>3, CarryAfterSend
<1>2. CASE net' = Exchange(a, <<>>)  BY <1>2, CarryAfterOne
<1>3. QED  BY <1>1, <1>2, Penalty

\* A step in which the chains do not change.
LEMMA CarrySame ==
  ASSUME chain' = chain, \A x \in Ends : Carries(net'[x], chain[x[1]])
  PROVE  CarryInv'
BY DEF CarryInv

\* A step in which one of them is extended.
LEMMA CarryExtended ==
  ASSUME SyncAssumption, BlocksInv, NetInv', NEW n \in Nodes, NEW b \in Block,
         Front(b) = chain[n], chain' = [chain EXCEPT ![n] = b],
         \A x \in Ends : Carries(net'[x], chain[x[1]])
  PROVE  CarryInv'
<1>1. b \in Seq(Nodes) /\ Longer(b, chain[n])  BY Extends
<1>2. /\ chain \in [Nodes -> Block \cup {<<>>}] /\ chain[n] \in Seq(Nodes)
  BY ChainFacts DEF BlocksInv
<1>3. chain'[n] = b /\ \A k \in Nodes : k # n => chain'[k] = chain[k]  BY <1>2
<1>4. net' \in [Ends -> Seq(Message)]  BY DEF NetInv
<1>5. ASSUME NEW x \in Ends PROVE Carries(net'[x], chain'[x[1]])
  <2>1. x[1] \in Nodes /\ net'[x] \in Seq(Message) /\ Carries(net'[x], chain[x[1]])
    BY <1>4, EndFacts
  <2>2. CASE x[1] = n
    <3> DEFINE w == net'[x]
               ch == chain[n]
    <3>1. w \in Seq(Message) /\ Carries(w, ch)  BY <2>1, <2>2
    <3>2. ch \in Seq(Nodes) /\ Longer(b, ch)  BY <1>1, <1>2
    <3> HIDE DEF w, ch
    <3>3. Carries(w, b)  BY <1>1, <3>1, <3>2, CarriesGrow
    <3>4. QED  BY <1>3, <2>2, <3>3 DEF w
  <2>3. CASE x[1] # n  BY <1>3, <2>1, <2>3
  <2>4. QED  BY <2>2, <2>3
<1>6. QED  BY <1>5 DEF CarryInv

\* Nothing is on the way to begin with.
LEMMA InitCarryInv == Init => CarryInv
<1>1. SUFFICES ASSUME Init PROVE CarryInv  OBVIOUS
<1>2. \A e \in Ends : net[e] = <<>>  BY <1>1 DEF Init, Empty
<1>3. QED  BY <1>2, CarriesNone DEF CarryInv

\* A version says the height of the chain of the node that sends it.
LEMMA VersionTrue ==
  ASSUME SyncAssumption, BlocksInv, NEW n \in Nodes
  PROVE  Version(n) \in Message /\ True(Version(n), chain[n])
<1>1. Version(n) \in Message /\ Version(n).type = "version"  BY VersionSendable
<1>2. Version(n).height = Height(n)  BY DEF Version
<1>3. Height(n) <= Len(chain[n])
  <2>1. Height(n) \in Nat  BY ChainFacts, LenProperties DEF BlocksInv, Height
  <2>2. QED  BY <2>1 DEF Height
<1>4. QED  BY <1>1, <1>2, <1>3 DEF True

\* Every step keeps what peers send on their chains.
LEMMA NextCarryInv == ASSUME SyncAssumption PROVE TypeInv /\ CarryInv /\ [Next]_vars => CarryInv'
<1> SUFFICES ASSUME TypeInv, CarryInv, [Next]_vars PROVE CarryInv'  OBVIOUS
<1>0. BlocksInv /\ SyncingInv /\ BannedInv /\ LinkInv /\ NetInv /\ ThreadInv  BY DEF TypeInv
<1>a. NetInv'  BY NextTypeInv DEF TypeInv
<1>b. UNCHANGED <<net, chain>> => CarryInv'  BY DEF CarryInv
<1> DEFINE some == [type |-> "ping"]
<1>c. some \in Message /\ \A ch : True(some, ch)
  <2>1. some \in Message /\ some.type = "ping"  BY Sendable
  <2> HIDE DEF some
  <2>2. QED  BY <2>1, Plain
<1> HIDE DEF some
<1>1. ASSUME NEW d \in Dials, Connect(d) PROVE CarryInv'
  <2>1. chain' = chain  BY <1>1 DEF Connect, nodeVars
  <2>2. ASSUME NEW x \in Ends PROVE Carries(net'[x], chain[x[1]])
    <3> DEFINE m == Version(d[1])
    <3>1. d \in Ends /\ net'[d] = <<m>> /\ net'[Back(d)] = <<>>  BY <1>0, <1>1, Connected
    <3>2. m \in Message /\ True(m, chain[d[1]])  BY <1>0, <3>1, VersionTrue
    <3> HIDE DEF m
    <3>3. x # d /\ x # Back(d) => net'[x] = net[x]  BY <1>1, Unconnected
    <3>4. CASE x = d  BY <1>0, <3>1, <3>2, <3>4, CarryAfterSend
    <3>5. CASE x # d
      <4>1. net'[x] = net[x] \/ net'[x] = <<>>  BY <3>1, <3>3, <3>5
      <4>2. QED  BY <1>0, <1>c, <4>1, CarryAfterSend
    <3>6. QED  BY <3>4, <3>5
  <2>3. QED  BY <2>1, <2>2, CarrySame
<1>2. ASSUME NEW d \in Dials, Break(d) PROVE CarryInv'
  <2>1. chain' = chain  BY <1>2 DEF Break
  <2>2. ASSUME NEW x \in Ends PROVE Carries(net'[x], chain[x[1]])
    <3>1. net'[x] = net[x] \/ net'[x] = <<>>  BY <1>0, <1>2, Broken
    <3>2. QED  BY <1>0, <1>c, <3>1, CarryAfterSend
  <2>3. QED  BY <2>1, <2>2, CarrySame
<1>3. ASSUME NEW e \in Ends, EndOfStream(e) PROVE CarryInv'
  <2>1. chain' = chain /\ net' = [net EXCEPT ![Back(e)] = <<>>]
    BY <1>3 DEF EndOfStream, Disconnect
  <2>2. ASSUME NEW x \in Ends PROVE Carries(net'[x], chain[x[1]])
    <3>1. net'[x] = net[x] \/ net'[x] = <<>>  BY <1>0, <2>1 DEF NetInv
    <3>2. QED  BY <1>0, <1>c, <3>1, CarryAfterSend
  <2>3. QED  BY <2>1, <2>2, CarrySame
<1>4. ASSUME NEW e \in Ends, ExceedRate(e) PROVE CarryInv'
  <2>1. net[Back(e)] # <<>> /\ Misbehave(e, BAN_SCORE_THRESHOLD) /\ chain' = chain
    BY <1>4 DEF ExceedRate
  <2>2. ASSUME NEW x \in Ends PROVE Carries(net'[x], chain[x[1]])
    BY <1>0, <2>1, Points, CarryPenalty
  <2>3. QED  BY <2>1, <2>2, CarrySame
<1>5. ASSUME NEW e \in Ends, HandleVersion(e) PROVE CarryInv'
  <2>1. net[Back(e)] # <<>> /\ net' = Exchange(e, Answer(e)) /\ chain' = chain
    BY <1>5 DEF HandleVersion, Delivered, nodeVars
  <2>2. Answer(e) \in Seq(Message) /\ \A i \in 1 .. Len(Answer(e)) : True(Answer(e)[i], chain[e[1]])
    <3>1. /\ Answer(e) \in Seq(Message)
          /\ versionSent[e] => Len(Answer(e)) = 1
          /\ ~versionSent[e] => Len(Answer(e)) = 2 /\ Answer(e)[1] = Version(e[1])
          /\ Answer(e)[Len(Answer(e))].type = "verack"
      BY <1>0, AnswerSendable
    <3>2. True(Version(e[1]), chain[e[1]])  BY <1>0, EndFacts, VersionTrue
    <3>3. True(Answer(e)[Len(Answer(e))], chain[e[1]])  BY <3>1, Plain
    <3>4. QED  BY <3>1, <3>2, <3>3
  <2>3. ASSUME NEW x \in Ends PROVE Carries(net'[x], chain[x[1]])
    BY <1>0, <2>1, <2>2, CarryAfterRead
  <2>4. QED  BY <2>1, <2>3, CarrySame
<1>6. ASSUME NEW e \in Ends, StartSync(e) PROVE CarryInv'
  <2> DEFINE m == GetBlocks(e[1])
  <2>1. chain' = chain /\ (net' = net \/ net' = [net EXCEPT ![e] = Append(@, m)])
    BY <1>6 DEF StartSync
  <2>2. m \in Message /\ m.type = "getblocks"
    BY <1>0, EndFacts, Sendable DEF GetBlocks, BlocksInv
  <2> HIDE DEF m
  <2>3. ASSUME NEW x \in Ends PROVE Carries(net'[x], chain[x[1]])
    <3>1. net'[x] = net[x] \/ net'[x] = Append(net[x], m)  BY <1>0, <2>1 DEF NetInv
    <3>2. QED  BY <1>0, <2>2, <3>1, Plain, CarryAfterSend
  <2>4. QED  BY <2>1, <2>3, CarrySame
<1>7. ASSUME NEW e \in Ends, HandleVerack(e) PROVE CarryInv'
  <2>1. /\ net[Back(e)] # <<>> /\ net' = Exchange(e, <<[type |-> "getaddr"]>>)
        /\ chain' = chain
    BY <1>7 DEF HandleVerack, Delivered, nodeVars
  <2>2. [type |-> "getaddr"] \in Message /\ \A ch : True([type |-> "getaddr"], ch)
    BY Sendable, Plain
  <2>3. ASSUME NEW x \in Ends PROVE Carries(net'[x], chain[x[1]])
    BY <1>0, <2>1, <2>2, CarryAfterOne
  <2>4. QED  BY <2>1, <2>3, CarrySame
<1>8. ASSUME NEW e \in Ends, EarlyMessage(e) PROVE CarryInv'
  <2>1. net[Back(e)] # <<>> /\ Misbehave(e, EARLY_SCORE) /\ chain' = chain
    BY <1>8 DEF EarlyMessage, Delivered
  <2>2. ASSUME NEW x \in Ends PROVE Carries(net'[x], chain[x[1]])
    BY <1>0, <2>1, Points, CarryPenalty
  <2>3. QED  BY <2>1, <2>2, CarrySame
<1>9. ASSUME NEW e \in Ends, SendPing(e) PROVE CarryInv'
  <2>1. chain' = chain /\ (net' = net \/ net' = [net EXCEPT ![e] = Append(@, some)])
    BY <1>9 DEF SendPing, nodeVars, some
  <2>2. ASSUME NEW x \in Ends PROVE Carries(net'[x], chain[x[1]])
    <3>1. net'[x] = net[x] \/ net'[x] = Append(net[x], some)  BY <1>0, <2>1 DEF NetInv
    <3>2. QED  BY <1>0, <1>c, <3>1, CarryAfterSend
  <2>3. QED  BY <2>1, <2>2, CarrySame
<1>10. ASSUME NEW e \in Ends, HandlePing(e) PROVE CarryInv'
  <2>1. /\ net[Back(e)] # <<>> /\ net' = Exchange(e, <<[type |-> "pong"]>>)
        /\ chain' = chain
    BY <1>10 DEF HandlePing, Dispatched, Delivered, nodeVars
  <2>2. [type |-> "pong"] \in Message /\ \A ch : True([type |-> "pong"], ch)  BY Sendable, Plain
  <2>3. ASSUME NEW x \in Ends PROVE Carries(net'[x], chain[x[1]])
    BY <1>0, <2>1, <2>2, CarryAfterOne
  <2>4. QED  BY <2>1, <2>3, CarrySame
<1>11. ASSUME NEW e \in Ends, HandleOther(e) PROVE CarryInv'
  <2>1. net[Back(e)] # <<>> /\ net' = Exchange(e, <<>>) /\ chain' = chain
    BY <1>11 DEF HandleOther, Dispatched, Delivered, nodeVars
  <2>2. ASSUME NEW x \in Ends PROVE Carries(net'[x], chain[x[1]])
    BY <1>0, <2>1, CarryAfterOne
  <2>3. QED  BY <2>1, <2>2, CarrySame
<1>12. ASSUME NEW e \in Ends, HandleGetBlocks(e) PROVE CarryInv'
  <2>1. net[Back(e)] # <<>> /\ net' = Exchange(e, <<>>) /\ chain' = chain
    BY <1>12 DEF HandleGetBlocks, Dispatched, Delivered
  <2>2. ASSUME NEW x \in Ends PROVE Carries(net'[x], chain[x[1]])
    BY <1>0, <2>1, CarryAfterOne
  <2>3. QED  BY <2>1, <2>2, CarrySame
<1>13. ASSUME NEW e \in Ends, SendInv(e) PROVE CarryInv'
  <2> DEFINE m == Inv(gathered[e])
  <2>1. chain' = chain /\ (net' = net \/ net' = [net EXCEPT ![e] = Append(@, m)])
    BY <1>13 DEF SendInv, nodeVars
  <2>2. m \in Message /\ m.type = "inv"  BY <1>0, Sendable DEF Inv, ThreadInv
  <2> HIDE DEF m
  <2>3. ASSUME NEW x \in Ends PROVE Carries(net'[x], chain[x[1]])
    <3>1. net'[x] = net[x] \/ net'[x] = Append(net[x], m)  BY <1>0, <2>1 DEF NetInv
    <3>2. QED  BY <1>0, <2>2, <3>1, Plain, CarryAfterSend
  <2>4. QED  BY <2>1, <2>3, CarrySame
<1>14. ASSUME NEW e \in Ends, HandleInv(e) PROVE CarryInv'
  <2> DEFINE m == [type |-> "getdata", hashes |-> Head(net[Back(e)]).hashes]
  <2>1. /\ net[Back(e)] # <<>> /\ Head(net[Back(e)]).type = "inv" /\ net' = Exchange(e, <<m>>)
        /\ chain' = chain
    BY <1>14 DEF HandleInv, Dispatched, Delivered, nodeVars
  <2>2. m \in Message /\ m.type = "getdata"  BY <1>0, <2>1, HeadMessage, MessageFacts, Sendable
  <2> HIDE DEF m
  <2>3. ASSUME NEW x \in Ends PROVE Carries(net'[x], chain[x[1]])
    BY <1>0, <2>1, <2>2, Plain, CarryAfterOne
  <2>4. QED  BY <2>1, <2>3, CarrySame
<1>15. ASSUME NEW e \in Ends, HandleGetData(e) PROVE CarryInv'
  <2> DEFINE found == Only(Head(net[Back(e)]).hashes, Stored(e[1]))
             msgs == [i \in DOMAIN found |-> [type |-> "block", block |-> found[i]]]
  <2>1. /\ net[Back(e)] # <<>> /\ Head(net[Back(e)]).type = "getdata" /\ net' = Exchange(e, msgs)
        /\ chain' = chain
    BY <1>15 DEF HandleGetData, Dispatched, Delivered, nodeVars
  <2>2. /\ msgs \in Seq(Message)
        /\ \A i \in 1 .. Len(msgs) :
             msgs[i].type = "block" /\ IsPrefix(msgs[i].block, chain[e[1]])
    <3>1. Head(net[Back(e)]).hashes \in Seq(Block)  BY <1>0, <2>1, HeadMessage, MessageFacts
    <3>2. e[1] \in Nodes /\ chain[e[1]] \in Block \cup {<<>>}  BY <1>0, EndFacts DEF BlocksInv
    <3>3. QED  BY <3>1, <3>2, BlocksFound
  <2> HIDE DEF msgs
  <2>3. \A i \in 1 .. Len(msgs) : True(msgs[i], chain[e[1]])  BY <2>2 DEF True
  <2>5. ASSUME NEW x \in Ends PROVE Carries(net'[x], chain[x[1]])
    BY <1>0, <2>1, <2>2, <2>3, CarryAfterRead
  <2>6. QED  BY <2>1, <2>5, CarrySame
<1>16. ASSUME NEW e \in Ends, HandleBlock(e) PROVE CarryInv'
  <2> DEFINE b == Head(net[Back(e)]).block
  <2>1. net[Back(e)] # <<>> /\ Head(net[Back(e)]).type = "block"
    BY <1>16 DEF HandleBlock, Dispatched, Delivered
  <2>2. \/ Misbehave(e, BAN_SCORE_THRESHOLD) /\ chain' = chain
        \/ Front(b) = chain[e[1]] /\ StoresBlock(e, b)
        \/ net' = Exchange(e, <<>>) /\ chain' = chain
    BY <1>16 DEF HandleBlock
  <2>3. b \in Block /\ e[1] \in Nodes  BY <1>0, <2>1, HeadMessage, MessageFacts, EndFacts
  <2> HIDE DEF b
  <2>4. ASSUME net' = Exchange(e, <<>>), NEW x \in Ends PROVE Carries(net'[x], chain[x[1]])
    BY <1>0, <2>1, <2>4, CarryAfterOne
  <2>5. CASE Misbehave(e, BAN_SCORE_THRESHOLD) /\ chain' = chain
    <3>1. ASSUME NEW x \in Ends PROVE Carries(net'[x], chain[x[1]])
      BY <1>0, <2>1, <2>5, Points, CarryPenalty
    <3>2. QED  BY <2>5, <3>1, CarrySame
  <2>6. CASE Front(b) = chain[e[1]] /\ StoresBlock(e, b)
    <3>1. chain' = [chain EXCEPT ![e[1]] = b] /\ net' = Exchange(e, <<>>)
      BY <2>6 DEF StoresBlock
    <3>2. QED  BY <1>0, <1>a, <2>3, <2>4, <2>6, <3>1, CarryExtended
  <2>7. CASE net' = Exchange(e, <<>>) /\ chain' = chain  BY <2>4, <2>7, CarrySame
  <2>8. QED  BY <2>2, <2>5, <2>6, <2>7
<1>17. ASSUME NEW n \in Nodes, StartMining(n) PROVE CarryInv'
  BY <1>b, <1>17 DEF StartMining, endVars
<1>18. ASSUME NEW n \in Nodes, StoreMined(n) PROVE CarryInv'
  <2>1. net' = net  BY <1>18 DEF StoreMined, endVars
  <2>2. CASE Front(mining[n]) = chain[n]
    <3>1. chain' = [chain EXCEPT ![n] = mining[n]] /\ mining[n] # None
      BY <1>18, <2>2 DEF StoreMined
    <3>2. mining[n] \in Block  BY <1>0, <3>1 DEF BlocksInv
    <3>3. \A x \in Ends : Carries(net'[x], chain[x[1]])  BY <2>1 DEF CarryInv
    <3>4. QED  BY <1>0, <1>a, <2>2, <3>1, <3>2, <3>3, CarryExtended
  <2>3. CASE Front(mining[n]) # chain[n]
    <3>1. chain' = chain  BY <1>18, <2>3 DEF StoreMined
    <3>2. QED  BY <1>b, <2>1, <3>1
  <2>4. QED  BY <2>2, <2>3
<1>19. ASSUME NEW n \in Nodes, Announce(n) PROVE CarryInv'
  <2> DEFINE m == Inv(<<announcing[n]>>)
  <2>1. chain' = chain  BY <1>19 DEF Announce
  <2>2. ASSUME NEW x \in Ends PROVE Carries(net'[x], chain[x[1]])
    <3>1. /\ m \in Message /\ m.type = "inv"
          /\ net'[x] = net[x] \/ net'[x] = Append(net[x], m)
      BY <1>0, <1>19, Announced
    <3> HIDE DEF m
    <3>2. QED  BY <1>0, <3>1, Plain, CarryAfterSend
  <2>3. QED  BY <2>1, <2>2, CarrySame
<1>20. CASE UNCHANGED vars  BY <1>b, <1>20 DEF vars, nodeVars, endVars
<1>21. Miners \subseteq Nodes  BY DEF SyncAssumption
<1>22. QED
  BY <1>1, <1>2, <1>3, <1>4, <1>5, <1>6, <1>7, <1>8, <1>9, <1>10, <1>11, <1>12, <1>13, <1>14,
     <1>15, <1>16, <1>17, <1>18, <1>19, <1>20, <1>21 DEF Next, ReaderStep

\* What a step may do to a synchronisation that is running: it ends with a block
\* from the peer that was chosen, which is on that peer's chain and as high as
\* the peer said, and with nothing else.
LEMMA EndOfSync ==
  ASSUME SyncAssumption, TypeInv, CarryInv, Next, NEW n \in Nodes, syncing[n], ~syncing'[n]
  PROVE  \E e \in Ends : /\ e[1] = n /\ IsSyncPeer(e)
                         /\ IsPrefix(chain'[n], chain[e[2]])
                         /\ Len(chain'[n]) >= remoteHeight[e]
<1>0. BlocksInv /\ SyncingInv /\ NetInv  BY DEF TypeInv
<1>1. syncing' # syncing  OBVIOUS
<1>2. ASSUME NEW d \in Dials, Connect(d) \/ Break(d) PROVE FALSE
  BY <1>1, <1>2 DEF Connect, Break, nodeVars
<1>3. ASSUME NEW e \in Ends, ExceedRate(e) \/ SendPing(e) PROVE FALSE
  BY <1>1, <1>3 DEF ExceedRate, SendPing, nodeVars
<1>4. ASSUME NEW k \in Miners, StartMining(k) \/ StoreMined(k) \/ Announce(k) PROVE FALSE
  BY <1>1, <1>4 DEF StartMining, StoreMined, Announce
<1>5. ASSUME NEW e \in Ends, StartSync(e) PROVE FALSE
  <2>1. \/ syncing' = syncing
        \/ syncing' = [syncing EXCEPT ![e[1]] = TRUE]
    BY <1>5 DEF StartSync
  <2>2. QED  BY <1>0, <1>1, <2>1 DEF SyncingInv
<1>6. ASSUME NEW e \in Ends,
             \/ EndOfStream(e) \/ HandleVersion(e) \/ HandleVerack(e) \/ EarlyMessage(e)
             \/ HandlePing(e) \/ HandleOther(e) \/ HandleGetBlocks(e) \/ SendInv(e)
             \/ HandleInv(e) \/ HandleGetData(e)
      PROVE  FALSE
  BY <1>1, <1>6 DEF EndOfStream, HandleVersion, HandleVerack, EarlyMessage, HandlePing, HandleOther,
     HandleGetBlocks, SendInv, HandleInv, HandleGetData, nodeVars
<1>7. PICK e \in Ends : HandleBlock(e)
  BY <1>2, <1>3, <1>4, <1>5, <1>6 DEF Next, ReaderStep
<1> DEFINE b == Head(net[Back(e)]).block
<1>8. net[Back(e)] # <<>> /\ Head(net[Back(e)]).type = "block"
  BY <1>7 DEF HandleBlock, Dispatched, Delivered
<1>9. StoresBlock(e, b)  BY <1>1, <1>7 DEF HandleBlock
<1>10. b \in Block  BY <1>0, <1>8, HeadMessage, MessageFacts
<1>11. /\ chain' = [chain EXCEPT ![e[1]] = b]
       /\ syncing' = [syncing EXCEPT
            ![e[1]] = @ /\ ~(IsSyncPeer(e) /\ Len(b) >= remoteHeight[e])]
  BY <1>9 DEF StoresBlock
<1>12. Back(e) \in Ends /\ Back(e)[1] = e[2]  BY EndFacts
<1>13. IsPrefix(b, chain[e[2]])
  <2> DEFINE w == net[Back(e)]
  <2>1. Carries(w, chain[e[2]]) /\ w \in Seq(Message)
    <3>1. Carries(w, chain[Back(e)[1]]) /\ w \in Seq(Message)  BY <1>0, <1>12, CarryOf
    <3>2. QED  BY <1>12, <3>1
  <2>2. w # <<>> /\ Head(w).type = "block" /\ b = Head(w).block  BY <1>8
  <2> HIDE DEF w, b
  <2>3. Head(w) = w[1] /\ Len(w) \in Nat /\ Len(w) >= 1  BY <2>1, <2>2, TailShift
  <2>4. 1 \in 1 .. Len(w)  BY <2>3
  <2>5. QED  BY <2>1, <2>2, <2>3, <2>4 DEF Carries, True
<1> HIDE DEF b
<1>14. e[1] = n
  <2>1. \A k \in Nodes : k # e[1] => syncing'[k] = syncing[k]  BY <1>0, <1>11 DEF SyncingInv
  <2>2. QED  BY <2>1
<1>15. IsSyncPeer(e) /\ Len(b) >= remoteHeight[e]  BY <1>0, <1>11, <1>14 DEF SyncingInv
<1>16. chain'[n] = b  BY <1>0, <1>11, <1>14 DEF BlocksInv
<1>17. QED  BY <1>13, <1>14, <1>15, <1>16

\* A synchronisation that ends has brought the node onto the chain of the peer it
\* chose, whatever other peers have announced meanwhile.
THEOREM SyncsCatchUp == Spec => SyncCatchesUp
<1> DEFINE I == TypeInv /\ CarryInv
           A == \A n \in Nodes : syncing[n] /\ ~syncing'[n] =>
                  \E e \in Ends : e[1] = n /\ IsSyncPeer(e)
                                  /\ IsPrefix(chain'[n], chain[e[2]])
                                  /\ Len(chain'[n]) >= remoteHeight[e]
<1>1. Init => I  BY SyncAssumption, InitTypeInv, InitCarryInv
<1>2. I /\ [Next]_vars => I'
  <2> SUFFICES ASSUME I, [Next]_vars PROVE I'  OBVIOUS
  <2>1. TypeInv'  BY SyncAssumption, NextTypeInv
  <2>2. CarryInv'  BY SyncAssumption, NextCarryInv
  <2>3. QED  BY <2>1, <2>2
<1>3. I /\ [Next]_vars => [A]_vars
  <2> SUFFICES ASSUME I, Next PROVE A  OBVIOUS
  <2>1. ASSUME NEW n \in Nodes, syncing[n], ~syncing'[n]
        PROVE  \E e \in Ends : /\ e[1] = n /\ IsSyncPeer(e)
                               /\ IsPrefix(chain'[n], chain[e[2]])
                               /\ Len(chain'[n]) >= remoteHeight[e]
    BY <2>1, SyncAssumption, EndOfSync
  <2>2. QED  BY <2>1
<1>4. SyncCatchesUp <=> [][A]_vars  BY DEF SyncCatchesUp
<1>5. QED  BY <1>1, <1>2, <1>3, <1>4, PTL DEF Spec

-----------------------------------------------------------------------------
(***************************************************************************)
(* Blocks that lead on                                                     *)
(***************************************************************************)

\* The first k blocks of the chain d, named by the last of them.
At(b, d, k) == b \in Seq(Nodes) /\ Len(b) = k /\ Longer(d, b)

\* The l blocks behind the k-th of the chain d take a node with the chain c past
\* its tip, and to the height h that it has been told.
Reaches(k, l, c, d, h) ==
  Longer(d, c) /\ k <= Len(c) /\ Len(c) < k + l /\ k + l <= Len(d) /\ h <= k + l

Lead(bs, c, d, h) ==
  \E k \in Nat : Reaches(k, Len(bs), c, d, h) /\ \A i \in 1 .. Len(bs) : At(bs[i], d, k + i)

\* A message that names them, and messages that carry them.
Names(w, type, c, d, h) == \E i \in 1 .. Len(w) : w[i].type = type /\ Lead(w[i].hashes, c, d, h)

Carried(w, i, l, k, c, d, h) ==
  /\ i + l <= Len(w) /\ Reaches(k, l, c, d, h)
  /\ \A j \in 1 .. l : w[i + j].type = "block" /\ At(w[i + j].block, d, k + j)

Brings(w, c, d, h) ==
  \E i \in Nat : \E l \in Nat : \E k \in Nat : Carried(w, i, l, k, c, d, h)

Asks(w, c) == \E i \in 1 .. Len(w) : w[i] = [type |-> "getblocks", tip |-> c]

\* Where the synchronisation of a node with the chain c goes on: w, what it has
\* sent; b, what it has not read; at and hs, where the peer's reader is and what
\* it is about to send; d, the peer's chain; there, the peer is open.
On(w, b, at, hs, c, d, h, there) ==
  \/ ~there
  \/ Asks(w, c)
  \/ at = "serving" /\ Lead(hs, c, d, h)
  \/ Names(b, "inv", c, d, h)
  \/ Names(w, "getdata", c, d, h)
  \/ Brings(b, c, d, h)

\* Two starts of a list of the same length are the same, and one that is not
\* longer is a start of the other.
LEMMA Starts ==
  ASSUME NEW T, NEW w \in Seq(T), NEW u \in Seq(T), NEW v \in Seq(T), Longer(w, u), Longer(w, v)
  PROVE  /\ Len(u) <= Len(v) => Longer(v, u)
         /\ Len(u) = Len(v) => u = v
<1>1. Len(u) \in Nat /\ Len(v) \in Nat /\ Len(w) \in Nat  BY LenProperties
<1>2. /\ \A i \in 1 .. Len(u) : w[i] = u[i]
      /\ \A i \in 1 .. Len(v) : w[i] = v[i]
  BY DEF Longer
<1>3. Len(u) <= Len(v) => Longer(v, u)
  <2>1. SUFFICES ASSUME Len(u) <= Len(v) PROVE Longer(v, u)  OBVIOUS
  <2>2. \A i \in 1 .. Len(u) : i \in 1 .. Len(v)  BY <1>1, <2>1
  <2>3. \A i \in 1 .. Len(u) : v[i] = u[i]  BY <1>2, <2>2
  <2>4. QED  BY <2>1, <2>3 DEF Longer
<1>4. Len(u) = Len(v) => u = v
  <2>1. SUFFICES ASSUME Len(u) = Len(v) PROVE u = v  OBVIOUS
  <2>2. u = [i \in 1 .. Len(u) |-> u[i]] /\ v = [i \in 1 .. Len(v) |-> v[i]]  BY LenProperties
  <2>3. \A i \in 1 .. Len(u) : u[i] = v[i]  BY <1>2, <2>1
  <2>4. [i \in 1 .. Len(u) |-> u[i]] = [i \in 1 .. Len(u) |-> v[i]]  BY <2>3
  <2>5. QED  BY <2>1, <2>2, <2>4
<1>5. QED  BY <1>3, <1>4

\* What the chain of the peer has it keeps when it grows.
LEMMA ReachesGrow ==
  ASSUME NEW c \in Seq(Nodes), NEW d \in Seq(Nodes), NEW e \in Seq(Nodes), Longer(e, d), NEW h
  PROVE  /\ \A b, k : At(b, d, k) => At(b, e, k)
         /\ \A k, l \in Nat : Reaches(k, l, c, d, h) => Reaches(k, l, c, e, h)
<1>1. Len(c) \in Nat /\ Len(d) \in Nat /\ Len(e) \in Nat /\ Len(d) <= Len(e)
  BY LenProperties DEF Longer
<1>2. ASSUME NEW b, NEW k, At(b, d, k) PROVE At(b, e, k)
  <2>1. b \in Seq(Nodes) /\ Len(b) = k /\ Longer(d, b)  BY <1>2 DEF At
  <2>2. Longer(e, b)  BY <2>1, LongerStill
  <2>3. QED  BY <2>1, <2>2 DEF At
<1>3. ASSUME NEW k \in Nat, NEW l \in Nat, Reaches(k, l, c, d, h) PROVE Reaches(k, l, c, e, h)
  <2>1. Longer(d, c) /\ k + l <= Len(d)  BY <1>3 DEF Reaches
  <2>2. Longer(e, c)  BY <2>1, LongerStill
  <2>3. k + l <= Len(e)  BY <1>1, <2>1
  <2>4. QED  BY <1>3, <2>2, <2>3 DEF Reaches
<1>4. QED  BY <1>2, <1>3

\* Hence what leads on still does.
LEMMA OnGrow ==
  ASSUME NEW w \in Seq(Message), NEW b \in Seq(Message), NEW at, NEW hs \in Seq(Block),
         NEW c \in Seq(Nodes), NEW d \in Seq(Nodes), NEW e \in Seq(Nodes), Longer(e, d), NEW h,
         NEW there, On(w, b, at, hs, c, d, h, there)
  PROVE  On(w, b, at, hs, c, e, h, there)
<1>1. /\ \A x, k : At(x, d, k) => At(x, e, k)
      /\ \A k, l \in Nat : Reaches(k, l, c, d, h) => Reaches(k, l, c, e, h)
  BY ReachesGrow
<1>2. ASSUME NEW bs \in Seq(Block), Lead(bs, c, d, h) PROVE Lead(bs, c, e, h)
  <2>1. Len(bs) \in Nat  BY LenProperties
  <2>2. QED  BY <1>1, <1>2, <2>1 DEF Lead
<1>3. ASSUME NEW v \in Seq(Message), NEW type \in {"inv", "getdata"}, Names(v, type, c, d, h)
      PROVE  Names(v, type, c, e, h)
  <2>1. PICK i \in 1 .. Len(v) : v[i].type = type /\ Lead(v[i].hashes, c, d, h)  BY <1>3 DEF Names
  <2>2. v[i] \in Message  BY ElementOfSeq
  <2>3. v[i].hashes \in Seq(Block)  BY <2>1, <2>2, MessageFacts
  <2>4. QED  BY <1>2, <2>1, <2>3 DEF Names
<1>4. Brings(b, c, d, h) => Brings(b, c, e, h)  BY <1>1 DEF Brings, Carried
<1>5. QED  BY <1>2, <1>3, <1>4 DEF On

\* More on the way either way, with what the reader was about to send among it.
LEMMA OnMore ==
  ASSUME NEW w \in Seq(Message), NEW v \in Seq(Message), Longer(v, w),
         NEW b \in Seq(Message), NEW a \in Seq(Message), Longer(a, b),
         NEW at, NEW atNow, NEW hs, NEW hsNow, NEW c, NEW d, NEW h, NEW there, NEW thereNow,
         thereNow => there,
         at = "serving" /\ Lead(hs, c, d, h) =>
           Names(a, "inv", c, d, h) \/ (atNow = "serving" /\ hsNow = hs),
         On(w, b, at, hs, c, d, h, there)
  PROVE  On(v, a, atNow, hsNow, c, d, h, thereNow)
<1>1. /\ \A i \in 1 .. Len(w) : i \in 1 .. Len(v) /\ v[i] = w[i]
      /\ \A i \in 1 .. Len(b) : i \in 1 .. Len(a) /\ a[i] = b[i]
  BY SentBehind
<1>2. Asks(w, c) => Asks(v, c)  BY <1>1 DEF Asks
<1>3. Names(b, "inv", c, d, h) => Names(a, "inv", c, d, h)  BY <1>1 DEF Names
<1>4. Names(w, "getdata", c, d, h) => Names(v, "getdata", c, d, h)  BY <1>1 DEF Names
<1>5. ASSUME Brings(b, c, d, h) PROVE Brings(a, c, d, h)
  <2>1. PICK i \in Nat : \E l \in Nat : \E k \in Nat : Carried(b, i, l, k, c, d, h)
    BY <1>5 DEF Brings
  <2>2. PICK l \in Nat : \E k \in Nat : Carried(b, i, l, k, c, d, h)  BY <2>1
  <2>3. PICK k \in Nat : Carried(b, i, l, k, c, d, h)  BY <2>2
  <2>4. Len(b) \in Nat /\ Len(a) \in Nat /\ Len(b) <= Len(a)  BY SentBehind
  <2>5. i + l <= Len(a)  BY <2>3, <2>4 DEF Carried
  <2>6. \A j \in 1 .. l : i + j \in 1 .. Len(b)  BY <2>3, <2>4 DEF Carried
  <2>7. Carried(a, i, l, k, c, d, h)  BY <1>1, <2>3, <2>5, <2>6 DEF Carried
  <2>8. QED  BY <2>7 DEF Brings
<1>6. QED  BY <1>2, <1>3, <1>4, <1>5 DEF On

\* What is left when the peer has read a message.
LEMMA LeftBack ==
  ASSUME NEW w \in Seq(Message), w # <<>>, NEW c, NEW d, NEW h
  PROVE  /\ Asks(w, c) => Head(w) = [type |-> "getblocks", tip |-> c] \/ Asks(Tail(w), c)
         /\ \A type : Names(w, type, c, d, h) =>
              \/ Head(w).type = type /\ Lead(Head(w).hashes, c, d, h)
              \/ Names(Tail(w), type, c, d, h)
<1> DEFINE t == Tail(w)
<1>1. /\ Len(w) \in Nat /\ Len(t) = Len(w) - 1 /\ Head(w) = w[1]
      /\ \A i \in 1 .. Len(w) - 1 : t[i] = w[i + 1]
  BY TailShift
<1> HIDE DEF t
<1>2. ASSUME NEW i \in 1 .. Len(w), i # 1 PROVE i - 1 \in 1 .. Len(t) /\ t[i - 1] = w[i]
  <2>1. i - 1 \in 1 .. Len(w) - 1 /\ (i - 1) + 1 = i  BY <1>1, <1>2
  <2>2. QED  BY <1>1, <2>1
<1>3. ASSUME Asks(w, c), Head(w) # [type |-> "getblocks", tip |-> c] PROVE Asks(t, c)
  <2>1. PICK i \in 1 .. Len(w) : w[i] = [type |-> "getblocks", tip |-> c]  BY <1>3 DEF Asks
  <2>2. i # 1  BY <1>1, <1>3, <2>1
  <2>3. QED  BY <1>2, <2>1, <2>2 DEF Asks
<1>4. ASSUME NEW type, Names(w, type, c, d, h),
             ~(Head(w).type = type /\ Lead(Head(w).hashes, c, d, h))
      PROVE  Names(t, type, c, d, h)
  <2>1. PICK i \in 1 .. Len(w) : w[i].type = type /\ Lead(w[i].hashes, c, d, h)
    BY <1>4 DEF Names
  <2>2. i # 1  BY <1>1, <1>4, <2>1
  <2>3. QED  BY <1>2, <2>1, <2>2 DEF Names
<1>5. QED  BY <1>3, <1>4 DEF t

\* The blocks that are left when the node has read another message.
LEMMA LeftBlocks ==
  ASSUME NEW b \in Seq(Message), b # <<>>, NEW c \in Seq(Nodes), NEW d, NEW h,
         Head(b).type # "block", Brings(b, c, d, h)
  PROVE  Brings(Tail(b), c, d, h)
<1> DEFINE t == Tail(b)
<1>1. /\ Len(b) \in Nat /\ Len(t) = Len(b) - 1 /\ Head(b) = b[1]
      /\ \A i \in 1 .. Len(b) - 1 : t[i] = b[i + 1]
  BY TailShift
<1> HIDE DEF t
<1>2. PICK i \in Nat : \E l \in Nat : \E k \in Nat : Carried(b, i, l, k, c, d, h)  BY DEF Brings
<1>3. PICK l \in Nat : \E k \in Nat : Carried(b, i, l, k, c, d, h)  BY <1>2
<1>4. PICK k \in Nat : Carried(b, i, l, k, c, d, h)  BY <1>3
<1>5. Len(c) \in Nat  BY LenProperties
<1>6. l >= 1  BY <1>4, <1>5 DEF Carried, Reaches
<1>7. i # 0
  <2>1. SUFFICES ASSUME i = 0 PROVE FALSE  OBVIOUS
  <2>2. 1 \in 1 .. l /\ i + 1 = 1  BY <1>6, <2>1
  <2>3. b[i + 1].type = "block"  BY <1>4, <2>2 DEF Carried
  <2>4. QED  BY <1>1, <2>2, <2>3
<1>8. Carried(t, i - 1, l, k, c, d, h)
  <2>1. (i - 1) + l <= Len(t)  BY <1>1, <1>4 DEF Carried
  <2>2. ASSUME NEW j \in 1 .. l PROVE t[(i - 1) + j] = b[i + j]
    <3>1. (i - 1) + j \in 1 .. Len(b) - 1 /\ ((i - 1) + j) + 1 = i + j
      BY <1>1, <1>4, <1>7 DEF Carried
    <3>2. QED  BY <1>1, <3>1
  <2>3. QED  BY <1>4, <2>1, <2>2 DEF Carried
<1>9. i - 1 \in Nat  BY <1>7
<1>10. Brings(t, c, d, h)  BY <1>8, <1>9 DEF Brings
<1>11. QED  BY <1>10 DEF t

\* The peer reads a message that is neither the request nor a getdata.
LEMMA OnReadBack ==
  ASSUME NEW w \in Seq(Message), w # <<>>, Head(w).type \notin {"getblocks", "getdata"},
         NEW b, NEW at, NEW hs, NEW c, NEW d, NEW h, NEW there, On(w, b, at, hs, c, d, h, there)
  PROVE  On(Tail(w), b, at, hs, c, d, h, there)
<1> DEFINE ask == [type |-> "getblocks", tip |-> c]
<1>1. ask.type = "getblocks"  OBVIOUS
<1> HIDE DEF ask
<1>2. Head(w) # ask  BY <1>1
<1>3. Asks(w, c) => Asks(Tail(w), c)  BY <1>2, LeftBack DEF ask
<1>4. Names(w, "getdata", c, d, h) => Names(Tail(w), "getdata", c, d, h)  BY LeftBack
<1>5. QED  BY <1>3, <1>4 DEF On

\* The node reads a message that is neither an inv nor a block.
LEMMA OnRead ==
  ASSUME NEW b \in Seq(Message), b # <<>>, Head(b).type \notin {"inv", "block"},
         NEW w, NEW at, NEW hs, NEW c \in Seq(Nodes), NEW d, NEW h, NEW there,
         On(w, b, at, hs, c, d, h, there)
  PROVE  On(w, Tail(b), at, hs, c, d, h, there)
<1>1. Names(b, "inv", c, d, h) => Names(Tail(b), "inv", c, d, h)  BY LeftBack
<1>2. Brings(b, c, d, h) => Brings(Tail(b), c, d, h)  BY LeftBlocks
<1>3. QED  BY <1>1, <1>2 DEF On

\* The peer reads the request and has blocks for it.
LEMMA OnServed ==
  ASSUME SyncAssumption, NEW w \in Seq(Message), w # <<>>, Head(w).type = "getblocks",
         NEW b, NEW at, at # "serving", NEW hs, NEW c \in Seq(Nodes), NEW d \in Seq(Nodes),
         NEW h \in Int, h <= Len(d), NEW there, On(w, b, at, hs, c, d, h, there),
         NEW hashes, hashes = GetBlockHashesAfter(d, Head(w).tip), hashes # <<>>
  PROVE  On(Tail(w), b, "serving", hashes, c, d, h, there)
<1>1. ASSUME Head(w) = [type |-> "getblocks", tip |-> c] PROVE Lead(hashes, c, d, h)
  <2> DEFINE n == Len(d) - Len(c)
  <2>1. Head(w).tip = c  BY <1>1
  <2>2. IsPrefix(c, d) /\ hashes = [i \in 1 .. n |-> SubSeq(d, 1, Len(c) + i)]
    BY <2>1 DEF GetBlockHashesAfter
  <2>3. Longer(d, c)  BY <2>2, PrefixLonger
  <2>4. Len(c) \in Nat /\ Len(d) \in Nat /\ Len(c) <= Len(d)  BY <2>3, LenProperties DEF Longer
  <2>5. n \in Nat  BY <2>4
  <2>6. ASSUME NEW i \in 1 .. n PROVE At(SubSeq(d, 1, Len(c) + i), d, Len(c) + i)
    <3>1. Len(c) + i \in 0 .. Len(d)  BY <2>4
    <3>2. QED  BY <3>1, PartLonger DEF At
  <2> HIDE DEF n
  <2>7. Len(hashes) = n
    <3> DEFINE T == Seq(Nodes)
    <3>0. \A i \in 1 .. n : SubSeq(d, 1, Len(c) + i) \in T  BY <2>6 DEF At
    <3> HIDE DEF T
    <3>1. hashes \in [1 .. n -> T]  BY <2>2, <3>0
    <3>2. hashes \in Seq(T) /\ DOMAIN hashes = 1 .. n
      <4>1. hashes \in Seq(T)  BY <2>5, <3>1, SeqDef
      <4>2. QED  BY <3>1, <4>1
    <3>3. DOMAIN hashes = 1 .. Len(hashes) /\ Len(hashes) \in Nat  BY <3>2, LenProperties
    <3>4. QED  BY <2>5, <3>2, <3>3
  <2>8. n # 0
    <3>1. SUFFICES ASSUME n = 0 PROVE FALSE  OBVIOUS
    <3>2. 1 .. n = {}  BY <3>1
    <3>3. hashes = [i \in {} |-> SubSeq(d, 1, Len(c) + i)]  BY <2>2, <3>2
    <3>4. hashes = <<>>  BY <3>3
    <3>5. QED  BY <3>4
  <2>9. Len(c) + n = Len(d)  BY <2>4 DEF n
  <2>10. Reaches(Len(c), Len(hashes), c, d, h)
    BY <2>3, <2>4, <2>5, <2>7, <2>8, <2>9 DEF Reaches
  <2>11. \A i \in 1 .. Len(hashes) : At(hashes[i], d, Len(c) + i)  BY <2>2, <2>6, <2>7
  <2>12. QED  BY <2>4, <2>10, <2>11 DEF Lead
<1>2. Asks(w, c) => Lead(hashes, c, d, h) \/ Asks(Tail(w), c)  BY <1>1, LeftBack
<1>3. Names(w, "getdata", c, d, h) => Names(Tail(w), "getdata", c, d, h)  BY LeftBack
<1>4. QED  BY <1>2, <1>3 DEF On

\* The node reads an inv and asks for its blocks.
LEMMA OnInv ==
  ASSUME NEW b \in Seq(Message), b # <<>>, Head(b).type = "inv",
         NEW w \in Seq(Message), NEW v \in Seq(Message), Longer(v, w),
         NEW j \in 1 .. Len(v), v[j].type = "getdata", v[j].hashes = Head(b).hashes,
         NEW at, NEW hs, NEW c \in Seq(Nodes), NEW d, NEW h, NEW there,
         On(w, b, at, hs, c, d, h, there)
  PROVE  On(v, Tail(b), at, hs, c, d, h, there)
<1>2. \A i \in 1 .. Len(w) : i \in 1 .. Len(v) /\ v[i] = w[i]  BY SentBehind
<1>4. Asks(w, c) => Asks(v, c)  BY <1>2 DEF Asks
<1>5. Names(w, "getdata", c, d, h) => Names(v, "getdata", c, d, h)  BY <1>2 DEF Names
<1>6. Lead(Head(b).hashes, c, d, h) => Names(v, "getdata", c, d, h)  BY DEF Names
<1>7. Names(b, "inv", c, d, h) =>
        Lead(Head(b).hashes, c, d, h) \/ Names(Tail(b), "inv", c, d, h)
  BY LeftBack
<1>8. Brings(b, c, d, h) => Brings(Tail(b), c, d, h)  BY LeftBlocks
<1>9. QED  BY <1>4, <1>5, <1>6, <1>7, <1>8 DEF On

\* The peer reads a getdata and sends the blocks.
LEMMA OnData ==
  ASSUME NEW w \in Seq(Message), w # <<>>, Head(w).type = "getdata",
         NEW b \in Seq(Message), NEW at, NEW hs, NEW c \in Seq(Nodes), NEW d \in Seq(Nodes),
         NEW h, NEW there, On(w, b, at, hs, c, d, h, there),
         NEW S, \A k \in 1 .. Len(d) : SubSeq(d, 1, k) \in S,
         NEW found, found = Only(Head(w).hashes, S),
         NEW msgs \in Seq(Message),
         msgs = [i \in DOMAIN found |-> [type |-> "block", block |-> found[i]]]
  PROVE  On(Tail(w), b \o msgs, at, hs, c, d, h, there)
<1> DEFINE a == b \o msgs
           hashes == Head(w).hashes
<1>1. hashes \in Seq(Block)
  <2>1. Head(w) \in Message  BY TailShift
  <2>2. QED  BY <2>1, MessageFacts
<1>2. /\ a \in Seq(Message) /\ Longer(a, b) /\ Len(a) = Len(b) + Len(msgs)
      /\ \A i \in Len(b) + 1 .. Len(a) : a[i] = msgs[i - Len(b)]
  BY ConcatLonger
<1> HIDE DEF a
<1>3. ASSUME Lead(hashes, c, d, h) PROVE Brings(a, c, d, h)
  <2> DEFINE n == Len(hashes)
  <2>1. n \in Nat /\ DOMAIN hashes = 1 .. n /\ Len(b) \in Nat /\ Len(d) \in Nat
    BY <1>1, LenProperties
  <2>2. PICK k \in Nat : Reaches(k, n, c, d, h) /\ \A i \in 1 .. n : At(hashes[i], d, k + i)
    BY <1>3 DEF Lead
  <2>3. ASSUME NEW i \in 1 .. n PROVE hashes[i] \in S
    <3>1. k + i \in 0 .. Len(d) /\ k + i \in 1 .. Len(d)  BY <2>1, <2>2 DEF Reaches
    <3>2. hashes[i] \in Seq(Nodes) /\ Len(hashes[i]) = k + i /\ Longer(d, hashes[i])
      BY <2>2 DEF At
    <3>3. /\ SubSeq(d, 1, k + i) \in Seq(Nodes) /\ Len(SubSeq(d, 1, k + i)) = k + i
          /\ Longer(d, SubSeq(d, 1, k + i))
      BY <3>1, PartLonger
    <3> DEFINE u == hashes[i]
               v == SubSeq(d, 1, k + i)
    <3> HIDE DEF u, v
    <3>4. u = v
      <4>1. u \in Seq(Nodes) /\ v \in Seq(Nodes) /\ Len(u) = Len(v) /\ Longer(d, u) /\ Longer(d, v)
        BY <3>2, <3>3 DEF u, v
      <4>2. QED  BY <4>1, Starts
    <3> USE DEF u, v
    <3>5. QED  BY <3>1, <3>4
  <2>4. found = hashes  BY <1>1, <2>3, OnlyAll
  <2> HIDE DEF hashes
  <2>5. DOMAIN msgs = 1 .. n /\ \A i \in 1 .. n : msgs[i] = [type |-> "block", block |-> hashes[i]]
    BY <2>1, <2>4
  <2> HIDE DEF n
  <2>6. Len(msgs) = n
    <3>1. DOMAIN msgs = 1 .. Len(msgs) /\ Len(msgs) \in Nat  BY LenProperties
    <3>2. QED  BY <2>1, <2>5, <3>1
  <2>7. ASSUME NEW j \in 1 .. n
        PROVE  a[Len(b) + j].type = "block" /\ At(a[Len(b) + j].block, d, k + j)
    <3>1. Len(b) + j \in Len(b) + 1 .. Len(a) /\ (Len(b) + j) - Len(b) = j  BY <1>2, <2>1, <2>6
    <3>2. a[Len(b) + j] = msgs[j]  BY <1>2, <3>1
    <3>3. a[Len(b) + j] = [type |-> "block", block |-> hashes[j]]  BY <2>5, <3>2
    <3>4. QED  BY <2>2, <3>3
  <2>8. Carried(a, Len(b), n, k, c, d, h)
    <3>1. Len(b) + n <= Len(a)  BY <1>2, <2>1, <2>6
    <3>2. QED  BY <2>2, <2>7, <3>1 DEF Carried
  <2>9. QED  BY <2>1, <2>8 DEF Brings
<1>4. On(w, a, at, hs, c, d, h, there)
  <2>1. Len(w) \in Nat /\ Longer(w, w)  BY LenProperties DEF Longer
  <2>2. QED  BY <1>2, <2>1, OnMore
<1>5. ~Asks(w, c) \/ Asks(Tail(w), c)
  <2> DEFINE ask == [type |-> "getblocks", tip |-> c]
  <2>1. ask.type = "getblocks"  OBVIOUS
  <2> HIDE DEF ask
  <2>2. Head(w) # ask  BY <2>1
  <2>3. QED  BY <2>2, LeftBack DEF ask
<1>6. Names(w, "getdata", c, d, h) => Lead(hashes, c, d, h) \/ Names(Tail(w), "getdata", c, d, h)
  BY LeftBack
<1>7. On(Tail(w), a, at, hs, c, d, h, there)  BY <1>3, <1>4, <1>5, <1>6 DEF On
<1>8. QED  BY <1>7 DEF a

\* A node that has one block more of the peer's chain, and is not as high as it
\* has been told.
LEMMA ReachesOn ==
  ASSUME NEW c \in Seq(Nodes), NEW d \in Seq(Nodes), NEW x \in Seq(Nodes), NEW h \in Int,
         Longer(d, x), Len(x) = Len(c) + 1, Len(x) < h,
         NEW k \in Nat, NEW l \in Nat, Reaches(k, l, c, d, h)
  PROVE  Reaches(k, l, x, d, h)
<1>1. Len(c) \in Nat /\ Len(x) \in Nat /\ Len(d) \in Nat  BY LenProperties
<1>2. QED  BY <1>1 DEF Reaches

\* The node reads a block of the peer's chain, and stores it if it comes next.
LEMMA OnBlock ==
  ASSUME SyncAssumption, NEW b \in Seq(Message), b # <<>>, Head(b).type = "block",
         NEW w \in Seq(Message), NEW at, NEW hs \in Seq(Block),
         NEW c \in Seq(Nodes), NEW d \in Seq(Nodes), NEW h \in Int, NEW there,
         ~Asks(w, c), NEW x, x = Head(b).block, Longer(d, x), NEW new \in Seq(Nodes),
         (new = x /\ Front(x) = c /\ Len(new) < h) \/ (new = c /\ Front(x) # c),
         On(w, b, at, hs, c, d, h, there)
  PROVE  On(w, Tail(b), at, hs, new, d, h, there)
<1> DEFINE t == Tail(b)
<1>1. /\ Len(b) \in Nat /\ Len(t) = Len(b) - 1 /\ Head(b) = b[1] /\ t \in Seq(Message)
      /\ \A i \in 1 .. Len(b) - 1 : t[i] = b[i + 1]
  BY TailShift
<1>2. x \in Block /\ x \in Seq(Nodes) /\ Len(x) \in Nat /\ Len(x) >= 1
  <2>1. Head(b) \in Message  BY TailShift
  <2>2. x \in Block  BY <2>1, MessageFacts
  <2>3. x \in Seq(Nodes) /\ Len(x) \in 1 .. MaxHeight  BY <2>2, BlockFacts
  <2>4. QED  BY <2>2, <2>3, LenProperties
<1>3. Front(x) \in Seq(Nodes) /\ Len(Front(x)) = Len(x) - 1 /\ Longer(x, Front(x))
  <2>1. x # <<>>  BY <1>2, EmptySeq
  <2>2. QED  BY <1>2, <2>1, FrontLonger
<1>4. Len(c) \in Nat /\ Len(d) \in Nat /\ Len(new) \in Nat  BY LenProperties
<1>5. /\ Longer(d, x)
      /\ (new = x /\ Front(x) = c /\ Len(new) < h) \/ (new = c /\ Front(x) # c)
  OBVIOUS
<1>h. Head(b).type = "block" /\ Head(b).block = x  OBVIOUS
<1> HIDE DEF t
<1>6. \A k, l \in Nat : Reaches(k, l, c, d, h) => Reaches(k, l, new, d, h)
  <2>1. CASE new = c  BY <2>1
  <2>2. CASE new = x /\ Front(x) = c /\ Len(new) < h
    <3>1. Len(x) = Len(c) + 1  BY <1>2, <1>3, <1>4, <2>2
    <3>2. QED  BY <1>2, <1>5, <2>2, <3>1, ReachesOn
  <2>3. QED  BY <1>5, <2>1, <2>2
<1>7. ASSUME NEW bs \in Seq(Block), Lead(bs, c, d, h) PROVE Lead(bs, new, d, h)
  <2>1. Len(bs) \in Nat  BY LenProperties
  <2>2. QED  BY <1>6, <1>7, <2>1 DEF Lead
<1>8. ASSUME NEW v \in Seq(Message), NEW type \in {"inv", "getdata"}, Names(v, type, c, d, h)
      PROVE  Names(v, type, new, d, h)
  <2>1. PICK i \in 1 .. Len(v) : v[i].type = type /\ Lead(v[i].hashes, c, d, h)  BY <1>8 DEF Names
  <2>2. v[i] \in Message  BY ElementOfSeq
  <2>3. v[i].hashes \in Seq(Block)  BY <2>1, <2>2, MessageFacts
  <2>4. QED  BY <1>7, <2>1, <2>3 DEF Names
<1>9. Names(b, "inv", c, d, h) => Names(t, "inv", new, d, h)
  <2>1. Names(b, "inv", c, d, h) => Names(t, "inv", c, d, h)  BY <1>h, LeftBack DEF t
  <2>2. QED  BY <1>1, <1>8, <2>1
<1>10. ASSUME Brings(b, c, d, h) PROVE Brings(t, new, d, h)
  <2>1. PICK i \in Nat : \E l \in Nat : \E k \in Nat : Carried(b, i, l, k, c, d, h)
    BY <1>10 DEF Brings
  <2>2. PICK l \in Nat : \E k \in Nat : Carried(b, i, l, k, c, d, h)  BY <2>1
  <2>3. PICK k \in Nat : Carried(b, i, l, k, c, d, h)  BY <2>2
  <2>4. /\ i + l <= Len(b) /\ Reaches(k, l, c, d, h)
        /\ \A j \in 1 .. l : b[i + j].type = "block" /\ At(b[i + j].block, d, k + j)
    BY <2>3 DEF Carried
  <2>5. Reaches(k, l, new, d, h)  BY <1>6, <2>4
  <2>6. CASE i # 0
    <3>1. (i - 1) + l <= Len(t)  BY <1>1, <2>4
    <3>2. ASSUME NEW j \in 1 .. l PROVE t[(i - 1) + j] = b[i + j]
      <4>1. (i - 1) + j \in 1 .. Len(b) - 1 /\ ((i - 1) + j) + 1 = i + j  BY <1>1, <2>4, <2>6
      <4>2. QED  BY <1>1, <4>1
    <3>3. Carried(t, i - 1, l, k, new, d, h)  BY <2>4, <2>5, <3>1, <3>2 DEF Carried
    <3>4. i - 1 \in Nat  BY <2>6
    <3>5. QED  BY <3>3, <3>4 DEF Brings
  <2>7. CASE i = 0
    <3>1. l >= 1 /\ k <= Len(c)  BY <1>4, <2>4 DEF Reaches
    <3>2. At(x, d, k + 1)
      <4>1. 1 \in 1 .. l /\ i + 1 = 1  BY <2>7, <3>1
      <4>2. QED  BY <1>1, <1>h, <2>4, <4>1
    <3>3. Len(x) = k + 1  BY <3>2 DEF At
    <3>4. Longer(d, c) /\ Longer(d, x)  BY <1>5, <2>4 DEF Reaches
    <3>5. k = Len(c) => Front(x) = c
      <4>1. Longer(d, Front(x))  BY <1>2, <1>3, <3>4, LongerStill
      <4>2. Len(Front(x)) = k  BY <1>3, <3>3
      <4>3. QED  BY <1>3, <3>4, <4>1, <4>2, Starts
    <3>6. k + 1 <= Len(new) /\ l # 1 /\ Len(new) < k + l
      <4>1. CASE new = c /\ Front(x) # c
        <5>1. k # Len(c)  BY <3>5, <4>1
        <5>2. Len(c) < k + l  BY <2>4 DEF Reaches
        <5>3. QED  BY <1>4, <3>1, <4>1, <5>1, <5>2
      <4>2. CASE new = x /\ Front(x) = c /\ Len(new) < h
        <5>1. h <= k + l  BY <2>4 DEF Reaches
        <5>2. QED  BY <3>3, <4>2, <5>1
      <4>3. QED  BY <1>5, <4>1, <4>2
    <3>7. l - 1 \in Nat /\ k + 1 \in Nat /\ (k + 1) + (l - 1) = k + l  BY <3>1
    <3>8. Reaches(k + 1, l - 1, new, d, h)  BY <2>5, <3>6, <3>7 DEF Reaches
    <3>9. 0 + (l - 1) <= Len(t)  BY <1>1, <2>4, <2>7
    <3>10. ASSUME NEW j \in 1 .. l - 1
           PROVE  t[0 + j].type = "block" /\ At(t[0 + j].block, d, (k + 1) + j)
      <4>1. j + 1 \in 1 .. l /\ 0 + j = j /\ j \in 1 .. Len(b) - 1 /\ i + (j + 1) = j + 1
            /\ k + (j + 1) = (k + 1) + j
        BY <1>1, <2>4, <2>7
      <4>2. t[0 + j] = b[i + (j + 1)]  BY <1>1, <4>1
      <4>3. b[i + (j + 1)].type = "block" /\ At(b[i + (j + 1)].block, d, k + (j + 1))
        BY <2>4, <4>1
      <4>4. QED  BY <4>1, <4>2, <4>3
    <3>11. Carried(t, 0, l - 1, k + 1, new, d, h)  BY <3>8, <3>9, <3>10 DEF Carried
    <3>12. QED  BY <3>7, <3>11 DEF Brings
  <2>8. QED  BY <2>6, <2>7
<1>11. On(w, t, at, hs, new, d, h, there)
  <2>1. Names(w, "getdata", c, d, h) => Names(w, "getdata", new, d, h)  BY <1>8
  <2>2. Lead(hs, c, d, h) => Lead(hs, new, d, h)  BY <1>7
  <2>3. QED  BY <1>9, <1>10, <2>1, <2>2 DEF On
<1>12. QED  BY <1>11 DEF t

-----------------------------------------------------------------------------
(***************************************************************************)
(* The height of the peer                                                  *)
(***************************************************************************)

\* A step leaves the chains or extends one of them by a block.
LEMMA ChainStep ==
  ASSUME SyncAssumption, TypeInv, [Next]_vars
  PROVE  \/ chain' = chain
         \/ \E n \in Nodes : \E b \in Block :
              Front(b) = chain[n] /\ chain' = [chain EXCEPT ![n] = b]
<1>0. BlocksInv /\ NetInv  BY DEF TypeInv
<1>1. SUFFICES ASSUME chain' # chain
               PROVE  \E n \in Nodes : \E b \in Block :
                        Front(b) = chain[n] /\ chain' = [chain EXCEPT ![n] = b]
  OBVIOUS
<1>2. ASSUME NEW d \in Dials, Connect(d) \/ Break(d) PROVE FALSE
  BY <1>1, <1>2 DEF Connect, Break, nodeVars
<1>3. ASSUME NEW e \in Ends, ExceedRate(e) \/ SendPing(e) PROVE FALSE
  BY <1>1, <1>3 DEF ExceedRate, SendPing, nodeVars
<1>4. ASSUME NEW k \in Miners, StartMining(k) \/ Announce(k) PROVE FALSE
  BY <1>1, <1>4 DEF StartMining, Announce
<1>5. ASSUME NEW e \in Ends,
             \/ EndOfStream(e) \/ HandleVersion(e) \/ StartSync(e) \/ HandleVerack(e) \/ EarlyMessage(e)
             \/ HandlePing(e) \/ HandleOther(e) \/ HandleGetBlocks(e) \/ SendInv(e)
             \/ HandleInv(e) \/ HandleGetData(e)
      PROVE  FALSE
  BY <1>1, <1>5 DEF EndOfStream, HandleVersion, StartSync, HandleVerack, EarlyMessage, HandlePing,
     HandleOther, HandleGetBlocks, SendInv, HandleInv, HandleGetData, nodeVars
<1>6. ~UNCHANGED vars  BY <1>1 DEF vars, nodeVars
<1>7. (\E e \in Ends : HandleBlock(e)) \/ \E k \in Miners : StoreMined(k)
  BY <1>2, <1>3, <1>4, <1>5, <1>6 DEF Next, ReaderStep
<1>8. ASSUME NEW e \in Ends, HandleBlock(e)
      PROVE  \E n \in Nodes : \E b \in Block :
               Front(b) = chain[n] /\ chain' = [chain EXCEPT ![n] = b]
  <2> DEFINE b == Head(net[Back(e)]).block
  <2>1. net[Back(e)] # <<>> /\ Head(net[Back(e)]).type = "block"
    BY <1>8 DEF HandleBlock, Dispatched, Delivered
  <2>2. b \in Block /\ e[1] \in Nodes  BY <1>0, <2>1, HeadMessage, MessageFacts, EndFacts
  <2>3. Front(b) = chain[e[1]] /\ StoresBlock(e, b)  BY <1>1, <1>8 DEF HandleBlock
  <2>4. chain' = [chain EXCEPT ![e[1]] = b]  BY <2>3 DEF StoresBlock
  <2>5. QED  BY <2>2, <2>3, <2>4
<1>9. ASSUME NEW n \in Miners, StoreMined(n)
      PROVE  \E k \in Nodes : \E b \in Block :
               Front(b) = chain[k] /\ chain' = [chain EXCEPT ![k] = b]
  <2>1. n \in Nodes  BY DEF SyncAssumption
  <2>2. Front(mining[n]) = chain[n] /\ chain' = [chain EXCEPT ![n] = mining[n]] /\ mining[n] # None
    BY <1>1, <1>9 DEF StoreMined
  <2>3. mining[n] \in Block  BY <1>0, <2>1, <2>2 DEF BlocksInv
  <2>4. QED  BY <2>1, <2>2, <2>3
<1>10. QED  BY <1>7, <1>8, <1>9

\* Chains only grow.
LEMMA ChainsGrow ==
  ASSUME SyncAssumption, TypeInv, [Next]_vars, NEW n \in Nodes
  PROVE  chain[n] \in Seq(Nodes) /\ chain'[n] \in Seq(Nodes) /\ Longer(chain'[n], chain[n])
<1>1. chain \in [Nodes -> Block \cup {<<>>}] /\ chain[n] \in Seq(Nodes)
  BY ChainFacts DEF TypeInv, BlocksInv
<1>2. CASE chain' = chain
  <2>1. Longer(chain[n], chain[n])  BY <1>1, LenProperties DEF Longer
  <2>2. QED  BY <1>1, <1>2, <2>1
<1>3. ASSUME NEW k \in Nodes, NEW b \in Block, Front(b) = chain[k],
             chain' = [chain EXCEPT ![k] = b]
      PROVE  chain'[n] \in Seq(Nodes) /\ Longer(chain'[n], chain[n])
  <2>1. b \in Seq(Nodes) /\ Longer(b, chain[k])  BY <1>3, Extends
  <2>2. chain'[n] = IF n = k THEN b ELSE chain[n]  BY <1>1, <1>3
  <2>3. Longer(chain[n], chain[n])  BY <1>1, LenProperties DEF Longer
  <2>4. QED  BY <1>1, <2>1, <2>2, <2>3
<1>4. QED  BY <1>1, <1>2, <1>3, ChainStep

\* No peer is taken for higher than it is.
RemoteInv == \A e \in Ends : remoteHeight[e] <= Height(e[2])

\* Nobody has been told a height to begin with.
LEMMA InitRemoteInv == ASSUME SyncAssumption PROVE Init => RemoteInv
<1> SUFFICES ASSUME Init, NEW e \in Ends PROVE remoteHeight[e] <= Height(e[2])  BY DEF RemoteInv
<1>1. TypeInv  BY InitTypeInv
<1>2. e[2] \in Nodes  BY EndFacts
<1>3. chain[e[2]] \in Seq(Nodes)  BY <1>1, <1>2, ChainFacts DEF TypeInv, BlocksInv
<1>4. Height(e[2]) \in Nat  BY <1>3, LenProperties DEF Height
<1>5. remoteHeight[e] = -1  BY DEF Init
<1>6. QED  BY <1>4, <1>5

\* A version says the height that its sender has, and that does not fall.
LEMMA NextRemoteInv ==
  ASSUME SyncAssumption PROVE TypeInv /\ CarryInv /\ RemoteInv /\ [Next]_vars => RemoteInv'
<1> SUFFICES ASSUME TypeInv, CarryInv, RemoteInv, [Next]_vars, NEW x \in Ends
             PROVE  remoteHeight'[x] <= Len(chain'[x[2]])
  BY DEF RemoteInv, Height
<1>0. BlocksInv /\ LinkInv /\ NetInv  BY DEF TypeInv
<1>1. x[1] \in Nodes /\ x[2] \in Nodes /\ Back(x) \in Ends /\ Back(x)[1] = x[2]  BY EndFacts
<1>2. /\ chain[x[2]] \in Seq(Nodes) /\ chain'[x[2]] \in Seq(Nodes)
      /\ Longer(chain'[x[2]], chain[x[2]])
  BY <1>1, ChainsGrow
<1>3. /\ Len(chain[x[2]]) \in Nat /\ Len(chain'[x[2]]) \in Nat
      /\ Len(chain[x[2]]) <= Len(chain'[x[2]])
  BY <1>2, LenProperties DEF Longer
<1>4. MaxHeight \in Nat /\ remoteHeight \in [Ends -> -1 .. MaxHeight]
  BY <1>0 DEF SyncAssumption, LinkInv
<1>5. remoteHeight[x] \in Int /\ remoteHeight[x] <= Len(chain[x[2]])
  BY <1>4 DEF RemoteInv, Height
<1>6. CASE remoteHeight' = remoteHeight  BY <1>3, <1>5, <1>6
<1>7. ASSUME NEW d \in Dials, Connect(d) PROVE remoteHeight'[x] <= Len(chain'[x[2]])
  <2>1. remoteHeight'[x] = -1 \/ remoteHeight'[x] = remoteHeight[x]
    <3>1. x \in {d, Back(d)} => remoteHeight'[x] = -1  BY <1>0, <1>7, Connected
    <3>2. x # d /\ x # Back(d) => remoteHeight'[x] = remoteHeight[x]  BY <1>7, Unconnected
    <3>3. QED  BY <3>1, <3>2
  <2>2. QED  BY <1>3, <1>5, <2>1
<1>8. ASSUME NEW e \in Ends, HandleVersion(e) PROVE remoteHeight'[x] <= Len(chain'[x[2]])
  <2> DEFINE m == Head(net[Back(e)])
  <2>1. net[Back(e)] # <<>> /\ m.type = "version"  BY <1>8 DEF HandleVersion, Delivered
  <2>2. remoteHeight' = [remoteHeight EXCEPT ![e] = m.height]  BY <1>8 DEF HandleVersion
  <2>3. CASE x # e
    <3>1. remoteHeight'[x] = remoteHeight[x]  BY <1>4, <2>2, <2>3
    <3>2. QED  BY <1>3, <1>5, <3>1
  <2>4. CASE x = e
    <3> DEFINE w == net[Back(x)]
               ch == chain[x[2]]
    <3>1. w \in Seq(Message) /\ Carries(w, ch)
      <4>1. Carries(net[Back(x)], chain[Back(x)[1]]) /\ net[Back(x)] \in Seq(Message)
        BY <1>0, <1>1, CarryOf
      <4>2. QED  BY <1>1, <4>1
    <3>2. w # <<>> /\ Head(w) = m  BY <2>1, <2>4
    <3> HIDE DEF w, m, ch
    <3>3. Head(w) = w[1] /\ Len(w) \in Nat /\ Len(w) >= 1 /\ Head(w) \in Message
      BY <3>1, <3>2, TailShift
    <3>4. 1 \in 1 .. Len(w)  BY <3>3
    <3>5. True(m, ch)  BY <3>1, <3>2, <3>3, <3>4 DEF Carries
    <3>6. m.height <= Len(ch) /\ m.height \in 0 .. MaxHeight
      BY <2>1, <3>2, <3>3, <3>5, MessageFacts DEF True
    <3>7. m.height \in Int  BY <1>4, <3>6
    <3>8. remoteHeight'[x] = m.height  BY <1>4, <2>2, <2>4
    <3>9. Len(ch) \in Nat /\ Len(ch) <= Len(chain'[x[2]])  BY <1>3 DEF ch
    <3>10. QED  BY <1>3, <3>6, <3>7, <3>8, <3>9
  <2>5. QED  BY <2>3, <2>4
<1>9. ASSUME NEW d \in Dials, Break(d) PROVE remoteHeight' = remoteHeight  BY <1>9 DEF Break
<1>10. ASSUME NEW e \in Ends, ExceedRate(e) \/ SendPing(e) PROVE remoteHeight' = remoteHeight
  BY <1>10 DEF ExceedRate, SendPing
<1>11. ASSUME NEW k \in Miners, StartMining(k) \/ StoreMined(k) \/ Announce(k)
       PROVE  remoteHeight' = remoteHeight
  BY <1>11 DEF StartMining, StoreMined, Announce, endVars
<1>12. ASSUME NEW e \in Ends,
              \/ EndOfStream(e) \/ StartSync(e) \/ HandleVerack(e) \/ EarlyMessage(e)
              \/ HandlePing(e) \/ HandleOther(e) \/ HandleGetBlocks(e) \/ SendInv(e)
              \/ HandleInv(e) \/ HandleGetData(e) \/ HandleBlock(e)
       PROVE  remoteHeight' = remoteHeight
  BY <1>12 DEF EndOfStream, StartSync, HandleVerack, EarlyMessage, HandlePing,
     HandleOther, HandleGetBlocks, SendInv, HandleInv, HandleGetData, HandleBlock
<1>13. UNCHANGED vars => remoteHeight' = remoteHeight  BY DEF vars, endVars
<1>14. QED
  BY <1>6, <1>7, <1>8, <1>9, <1>10, <1>11, <1>12, <1>13 DEF Next, ReaderStep

-----------------------------------------------------------------------------
(***************************************************************************)
(* A synchronisation that goes on                                          *)
(***************************************************************************)
OnAt(e) ==
  On(net[e], net[Back(e)], reader[Back(e)], gathered[Back(e)], chain[e[1]], chain[e[2]],
     remoteHeight[e], open[Back(e)])

\* The node at the end e synchronises with the one at the other, and nothing
\* has hindered it.
Runs(e) == /\ syncing[e[1]] /\ ~hindered[e[1]] /\ IsSyncPeer(e)
           /\ open[e] /\ remoteHeight[e] # -1

GoingInv == \A n \in Nodes : syncing[n] /\ ~hindered[n] =>
              \E e \in Ends : e[1] = n /\ Runs(e) /\ OnAt(e)

\* What a step leaves of the chains and of the peer's reader.
Still(e) ==
  /\ chain'[e[1]] = chain[e[1]] /\ remoteHeight'[e] = remoteHeight[e]
  /\ \/ reader[Back(e)] # "serving"
     \/ reader'[Back(e)] = reader[Back(e)] /\ gathered'[Back(e)] = gathered[Back(e)]
  /\ open'[Back(e)] => open[Back(e)]

\* The two ends, their wires and the chains of their nodes.
LEMMA GoingOf ==
  ASSUME SyncAssumption, TypeInv, NEW e \in Ends
  PROVE  /\ net[e] \in Seq(Message) /\ net[Back(e)] \in Seq(Message)
         /\ gathered[Back(e)] \in Seq(Block)
         /\ chain[e[1]] \in Seq(Nodes) /\ chain[e[2]] \in Seq(Nodes)
         /\ remoteHeight[e] \in Int
<1>1. Back(e) \in Ends /\ e[1] \in Nodes /\ e[2] \in Nodes  BY EndFacts
<1>2. MaxHeight \in Nat  BY DEF SyncAssumption
<1>3. remoteHeight[e] \in -1 .. MaxHeight  BY DEF TypeInv, LinkInv
<1>4. chain[e[1]] \in Block \cup {<<>>} /\ chain[e[2]] \in Block \cup {<<>>}
  BY <1>1 DEF TypeInv, BlocksInv
<1>5. QED  BY <1>1, <1>2, <1>3, <1>4, ChainFacts DEF TypeInv, NetInv, ThreadInv

\* The step has put something behind what is on the way, or nothing.
LEMMA GoingMore ==
  ASSUME SyncAssumption, TypeInv, [Next]_vars, NEW e \in Ends, OnAt(e), Still(e),
         net'[e] \in Seq(Message), Longer(net'[e], net[e]),
         net'[Back(e)] \in Seq(Message), Longer(net'[Back(e)], net[Back(e)])
  PROVE  OnAt(e)'
<1>1. /\ net[e] \in Seq(Message) /\ net[Back(e)] \in Seq(Message)
      /\ gathered[Back(e)] \in Seq(Block)
      /\ chain[e[1]] \in Seq(Nodes) /\ chain[e[2]] \in Seq(Nodes)
  BY GoingOf
<1>2. chain'[e[2]] \in Seq(Nodes) /\ Longer(chain'[e[2]], chain[e[2]])  BY EndFacts, ChainsGrow
<1> DEFINE w == net[e]
           b == net[Back(e)]
           v == net'[e]
           a == net'[Back(e)]
           at == reader[Back(e)]
           hs == gathered[Back(e)]
           c == chain[e[1]]
           d == chain[e[2]]
           new == chain'[e[2]]
           h == remoteHeight[e]
           there == open[Back(e)]
           atNow == reader'[Back(e)]
           hsNow == gathered'[Back(e)]
           thereNow == open'[Back(e)]
<1>3. On(w, b, at, hs, c, d, h, there)  BY DEF OnAt
<1>4. /\ chain'[e[1]] = c /\ remoteHeight'[e] = h
      /\ at # "serving" \/ (atNow = at /\ hsNow = hs)
      /\ thereNow => there
  BY DEF Still
<1>5. v \in Seq(Message) /\ Longer(v, w) /\ a \in Seq(Message) /\ Longer(a, b)  OBVIOUS
<1>6. OnAt(e)' <=> On(v, a, atNow, hsNow, chain'[e[1]], new, remoteHeight'[e], thereNow)
  BY DEF OnAt, Back
<1> HIDE DEF w, b, v, a, at, hs, c, d, new, h, there, atNow, hsNow, thereNow
<1>7. w \in Seq(Message) /\ b \in Seq(Message) /\ hs \in Seq(Block) /\ c \in Seq(Nodes)
      /\ d \in Seq(Nodes) /\ new \in Seq(Nodes) /\ Longer(new, d)
  BY <1>1, <1>2 DEF w, b, hs, c, d, new
<1>8. On(w, b, at, hs, c, new, h, there)  BY <1>3, <1>7, OnGrow
<1>9. On(v, a, atNow, hsNow, c, new, h, thereNow)  BY <1>4, <1>5, <1>7, <1>8, OnMore
<1>10. QED  BY <1>4, <1>6, <1>9

\* Nothing that concerns the two ends.
LEMMA GoingSame ==
  ASSUME SyncAssumption, TypeInv, [Next]_vars, NEW e \in Ends, OnAt(e), Still(e),
         net'[e] = net[e], net'[Back(e)] = net[Back(e)]
  PROVE  OnAt(e)'
<1>1. net[e] \in Seq(Message) /\ net[Back(e)] \in Seq(Message)  BY GoingOf
<1>2. Longer(net[e], net[e]) /\ Longer(net[Back(e)], net[Back(e)])
  BY <1>1, LenProperties DEF Longer
<1>3. QED  BY <1>1, <1>2, GoingMore

\* A message that an end has sent, or none.
LEMMA GoingSent ==
  ASSUME SyncAssumption, TypeInv, [Next]_vars, NEW e \in Ends, OnAt(e), Still(e),
         NEW m \in Message, \A x \in Ends : net'[x] = net[x] \/ net'[x] = Append(net[x], m)
  PROVE  OnAt(e)'
<1>1. /\ net[e] \in Seq(Message) /\ net[Back(e)] \in Seq(Message) /\ Back(e) \in Ends
  BY GoingOf, EndFacts
<1>2. ASSUME NEW x \in Ends, net[x] \in Seq(Message)
      PROVE  net'[x] \in Seq(Message) /\ Longer(net'[x], net[x])
  <2>1. Longer(net[x], net[x])  BY <1>2, LenProperties DEF Longer
  <2>2. Append(net[x], m) \in Seq(Message) /\ Longer(Append(net[x], m), net[x])
    BY <1>2, AppendLonger
  <2>3. QED  BY <1>2, <2>1, <2>2
<1>3. QED  BY <1>1, <1>2, GoingMore

\* An end that has been closed: its own node is hindered if it was synchronising
\* with the other, and the other has to read of it.
LEMMA GoingClosed ==
  ASSUME SyncAssumption, TypeInv, [Next]_vars, NEW e \in Ends, OnAt(e), Still(e),
         NEW a \in Ends, Disconnect(a), a # e
  PROVE  OnAt(e)'
<1>0. open \in [Ends -> BOOLEAN] /\ net \in [Ends -> Seq(Message)]
  BY DEF TypeInv, LinkInv, NetInv
<1>1. Back(e) \in Ends /\ Back(Back(e)) = e /\ Back(a) \in Ends /\ Back(Back(a)) = a
  BY EndFacts
<1>2. open' = [open EXCEPT ![a] = FALSE] /\ net' = [net EXCEPT ![Back(a)] = <<>>]
  BY DEF Disconnect
<1>3. CASE a = Back(e)
  <2>1. open'[Back(e)] = FALSE  BY <1>0, <1>1, <1>2, <1>3
  <2>2. QED  BY <2>1 DEF OnAt, On, Back
<1>4. CASE a # Back(e)
  <2>1. Back(a) # e /\ Back(a) # Back(e)
    <3>1. Back(a) = e => a = Back(e)  BY <1>1
    <3>2. Back(a) = Back(e) => a = e  BY <1>1
    <3>3. QED  BY <1>4, <3>1, <3>2
  <2>2. net'[e] = net[e] /\ net'[Back(e)] = net[Back(e)]  BY <1>0, <1>1, <1>2, <2>1
  <2>3. QED  BY <2>2, GoingSame
<1>5. QED  BY <1>3, <1>4

\* A reader has read a message that does not carry the synchronisation, and has sent others.
LEMMA GoingRead ==
  ASSUME SyncAssumption, TypeInv, [Next]_vars, NEW e \in Ends, OnAt(e), Still(e),
         NEW a \in Ends, net[Back(a)] # <<>>, NEW msgs \in Seq(Message), net' = Exchange(a, msgs),
         a = e => Head(net[Back(a)]).type \notin {"inv", "block"},
         a = Back(e) => Head(net[Back(a)]).type \notin {"getblocks", "getdata"}
  PROVE  OnAt(e)'
<1>0. NetInv  BY DEF TypeInv
<1>1. Back(e) \in Ends /\ Back(Back(e)) = e /\ Back(e) # e /\ Back(a) \in Ends /\ Back(Back(a)) = a
  BY EndFacts
<1>2. /\ Exchange(a, msgs)[Back(a)] = Tail(net[Back(a)])
      /\ Exchange(a, msgs)[a] = IF open[Back(a)] THEN net[a] \o msgs ELSE net[a]
      /\ \A x \in Ends : x # a /\ x # Back(a) => Exchange(a, msgs)[x] = net[x]
  BY <1>0, ExchangeNet
<1>3. /\ net'[Back(a)] = Tail(net[Back(a)])
      /\ net'[a] = IF open[Back(a)] THEN net[a] \o msgs ELSE net[a]
      /\ \A x \in Ends : x # a /\ x # Back(a) => net'[x] = net[x]
  BY <1>2
<1>4. net'[a] \in Seq(Message) /\ Longer(net'[a], net[a])
  <2>1. net[a] \in Seq(Message)  BY GoingOf
  <2>2. Longer(net[a], net[a])  BY <2>1, LenProperties DEF Longer
  <2>3. net[a] \o msgs \in Seq(Message) /\ Longer(net[a] \o msgs, net[a])  BY <2>1, ConcatLonger
  <2>4. QED  BY <1>3, <2>1, <2>2, <2>3
<1>5. /\ net[e] \in Seq(Message) /\ net[Back(e)] \in Seq(Message)
      /\ gathered[Back(e)] \in Seq(Block)
      /\ chain[e[1]] \in Seq(Nodes) /\ chain[e[2]] \in Seq(Nodes)
  BY GoingOf
<1>6. chain'[e[2]] \in Seq(Nodes) /\ Longer(chain'[e[2]], chain[e[2]])  BY EndFacts, ChainsGrow
<1> DEFINE w == net[e]
           b == net[Back(e)]
           v == net'[e]
           r == net'[Back(e)]
           at == reader[Back(e)]
           hs == gathered[Back(e)]
           c == chain[e[1]]
           d == chain[e[2]]
           new == chain'[e[2]]
           h == remoteHeight[e]
           there == open[Back(e)]
           atNow == reader'[Back(e)]
           hsNow == gathered'[Back(e)]
           thereNow == open'[Back(e)]
<1>7. On(w, b, at, hs, c, d, h, there)  BY DEF OnAt
<1>8. /\ chain'[e[1]] = c /\ remoteHeight'[e] = h
      /\ at # "serving" \/ (atNow = at /\ hsNow = hs)
      /\ thereNow => there
  BY DEF Still
<1>9. OnAt(e)' <=> On(v, r, atNow, hsNow, chain'[e[1]], new, remoteHeight'[e], thereNow)
  BY DEF OnAt, Back
<1>10. /\ a = e => /\ r = Tail(b) /\ v \in Seq(Message) /\ Longer(v, w)
                   /\ b # <<>> /\ Head(b).type \notin {"inv", "block"}
       /\ a = Back(e) => /\ v = Tail(w) /\ r \in Seq(Message) /\ Longer(r, b)
                         /\ w # <<>> /\ Head(w).type \notin {"getblocks", "getdata"}
  BY <1>1, <1>3, <1>4
<1> HIDE DEF w, b, v, r, at, hs, c, d, new, h, there, atNow, hsNow, thereNow
<1>11. w \in Seq(Message) /\ b \in Seq(Message) /\ hs \in Seq(Block) /\ c \in Seq(Nodes)
       /\ d \in Seq(Nodes) /\ new \in Seq(Nodes) /\ Longer(new, d)
  BY <1>5, <1>6 DEF w, b, hs, c, d, new
<1>12. On(w, b, at, hs, c, new, h, there)  BY <1>7, <1>11, OnGrow
<1>13. \A s \in Seq(Message) : Longer(s, s)  BY LenProperties DEF Longer
<1>14. CASE a = e
  <2>1. b # <<>> /\ Head(b).type \notin {"inv", "block"}  BY <1>10, <1>14
  <2>2. r = Tail(b) /\ v \in Seq(Message) /\ Longer(v, w)  BY <1>10, <1>14
  <2>3. On(w, Tail(b), at, hs, c, new, h, there)  BY <1>11, <1>12, <2>1, OnRead
  <2>4. Tail(b) \in Seq(Message)  BY <1>11, <2>1, TailShift
  <2>5. On(w, r, at, hs, c, new, h, there) /\ r \in Seq(Message)  BY <2>2, <2>3, <2>4
  <2>6. Longer(r, r) /\ (at = "serving" => atNow = "serving" /\ hsNow = hs)
    BY <1>8, <1>13, <2>5
  <2>7. /\ w \in Seq(Message) /\ v \in Seq(Message) /\ Longer(v, w) /\ (thereNow => there)
        /\ at = "serving" /\ Lead(hs, c, new, h) =>
             Names(r, "inv", c, new, h) \/ (atNow = "serving" /\ hsNow = hs)
    BY <1>8, <1>11, <2>2, <2>6
  <2>8. On(v, r, atNow, hsNow, c, new, h, thereNow)  BY <2>5, <2>6, <2>7, OnMore
  <2>9. QED  BY <1>8, <1>9, <2>8
<1>15. CASE a = Back(e)
  <2>1. w # <<>> /\ Head(w).type \notin {"getblocks", "getdata"}  BY <1>10, <1>15
  <2>2. v = Tail(w) /\ r \in Seq(Message) /\ Longer(r, b)  BY <1>10, <1>15
  <2>3. On(Tail(w), b, at, hs, c, new, h, there)  BY <1>11, <1>12, <2>1, OnReadBack
  <2>4. Tail(w) \in Seq(Message)  BY <1>11, <2>1, TailShift
  <2>5. On(v, b, at, hs, c, new, h, there) /\ v \in Seq(Message)  BY <2>2, <2>3, <2>4
  <2>6. Longer(v, v) /\ (at = "serving" => atNow = "serving" /\ hsNow = hs)
    BY <1>8, <1>13, <2>5
  <2>7. /\ b \in Seq(Message) /\ r \in Seq(Message) /\ Longer(r, b) /\ (thereNow => there)
        /\ at = "serving" /\ Lead(hs, c, new, h) =>
             Names(r, "inv", c, new, h) \/ (atNow = "serving" /\ hsNow = hs)
    BY <1>8, <1>11, <2>2, <2>6
  <2>8. On(v, r, atNow, hsNow, c, new, h, thereNow)  BY <2>5, <2>6, <2>7, OnMore
  <2>9. QED  BY <1>8, <1>9, <2>8
<1>16. CASE a # e /\ a # Back(e)
  <2>1. Back(a) # e /\ Back(a) # Back(e)
    <3>1. Back(a) = e => a = Back(e)  BY <1>1
    <3>2. Back(a) = Back(e) => a = e  BY <1>1
    <3>3. QED  BY <1>16, <3>1, <3>2
  <2>2. net'[e] = net[e] /\ net'[Back(e)] = net[Back(e)]  BY <1>1, <1>3, <1>16, <2>1
  <2>3. QED  BY <2>2, GoingSame
<1>17. QED  BY <1>14, <1>15, <1>16

\* The end has read a message and sent nothing.
LEMMA Silent ==
  ASSUME SyncAssumption, TypeInv, NEW a \in Ends, net[Back(a)] # <<>>, net' = Exchange(a, <<>>)
  PROVE  /\ net'[Back(a)] = Tail(net[Back(a)])
         /\ \A x \in Ends : x # Back(a) => net'[x] = net[x]
<1> DEFINE none == <<>>
<1>1. none \in Seq(Message)  BY EmptySeq
<1>2. net' = Exchange(a, none)  OBVIOUS
<1>3. net[a] \o none = net[a]
  <2>1. net[a] \in Seq(Message)  BY GoingOf
  <2>2. QED  BY <2>1, ConcatEmptySeq
<1> HIDE DEF none
<1>4. /\ Exchange(a, none)[Back(a)] = Tail(net[Back(a)])
      /\ Exchange(a, none)[a] = IF open[Back(a)] THEN net[a] \o none ELSE net[a]
      /\ \A x \in Ends : x # a /\ x # Back(a) => Exchange(a, none)[x] = net[x]
  BY <1>1, ExchangeNet DEF TypeInv
<1>5. QED  BY <1>2, <1>3, <1>4

\* The peer has found blocks for the request.
LEMMA GoingServed ==
  ASSUME SyncAssumption, TypeInv, RemoteInv, NEW e \in Ends, OnAt(e), HandleGetBlocks(Back(e)),
         ~hindered'[e[1]]
  PROVE  OnAt(e)'
<1>0. Back(e) \in Ends /\ Back(Back(e)) = e /\ Back(e) # e /\ Back(e)[1] = e[2] /\ Back(e)[2] = e[1]
      /\ e[1] \in Nodes
  BY EndFacts
<1> DEFINE p == Back(e)
           w == net[e]
           b == net[p]
           hashes == GetBlockHashesAfter(chain[e[2]], Head(w).tip)
<1>1. /\ w # <<>> /\ Head(w).type = "getblocks" /\ reader[p] = "reading"
      /\ net' = Exchange(p, <<>>) /\ open' = open /\ chain' = chain /\ remoteHeight' = remoteHeight
  BY <1>0 DEF HandleGetBlocks, Dispatched, Delivered
<1>2. hashes # <<>> /\ reader' = [reader EXCEPT ![p] = "serving"]
      /\ gathered' = [gathered EXCEPT ![p] = hashes]
  <2>1. CASE hashes = <<>> \/ Len(hashes) > MAX_INV
    <3>1. hindered' = [hindered EXCEPT ![e[1]] = TRUE]  BY <1>0, <2>1 DEF HandleGetBlocks
    <3>2. hindered'[e[1]]  BY <1>0, <3>1 DEF TypeInv, SyncingInv
    <3>3. QED  BY <3>2
  <2>2. CASE ~(hashes = <<>> \/ Len(hashes) > MAX_INV)
    BY <1>0, <2>2 DEF HandleGetBlocks
  <2>3. QED  BY <2>1, <2>2
<1>3. reader'[p] = "serving" /\ gathered'[p] = hashes  BY <1>0, <1>2 DEF TypeInv, ThreadInv
<1>4. net'[e] = Tail(w) /\ net'[p] = b  BY <1>0, <1>1, Silent
<1>5. /\ w \in Seq(Message) /\ chain[e[1]] \in Seq(Nodes) /\ chain[e[2]] \in Seq(Nodes)
      /\ remoteHeight[e] \in Int
  BY GoingOf
<1>6. remoteHeight[e] <= Len(chain[e[2]])  BY DEF RemoteInv, Height
<1>7. On(w, b, reader[p], gathered[p], chain[e[1]], chain[e[2]], remoteHeight[e], open[p])
  BY DEF OnAt
<1>8. OnAt(e)' <=> On(net'[e], net'[p], reader'[p], gathered'[p], chain'[e[1]], chain'[e[2]],
                      remoteHeight'[e], open'[p])
  BY DEF OnAt, Back
<1> HIDE DEF p, w, b, hashes
<1>9. hashes = GetBlockHashesAfter(chain[e[2]], Head(w).tip)  BY DEF hashes
<1>10. reader[p] # "serving"  BY <1>1
<1>11. On(Tail(w), b, "serving", hashes, chain[e[1]], chain[e[2]], remoteHeight[e], open[p])
  BY <1>1, <1>2, <1>5, <1>6, <1>7, <1>9, <1>10, OnServed
<1>12. QED  BY <1>1, <1>3, <1>4, <1>8, <1>11

\* The peer has sent the inv.
LEMMA GoingTold ==
  ASSUME SyncAssumption, TypeInv, NEW e \in Ends, OnAt(e), open[e], SendInv(Back(e))
  PROVE  OnAt(e)'
<1>0. Back(e) \in Ends /\ Back(Back(e)) = e /\ Back(e) # e  BY EndFacts
<1> DEFINE p == Back(e)
           b == net[p]
           hs == gathered[p]
           m == Inv(hs)
<1>1. /\ open' = open /\ chain' = chain /\ remoteHeight' = remoteHeight
      /\ net' = IF open[p] THEN [net EXCEPT ![p] = Append(@, m)] ELSE net
  BY <1>0 DEF SendInv, nodeVars
<1>2. CASE ~open[p]
  <2>1. ~open'[p]  BY <1>1, <1>2
  <2>2. QED  BY <2>1 DEF OnAt, On, Back
<1>3. CASE open[p]
  <2>1. net'[p] = Append(b, m) /\ net'[e] = net[e]  BY <1>0, <1>1, <1>3 DEF TypeInv, NetInv
  <2>2. /\ net[e] \in Seq(Message) /\ b \in Seq(Message) /\ hs \in Seq(Block)
    BY GoingOf
  <2>3. m \in Message /\ m.type = "inv" /\ m.hashes = hs  BY <2>2, Sendable DEF Inv
  <2>4. On(net[e], b, reader[p], hs, chain[e[1]], chain[e[2]], remoteHeight[e], open[p])
    BY DEF OnAt
  <2>5. OnAt(e)' <=> On(net'[e], net'[p], reader'[p], gathered'[p], chain'[e[1]], chain'[e[2]],
                        remoteHeight'[e], open'[p])
    BY DEF OnAt, Back
  <2> DEFINE a == Append(b, m)
             w == net[e]
             c == chain[e[1]]
             d == chain[e[2]]
             h == remoteHeight[e]
             atNow == reader'[p]
             hsNow == gathered'[p]
  <2> HIDE DEF p, b, hs, m
  <2>6. a \in Seq(Message) /\ Longer(a, b) /\ Len(a) = Len(b) + 1 /\ a[Len(b) + 1] = m
    BY <2>2, <2>3, AppendLonger
  <2> HIDE DEF a
  <2>7. Len(b) + 1 \in 1 .. Len(a)
    <3>1. Len(b) \in Nat  BY <2>2, LenProperties
    <3>2. QED  BY <2>6, <3>1
  <2>8. Lead(hs, c, d, h) => Names(a, "inv", c, d, h)  BY <2>3, <2>6, <2>7 DEF Names
  <2>9. w \in Seq(Message) /\ Longer(w, w)  BY <2>2, LenProperties DEF Longer
  <2> HIDE DEF w, c, d, h, atNow, hsNow
  <2>10. On(w, b, reader[p], hs, c, d, h, open[p])  BY <2>4 DEF w, c, d, h
  <2>11. On(w, a, atNow, hsNow, c, d, h, open[p])  BY <2>2, <2>6, <2>8, <2>9, <2>10, OnMore
  <2>12. /\ net'[e] = w /\ net'[p] = a /\ reader'[p] = atNow /\ gathered'[p] = hsNow
         /\ chain'[e[1]] = c /\ chain'[e[2]] = d /\ remoteHeight'[e] = h /\ open'[p] = open[p]
    BY <1>1, <2>1 DEF a, w, c, d, h, atNow, hsNow
  <2>13. QED  BY <2>5, <2>11, <2>12
<1>4. QED  BY <1>2, <1>3

\* The node has asked for the blocks.
LEMMA GoingAsked ==
  ASSUME SyncAssumption, TypeInv, NEW e \in Ends, OnAt(e), HandleInv(e)
  PROVE  OnAt(e)'
<1>0. Back(e) \in Ends /\ Back(Back(e)) = e /\ Back(e) # e  BY EndFacts
<1> DEFINE p == Back(e)
           w == net[e]
           b == net[p]
           m == [type |-> "getdata", hashes |-> Head(b).hashes]
           one == <<m>>
<1>1. /\ b # <<>> /\ Head(b).type = "inv" /\ net' = Exchange(e, one)
      /\ UNCHANGED <<open, chain, remoteHeight, reader, gathered>>
  BY DEF HandleInv, Dispatched, Delivered, nodeVars
<1>2. w \in Seq(Message) /\ b \in Seq(Message) /\ chain[e[1]] \in Seq(Nodes)  BY GoingOf
<1>3. m \in Message
  <2>1. Head(b) \in Message  BY <1>1, <1>2, TailShift
  <2>2. Head(b).hashes \in Seq(Block)  BY <1>1, <2>1, MessageFacts
  <2>3. QED  BY <2>2, Sendable
<1>4. m.type = "getdata" /\ m.hashes = Head(b).hashes  OBVIOUS
<1>5. OnAt(e)' <=> On(net'[e], net'[p], reader'[p], gathered'[p], chain'[e[1]], chain'[e[2]],
                      remoteHeight'[e], open'[p])
  BY DEF OnAt, Back
<1>6. On(w, b, reader[p], gathered[p], chain[e[1]], chain[e[2]], remoteHeight[e], open[p])
  BY DEF OnAt
<1> HIDE DEF m
<1>7. one \in Seq(Message) /\ Len(one) = 1 /\ one[1] = m  BY <1>3
<1> HIDE DEF one
<1>8. /\ Exchange(e, one)[p] = Tail(b)
      /\ Exchange(e, one)[e] = IF open[p] THEN w \o one ELSE w
  BY <1>1, <1>7, ExchangeNet DEF TypeInv
<1>9. net'[p] = Tail(b) /\ net'[e] = IF open[p] THEN w \o one ELSE w  BY <1>1, <1>8
<1> HIDE DEF p, w, b
<1>10. CASE ~open[p]
  <2>1. ~open'[p]  BY <1>1, <1>10
  <2>2. QED  BY <1>5, <2>1 DEF On
<1>11. CASE open[p]
  <2> DEFINE v == w \o one
             j == Len(w) + 1
  <2>1. /\ v \in Seq(Message) /\ Longer(v, w) /\ Len(v) = Len(w) + Len(one)
        /\ \A i \in Len(w) + 1 .. Len(v) :
             i - Len(w) \in 1 .. Len(one) /\ v[i] = one[i - Len(w)]
    <3>1. w \in Seq(Message) /\ one \in Seq(Message)  BY <1>2, <1>7
    <3>2. QED  BY <3>1, ConcatLonger
  <2> HIDE DEF v
  <2>2. Len(w) \in Nat  BY <1>2, LenProperties
  <2>3. j \in 1 .. Len(v) /\ j \in Len(w) + 1 .. Len(v) /\ j - Len(w) = 1  BY <1>7, <2>1, <2>2
  <2>4. v[j] = m  BY <1>7, <2>1, <2>3
  <2> HIDE DEF j
  <2>5. On(v, Tail(b), reader[p], gathered[p], chain[e[1]], chain[e[2]], remoteHeight[e], open[p])
    BY <1>1, <1>2, <1>4, <1>6, <2>1, <2>3, <2>4, OnInv
  <2>6. net'[e] = v  BY <1>9, <1>11 DEF v
  <2>7. QED  BY <1>1, <1>5, <1>9, <2>5, <2>6
<1>12. QED  BY <1>10, <1>11

\* The peer has sent the blocks.
LEMMA GoingData ==
  ASSUME SyncAssumption, TypeInv, NEW e \in Ends, OnAt(e), open[e], HandleGetData(Back(e))
  PROVE  OnAt(e)'
<1>0. Back(e) \in Ends /\ Back(Back(e)) = e /\ Back(e) # e /\ Back(e)[1] = e[2] /\ e[2] \in Nodes
  BY EndFacts
<1> DEFINE p == Back(e)
           w == net[e]
           b == net[p]
           S == Stored(e[2])
           hashes == Head(w).hashes
           found == Only(hashes, S)
           msgs == [i \in DOMAIN found |-> [type |-> "block", block |-> found[i]]]
<1>1. /\ w # <<>> /\ Head(w).type = "getdata" /\ net' = Exchange(p, msgs)
      /\ UNCHANGED <<open, chain, remoteHeight, reader, gathered>>
  BY <1>0 DEF HandleGetData, Dispatched, Delivered, nodeVars
<1>2. /\ w \in Seq(Message) /\ b \in Seq(Message)
      /\ chain[e[1]] \in Seq(Nodes) /\ chain[e[2]] \in Seq(Nodes)
  BY GoingOf
<1>3. msgs \in Seq(Message)
  <2>1. Head(w) \in Message  BY <1>1, <1>2, TailShift
  <2>2. hashes \in Seq(Block)  BY <1>1, <2>1, MessageFacts
  <2>3. chain[e[2]] \in Block \cup {<<>>}  BY <1>0 DEF TypeInv, BlocksInv
  <2>4. QED  BY <1>0, <2>2, <2>3, BlocksFound
<1>4. \A k \in 1 .. Len(chain[e[2]]) : SubSeq(chain[e[2]], 1, k) \in S  BY DEF Stored, Height
<1>5. OnAt(e)' <=> On(net'[e], net'[p], reader'[p], gathered'[p], chain'[e[1]], chain'[e[2]],
                      remoteHeight'[e], open'[p])
  BY DEF OnAt, Back
<1>6. On(w, b, reader[p], gathered[p], chain[e[1]], chain[e[2]], remoteHeight[e], open[p])
  BY DEF OnAt
<1>7. found = Only(Head(w).hashes, S)
      /\ msgs = [i \in DOMAIN found |-> [type |-> "block", block |-> found[i]]]
  OBVIOUS
<1> HIDE DEF hashes, found, msgs, S
<1>8. /\ Exchange(p, msgs)[Back(p)] = Tail(net[Back(p)])
      /\ Exchange(p, msgs)[p] = IF open[Back(p)] THEN net[p] \o msgs ELSE net[p]
  BY <1>0, <1>1, <1>3, ExchangeNet DEF TypeInv
<1>9. net'[e] = Tail(w) /\ net'[p] = b \o msgs  BY <1>0, <1>1, <1>8
<1> HIDE DEF p, w, b
<1> DEFINE c == chain[e[1]]
           d == chain[e[2]]
           h == remoteHeight[e]
           at == reader[p]
           hs == gathered[p]
           there == open[p]
<1>d. /\ On(w, b, at, hs, c, d, h, there) /\ c \in Seq(Nodes) /\ d \in Seq(Nodes)
      /\ \A k \in 1 .. Len(d) : SubSeq(d, 1, k) \in S
  BY <1>2, <1>4, <1>6
<1> HIDE DEF c, d, h, at, hs, there
<1>e. /\ w \in Seq(Message) /\ w # <<>> /\ Head(w).type = "getdata" /\ b \in Seq(Message)
      /\ found = Only(Head(w).hashes, S) /\ msgs \in Seq(Message)
      /\ msgs = [i \in DOMAIN found |-> [type |-> "block", block |-> found[i]]]
  BY <1>1, <1>2, <1>3, <1>7
<1>f. On(Tail(w), b \o msgs, at, hs, c, d, h, there)  BY <1>d, <1>e, OnData
<1>10. On(Tail(w), b \o msgs, reader[p], gathered[p], chain[e[1]], chain[e[2]], remoteHeight[e],
          open[p])
  BY <1>f DEF c, d, h, at, hs, there
<1>11. QED  BY <1>1, <1>5, <1>9, <1>10

\* The node has read a block of the peer.
LEMMA GoingBlock ==
  ASSUME SyncAssumption, TypeInv, AskInv, CarryInv, NEW e \in Ends, OnAt(e), Runs(e), Runs(e)',
         HandleBlock(e)
  PROVE  OnAt(e)'
<1>0. Back(e) \in Ends /\ Back(Back(e)) = e /\ Back(e) # e /\ Back(e)[1] = e[2]
      /\ e[1] \in Nodes /\ e[2] \in Nodes /\ e[1] # e[2]
  BY EndFacts
<1>t. BlocksInv /\ SyncingInv /\ BannedInv /\ NetInv  BY DEF TypeInv
<1> DEFINE p == Back(e)
           w == net[e]
           b == net[p]
           x == Head(b).block
           c == chain[e[1]]
           d == chain[e[2]]
           h == remoteHeight[e]
<1>1. /\ b # <<>> /\ Head(b).type = "block"
      /\ UNCHANGED <<remoteHeight, reader, gathered>>
  BY DEF HandleBlock, Dispatched, Delivered
<1>2. /\ w \in Seq(Message) /\ b \in Seq(Message) /\ gathered[p] \in Seq(Block)
      /\ c \in Seq(Nodes) /\ d \in Seq(Nodes) /\ h \in Int
  BY GoingOf
<1>3. Head(b) = b[1] /\ Head(b) \in Message /\ 1 \in 1 .. Len(b)
  <2>1. Len(b) \in Nat /\ Len(b) >= 1 /\ Head(b) = b[1] /\ Head(b) \in Message
    BY <1>1, <1>2, TailShift
  <2>2. QED  BY <2>1
<1>4. x \in Block /\ x \in Seq(Nodes) /\ Len(x) \in Nat
  BY <1>1, <1>3, MessageFacts, BlockFacts, LenProperties
<1>5. Longer(d, x)
  <2>1. Carries(net[p], chain[p[1]])  BY <1>0, <1>t, CarryOf
  <2>2. Carries(b, d)  BY <1>0, <2>1
  <2> HIDE DEF d
  <2>3. IsPrefix(x, d)  BY <1>1, <1>3, <2>2 DEF Carries, True
  <2>4. QED  BY <1>2, <1>4, <2>3, PrefixLonger
<1>6. ~Asks(w, c)
  <2>1. Has(b, "block")  BY <1>1, <1>3 DEF Has
  <2>2. Ask(w, b, remoteHeight[e], reader[e], IsSyncPeer(e))  BY <1>t, AskOf
  <2>3. ~Has(w, "getblocks")  BY <2>1, <2>2, NoRequest
  <2>4. QED  BY <2>3 DEF Asks, Has
<1>7. /\ net' = Exchange(e, <<>>) /\ open' = open
      /\ \/ chain' = [chain EXCEPT ![e[1]] = x] /\ Front(x) = c /\ Len(x) < h
         \/ chain' = chain /\ Front(x) # c
  <2>1. CASE Overpaid(e[1], x) /\ Misbehave(e, BAN_SCORE_THRESHOLD)
    <3>1. Disconnect(e)  BY <1>t, <2>1, Points, Penalty
    <3>2. open'[e] = FALSE  BY <3>1 DEF Disconnect, TypeInv, LinkInv
    <3>3. QED  BY <3>2 DEF Runs
  <2>2. CASE Front(x) = c /\ StoresBlock(e, x)
    <3>1. /\ chain' = [chain EXCEPT ![e[1]] = x] /\ net' = Exchange(e, <<>>) /\ open' = open
          /\ syncing' = [syncing EXCEPT ![e[1]] = @ /\ ~(IsSyncPeer(e) /\ Len(x) >= h)]
      BY <2>2 DEF StoresBlock
    <3>2. ~(IsSyncPeer(e) /\ Len(x) >= h)  BY <1>0, <1>t, <3>1 DEF Runs, SyncingInv
    <3>3. Len(x) < h  BY <1>2, <1>4, <3>2 DEF Runs
    <3>4. QED  BY <2>2, <3>1, <3>3
  <2>3. CASE Front(x) # c /\ net' = Exchange(e, <<>>) /\ UNCHANGED <<chain, open>>
    BY <2>3
  <2>4. QED  BY <2>1, <2>2, <2>3 DEF HandleBlock
<1>8. net'[p] = Tail(b) /\ net'[e] = w  BY <1>0, <1>1, <1>7, Silent
<1> DEFINE new == chain'[e[1]]
<1>9. /\ chain'[e[2]] = d /\ new \in Seq(Nodes)
      /\ (new = x /\ Front(x) = c /\ Len(new) < h) \/ (new = c /\ Front(x) # c)
  <2>1. chain \in [Nodes -> Block \cup {<<>>}]  BY <1>t DEF BlocksInv
  <2>2. CASE chain' = [chain EXCEPT ![e[1]] = x] /\ Front(x) = c /\ Len(x) < h
    <3>1. chain'[e[1]] = x /\ chain'[e[2]] = d  BY <1>0, <2>1, <2>2
    <3>2. new = x /\ chain'[e[2]] = d /\ x \in Seq(Nodes) /\ Front(x) = c /\ Len(x) < h
      BY <1>4, <2>2, <3>1
    <3> HIDE DEF new, x, c, d, h
    <3>3. QED  BY <3>2
  <2>3. CASE chain' = chain /\ Front(x) # c  BY <1>2, <2>3
  <2>4. QED  BY <1>7, <2>2, <2>3
<1>10. On(w, b, reader[p], gathered[p], c, d, h, open[p])  BY DEF OnAt
<1>11. OnAt(e)' <=> On(net'[e], net'[p], reader'[p], gathered'[p], chain'[e[1]], chain'[e[2]],
                       remoteHeight'[e], open'[p])
  BY DEF OnAt, Back
<1>12. x = Head(b).block  OBVIOUS
<1> HIDE DEF p, w, b, x, c, d, h, new
<1>13. On(w, Tail(b), reader[p], gathered[p], new, d, h, open[p])
  BY <1>1, <1>2, <1>5, <1>6, <1>9, <1>10, <1>12, OnBlock
<1>14. /\ reader'[p] = reader[p] /\ gathered'[p] = gathered[p] /\ open'[p] = open[p]
       /\ remoteHeight'[e] = h /\ chain'[e[1]] = new
  BY <1>1, <1>7 DEF h, new
<1>15. QED  BY <1>8, <1>9, <1>11, <1>13, <1>14
\* The node at the end e synchronises with the other one, and there is something to do.
Goes(e) == Runs(e) /\ OnAt(e)

\* What the synchronisation runs on.
LEMMA StillRuns ==
  ASSUME NEW e \in Ends, Runs(e), UNCHANGED <<syncing, syncPeerAddr, dialled>>,
         ~hindered'[e[1]], open'[e], remoteHeight'[e] # -1
  PROVE  Runs(e)'
<1>1. IsSyncPeer(e)' = IsSyncPeer(e)  BY SamePeer
<1>2. QED  BY <1>1 DEF Runs

\* An end of another connection, or the other end of this one, has been closed.
LEMMA ClosedGoes ==
  ASSUME SyncAssumption, TypeInv, [Next]_vars, NEW e \in Ends, Goes(e), ~hindered'[e[1]],
         NEW a \in Ends, Disconnect(a),
         UNCHANGED <<chain, syncing, syncPeerAddr, dialled, remoteHeight, reader, gathered>>
  PROVE  Goes(e)'
<1>0. SyncingInv /\ LinkInv  BY DEF TypeInv
<1>1. Back(e) \in Ends /\ e[1] \in Nodes  BY EndFacts
<1>2. Runs(e) /\ OnAt(e)  BY DEF Goes
<1>3. a # e
  <2>1. SUFFICES ASSUME a = e PROVE FALSE  OBVIOUS
  <2>2. hindered' = [hindered EXCEPT ![e[1]] = @ \/ IsSyncPeer(e)]  BY <2>1 DEF Disconnect
  <2>3. IsSyncPeer(e)  BY <1>2 DEF Runs
  <2>4. QED  BY <1>0, <1>1, <2>2, <2>3 DEF SyncingInv
<1>4. open' = [open EXCEPT ![a] = FALSE]  BY DEF Disconnect
<1>5. open'[e] = open[e] /\ (open'[Back(e)] => open[Back(e)])
  BY <1>0, <1>1, <1>3, <1>4 DEF LinkInv
<1>6. Still(e)  BY <1>5 DEF Still
<1>7. OnAt(e)'  BY <1>2, <1>3, <1>6, GoingClosed
<1>8. open'[e] /\ remoteHeight'[e] # -1  BY <1>2, <1>5 DEF Runs
<1>9. Runs(e)'  BY <1>2, <1>8, StillRuns
<1>10. QED  BY <1>7, <1>9 DEF Goes

\* A reader has read a message that does not carry the synchronisation.
LEMMA ReadGoes ==
  ASSUME SyncAssumption, TypeInv, [Next]_vars, NEW e \in Ends, Goes(e), ~hindered'[e[1]],
         UNCHANGED <<syncing, syncPeerAddr, dialled, open>>, Still(e),
         NEW a \in Ends, net[Back(a)] # <<>>, NEW msgs \in Seq(Message), net' = Exchange(a, msgs),
         a = e => Head(net[Back(a)]).type \notin {"inv", "block"},
         a = Back(e) => Head(net[Back(a)]).type \notin {"getblocks", "getdata"}
  PROVE  Goes(e)'
<1>1. Runs(e) /\ OnAt(e)  BY DEF Goes
<1>2. OnAt(e)'  BY <1>1, GoingRead
<1>3. open'[e] /\ remoteHeight'[e] # -1  BY <1>1 DEF Runs, Still
<1>4. Runs(e)'  BY <1>1, <1>3, StillRuns
<1>5. QED  BY <1>2, <1>4 DEF Goes

\* A reader has read a message that does not carry the synchronisation, and sent nothing.
LEMMA SilentGoes ==
  ASSUME SyncAssumption, TypeInv, [Next]_vars, NEW e \in Ends, Goes(e), ~hindered'[e[1]],
         UNCHANGED <<syncing, syncPeerAddr, dialled, open>>, Still(e),
         NEW a \in Ends, net[Back(a)] # <<>>, net' = Exchange(a, <<>>),
         a = e => Head(net[Back(a)]).type \notin {"inv", "block"},
         a = Back(e) => Head(net[Back(a)]).type \notin {"getblocks", "getdata"}
  PROVE  Goes(e)'
<1> DEFINE none == <<>>
<1>1. none \in Seq(Message) /\ net' = Exchange(a, none)  BY EmptySeq
<1> HIDE DEF none
<1>2. QED  BY <1>1, ReadGoes

\* A message has been sent, or none.
LEMMA SentGoes ==
  ASSUME SyncAssumption, TypeInv, [Next]_vars, NEW e \in Ends, Goes(e), ~hindered'[e[1]],
         UNCHANGED <<syncing, syncPeerAddr, dialled, open>>, Still(e),
         NEW m \in Message, \A x \in Ends : net'[x] = net[x] \/ net'[x] = Append(net[x], m)
  PROVE  Goes(e)'
<1>1. Runs(e) /\ OnAt(e)  BY DEF Goes
<1>2. OnAt(e)'  BY <1>1, GoingSent
<1>3. open'[e] /\ remoteHeight'[e] # -1  BY <1>1 DEF Runs, Still
<1>4. Runs(e)'  BY <1>1, <1>3, StillRuns
<1>5. QED  BY <1>2, <1>4 DEF Goes

\* An offence costs the connection, or points and the message.
LEMMA PenaltyGoes ==
  ASSUME SyncAssumption, TypeInv, [Next]_vars, NEW e \in Ends, Goes(e), ~hindered'[e[1]],
         NEW a \in Ends, NEW points \in Nat, Misbehave(a, points),
         UNCHANGED <<chain, syncing, syncPeerAddr, dialled, remoteHeight, reader, gathered>>,
         points # BAN_SCORE_THRESHOLD =>
           /\ net[Back(a)] # <<>>
           /\ Head(net[Back(a)]).type \notin {"inv", "block", "getblocks", "getdata"}
  PROVE  Goes(e)'
<1>0. BannedInv  BY DEF TypeInv
<1>1. CASE Disconnect(a)  BY <1>1, ClosedGoes
<1>2. CASE points # BAN_SCORE_THRESHOLD /\ net' = Exchange(a, <<>>) /\ open' = open
  <2>1. Still(e)  BY <1>2 DEF Still
  <2>2. QED  BY <1>2, <2>1, SilentGoes
<1>3. QED  BY <1>0, <1>1, <1>2, Penalty

\* A new connection is none of the two ends'.
LEMMA ConnectGoes ==
  ASSUME SyncAssumption, TypeInv, [Next]_vars, NEW e \in Ends, Goes(e), ~hindered'[e[1]],
         NEW d \in Dials, Connect(d)
  PROVE  Goes(e)'
<1>1. Runs(e) /\ OnAt(e)  BY DEF Goes
<1>2. Back(e) \in Ends /\ Back(Back(e)) = e /\ d \in Ends /\ Back(Back(d)) = d
  BY EndFacts, DialEnds
<1>3. e # d /\ e # Back(d)  BY <1>1 DEF Connect, Runs
<1>4. Back(e) # d /\ Back(e) # Back(d)  BY <1>2, <1>3
<1>5. /\ net'[e] = net[e] /\ open'[e] = open[e] /\ remoteHeight'[e] = remoteHeight[e]
      /\ dialled'[e] = dialled[e] /\ net'[Back(e)] = net[Back(e)]
      /\ open'[Back(e)] = open[Back(e)]
  BY <1>2, <1>3, <1>4, Unconnected
<1>6. UNCHANGED <<chain, syncing, syncPeerAddr, hindered, reader, gathered>>
  BY DEF Connect, nodeVars
<1>7. Still(e)  BY <1>5, <1>6 DEF Still
<1>8. OnAt(e)'  BY <1>1, <1>5, <1>7, GoingSame
<1>9. Runs(e)'  BY <1>1, <1>5, <1>6 DEF Runs, IsSyncPeer, RemoteAddress
<1>10. QED  BY <1>8, <1>9 DEF Goes

\* Neither is one that breaks, or the synchronisation is hindered.
LEMMA BreakGoes ==
  ASSUME SyncAssumption, TypeInv, [Next]_vars, NEW e \in Ends, Goes(e), ~hindered'[e[1]],
         NEW d \in Dials, Break(d)
  PROVE  Goes(e)'
<1>0. LinkInv /\ NetInv  BY DEF TypeInv
<1>1. Runs(e) /\ OnAt(e)  BY DEF Goes
<1>2. Back(e) \in Ends /\ Back(Back(e)) = e /\ e[1] \in Nodes /\ d \in Ends /\ Back(Back(d)) = d
  BY EndFacts, DialEnds
<1>3. hindered' = [n \in Nodes |->
                     hindered[n] \/ \E x \in {d, Back(d)} : x[1] = n /\ IsSyncPeer(x)]
  BY DEF Break
<1>4. e # d /\ e # Back(d)
  <2>1. SUFFICES ASSUME e \in {d, Back(d)} PROVE FALSE  OBVIOUS
  <2>2. IsSyncPeer(e)  BY <1>1 DEF Runs
  <2>3. \E x \in {d, Back(d)} : x[1] = e[1] /\ IsSyncPeer(x)  BY <2>1, <2>2
  <2>4. hindered'[e[1]]  BY <1>2, <1>3, <2>3
  <2>5. QED  BY <2>4
<1>5. Back(e) # d /\ Back(e) # Back(d)  BY <1>2, <1>4
<1>6. /\ net'[e] = net[e] /\ open'[e] = open[e]
      /\ net'[Back(e)] = net[Back(e)] /\ open'[Back(e)] = open[Back(e)]
  BY <1>0, <1>2, <1>4, <1>5, Broken
<1>7. UNCHANGED <<chain, syncing, syncPeerAddr, dialled, remoteHeight, reader, gathered>>
  BY DEF Break
<1>8. Still(e)  BY <1>6, <1>7 DEF Still
<1>9. OnAt(e)'  BY <1>1, <1>6, <1>8, GoingSame
<1>10. open'[e] /\ remoteHeight'[e] # -1  BY <1>1, <1>6, <1>7 DEF Runs
<1>11. Runs(e)'  BY <1>1, <1>7, <1>10, StillRuns
<1>12. QED  BY <1>9, <1>11 DEF Goes
\* A version comes before the handshake with the peer, not from it.
LEMMA VersionGoes ==
  ASSUME SyncAssumption, TypeInv, WireInv, [Next]_vars, NEW e \in Ends, Goes(e), ~hindered'[e[1]],
         NEW a \in Ends, HandleVersion(a)
  PROVE  Goes(e)'
<1>0. BlocksInv /\ LinkInv /\ NetInv /\ ThreadInv  BY DEF TypeInv
<1>1. Back(e) \in Ends  BY EndFacts
<1>2. /\ net[Back(a)] # <<>> /\ Head(net[Back(a)]).type = "version" /\ reader[a] = "reading"
      /\ net' = Exchange(a, Answer(a))
      /\ UNCHANGED <<chain, syncing, syncPeerAddr, dialled, open, gathered>>
  BY DEF HandleVersion, Delivered, nodeVars
<1>3. remoteHeight[a] = -1  BY <1>0, <1>2, FirstVersion
<1>4. a # e  BY <1>3 DEF Goes, Runs
<1>5. remoteHeight' = [remoteHeight EXCEPT ![a] = Head(net[Back(a)]).height]
  BY DEF HandleVersion
<1>6. remoteHeight'[e] = remoteHeight[e]  BY <1>0, <1>4, <1>5 DEF LinkInv
<1>7. reader[Back(e)] # "serving" \/ reader'[Back(e)] = reader[Back(e)]
  <2>1. \E at : reader' = [reader EXCEPT ![a] = at]  BY DEF HandleVersion
  <2>2. CASE a = Back(e)  BY <1>2, <2>2
  <2>3. CASE a # Back(e)  BY <1>0, <1>1, <2>1, <2>3 DEF ThreadInv
  <2>4. QED  BY <2>2, <2>3
<1>8. Still(e)  BY <1>2, <1>6, <1>7 DEF Still
<1>9. Answer(a) \in Seq(Message)  BY <1>0, AnswerSendable
<1>10. QED  BY <1>2, <1>4, <1>8, <1>9, ReadGoes

\* A synchronisation is not started anew, and that of another node changes nothing.
LEMMA StartGoes ==
  ASSUME SyncAssumption, TypeInv, [Next]_vars, NEW e \in Ends, Goes(e), ~hindered'[e[1]],
         NEW a \in Ends, StartSync(a)
  PROVE  Goes(e)'
<1>0. BlocksInv /\ SyncingInv /\ NetInv /\ ThreadInv  BY DEF TypeInv
<1>1. Back(e) \in Ends /\ e[1] \in Nodes /\ a[1] \in Nodes  BY EndFacts
<1>2. Runs(e) /\ OnAt(e) /\ syncing[e[1]]  BY DEF Goes, Runs
<1>3. /\ reader[a] = "behind" /\ reader' = [reader EXCEPT ![a] = "reading"]
      /\ UNCHANGED <<chain, dialled, open, remoteHeight, gathered>>
  BY DEF StartSync
<1>4. Still(e)
  <2>1. reader[Back(e)] # "serving" \/ reader'[Back(e)] = reader[Back(e)]
    <3>1. CASE a = Back(e)  BY <1>3, <3>1
    <3>2. CASE a # Back(e)  BY <1>0, <1>1, <1>3, <3>2 DEF ThreadInv
    <3>3. QED  BY <3>1, <3>2
  <2>2. QED  BY <1>3, <2>1 DEF Still
<1>5. CASE syncing[a[1]]
  <2>1. UNCHANGED <<syncing, syncPeerAddr, net>>  BY <1>5 DEF StartSync
  <2>2. OnAt(e)'  BY <1>2, <1>4, <2>1, GoingSame
  <2>3. open'[e] /\ remoteHeight'[e] # -1  BY <1>2, <1>3 DEF Runs
  <2>4. Runs(e)'  BY <1>2, <1>3, <2>1, <2>3, StillRuns
  <2>5. QED  BY <2>2, <2>4 DEF Goes
<1>6. CASE ~syncing[a[1]]
  <2> DEFINE m == GetBlocks(a[1])
  <2>1. /\ syncing' = [syncing EXCEPT ![a[1]] = TRUE]
        /\ syncPeerAddr' = [syncPeerAddr EXCEPT ![a[1]] = RemoteAddress(a)]
        /\ net' = IF open[a] /\ open[Back(a)] THEN [net EXCEPT ![a] = Append(@, m)] ELSE net
    BY <1>6 DEF StartSync
  <2>2. e[1] # a[1]  BY <1>2, <1>6
  <2>3. syncing'[e[1]] = syncing[e[1]] /\ syncPeerAddr'[e[1]] = syncPeerAddr[e[1]]
    BY <1>0, <1>1, <2>1, <2>2 DEF SyncingInv
  <2>4. Runs(e)'  BY <1>2, <1>3, <2>3 DEF Runs, IsSyncPeer, RemoteAddress
  <2>5. m \in Message
    <3>1. chain[a[1]] \in Block \cup {<<>>}  BY <1>0, <1>1 DEF BlocksInv
    <3>2. QED  BY <3>1, Sendable DEF GetBlocks
  <2> HIDE DEF m
  <2>6. \A x \in Ends : net'[x] = net[x] \/ net'[x] = Append(net[x], m)
    BY <1>0, <2>1 DEF NetInv
  <2>7. OnAt(e)'  BY <1>2, <1>4, <2>5, <2>6, GoingSent
  <2>8. QED  BY <2>4, <2>7 DEF Goes
<1>7. QED  BY <1>5, <1>6

\* The request that starts a synchronisation is sent, unless the peer is gone.
LEMMA StartedGoes ==
  ASSUME SyncAssumption, TypeInv, ReaderInv, NEW a \in Ends, StartSync(a), ~syncing[a[1]],
         ~hindered'[a[1]]
  PROVE  Goes(a)'
<1>0. SyncingInv /\ LinkInv /\ NetInv  BY DEF TypeInv
<1>1. a[1] \in Nodes  BY EndFacts
<1>2. /\ reader[a] = "behind"
      /\ syncing' = [syncing EXCEPT ![a[1]] = TRUE]
      /\ syncPeerAddr' = [syncPeerAddr EXCEPT ![a[1]] = RemoteAddress(a)]
      /\ hindered' = [hindered EXCEPT ![a[1]] = ~(open[a] /\ open[Back(a)])]
      /\ net' = IF open[a] /\ open[Back(a)]
                THEN [net EXCEPT ![a] = Append(@, GetBlocks(a[1]))] ELSE net
      /\ UNCHANGED <<chain, dialled, open, remoteHeight>>
  BY DEF StartSync
<1>3. open[a] /\ open[Back(a)]
  <2>1. hindered'[a[1]] = ~(open[a] /\ open[Back(a)])  BY <1>0, <1>1, <1>2 DEF SyncingInv
  <2>2. QED  BY <2>1
<1>4. syncing'[a[1]] = TRUE /\ syncPeerAddr'[a[1]] = RemoteAddress(a)
  BY <1>0, <1>1, <1>2 DEF SyncingInv
<1>5. remoteHeight[a] # -1  BY <1>2 DEF ReaderInv
<1>6. Runs(a)'  BY <1>2, <1>3, <1>4, <1>5 DEF Runs, IsSyncPeer, RemoteAddress
<1>7. Asks(net'[a], chain[a[1]])
  <2> DEFINE w == net[a]
             m == GetBlocks(a[1])
  <2>1. net'[a] = Append(w, m)  BY <1>0, <1>2, <1>3 DEF NetInv
  <2>2. w \in Seq(Message)  BY GoingOf
  <2>3. m \in Message /\ m = [type |-> "getblocks", tip |-> chain[a[1]]]
    <3>1. chain[a[1]] \in Block \cup {<<>>}  BY <1>1 DEF TypeInv, BlocksInv
    <3>2. QED  BY <3>1, Sendable DEF GetBlocks
  <2> HIDE DEF w, m
  <2> DEFINE v == Append(w, m)
  <2>4. Len(v) = Len(w) + 1 /\ v[Len(w) + 1] = m  BY <2>2, <2>3, AppendLonger
  <2> HIDE DEF v
  <2>5. Len(w) + 1 \in 1 .. Len(v)
    <3>1. Len(w) \in Nat  BY <2>2, LenProperties
    <3>2. QED  BY <2>4, <3>1
  <2>6. Asks(v, chain[a[1]])  BY <2>3, <2>4, <2>5 DEF Asks
  <2>7. QED  BY <2>1, <2>6 DEF v
<1>8. OnAt(a)'  BY <1>2, <1>7 DEF OnAt, On
<1>9. QED  BY <1>6, <1>8 DEF Goes

\* The request is read by the peer, or it is somebody else's.
LEMMA GetBlocksGoes ==
  ASSUME SyncAssumption, TypeInv, RemoteInv, [Next]_vars, NEW e \in Ends, Goes(e),
         ~hindered'[e[1]], NEW a \in Ends, HandleGetBlocks(a)
  PROVE  Goes(e)'
<1>1. /\ net[Back(a)] # <<>> /\ Head(net[Back(a)]).type = "getblocks" /\ net' = Exchange(a, <<>>)
      /\ UNCHANGED <<chain, syncing, syncPeerAddr, dialled, open, remoteHeight>>
  BY DEF HandleGetBlocks, Dispatched, Delivered
<1>2. Runs(e) /\ OnAt(e)  BY DEF Goes
<1>3. CASE a = Back(e)
  <2>1. OnAt(e)'  BY <1>2, <1>3, GoingServed
  <2>2. open'[e] /\ remoteHeight'[e] # -1  BY <1>1, <1>2 DEF Runs
  <2>3. Runs(e)'  BY <1>1, <1>2, <2>2, StillRuns
  <2>4. QED  BY <2>1, <2>3 DEF Goes
<1>4. CASE a # Back(e)
  <2>1. reader'[Back(e)] = reader[Back(e)] /\ gathered'[Back(e)] = gathered[Back(e)]
    <3>1. Back(e) \in Ends  BY EndFacts
    <3>2. \/ UNCHANGED <<reader, gathered>>
          \/ /\ reader' = [reader EXCEPT ![a] = "serving"]
             /\ \E hashes : gathered' = [gathered EXCEPT ![a] = hashes]
      BY DEF HandleGetBlocks
    <3>3. QED  BY <1>4, <3>1, <3>2 DEF TypeInv, ThreadInv
  <2>2. Still(e)  BY <1>1, <2>1 DEF Still
  <2>3. QED  BY <1>1, <1>4, <2>2, SilentGoes
<1>5. QED  BY <1>3, <1>4

\* The inv is sent by the peer, or it is somebody else's.
LEMMA SendInvGoes ==
  ASSUME SyncAssumption, TypeInv, [Next]_vars, NEW e \in Ends, Goes(e), ~hindered'[e[1]],
         NEW a \in Ends, SendInv(a)
  PROVE  Goes(e)'
<1>0. NetInv /\ ThreadInv  BY DEF TypeInv
<1> DEFINE m == Inv(gathered[a])
<1>1. /\ net' = IF open[a] /\ open[Back(a)] THEN [net EXCEPT ![a] = Append(@, m)] ELSE net
      /\ reader' = [reader EXCEPT ![a] = "reading"] /\ gathered' = [gathered EXCEPT ![a] = <<>>]
      /\ UNCHANGED <<chain, syncing, syncPeerAddr, dialled, open, remoteHeight>>
  BY DEF SendInv, nodeVars
<1>2. Runs(e) /\ OnAt(e)  BY DEF Goes
<1>3. CASE a = Back(e)
  <2>1. open[e]  BY <1>2 DEF Runs
  <2>2. OnAt(e)'  BY <1>2, <1>3, <2>1, GoingTold
  <2>3. open'[e] /\ remoteHeight'[e] # -1  BY <1>1, <1>2 DEF Runs
  <2>4. Runs(e)'  BY <1>1, <1>2, <2>3, StillRuns
  <2>5. QED  BY <2>2, <2>4 DEF Goes
<1>4. CASE a # Back(e)
  <2>1. Back(e) \in Ends  BY EndFacts
  <2>2. reader'[Back(e)] = reader[Back(e)] /\ gathered'[Back(e)] = gathered[Back(e)]
    BY <1>0, <1>1, <1>4, <2>1 DEF ThreadInv
  <2>3. Still(e)  BY <1>1, <2>2 DEF Still
  <2>4. m \in Message
    <3>1. gathered[a] \in Seq(Block)  BY <1>0 DEF ThreadInv
    <3>2. QED  BY <3>1, Sendable DEF Inv
  <2> HIDE DEF m
  <2>5. \A x \in Ends : net'[x] = net[x] \/ net'[x] = Append(net[x], m)
    BY <1>0, <1>1 DEF NetInv
  <2>6. QED  BY <1>1, <2>3, <2>4, <2>5, SentGoes
<1>5. QED  BY <1>3, <1>4

\* The inv is read by the node, or it is somebody else's.
LEMMA InvGoes ==
  ASSUME SyncAssumption, TypeInv, [Next]_vars, NEW e \in Ends, Goes(e), ~hindered'[e[1]],
         NEW a \in Ends, HandleInv(a)
  PROVE  Goes(e)'
<1> DEFINE m == [type |-> "getdata", hashes |-> Head(net[Back(a)]).hashes]
           one == <<m>>
<1>1. /\ net[Back(a)] # <<>> /\ Head(net[Back(a)]).type = "inv" /\ net' = Exchange(a, one)
      /\ UNCHANGED <<chain, syncing, syncPeerAddr, dialled, open, remoteHeight, reader, gathered>>
  BY DEF HandleInv, Dispatched, Delivered, nodeVars
<1>2. Runs(e) /\ OnAt(e)  BY DEF Goes
<1>3. CASE a = e
  <2>1. OnAt(e)'  BY <1>2, <1>3, GoingAsked
  <2>2. open'[e] /\ remoteHeight'[e] # -1  BY <1>1, <1>2 DEF Runs
  <2>3. Runs(e)'  BY <1>1, <1>2, <2>2, StillRuns
  <2>4. QED  BY <2>1, <2>3 DEF Goes
<1>4. CASE a # e
  <2>1. Still(e)  BY <1>1 DEF Still
  <2>2. m \in Message
    <3>1. Head(net[Back(a)]) \in Message  BY <1>1, HeadMessage DEF TypeInv
    <3>2. Head(net[Back(a)]).hashes \in Seq(Block)  BY <1>1, <3>1, MessageFacts
    <3>3. QED  BY <3>2, Sendable
  <2> HIDE DEF m
  <2>3. one \in Seq(Message)  BY <2>2
  <2> HIDE DEF one
  <2>4. QED  BY <1>1, <1>4, <2>1, <2>3, ReadGoes
<1>5. QED  BY <1>3, <1>4

\* The getdata is read by the peer, or it is somebody else's.
LEMMA GetDataGoes ==
  ASSUME SyncAssumption, TypeInv, [Next]_vars, NEW e \in Ends, Goes(e), ~hindered'[e[1]],
         NEW a \in Ends, HandleGetData(a)
  PROVE  Goes(e)'
<1> DEFINE found == Only(Head(net[Back(a)]).hashes, Stored(a[1]))
           msgs == [i \in DOMAIN found |-> [type |-> "block", block |-> found[i]]]
<1>1. /\ net[Back(a)] # <<>> /\ Head(net[Back(a)]).type = "getdata" /\ net' = Exchange(a, msgs)
      /\ UNCHANGED <<chain, syncing, syncPeerAddr, dialled, open, remoteHeight, reader, gathered>>
  BY DEF HandleGetData, Dispatched, Delivered, nodeVars
<1>2. Runs(e) /\ OnAt(e)  BY DEF Goes
<1>3. CASE a = Back(e)
  <2>1. open[e]  BY <1>2 DEF Runs
  <2>2. OnAt(e)'  BY <1>2, <1>3, <2>1, GoingData
  <2>3. open'[e] /\ remoteHeight'[e] # -1  BY <1>1, <1>2 DEF Runs
  <2>4. Runs(e)'  BY <1>1, <1>2, <2>3, StillRuns
  <2>5. QED  BY <2>2, <2>4 DEF Goes
<1>4. CASE a # Back(e)
  <2>1. Still(e)  BY <1>1 DEF Still
  <2>2. msgs \in Seq(Message)
    <3>1. Head(net[Back(a)]) \in Message  BY <1>1, HeadMessage DEF TypeInv
    <3>2. Head(net[Back(a)]).hashes \in Seq(Block)  BY <1>1, <3>1, MessageFacts
    <3>3. a[1] \in Nodes  BY EndFacts
    <3>4. chain[a[1]] \in Block \cup {<<>>}  BY <3>3 DEF TypeInv, BlocksInv
    <3>5. QED  BY <3>2, <3>3, <3>4, BlocksFound
  <2> HIDE DEF msgs
  <2>3. QED  BY <1>1, <1>4, <2>1, <2>2, ReadGoes
<1>5. QED  BY <1>3, <1>4
\* A block is read by the node, or it is somebody else's.
LEMMA BlockGoes ==
  ASSUME SyncAssumption, TypeInv, AskInv, CarryInv, [Next]_vars, NEW e \in Ends, Goes(e),
         syncing'[e[1]], ~hindered'[e[1]], NEW a \in Ends, HandleBlock(a)
  PROVE  Goes(e)'
<1>0. BlocksInv /\ SyncingInv  BY DEF TypeInv
<1>1. e[1] \in Nodes /\ a[1] \in Nodes  BY EndFacts
<1>2. Runs(e) /\ OnAt(e) /\ IsSyncPeer(e)  BY DEF Goes, Runs
<1> DEFINE b == Head(net[Back(a)]).block
           ends == IsSyncPeer(a) /\ Len(b) >= remoteHeight[a]
<1>3. /\ net[Back(a)] # <<>> /\ Head(net[Back(a)]).type = "block"
      /\ UNCHANGED <<dialled, remoteHeight, reader, gathered>>
      /\ \/ /\ Misbehave(a, BAN_SCORE_THRESHOLD) /\ UNCHANGED <<chain, syncing, syncPeerAddr>>
         \/ StoresBlock(a, b)
         \/ /\ net' = Exchange(a, <<>>)
            /\ UNCHANGED <<chain, syncing, syncPeerAddr, open>>
  BY DEF HandleBlock, Dispatched, Delivered
<1>4. CASE Misbehave(a, BAN_SCORE_THRESHOLD) /\ UNCHANGED <<chain, syncing, syncPeerAddr>>
  BY <1>3, <1>4, Points, PenaltyGoes
<1>5. CASE /\ net' = Exchange(a, <<>>)
           /\ UNCHANGED <<chain, syncing, syncPeerAddr, open>>
  <2>1. Still(e)  BY <1>3, <1>5 DEF Still
  <2>2. CASE a = e
    <3>1. open'[e] /\ remoteHeight'[e] # -1  BY <1>2, <1>3, <1>5 DEF Runs
    <3>2. Runs(e)'  BY <1>2, <1>3, <1>5, <3>1, StillRuns
    <3>3. OnAt(e)'  BY <1>2, <2>2, <3>2, GoingBlock
    <3>4. QED  BY <3>2, <3>3 DEF Goes
  <2>3. CASE a # e  BY <1>3, <1>5, <2>1, <2>3, SilentGoes
  <2>4. QED  BY <2>2, <2>3
<1>6. CASE StoresBlock(a, b)
  <2>1. /\ chain' = [chain EXCEPT ![a[1]] = b]
        /\ syncing' = [syncing EXCEPT ![a[1]] = @ /\ ~ends]
        /\ syncPeerAddr' = [syncPeerAddr EXCEPT ![a[1]] = IF ends THEN None ELSE @]
        /\ hindered' = [hindered EXCEPT ![a[1]] = @ \/ (syncing[a[1]] /\ ~IsSyncPeer(a))]
        /\ net' = Exchange(a, <<>>) /\ open' = open
    BY <1>6 DEF StoresBlock
  <2> HIDE DEF b, ends
  <2>2. CASE a = e
    <3>1. ~ends  BY <1>0, <1>1, <2>1, <2>2 DEF SyncingInv
    <3>2. syncPeerAddr'[e[1]] = syncPeerAddr[e[1]]  BY <1>0, <1>1, <2>1, <2>2, <3>1 DEF SyncingInv
    <3>3. Runs(e)'  BY <1>2, <1>3, <2>1, <3>2 DEF Runs, IsSyncPeer, RemoteAddress
    <3>4. OnAt(e)'  BY <1>2, <2>2, <3>3, GoingBlock
    <3>5. QED  BY <3>3, <3>4 DEF Goes
  <2>3. CASE a # e
    <3>1. a[1] # e[1]
      <4>1. SUFFICES ASSUME a[1] = e[1] PROVE FALSE  OBVIOUS
      <4>2. ~IsSyncPeer(a)  BY <1>2, <2>3, <4>1, OnePeer
      <4>3. syncing[a[1]]  BY <1>2, <4>1 DEF Runs
      <4>4. hindered'[e[1]]  BY <1>0, <1>1, <2>1, <4>1, <4>2, <4>3 DEF SyncingInv
      <4>5. QED  BY <4>4
    <3>2. /\ syncing'[e[1]] = syncing[e[1]] /\ syncPeerAddr'[e[1]] = syncPeerAddr[e[1]]
          /\ chain'[e[1]] = chain[e[1]]
      BY <1>0, <1>1, <2>1, <3>1 DEF SyncingInv, BlocksInv
    <3>3. Runs(e)'  BY <1>2, <1>3, <2>1, <3>2 DEF Runs, IsSyncPeer, RemoteAddress
    <3>4. Still(e)  BY <1>3, <2>1, <3>2 DEF Still
    <3> DEFINE none == <<>>
    <3>5. none \in Seq(Message) /\ net' = Exchange(a, none)  BY <2>1, EmptySeq
    <3> HIDE DEF none
    <3>6. OnAt(e)'  BY <1>2, <1>3, <2>3, <3>4, <3>5, GoingRead
    <3>7. QED  BY <3>3, <3>6 DEF Goes
  <2>4. QED  BY <2>2, <2>3
<1>7. QED  BY <1>3, <1>4, <1>5, <1>6

\* A block that the node has mined hinders it; another node's does not.
LEMMA MinedGoes ==
  ASSUME SyncAssumption, TypeInv, [Next]_vars, NEW e \in Ends, Goes(e), ~hindered'[e[1]],
         NEW k \in Nodes, StoreMined(k)
  PROVE  Goes(e)'
<1>0. BlocksInv /\ SyncingInv  BY DEF TypeInv
<1>1. Runs(e) /\ OnAt(e) /\ syncing[e[1]]  BY DEF Goes, Runs
<1>2. e[1] \in Nodes  BY EndFacts
<1>3. UNCHANGED <<syncing, syncPeerAddr, dialled, open, net, remoteHeight, reader, gathered>>
  BY DEF StoreMined, endVars
<1>4. chain'[e[1]] = chain[e[1]]
  <2>1. CASE Front(mining[k]) = chain[k]
    <3>1. /\ chain' = [chain EXCEPT ![k] = mining[k]]
          /\ hindered' = [hindered EXCEPT ![k] = @ \/ syncing[k]]
      BY <2>1 DEF StoreMined
    <3>2. k # e[1]  BY <1>0, <1>1, <1>2, <3>1 DEF SyncingInv
    <3>3. QED  BY <1>0, <1>2, <3>1, <3>2 DEF BlocksInv
  <2>2. CASE Front(mining[k]) # chain[k]  BY <2>2 DEF StoreMined
  <2>3. QED  BY <2>1, <2>2
<1>5. Still(e)  BY <1>3, <1>4 DEF Still
<1>6. OnAt(e)'  BY <1>1, <1>3, <1>5, GoingSame
<1>7. open'[e] /\ remoteHeight'[e] # -1  BY <1>1, <1>3 DEF Runs
<1>8. Runs(e)'  BY <1>1, <1>3, <1>7, StillRuns
<1>9. QED  BY <1>6, <1>8 DEF Goes

\* A block is announced, or nothing happens on the wires.
LEMMA QuietGoes ==
  ASSUME SyncAssumption, TypeInv, [Next]_vars, NEW e \in Ends, Goes(e), ~hindered'[e[1]],
         (\E k \in Nodes : Announce(k) \/ StartMining(k)) \/ UNCHANGED vars
  PROVE  Goes(e)'
<1>0. BlocksInv /\ LinkInv /\ NetInv  BY DEF TypeInv
<1>1. UNCHANGED <<chain, syncing, syncPeerAddr, dialled, open, remoteHeight, reader, gathered>>
  BY DEF Announce, StartMining, endVars, vars, nodeVars
<1>2. Still(e)  BY <1>1 DEF Still
<1>3. CASE net' = net
  <2>1. Runs(e) /\ OnAt(e)  BY DEF Goes
  <2>2. OnAt(e)'  BY <1>2, <1>3, <2>1, GoingSame
  <2>3. open'[e] /\ remoteHeight'[e] # -1  BY <1>1, <2>1 DEF Runs
  <2>4. Runs(e)'  BY <1>1, <2>1, <2>3, StillRuns
  <2>5. QED  BY <2>2, <2>4 DEF Goes
<1>4. ASSUME NEW k \in Nodes, Announce(k) PROVE Goes(e)'
  <2> DEFINE m == Inv(<<announcing[k]>>)
  <2>1. \A x \in Ends : /\ m \in Message
                        /\ net'[x] = net[x] \/ net'[x] = Append(net[x], m)
    BY <1>0, <1>4, Announced
  <2> HIDE DEF m
  <2>2. QED  BY <1>1, <1>2, <2>1, SentGoes
<1>5. (\A k \in Nodes : ~Announce(k)) => net' = net  BY DEF StartMining, endVars, vars
<1>6. QED  BY <1>3, <1>4, <1>5

\* Whatever the step, unless it hinders the synchronisation.
LEMMA StepGoes ==
  ASSUME SyncAssumption, TypeInv, WireInv, AskInv, CarryInv, RemoteInv, [Next]_vars,
         NEW e \in Ends, Goes(e), syncing'[e[1]], ~hindered'[e[1]]
  PROVE  Goes(e)'
<1>0. LinkInv /\ NetInv  BY DEF TypeInv
<1>1. \A k \in Miners : k \in Nodes  BY DEF SyncAssumption
<1>2. ASSUME NEW d \in Dials, Connect(d) \/ Break(d) PROVE Goes(e)'
  BY <1>2, ConnectGoes, BreakGoes
<1>3. ASSUME NEW a \in Ends, EndOfStream(a) PROVE Goes(e)'
  BY <1>3, ClosedGoes DEF EndOfStream
<1>4. ASSUME NEW a \in Ends, ExceedRate(a) PROVE Goes(e)'
  <2>1. /\ Misbehave(a, BAN_SCORE_THRESHOLD)
        /\ UNCHANGED <<chain, syncing, syncPeerAddr, dialled, remoteHeight, reader, gathered>>
    BY <1>4 DEF ExceedRate
  <2>2. QED  BY <2>1, Points, PenaltyGoes
<1>5. ASSUME NEW a \in Ends, EarlyMessage(a) PROVE Goes(e)'
  <2>1. /\ Misbehave(a, EARLY_SCORE) /\ ~handshakeComplete[a] /\ net[Back(a)] # <<>>
        /\ UNCHANGED <<chain, syncing, syncPeerAddr, dialled, remoteHeight, reader, gathered>>
    BY <1>5 DEF EarlyMessage, Delivered
  <2>2. Head(net[Back(a)]).type \in {"version", "verack", "ping"}  BY <1>0, <2>1, EarlyHead
  <2>3. Head(net[Back(a)]).type \notin {"inv", "block", "getblocks", "getdata"}  BY <2>2
  <2>4. QED  BY <2>1, <2>3, Points, PenaltyGoes
<1>6. ASSUME NEW a \in Ends, SendPing(a) PROVE Goes(e)'
  <2> DEFINE m == [type |-> "ping"]
  <2>1. /\ net' = IF open[Back(a)] THEN [net EXCEPT ![a] = Append(@, m)] ELSE net
        /\ UNCHANGED <<chain, syncing, syncPeerAddr, dialled, open, remoteHeight, reader, gathered>>
    BY <1>6 DEF SendPing, nodeVars
  <2>2. m \in Message  BY Sendable
  <2> HIDE DEF m
  <2>3. \A x \in Ends : net'[x] = net[x] \/ net'[x] = Append(net[x], m)  BY <1>0, <2>1 DEF NetInv
  <2>4. Still(e)  BY <2>1 DEF Still
  <2>5. QED  BY <2>1, <2>2, <2>3, <2>4, SentGoes
<1>7. ASSUME NEW a \in Ends, HandleVerack(a) \/ HandlePing(a) \/ HandleOther(a) PROVE Goes(e)'
  <2>1. /\ net[Back(a)] # <<>>
        /\ Head(net[Back(a)]).type \notin {"inv", "block", "getblocks", "getdata"}
        /\ UNCHANGED <<chain, syncing, syncPeerAddr, dialled, open, remoteHeight, reader, gathered>>
    BY <1>7 DEF HandleVerack, HandlePing, HandleOther, Dispatched, Delivered, nodeVars
  <2>2. Still(e)  BY <2>1 DEF Still
  <2>3. \E msgs \in Seq(Message) : net' = Exchange(a, msgs)
    <3>1. <<>> \in Seq(Message)  BY EmptySeq
    <3>2. [type |-> "getaddr"] \in Message /\ [type |-> "pong"] \in Message  BY Sendable
    <3>3. <<[type |-> "getaddr"]>> \in Seq(Message) /\ <<[type |-> "pong"]>> \in Seq(Message)
      BY <3>2
    <3>4. QED  BY <1>7, <3>1, <3>3 DEF HandleVerack, HandlePing, HandleOther
  <2>4. PICK msgs \in Seq(Message) : net' = Exchange(a, msgs)  BY <2>3
  <2>5. QED  BY <2>1, <2>2, <2>4, ReadGoes
<1>8. ASSUME NEW a \in Ends, HandleVersion(a) \/ StartSync(a) PROVE Goes(e)'
  BY <1>8, VersionGoes, StartGoes
<1>9. ASSUME NEW a \in Ends, HandleGetBlocks(a) \/ SendInv(a) PROVE Goes(e)'
  BY <1>9, GetBlocksGoes, SendInvGoes
<1>10. ASSUME NEW a \in Ends, HandleInv(a) \/ HandleGetData(a) \/ HandleBlock(a) PROVE Goes(e)'
  BY <1>10, InvGoes, GetDataGoes, BlockGoes
<1>11. ASSUME NEW k \in Miners, StartMining(k) \/ StoreMined(k) \/ Announce(k) PROVE Goes(e)'
  <2>1. k \in Nodes  BY <1>1
  <2>2. CASE StoreMined(k)  BY <2>1, <2>2, MinedGoes
  <2>3. CASE StartMining(k) \/ Announce(k)  BY <2>1, <2>3, QuietGoes
  <2>4. QED  BY <1>11, <2>2, <2>3
<1>12. CASE UNCHANGED vars  BY <1>12, QuietGoes
<1>13. QED
  BY <1>2, <1>3, <1>4, <1>5, <1>6, <1>7, <1>8, <1>9, <1>10, <1>11, <1>12 DEF Next, ReaderStep

\* A synchronisation that runs unhindered did so before, or has just been started.
LEMMA RanBefore ==
  ASSUME SyncAssumption, TypeInv, [Next]_vars, NEW n \in Nodes, syncing'[n], ~hindered'[n]
  PROVE  \/ syncing[n] /\ ~hindered[n]
         \/ \E a \in Ends : StartSync(a) /\ a[1] = n /\ ~syncing[n]
<1>0. SyncingInv /\ BannedInv  BY DEF TypeInv
<1>1. SUFFICES ASSUME ~(syncing[n] /\ ~hindered[n])
               PROVE  \E a \in Ends : StartSync(a) /\ a[1] = n /\ ~syncing[n]
  OBVIOUS
<1>2. ~(syncing' = syncing /\ hindered' = hindered)  BY <1>1
<1>3. ASSUME NEW a \in Ends, Disconnect(a), syncing' = syncing PROVE FALSE
  <2>1. hindered' = [hindered EXCEPT ![a[1]] = @ \/ IsSyncPeer(a)]  BY <1>3 DEF Disconnect
  <2>2. hindered[n] => hindered'[n]  BY <1>0, <2>1 DEF SyncingInv
  <2>3. QED  BY <1>1, <1>3, <2>2
<1>4. ASSUME NEW a \in Ends, NEW points \in Nat, Misbehave(a, points), syncing' = syncing
      PROVE  FALSE
  BY <1>0, <1>2, <1>3, <1>4, Penalty
<1>5. ASSUME NEW d \in Dials, Connect(d) \/ Break(d) PROVE FALSE
  <2>1. CASE Connect(d)  BY <1>2, <2>1 DEF Connect, nodeVars
  <2>2. CASE Break(d)
    <3>1. /\ hindered' = [k \in Nodes |->
                            hindered[k] \/ \E e \in {d, Back(d)} : e[1] = k /\ IsSyncPeer(e)]
          /\ syncing' = syncing
      BY <2>2 DEF Break
    <3>2. hindered[n] => hindered'[n]  BY <3>1
    <3>3. QED  BY <1>1, <3>1, <3>2
  <2>3. QED  BY <1>5, <2>1, <2>2
<1>6. ASSUME NEW a \in Ends, EndOfStream(a) \/ ExceedRate(a) \/ EarlyMessage(a) PROVE FALSE
  <2>1. CASE EndOfStream(a)  BY <1>3, <2>1 DEF EndOfStream
  <2>2. CASE ExceedRate(a)  BY <1>4, <2>2, Points DEF ExceedRate
  <2>3. CASE EarlyMessage(a)  BY <1>4, <2>3, Points DEF EarlyMessage
  <2>4. QED  BY <1>6, <2>1, <2>2, <2>3
<1>7. ASSUME NEW a \in Ends,
             \/ HandleVersion(a) \/ HandleVerack(a) \/ SendPing(a) \/ HandlePing(a) \/ HandleOther(a)
             \/ SendInv(a) \/ HandleInv(a) \/ HandleGetData(a)
      PROVE  FALSE
  BY <1>2, <1>7 DEF HandleVersion, HandleVerack, SendPing, HandlePing, HandleOther, SendInv,
     HandleInv, HandleGetData, nodeVars
<1>8. ASSUME NEW a \in Ends, HandleGetBlocks(a) PROVE FALSE
  <2>1. /\ syncing' = syncing
        /\ hindered' = hindered \/ hindered' = [hindered EXCEPT ![a[2]] = TRUE]
    BY <1>8 DEF HandleGetBlocks
  <2>2. hindered[n] => hindered'[n]  BY <1>0, <2>1 DEF SyncingInv
  <2>3. QED  BY <1>1, <2>1, <2>2
<1>9. ASSUME NEW a \in Ends, HandleBlock(a) PROVE FALSE
  <2> DEFINE b == Head(net[Back(a)]).block
             ends == IsSyncPeer(a) /\ Len(b) >= remoteHeight[a]
  <2>1. \/ Misbehave(a, BAN_SCORE_THRESHOLD) /\ syncing' = syncing
        \/ StoresBlock(a, b)
        \/ syncing' = syncing /\ hindered' = hindered
    BY <1>9 DEF HandleBlock
  <2>2. CASE StoresBlock(a, b)
    <3>1. /\ syncing' = [syncing EXCEPT ![a[1]] = @ /\ ~ends]
          /\ hindered' = [hindered EXCEPT ![a[1]] = @ \/ (syncing[a[1]] /\ ~IsSyncPeer(a))]
      BY <2>2 DEF StoresBlock
    <3> HIDE DEF ends
    <3>2. syncing'[n] => syncing[n]  BY <1>0, <3>1 DEF SyncingInv
    <3>3. hindered[n] => hindered'[n]  BY <1>0, <3>1 DEF SyncingInv
    <3>4. QED  BY <1>1, <3>2, <3>3
  <2>3. QED  BY <1>2, <1>4, <2>1, <2>2, Points
<1>10. ASSUME NEW k \in Miners, StartMining(k) \/ StoreMined(k) \/ Announce(k) PROVE FALSE
  <2>1. /\ syncing' = syncing
        /\ hindered' = hindered \/ hindered' = [hindered EXCEPT ![k] = @ \/ syncing[k]]
    BY <1>10 DEF StartMining, StoreMined, Announce
  <2>2. hindered[n] => hindered'[n]  BY <1>0, <2>1 DEF SyncingInv
  <2>3. QED  BY <1>1, <2>1, <2>2
<1>11. ~UNCHANGED vars  BY <1>2 DEF vars, nodeVars
<1>12. PICK a \in Ends : StartSync(a)
  BY <1>5, <1>6, <1>7, <1>8, <1>9, <1>10, <1>11 DEF Next, ReaderStep
<1>13. CASE syncing[a[1]]  BY <1>2, <1>12, <1>13 DEF StartSync
<1>14. CASE ~syncing[a[1]]
  <2>1. /\ syncing' = [syncing EXCEPT ![a[1]] = TRUE]
        /\ hindered' = [hindered EXCEPT ![a[1]] = ~(open[a] /\ open[Back(a)])]
    BY <1>12, <1>14 DEF StartSync
  <2>2. a[1] = n
    <3>1. a[1] # n => syncing'[n] = syncing[n] /\ hindered'[n] = hindered[n]
      BY <1>0, <2>1 DEF SyncingInv
    <3>2. QED  BY <1>1, <3>1
  <2>3. QED  BY <1>12, <1>14, <2>2
<1>15. QED  BY <1>13, <1>14

\* No synchronisation runs to begin with.
LEMMA InitGoingInv == ASSUME SyncAssumption PROVE Init => GoingInv
BY DEF Init, GoingInv

\* No step leaves one with nothing to do.
LEMMA NextGoingInv ==
  ASSUME SyncAssumption
  PROVE  TypeInv /\ WireInv /\ ReaderInv /\ AskInv /\ CarryInv /\ RemoteInv /\ GoingInv /\ [Next]_vars
           => GoingInv'
<1> SUFFICES ASSUME TypeInv, WireInv, ReaderInv, AskInv, CarryInv, RemoteInv, GoingInv, [Next]_vars,
                    NEW n \in Nodes, syncing'[n], ~hindered'[n]
             PROVE  \E e \in Ends : e[1] = n /\ Runs(e)' /\ OnAt(e)'
  BY DEF GoingInv
<1>1. CASE syncing[n] /\ ~hindered[n]
  <2>1. PICK e \in Ends : e[1] = n /\ Runs(e) /\ OnAt(e)  BY <1>1 DEF GoingInv
  <2>2. Goes(e) /\ syncing'[e[1]] /\ ~hindered'[e[1]]  BY <2>1 DEF Goes
  <2>3. Goes(e)'  BY <2>2, StepGoes
  <2>4. QED  BY <2>1, <2>3 DEF Goes
<1>2. ASSUME NEW a \in Ends, StartSync(a), a[1] = n, ~syncing[n]
      PROVE  \E e \in Ends : e[1] = n /\ Runs(e)' /\ OnAt(e)'
  <2>1. ~syncing[a[1]] /\ ~hindered'[a[1]]  BY <1>2
  <2>2. Goes(a)'  BY <1>2, <2>1, StartedGoes
  <2>3. QED  BY <1>2, <2>2 DEF Goes
<1>3. QED  BY <1>1, <1>2, RanBefore
\* The first blocks of a chain as the model names them.
LEMMA AtIs ==
  ASSUME NEW d \in Seq(Nodes), NEW k \in 0 .. Len(d), NEW b, At(b, d, k)
  PROVE  b = SubSeq(d, 1, k)
<1> DEFINE v == SubSeq(d, 1, k)
<1>1. v \in Seq(Nodes) /\ Len(v) = k /\ Longer(d, v)  BY PartLonger
<1> HIDE DEF v
<1>2. b \in Seq(Nodes) /\ Len(b) = Len(v) /\ Longer(d, b)  BY <1>1 DEF At
<1>3. b = v  BY <1>1, <1>2, Starts
<1>4. QED  BY <1>3 DEF v

\* Blocks that lead on, as the property says it.
LEMMA LeadLeads ==
  ASSUME SyncAssumption, TypeInv, NEW e \in Ends, NEW bs, Len(bs) \in Nat,
         Lead(bs, chain[e[1]], chain[e[2]], remoteHeight[e])
  PROVE  Leads(bs, e)
<1> DEFINE c == chain[e[1]]
           d == chain[e[2]]
           h == remoteHeight[e]
           l == Len(bs)
<1>1. c \in Seq(Nodes) /\ d \in Seq(Nodes) /\ h \in Int  BY GoingOf
<1>2. Lead(bs, c, d, h)  OBVIOUS
<1>3. Leads(bs, e) <=>
        /\ IsPrefix(c, d)
        /\ \E k \in 0 .. Len(c) :
             /\ k + l \in Len(c) + 1 .. Len(d)
             /\ h <= k + l
             /\ \A i \in 1 .. l : bs[i] = SubSeq(d, 1, k + i)
  BY DEF Leads, Height
<1>4. l \in Nat  OBVIOUS
<1> HIDE DEF c, d, h
<1>5. PICK k \in Nat : Reaches(k, l, c, d, h) /\ \A i \in 1 .. l : At(bs[i], d, k + i)
  BY <1>2 DEF Lead
<1> HIDE DEF l
<1>6. Len(c) \in Nat /\ Len(d) \in Nat  BY <1>1, LenProperties
<1>7. /\ Longer(d, c) /\ k <= Len(c) /\ Len(c) < k + l /\ k + l <= Len(d) /\ h <= k + l
  BY <1>5 DEF Reaches
<1>8. IsPrefix(c, d)  BY <1>1, <1>7, PrefixLonger
<1>9. k \in 0 .. Len(c) /\ k + l \in Len(c) + 1 .. Len(d)  BY <1>4, <1>6, <1>7
<1>10. ASSUME NEW i \in 1 .. l PROVE bs[i] = SubSeq(d, 1, k + i)
  <2>1. k + i \in 0 .. Len(d)  BY <1>4, <1>6, <1>7
  <2>2. QED  BY <1>1, <1>5, <2>1, AtIs
<1>11. QED  BY <1>3, <1>7, <1>8, <1>9, <1>10

\* Blocks that are on the way, as the property says it.
LEMMA BringsLeads ==
  ASSUME SyncAssumption, TypeInv, NEW e \in Ends,
         Brings(net[Back(e)], chain[e[1]], chain[e[2]], remoteHeight[e])
  PROVE  LET sent == net[Back(e)]
         IN  \E i \in 0 .. Len(sent) : \E l \in 1 .. Len(sent) - i :
               /\ \A j \in 1 .. l : sent[i + j].type = "block"
               /\ Leads([j \in 1 .. l |-> sent[i + j].block], e)
<1> DEFINE s == net[Back(e)]
           c == chain[e[1]]
           d == chain[e[2]]
           h == remoteHeight[e]
<1>1. s \in Seq(Message) /\ c \in Seq(Nodes) /\ d \in Seq(Nodes) /\ h \in Int  BY GoingOf
<1>2. Brings(s, c, d, h)  OBVIOUS
<1>3. \A bs : Len(bs) \in Nat /\ Lead(bs, c, d, h) => Leads(bs, e)  BY LeadLeads
<1> HIDE DEF s, c, d, h
<1>4. PICK i \in Nat : \E l \in Nat : \E k \in Nat : Carried(s, i, l, k, c, d, h)
  BY <1>2 DEF Brings
<1>5. PICK l \in Nat : \E k \in Nat : Carried(s, i, l, k, c, d, h)  BY <1>4
<1>6. PICK k \in Nat : Carried(s, i, l, k, c, d, h)  BY <1>5
<1>7. /\ i + l <= Len(s) /\ Reaches(k, l, c, d, h)
      /\ \A j \in 1 .. l : s[i + j].type = "block" /\ At(s[i + j].block, d, k + j)
  BY <1>6 DEF Carried
<1>8. Len(s) \in Nat /\ Len(c) \in Nat  BY <1>1, LenProperties
<1>9. k <= Len(c) /\ Len(c) < k + l  BY <1>7 DEF Reaches
<1>10. i \in 0 .. Len(s) /\ l \in 1 .. Len(s) - i  BY <1>7, <1>8, <1>9
<1> DEFINE bs == [j \in 1 .. l |-> s[i + j].block]
<1>11. \A j \in 1 .. l : bs[j] = s[i + j].block  OBVIOUS
<1>12. Len(bs) = l
  <2> DEFINE T == Seq(Nodes)
  <2>1. \A j \in 1 .. l : s[i + j].block \in T  BY <1>7 DEF At
  <2> HIDE DEF T
  <2>2. bs \in [1 .. l -> T]  BY <2>1
  <2> HIDE DEF bs
  <2>3. bs \in Seq(T) /\ DOMAIN bs = 1 .. l
    <3>1. bs \in Seq(T)  BY <2>2, SeqDef
    <3>2. QED  BY <2>2, <3>1
  <2>4. DOMAIN bs = 1 .. Len(bs) /\ Len(bs) \in Nat  BY <2>3, LenProperties
  <2>5. QED  BY <2>3, <2>4
<1> HIDE DEF bs
<1>13. Lead(bs, c, d, h)  BY <1>7, <1>11, <1>12 DEF Lead
<1>14. Leads(bs, e)  BY <1>3, <1>12, <1>13
<1>15. \E ii \in 0 .. Len(s) : \E ll \in 1 .. Len(s) - ii :
         /\ \A j \in 1 .. ll : s[ii + j].type = "block"
         /\ Leads([j \in 1 .. ll |-> s[ii + j].block], e)
  BY <1>7, <1>10, <1>14 DEF bs
<1>16. QED  BY <1>15 DEF s

\* What goes on is what the property names.
LEMMA OnGoesOn ==
  ASSUME SyncAssumption, TypeInv, NEW e \in Ends, OnAt(e)
  PROVE  GoesOn(e)
<1> DEFINE asked == net[e]
           sent == net[Back(e)]
           hs == gathered[Back(e)]
           c == chain[e[1]]
           d == chain[e[2]]
           h == remoteHeight[e]
<1>1. asked \in Seq(Message) /\ sent \in Seq(Message) /\ hs \in Seq(Block)  BY GoingOf
<1>2. ASSUME NEW bs \in Seq(Block), Lead(bs, c, d, h) PROVE Leads(bs, e)
  <2>1. Len(bs) \in Nat  BY LenProperties
  <2>2. QED  BY <1>2, <2>1, LeadLeads
<1>3. ASSUME NEW w \in Seq(Message), NEW type \in {"inv", "getdata"}, Names(w, type, c, d, h)
      PROVE  \E i \in 1 .. Len(w) : w[i].type = type /\ Leads(w[i].hashes, e)
  <2>1. PICK i \in 1 .. Len(w) : w[i].type = type /\ Lead(w[i].hashes, c, d, h)  BY <1>3 DEF Names
  <2>2. w[i] \in Message  BY ElementOfSeq
  <2>3. w[i].hashes \in Seq(Block)  BY <2>1, <2>2, MessageFacts
  <2>4. QED  BY <1>2, <2>1, <2>3
<1>4. \/ ~open[Back(e)]
      \/ Asks(asked, c)
      \/ reader[Back(e)] = "serving" /\ Lead(hs, c, d, h)
      \/ Names(sent, "inv", c, d, h)
      \/ Names(asked, "getdata", c, d, h)
      \/ Brings(sent, c, d, h)
  BY DEF OnAt, On
<1>5. CASE ~open[Back(e)]  BY <1>5 DEF GoesOn
<1>6. CASE Asks(asked, c)  BY <1>6 DEF GoesOn, Asks, GetBlocks
<1>7. CASE reader[Back(e)] = "serving" /\ Lead(hs, c, d, h)  BY <1>1, <1>2, <1>7 DEF GoesOn
<1>8. CASE Names(sent, "inv", c, d, h)
  <2>1. \E i \in 1 .. Len(sent) : sent[i].type = "inv" /\ Leads(sent[i].hashes, e)
    BY <1>1, <1>3, <1>8
  <2>2. QED  BY <2>1 DEF GoesOn
<1>9. CASE Names(asked, "getdata", c, d, h)
  <2>1. \E i \in 1 .. Len(asked) : asked[i].type = "getdata" /\ Leads(asked[i].hashes, e)
    BY <1>1, <1>3, <1>9
  <2>2. QED  BY <2>1 DEF GoesOn
<1>10. CASE Brings(sent, c, d, h)  BY <1>10, BringsLeads DEF GoesOn
<1>11. QED  BY <1>4, <1>5, <1>6, <1>7, <1>8, <1>9, <1>10

\* A synchronisation that nothing hinders is never left with nothing to do: the
\* request, its answer, the getdata or the blocks that end it are with a thread or
\* on the way, or the peer is gone and that is to be read.
THEOREM SyncsGoOn == Spec => []NoSyncStalls
<1> DEFINE I == /\ TypeInv /\ WireInv /\ ReaderInv /\ AskInv /\ CarryInv /\ RemoteInv
                /\ GoingInv
<1>1. Init => I
  <2> SUFFICES ASSUME Init PROVE I  OBVIOUS
  <2>1. TypeInv /\ WireInv /\ ReaderInv /\ AskInv /\ CarryInv
    BY SyncAssumption, InitTypeInv, InitWireInv, InitAskInv, InitCarryInv
  <2>2. RemoteInv /\ GoingInv  BY SyncAssumption, InitRemoteInv, InitGoingInv
  <2>3. QED  BY <2>1, <2>2
<1>2. I /\ [Next]_vars => I'
  <2> SUFFICES ASSUME I, [Next]_vars PROVE I'  OBVIOUS
  <2>1. TypeInv'  BY SyncAssumption, NextTypeInv
  <2>2. WireInv' /\ ReaderInv'  BY SyncAssumption, NextWireInv, NextReaderInv
  <2>3. AskInv'  BY SyncAssumption, NextAskInv
  <2>4. CarryInv'  BY SyncAssumption, NextCarryInv
  <2>5. RemoteInv'  BY SyncAssumption, NextRemoteInv
  <2>6. GoingInv'  BY SyncAssumption, NextGoingInv
  <2>7. QED  BY <2>1, <2>2, <2>3, <2>4, <2>5, <2>6
<1>3. I => NoSyncStalls
  <2> SUFFICES ASSUME I, NEW n \in Nodes, syncing[n], ~hindered[n]
               PROVE  \E e \in Ends : e[1] = n /\ IsSyncPeer(e) /\ open[e] /\ GoesOn(e)
    BY DEF NoSyncStalls
  <2>1. PICK e \in Ends : e[1] = n /\ Runs(e) /\ OnAt(e)  BY DEF GoingInv
  <2>2. IsSyncPeer(e) /\ open[e]  BY <2>1 DEF Runs
  <2>3. GoesOn(e)  BY SyncAssumption, <2>1, OnGoesOn
  <2>4. QED  BY <2>1, <2>2, <2>3
<1>4. QED  BY <1>1, <1>2, <1>3, PTL DEF Spec
=============================================================================
