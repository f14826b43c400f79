-------------------------------- MODULE Sync --------------------------------
(***************************************************************************)
(* Handshake, block download and block announcement between nodes          *)
(* (src/node.cpp).                                                         *)
(*                                                                         *)
(* A connection is dialled by one node and accepted by another; what is    *)
(* sent over it arrives in order, or the connection is lost with what is   *)
(* on the way.  Each end has a reader thread that handles one message      *)
(* after the other.  A block is the list of the miners of the blocks that  *)
(* lead to it, so it names its parent and its height, and a chain is named *)
(* by its tip.  What a block contains is the subject of module Ledger, how *)
(* the threads of a connection end that of PeerThreads.                    *)
(***************************************************************************)
EXTENDS Integers, Sequences, SequencesExt, Lists

CONSTANTS
  Nodes,
  Dials,            \* pairs <<n, m>>: n dials m
  GenesisChain,     \* what a node has stored when it starts
  Miners,           \* nodes that mine
  None,
  MAX_INV,          \* entries an inv can count: 255
  MAX_PEER_MESSAGES_PER_SEC,
  EARLY_SCORE, BAN_SCORE_THRESHOLD,
  HALVING_INTERVAL,
  MaxHeight,        \* bound: height at which nobody mines any more
  MaxDials,         \* bound: how often each connection is dialled
  EarlyPings        \* bound: ends whose monitor may wake before the handshake is complete

Ends == Dials \cup {<<d[2], d[1]>> : d \in Dials}

Block == UNION {[1 .. k -> Nodes] : k \in 1 .. MaxHeight}

ASSUME SyncAssumption ==
  /\ Dials \subseteq Nodes \X Nodes
  /\ \A d \in Dials : d[1] # d[2] /\ <<d[2], d[1]>> \notin Dials
  /\ GenesisChain \in [Nodes -> Block \cup {<<>>}]
  /\ Miners \subseteq Nodes
  /\ MAX_INV \in Nat /\ MAX_PEER_MESSAGES_PER_SEC \in Nat
  /\ EARLY_SCORE \in Nat /\ BAN_SCORE_THRESHOLD \in Nat \ {0}
  /\ HALVING_INTERVAL \in Nat \ {0}
  /\ MaxHeight \in Nat /\ MaxDials \in [Dials -> Nat] /\ EarlyPings \subseteq Ends

VARIABLES
  (* of a node *)
  chain,             \* its blocks above genesis, that is, its tip
  syncing, syncPeerAddr,
  banned,            \* nodes whose IP it has banned
  mining,            \* the block it is searching a proof of work for
  announcing,        \* the block it has mined and not announced yet
  (* of the two ends of a connection *)
  dialled,           \* how often it has been dialled
  open,              \* the end's socket is open
  net,               \* what the end has sent and the other has not read
  versionSent, handshakeComplete, remoteHeight,
  msgCount,          \* messages read
  score,
  pinged,            \* the end's monitor has sent a ping before the handshake
  reader,            \* where the end's reader thread is
  gathered,          \* hashes that HandleGetBlocks is about to send
  (* history *)
  hindered           \* something keeps the running synchronisation from ending

nodeVars == <<chain, syncing, syncPeerAddr, banned, mining, announcing, hindered>>
endVars  == <<dialled, open, net, versionSent, handshakeComplete, remoteHeight,
              msgCount, score, pinged, reader, gathered>>
vars     == <<nodeVars, endVars>>

Height(n) == Len(chain[n])

\* The blocks that a node finds in its database.
Stored(n) == {SubSeq(chain[n], 1, k) : k \in 1 .. Height(n)}

Message ==
       [type : {"version"}, height : 0 .. MaxHeight]
  \cup [type : {"verack", "getaddr", "ping", "pong"}]
  \cup [type : {"getblocks"}, tip : Block \cup {<<>>}]
  \cup [type : {"inv", "getdata"}, hashes : Seq(Block)]
  \cup [type : {"block"}, block : Block]

Address == Nodes \X Nat

TypeOK ==
  /\ chain \in [Nodes -> Block \cup {<<>>}]
  /\ syncing \in [Nodes -> BOOLEAN] /\ hindered \in [Nodes -> BOOLEAN]
  /\ syncPeerAddr \in [Nodes -> Address \cup {None}]
  /\ banned \in [Nodes -> SUBSET Nodes]
  /\ mining \in [Nodes -> Block \cup {None}]
  /\ announcing \in [Nodes -> Block \cup {None}]
  /\ dialled \in [Ends -> Nat]
  /\ open \in [Ends -> BOOLEAN]
  /\ net \in [Ends -> Seq(Message)]
  /\ versionSent \in [Ends -> BOOLEAN] /\ handshakeComplete \in [Ends -> BOOLEAN]
  /\ remoteHeight \in [Ends -> -1 .. MaxHeight]
  /\ msgCount \in [Ends -> 0 .. MAX_PEER_MESSAGES_PER_SEC]
  /\ score \in [Ends -> Nat] /\ pinged \in [Ends -> BOOLEAN]
  /\ reader \in [Ends -> {"reading", "behind", "serving"}]
  /\ gathered \in [Ends -> Seq(Block)]

-----------------------------------------------------------------------------
(***************************************************************************)
(* Helpers                                                                 *)
(***************************************************************************)
Back(e) == <<e[2], e[1]>>

\* GetRemoteAddress at an end: the port a dialled node listens on, or the port
\* that the dialler happens to have this time.
RemoteAddress(e) == IF e \in Dials THEN <<e[2], 0>> ELSE <<e[2], dialled[e]>>

IsSyncPeer(e) == syncing[e[1]] /\ syncPeerAddr[e[1]] = RemoteAddress(e)

Empty == [e \in Ends |-> <<>>]

\* The network after the end e has read a message and sent msgs.  What is
\* sent to an end that is closed is lost.
Exchange(e, msgs) ==
  [net EXCEPT ![Back(e)] = Tail(@),
              ![e] = IF open[Back(e)] THEN @ \o msgs ELSE @]

Delivered(e, type) ==
  /\ open[e] /\ reader[e] = "reading"
  /\ net[Back(e)] # <<>> /\ Head(net[Back(e)]).type = type

\* The blocks of ch after the one named tip: none if ch does not contain it.
GetBlockHashesAfter(ch, tip) ==
  IF IsPrefix(tip, ch) THEN [i \in 1 .. Len(ch) - Len(tip) |-> SubSeq(ch, 1, Len(tip) + i)]
                       ELSE <<>>

\* The reward is checked for the height after the tip, wherever the block is
\* from: it is too high if a halving lies between.
Overpaid(n, b) == Len(b) \div HALVING_INTERVAL < (Height(n) + 1) \div HALVING_INTERVAL

\* Peer::Disconnect at the end e: what was on the way to it is gone, and so is
\* the synchronisation with that peer.
Disconnect(e) ==
  /\ open' = [open EXCEPT ![e] = FALSE]
  /\ net' = [net EXCEPT ![Back(e)] = <<>>]
  /\ hindered' = [hindered EXCEPT ![e[1]] = @ \/ IsSyncPeer(e)]

\* A score of BAN_SCORE_THRESHOLD bans the peer's IP and closes the connection.
Misbehave(e, points) ==
  /\ score' = [score EXCEPT ![e] = @ + points]
  /\ IF score[e] + points >= BAN_SCORE_THRESHOLD
     THEN banned' = [banned EXCEPT ![e[1]] = @ \cup {e[2]}] /\ Disconnect(e)
     ELSE net' = Exchange(e, <<>>) /\ UNCHANGED <<banned, open, hindered>>

\* Mutant of WithinRate: the count goes on past the limit.
WithoutRate(e) == msgCount' = [msgCount EXCEPT ![e] = @ + 1]

\* A second may begin at any message, so any of them may be one too many once
\* MAX_PEER_MESSAGES_PER_SEC have been read; before that none is.
WithinRate(e) ==
  msgCount' = [msgCount EXCEPT ![e] = IF @ < MAX_PEER_MESSAGES_PER_SEC THEN @ + 1 ELSE @]

-----------------------------------------------------------------------------
(***************************************************************************)
(* Connections                                                             *)
(***************************************************************************)
Init ==
  /\ chain = GenesisChain
  /\ syncing = [n \in Nodes |-> FALSE] /\ hindered = [n \in Nodes |-> FALSE]
  /\ syncPeerAddr = [n \in Nodes |-> None]
  /\ banned = [n \in Nodes |-> {}]
  /\ mining = [n \in Nodes |-> None] /\ announcing = [n \in Nodes |-> None]
  /\ dialled = [e \in Ends |-> 0]
  /\ open = [e \in Ends |-> FALSE]
  /\ net = Empty
  /\ versionSent = [e \in Ends |-> FALSE] /\ handshakeComplete = [e \in Ends |-> FALSE]
  /\ remoteHeight = [e \in Ends |-> -1]
  /\ msgCount = [e \in Ends |-> 0] /\ score = [e \in Ends |-> 0]
  /\ pinged = [e \in Ends |-> FALSE]
  /\ reader = [e \in Ends |-> "reading"] /\ gathered = Empty

Version(n) == [type |-> "version", height |-> Height(n)]

\* ConnectToSeed and RunOutboundLoop at the one end, the accept loop at the
\* other: two new PeerStates.  Who dials says its version at once.  The accept
\* loop and RunOutboundLoop look for a ban; ConnectToSeed, which a node runs
\* when it starts and so before it dials again, does not.  A dial that is turned
\* away is over before either end has read anything.
Connect(d) ==
  LET reset(f, x) == [e \in Ends |-> IF e \in {d, Back(d)} THEN x ELSE f[e]]
  IN  /\ ~open[d] /\ ~open[Back(d)] /\ dialled[d] < MaxDials[d]
      /\ reader[d] = "reading" /\ reader[Back(d)] = "reading"
      /\ dialled[d] = 0 \/ d[2] \notin banned[d[1]]
      /\ d[1] \notin banned[d[2]]
      /\ dialled' = [e \in Ends |-> IF e \in {d, Back(d)} THEN dialled[d] + 1 ELSE dialled[e]]
      /\ open' = reset(open, TRUE)
      /\ net' = [reset(net, <<>>) EXCEPT ![d] = <<Version(d[1])>>]
      /\ versionSent' = [reset(versionSent, FALSE) EXCEPT ![d] = TRUE]
      /\ handshakeComplete' = reset(handshakeComplete, FALSE)
      /\ remoteHeight' = reset(remoteHeight, -1)
      /\ msgCount' = reset(msgCount, 0) /\ score' = reset(score, 0)
      /\ pinged' = reset(pinged, FALSE)
      /\ UNCHANGED <<nodeVars, reader, gathered>>

\* The connection breaks: neither end reads any more.
Break(d) ==
  /\ open[d] /\ open[Back(d)]
  /\ open' = [open EXCEPT ![d] = FALSE, ![Back(d)] = FALSE]
  /\ net' = [net EXCEPT ![d] = <<>>, ![Back(d)] = <<>>]
  /\ hindered' = [n \in Nodes |-> hindered[n] \/ \E e \in {d, Back(d)} : e[1] = n /\ IsSyncPeer(e)]
  /\ UNCHANGED <<chain, syncing, syncPeerAddr, banned, mining, announcing, dialled, versionSent,
                 handshakeComplete, remoteHeight, msgCount, score, pinged, reader, gathered>>

\* The reader has read what the other end sent before it closed.
EndOfStream(e) ==
  /\ open[e] /\ ~open[Back(e)] /\ reader[e] = "reading" /\ net[Back(e)] = <<>>
  /\ Disconnect(e)
  /\ UNCHANGED <<chain, syncing, syncPeerAddr, banned, mining, announcing, dialled, versionSent,
                 handshakeComplete, remoteHeight, msgCount, score, pinged, reader, gathered>>

\* One message too many within a second: the peer is banned, the reader ends.
ExceedRate(e) ==
  /\ open[e] /\ reader[e] = "reading" /\ net[Back(e)] # <<>>
  /\ msgCount[e] = MAX_PEER_MESSAGES_PER_SEC
  /\ Misbehave(e, BAN_SCORE_THRESHOLD)
  /\ UNCHANGED <<chain, syncing, syncPeerAddr, mining, announcing, dialled, versionSent,
                 handshakeComplete, remoteHeight, msgCount, pinged, reader, gathered>>

-----------------------------------------------------------------------------
(***************************************************************************)
(* Handshake                                                               *)
(***************************************************************************)
Verack == [type |-> "verack"]

Answer(e) == (IF versionSent[e] THEN <<>> ELSE <<Version(e[1])>>) \o <<Verack>>

\* HandleVersion up to the lock.  A reader that is "behind" has found the
\* peer's height greater and no synchronisation running.
HandleVersion(e) ==
  /\ Delivered(e, "version") /\ WithinRate(e)
  /\ LET h == Head(net[Back(e)]).height
     IN  /\ remoteHeight' = [remoteHeight EXCEPT ![e] = h]
         /\ reader' = [reader EXCEPT
                ![e] = IF h > Height(e[1]) /\ ~syncing[e[1]] THEN "behind" ELSE "reading"]
  /\ net' = Exchange(e, Answer(e))
  /\ versionSent' = [versionSent EXCEPT ![e] = TRUE]
  /\ UNCHANGED <<nodeVars, dialled, open, handshakeComplete, score, pinged, gathered>>

GetBlocks(n) == [type |-> "getblocks", tip |-> chain[n]]

\* Mutant of StartSync: syncing is not tested again under the lock.
StartSyncAgain(e) ==
  LET n == e[1]
  IN  /\ reader[e] = "behind"
      /\ reader' = [reader EXCEPT ![e] = "reading"]
      /\ IF FALSE
         THEN UNCHANGED <<syncing, syncPeerAddr, hindered, net>>
         ELSE /\ syncing' = [syncing EXCEPT ![n] = TRUE]
              /\ syncPeerAddr' = [syncPeerAddr EXCEPT ![n] = RemoteAddress(e)]
              /\ hindered' = [hindered EXCEPT ![n] = ~(open[e] /\ open[Back(e)])]
              /\ net' = IF open[e] /\ open[Back(e)]
                        THEN [net EXCEPT ![e] = Append(@, GetBlocks(n))] ELSE net
      /\ UNCHANGED <<chain, banned, mining, announcing, dialled, open, versionSent,
                     handshakeComplete, remoteHeight, msgCount, score, pinged, gathered>>

\* HandleVersion from the lock on: syncing is tested again, the height is not.
StartSync(e) ==
  LET n == e[1]
  IN  /\ reader[e] = "behind"
      /\ reader' = [reader EXCEPT ![e] = "reading"]
      /\ IF syncing[n]
         THEN UNCHANGED <<syncing, syncPeerAddr, hindered, net>>
         ELSE /\ syncing' = [syncing EXCEPT ![n] = TRUE]
              /\ syncPeerAddr' = [syncPeerAddr EXCEPT ![n] = RemoteAddress(e)]
              /\ hindered' = [hindered EXCEPT ![n] = ~(open[e] /\ open[Back(e)])]
              /\ net' = IF open[e] /\ open[Back(e)]
                        THEN [net EXCEPT ![e] = Append(@, GetBlocks(n))] ELSE net
      /\ UNCHANGED <<chain, banned, mining, announcing, dialled, open, versionSent,
                     handshakeComplete, remoteHeight, msgCount, score, pinged, gathered>>

HandleVerack(e) ==
  /\ Delivered(e, "verack") /\ WithinRate(e)
  /\ handshakeComplete' = [handshakeComplete EXCEPT ![e] = TRUE]
  /\ net' = Exchange(e, <<[type |-> "getaddr"]>>)
  /\ UNCHANGED <<nodeVars, dialled, open, versionSent, remoteHeight, score, pinged,
                 reader, gathered>>

\* DispatchMessage: before the handshake is complete everything else is an offence.
EarlyMessage(e) ==
  /\ \E type \in {"ping", "pong", "getaddr", "getblocks", "inv", "getdata", "block"} : Delivered(e, type)
  /\ ~handshakeComplete[e]
  /\ WithinRate(e)
  /\ Misbehave(e, EARLY_SCORE)
  /\ UNCHANGED <<chain, syncing, syncPeerAddr, mining, announcing, dialled, versionSent,
                 handshakeComplete, remoteHeight, pinged, reader, gathered>>

\* MonitorPeer does not ask whether the handshake is complete.  A ping that is
\* not answered is the last one, and one sent later is answered: one is enough.
SendPing(e) ==
  /\ e \in EarlyPings /\ open[e] /\ ~handshakeComplete[e] /\ ~pinged[e]
  /\ pinged' = [pinged EXCEPT ![e] = TRUE]
  /\ net' = IF open[Back(e)] THEN [net EXCEPT ![e] = Append(@, [type |-> "ping"])] ELSE net
  /\ UNCHANGED <<nodeVars, dialled, open, versionSent, handshakeComplete, remoteHeight,
                 msgCount, score, reader, gathered>>

-----------------------------------------------------------------------------
(***************************************************************************)
(* Blocks                                                                  *)
(***************************************************************************)
Dispatched(e, type) == Delivered(e, type) /\ handshakeComplete[e] /\ WithinRate(e)

HandlePing(e) ==
  /\ Dispatched(e, "ping")
  /\ net' = Exchange(e, <<[type |-> "pong"]>>)
  /\ UNCHANGED <<nodeVars, dialled, open, versionSent, handshakeComplete, remoteHeight,
                 score, pinged, reader, gathered>>

\* What a pong does is in PeerThreads, what getaddr is answered in AddressBook.
HandleOther(e) ==
  /\ Dispatched(e, "pong") \/ Dispatched(e, "getaddr")
  /\ net' = Exchange(e, <<>>)
  /\ UNCHANGED <<nodeVars, dialled, open, versionSent, handshakeComplete, remoteHeight,
                 score, pinged, reader, gathered>>

Inv(hashes) == [type |-> "inv", hashes |-> hashes]

\* HandleGetBlocks under the lock.  Nothing is sent if the tip is not found, if
\* nothing follows it, or if more follows than an inv can count.
HandleGetBlocks(e) ==
  /\ Dispatched(e, "getblocks")
  /\ LET hashes == GetBlockHashesAfter(chain[e[1]], Head(net[Back(e)]).tip)
     IN  IF hashes = <<>> \/ Len(hashes) > MAX_INV
         THEN /\ hindered' = [hindered EXCEPT ![e[2]] = TRUE]
              /\ UNCHANGED <<reader, gathered>>
         ELSE /\ UNCHANGED hindered
              /\ reader' = [reader EXCEPT ![e] = "serving"]
              /\ gathered' = [gathered EXCEPT ![e] = hashes]
  /\ net' = Exchange(e, <<>>)
  /\ UNCHANGED <<chain, syncing, syncPeerAddr, banned, mining, announcing, dialled, open,
                 versionSent, handshakeComplete, remoteHeight, score, pinged>>

\* HandleGetBlocks after the lock is released.
SendInv(e) ==
  /\ reader[e] = "serving"
  /\ reader' = [reader EXCEPT ![e] = "reading"]
  /\ gathered' = [gathered EXCEPT ![e] = <<>>]
  /\ net' = IF open[e] /\ open[Back(e)] THEN [net EXCEPT ![e] = Append(@, Inv(gathered[e]))]
                                        ELSE net
  /\ UNCHANGED <<nodeVars, dialled, open, versionSent, handshakeComplete, remoteHeight,
                 msgCount, score, pinged>>

\* Every block of the inv is requested, those the node has as well.
HandleInv(e) ==
  /\ Dispatched(e, "inv")
  /\ net' = Exchange(e, <<[type |-> "getdata", hashes |-> Head(net[Back(e)]).hashes]>>)
  /\ UNCHANGED <<nodeVars, dialled, open, versionSent, handshakeComplete, remoteHeight,
                 score, pinged, reader, gathered>>

\* The blocks that are found, each in a message of its own.
HandleGetData(e) ==
  /\ Dispatched(e, "getdata")
  /\ LET found == Only(Head(net[Back(e)]).hashes, Stored(e[1]))
     IN  net' = Exchange(e, [i \in DOMAIN found |-> [type |-> "block", block |-> found[i]]])
  /\ UNCHANGED <<nodeVars, dialled, open, versionSent, handshakeComplete, remoteHeight,
                 score, pinged, reader, gathered>>

\* Mutants of StoresBlock: any peer's block ends the synchronisation; the last
\* block of it does not.
StoresBlockOfAnyone(e, b) ==
  LET n == e[1]
      ends == syncing[n] /\ Len(b) >= remoteHeight[e]
  IN  /\ chain' = [chain EXCEPT ![n] = b]
      /\ syncing' = [syncing EXCEPT ![n] = @ /\ ~ends]
      /\ syncPeerAddr' = [syncPeerAddr EXCEPT ![n] = IF ends THEN None ELSE @]
      /\ hindered' = [hindered EXCEPT ![n] = @ \/ (syncing[n] /\ ~IsSyncPeer(e))]
      /\ net' = Exchange(e, <<>>)
      /\ UNCHANGED <<banned, open, score>>

StoresBlockTooLate(e, b) ==
  LET n == e[1]
      ends == IsSyncPeer(e) /\ Len(b) > remoteHeight[e]
  IN  /\ chain' = [chain EXCEPT ![n] = b]
      /\ syncing' = [syncing EXCEPT ![n] = @ /\ ~ends]
      /\ syncPeerAddr' = [syncPeerAddr EXCEPT ![n] = IF ends THEN None ELSE @]
      /\ hindered' = [hindered EXCEPT ![n] = @ \/ (syncing[n] /\ ~IsSyncPeer(e))]
      /\ net' = Exchange(e, <<>>)
      /\ UNCHANGED <<banned, open, score>>

\* HandleBlock.  A block whose reward is too high for the next height costs its
\* sender a ban; one that does not extend the tip is refused by AddBlock.  A
\* block that is stored ends the synchronisation if it is from the sync peer
\* and the chain is now as high as that peer said.
StoresBlock(e, b) ==
  LET n == e[1]
      ends == IsSyncPeer(e) /\ Len(b) >= remoteHeight[e]
  IN  /\ chain' = [chain EXCEPT ![n] = b]
      /\ syncing' = [syncing EXCEPT ![n] = @ /\ ~ends]
      /\ syncPeerAddr' = [syncPeerAddr EXCEPT ![n] = IF ends THEN None ELSE @]
      /\ hindered' = [hindered EXCEPT ![n] = @ \/ (syncing[n] /\ ~IsSyncPeer(e))]
      /\ net' = Exchange(e, <<>>)
      /\ UNCHANGED <<banned, open, score>>

HandleBlock(e) ==
  /\ Dispatched(e, "block")
  /\ LET block == Head(net[Back(e)]).block
     IN  \/ Overpaid(e[1], block) /\ Misbehave(e, BAN_SCORE_THRESHOLD)
            /\ UNCHANGED <<chain, syncing, syncPeerAddr>>
         \/ ~Overpaid(e[1], block) /\ Front(block) = chain[e[1]] /\ StoresBlock(e, block)
         \/ ~Overpaid(e[1], block) /\ Front(block) # chain[e[1]] /\ net' = Exchange(e, <<>>)
            /\ UNCHANGED <<chain, syncing, syncPeerAddr, banned, open, score, hindered>>
  /\ UNCHANGED <<mining, announcing, dialled, versionSent, handshakeComplete, remoteHeight,
                 pinged, reader, gathered>>

-----------------------------------------------------------------------------
(***************************************************************************)
(* Mining                                                                  *)
(***************************************************************************)

\* MineBlock up to the search: refused during a synchronisation.
StartMining(n) ==
  /\ ~syncing[n] /\ mining[n] = None /\ announcing[n] = None /\ Height(n) < MaxHeight
  /\ mining' = [mining EXCEPT ![n] = Append(chain[n], n)]
  /\ UNCHANGED <<chain, syncing, syncPeerAddr, banned, announcing, hindered, endVars>>

\* MineBlock after the search: syncing is not tested again.
StoreMined(n) ==
  /\ mining[n] # None
  /\ mining' = [mining EXCEPT ![n] = None]
  /\ IF Front(mining[n]) = chain[n]
     THEN /\ chain' = [chain EXCEPT ![n] = mining[n]]
          /\ announcing' = [announcing EXCEPT ![n] = mining[n]]
          /\ hindered' = [hindered EXCEPT ![n] = @ \/ syncing[n]]
     ELSE UNCHANGED <<chain, announcing, hindered>>
  /\ UNCHANGED <<syncing, syncPeerAddr, banned, endVars>>

\* Mutant of Announce: peers are told before their handshake is complete.
AnnounceToAll(n) ==
  /\ announcing[n] # None
  /\ announcing' = [announcing EXCEPT ![n] = None]
  /\ net' = [e \in Ends |-> IF e[1] = n /\ open[e] /\ open[Back(e)]
                            THEN Append(net[e], Inv(<<announcing[n]>>)) ELSE net[e]]
  /\ UNCHANGED <<chain, syncing, syncPeerAddr, banned, mining, hindered, dialled, open, versionSent,
                 handshakeComplete, remoteHeight, msgCount, score, pinged, reader, gathered>>

\* BroadcastBlock, to every peer at once: it holds peersMutex.  A block that a
\* peer sent is not announced any further.
Announce(n) ==
  /\ announcing[n] # None
  /\ announcing' = [announcing EXCEPT ![n] = None]
  /\ net' = [e \in Ends |->
               IF e[1] = n /\ open[e] /\ handshakeComplete[e] /\ open[Back(e)]
               THEN Append(net[e], Inv(<<announcing[n]>>)) ELSE net[e]]
  /\ UNCHANGED <<chain, syncing, syncPeerAddr, banned, mining, hindered, dialled, open, versionSent,
                 handshakeComplete, remoteHeight, msgCount, score, pinged, reader, gathered>>

-----------------------------------------------------------------------------
ReaderStep(e) ==
  \/ EndOfStream(e)
  \/ HandleVersion(e) \/ StartSync(e) \/ HandleVerack(e) \/ EarlyMessage(e)
  \/ HandlePing(e) \/ HandleOther(e) \/ HandleGetBlocks(e) \/ SendInv(e)
  \/ HandleInv(e) \/ HandleGetData(e) \/ HandleBlock(e)

Next ==
  \/ \E d \in Dials : Connect(d) \/ Break(d)
  \/ \E e \in Ends : ReaderStep(e) \/ ExceedRate(e) \/ SendPing(e)
  \/ \E n \in Miners : StartMining(n) \/ StoreMined(n) \/ Announce(n)

Spec == Init /\ [][Next]_vars

\* A reader reads what has arrived; a block that was found is announced.
Fairness ==
  /\ \A e \in Ends : WF_vars(ReaderStep(e))
  /\ \A n \in Miners : WF_vars(Announce(n))

FairSpec == Spec /\ Fairness

-----------------------------------------------------------------------------
(***************************************************************************)
(* Properties                                                              *)
(***************************************************************************)

\* A node that follows the protocol is not punished for being fast: whatever
\* its readers and its miner send, the verack that completes the receiver's
\* handshake has come before, and a monitor's ping costs one offence at most.
NoEarlyMessages ==
  \A e \in Ends :
    /\ e[2] \notin banned[e[1]] => score[e] <= EARLY_SCORE
    /\ open[e] /\ net[Back(e)] # <<>> /\ ~handshakeComplete[e] =>
         Head(net[Back(e)]).type \in {"version", "verack", "ping"}

Requests(e) == {i \in DOMAIN net[e] : net[e][i].type = "getblocks"}

\* Two readers that both find their peers ahead start one synchronisation.
OneSyncAtATime ==
  \A x, y \in Ends : \A i \in Requests(x), j \in Requests(y) :
    x[1] = y[1] => x = y /\ i = j

\* A synchronisation that ends has brought the node onto the chain of the peer
\* it chose: no fork that another peer announced in between counts.
SyncCatchesUp ==
  [][\A n \in Nodes : syncing[n] /\ ~syncing'[n] =>
        \E e \in Ends : e[1] = n /\ IsSyncPeer(e)
                        /\ IsPrefix(chain'[n], chain[e[2]])
                        /\ Len(chain'[n]) >= remoteHeight[e]]_vars

\* The blocks follow one that the end's node has, on the chain of the node at the
\* other end, and reach the height that this node has told.
Leads(blocks, e) ==
  /\ IsPrefix(chain[e[1]], chain[e[2]])
  /\ \E k \in 0 .. Height(e[1]) :
       /\ k + Len(blocks) \in Height(e[1]) + 1 .. Height(e[2])
       /\ remoteHeight[e] <= k + Len(blocks)
       /\ \A i \in 1 .. Len(blocks) : blocks[i] = SubSeq(chain[e[2]], 1, k + i)

\* Where the synchronisation with the node at the other end goes on: that the
\* other end is closed is to be read, or the request is to be answered, the
\* answer to be sent, the inv to be read, the getdata to be read, or the blocks are.
GoesOn(e) ==
  LET asked == net[e]  sent == net[Back(e)]
  IN  \/ ~open[Back(e)]
      \/ \E i \in 1 .. Len(asked) : asked[i] = GetBlocks(e[1])
      \/ reader[Back(e)] = "serving" /\ Leads(gathered[Back(e)], e)
      \/ \E i \in 1 .. Len(sent) : sent[i].type = "inv" /\ Leads(sent[i].hashes, e)
      \/ \E i \in 1 .. Len(asked) : asked[i].type = "getdata" /\ Leads(asked[i].hashes, e)
      \/ \E i \in 0 .. Len(sent) : \E l \in 1 .. Len(sent) - i :
           /\ \A j \in 1 .. l : sent[i + j].type = "block"
           /\ Leads([j \in 1 .. l |-> sent[i + j].block], e)

\* A synchronisation that nothing hinders is never left with nothing to do: some
\* thread has still to read or to send what leads to the block that ends it.
NoSyncStalls ==
  \A n \in Nodes : syncing[n] /\ ~hindered[n] =>
    \E e \in Ends : e[1] = n /\ IsSyncPeer(e) /\ open[e] /\ GoesOn(e)

\* A synchronisation ends, unless it is hindered.
SyncEnds == \A n \in Nodes : syncing[n] ~> (~syncing[n] \/ hindered[n])
=============================================================================
