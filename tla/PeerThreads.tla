---------------------------- MODULE PeerThreads ----------------------------
(***************************************************************************)
(* The connections of a node and their threads (src/node.cpp, peer.cpp).   *)
(*                                                                         *)
(*   Main      accepts connections, then runs Stop                         *)
(*   Outbound  RunOutboundLoop, opens connections                          *)
(*   Cleaner   RunCleanupLoop, removes and joins dead connections          *)
(*   reader    one per connection, StartPeerLoop                           *)
(*   monitor   one per connection, MonitorPeer: ping, wait for the pong    *)
(*                                                                         *)
(* peersMutex guards the list of peers and each connection has a           *)
(* pongMutex.  A section that ends in the step it began in tests that its  *)
(* mutex is free; only the others are recorded as holders.  The mutexes    *)
(* are not recursive: a thread that locks one it holds waits for itself.   *)
(***************************************************************************)
EXTENDS Integers, FiniteSets

CONSTANTS
  Peers,      \* connections: each is made once
  Main, Outbound, Cleaner, None,
  MAX_PEERS,
  MaxPings    \* bound: pings sent on one connection

Connectors == {Main, Outbound}

ASSUME PeerThreadsAssumption ==
  /\ IsFiniteSet(Peers) /\ None \notin Peers
  /\ Main \notin {Outbound, Cleaner, None} /\ None # Cleaner
  /\ MAX_PEERS \in Nat \ {0} /\ MaxPings \in Nat

VARIABLES
  running,       \* Node::running
  peers,         \* Node::peers
  peersMutex,    \* its holder
  connected,     \* Peer::connected
  pongMutex,     \* connections whose monitor keeps the mutex between steps
  pongReceived, pongNonce,
  nonce,         \* of the last ping: the monitor's local variable
  pongs,         \* nonces the remote node has not echoed yet
  reader, monitor, connector, cleaner,  \* what each thread is doing
  inbox,         \* the nonce of the pong a reader is handling
  link,          \* the connection a connector is setting up
  waking,        \* the connection Stop is waking, and those it still has to
  toWake,
  joining        \* the connections Stop and the cleanup have still to join

list == <<running, peers, peersMutex>>
flags == <<pongMutex, pongReceived, pongNonce>>
pinging == <<nonce, pongs>>
setup == <<connector, link>>
closing == <<cleaner, waking, toWake, joining>>
vars == <<list, connected, flags, pinging, inbox, reader, monitor, setup, closing>>

Nonces == 0 .. MaxPings

TypeOK ==
  /\ running \in BOOLEAN
  /\ peers \subseteq Peers
  /\ peersMutex \in {None, Main}
  /\ connected \in [Peers -> BOOLEAN]
  /\ pongMutex \subseteq Peers
  /\ pongReceived \in [Peers -> BOOLEAN]
  /\ pongNonce \in [Peers -> Nonces]
  /\ nonce \in [Peers -> Nonces]
  /\ pongs \in [Peers -> SUBSET Nonces]
  /\ reader \in [Peers -> {"off", "loop", "recv", "pong", "busy", "drop", "wake", "closing",
                           "leaving", "ended"}]
  /\ monitor \in [Peers -> {"off", "sleep", "sent", "waiting", "drop", "wake", "ended"}]
  /\ connector \in [Connectors -> {"idle", "checked", "listed", "reading", "ended", "joinThreads",
                                   "waking", "joining", "stopped"}]
  /\ cleaner \in {"idle", "joining", "ended"}
  /\ inbox \in [Peers -> Nonces]
  /\ link \in [Connectors -> Peers \cup {None}]
  /\ waking \in Peers \cup {None}
  /\ toWake \subseteq Peers
  /\ joining \in [{Main, Cleaner} -> SUBSET Peers]

\* Node::Start has started the threads, and perhaps opened a connection to
\* the seed, which no test of the number of peers precedes.
Init ==
  /\ running = TRUE
  /\ peers = {}
  /\ peersMutex = None
  /\ \E seed \in Peers \cup {None} :
       /\ link = [c \in Connectors |-> IF c = Main THEN seed ELSE None]
       /\ connector = [c \in Connectors |-> IF c = Main /\ seed # None THEN "checked" ELSE "idle"]
       /\ connected = [p \in Peers |-> p = seed]
  /\ pongMutex = {}
  /\ pongReceived = [p \in Peers |-> FALSE]
  /\ pongNonce = [p \in Peers |-> 0]
  /\ nonce = [p \in Peers |-> 0]
  /\ pongs = [p \in Peers |-> {}]
  /\ reader = [p \in Peers |-> "off"]
  /\ monitor = [p \in Peers |-> "off"]
  /\ cleaner = "idle"
  /\ inbox = [p \in Peers |-> 0]
  /\ waking = None
  /\ toWake = {}
  /\ joining = [j \in {Main, Cleaner} |-> {}]

Read(p, label) == reader' = [reader EXCEPT ![p] = label]
Watch(p, label) == monitor' = [monitor EXCEPT ![p] = label]
Connect(c, label) == connector' = [connector EXCEPT ![c] = label]

\* Peer::Disconnect, and WriteAll or ReadExact when the socket fails.
Disconnect(p) == connected' = [connected EXCEPT ![p] = FALSE]

\* Wakes the monitor: lock pongMutex, set pongReceived, notify.
WakeMonitor(p) ==
  /\ p \notin pongMutex
  /\ pongReceived' = [pongReceived EXCEPT ![p] = TRUE]
  /\ UNCHANGED <<pongMutex, pongNonce>>

-----------------------------------------------------------------------------
(***************************************************************************)
(* The reader of p.  The test of the loop and recv are apart: a connection *)
(* closed in between, or during recv, may still deliver a message, and     *)
(* recv may fail at any time (closed by the remote node, timeout).         *)
(***************************************************************************)
\* Mutant of ReadLoop: the loop does not ask whether the node is running.
ReadLoopOn(p) ==
  /\ reader[p] = "loop"
  /\ Read(p, IF connected[p] THEN "recv" ELSE "closing")
  /\ UNCHANGED <<list, connected, flags, pinging, inbox, monitor, setup, closing>>

ReadLoop(p) ==
  /\ reader[p] = "loop"
  /\ Read(p, IF running /\ connected[p] THEN "recv" ELSE "closing")
  /\ UNCHANGED <<list, connected, flags, pinging, inbox, monitor, setup, closing>>

\* A pong echoes a ping, or carries the nonce of none (0).
ReceivePong(p) ==
  /\ reader[p] = "recv"
  /\ \E n \in pongs[p] \cup {0} :
       /\ inbox' = [inbox EXCEPT ![p] = n]
       /\ pongs' = [pongs EXCEPT ![p] = @ \ {n}]
  /\ Read(p, "pong")
  /\ UNCHANGED <<list, connected, flags, nonce, monitor, setup, closing>>

\* A handler that needs peersMutex for a while, or one that ends in a ban.
ReceiveOther(p) ==
  /\ reader[p] = "recv"
  /\ Read(p, "busy") \/ Read(p, "drop")
  /\ UNCHANGED <<list, connected, flags, pinging, inbox, monitor, setup, closing>>

ReceiveFails(p) ==
  /\ reader[p] = "recv"
  /\ Disconnect(p)
  /\ Read(p, "closing")
  /\ UNCHANGED <<list, flags, pinging, inbox, monitor, setup, closing>>

HandlePong(p) ==
  /\ reader[p] = "pong"
  /\ p \notin pongMutex
  /\ pongNonce' = [pongNonce EXCEPT ![p] = inbox[p]]
  /\ pongReceived' = [pongReceived EXCEPT ![p] = TRUE]
  /\ inbox' = [inbox EXCEPT ![p] = 0]
  /\ Read(p, "loop")
  /\ UNCHANGED <<list, connected, pongMutex, pinging, monitor, setup, closing>>

HandleOther(p) ==
  /\ reader[p] = "busy"
  /\ peersMutex = None
  /\ Read(p, "loop")
  /\ UNCHANGED <<list, connected, flags, pinging, inbox, monitor, setup, closing>>

\* DisconnectPeer, up to the lock of pongMutex: look p up in the list, close it.
FindAndDisconnect(p) ==
  /\ peersMutex = None
  /\ IF p \in peers THEN Disconnect(p) ELSE UNCHANGED connected

ReaderDrops(p) ==
  /\ reader[p] = "drop"
  /\ FindAndDisconnect(p)
  /\ Read(p, IF p \in peers THEN "wake" ELSE "loop")
  /\ UNCHANGED <<list, flags, pinging, inbox, monitor, setup, closing>>

ReaderWakes(p) ==
  /\ reader[p] = "wake"
  /\ WakeMonitor(p)
  /\ Read(p, "loop")
  /\ UNCHANGED <<list, connected, pinging, inbox, monitor, setup, closing>>

ReaderCloses(p) ==
  /\ reader[p] = "closing"
  /\ Disconnect(p)
  /\ Read(p, "leaving")
  /\ UNCHANGED <<list, flags, pinging, inbox, monitor, setup, closing>>

ReaderEnds(p) ==
  /\ reader[p] = "leaving"
  /\ WakeMonitor(p)
  /\ Read(p, "ended")
  /\ UNCHANGED <<list, connected, pinging, inbox, monitor, setup, closing>>

-----------------------------------------------------------------------------
(***************************************************************************)
(* The monitor of p                                                        *)
(***************************************************************************)
SendPing(p) ==
  /\ monitor[p] = "sleep"
  /\ running /\ connected[p]
  /\ nonce[p] < MaxPings
  /\ nonce' = [nonce EXCEPT ![p] = @ + 1]
  /\ pongs' = [pongs EXCEPT ![p] = @ \cup {nonce'[p]}]
  /\ Watch(p, "sent")
  /\ UNCHANGED <<list, connected, flags, inbox, reader, setup, closing>>

\* The connection was closed since the test, or the send fails.
PingFails(p) ==
  /\ monitor[p] = "sleep"
  /\ running
  /\ Disconnect(p)
  /\ Watch(p, "drop")
  /\ UNCHANGED <<list, flags, pinging, inbox, reader, setup, closing>>

MonitorEnds(p) ==
  /\ monitor[p] = "sleep"
  /\ ~running \/ ~connected[p]
  /\ Watch(p, "ended")
  /\ UNCHANGED <<list, connected, flags, pinging, inbox, reader, setup, closing>>

\* wait_for releases the mutex while it waits.
AwaitPong(p) ==
  /\ monitor[p] = "sent"
  /\ p \notin pongMutex
  /\ pongReceived' = [pongReceived EXCEPT ![p] = FALSE]
  /\ Watch(p, "waiting")
  /\ UNCHANGED <<list, connected, pongMutex, pongNonce, pinging, inbox, reader, setup, closing>>

PongArrived(p) ==
  /\ monitor[p] = "waiting"
  /\ pongReceived[p] /\ pongNonce[p] = nonce[p]
  /\ Watch(p, "sleep")
  /\ UNCHANGED <<list, connected, flags, pinging, inbox, reader, setup, closing>>

\* Timeout, or a pong of another ping: DisconnectPeer is called with pongMutex
\* held.
GiveUp(p) ==
  /\ monitor[p] = "waiting"
  /\ pongReceived[p] => pongNonce[p] # nonce[p]
  /\ pongMutex' = pongMutex \cup {p}
  /\ Watch(p, "drop")
  /\ UNCHANGED <<list, connected, pongReceived, pongNonce, pinging, inbox, reader, setup, closing>>

\* Mutant of MonitorDrops: the connection is closed after the monitor is woken.
MonitorDropsLate(p) ==
  /\ monitor[p] = "drop"
  /\ peersMutex = None
  /\ Watch(p, IF p \in peers THEN "wake" ELSE "ended")
  /\ pongMutex' = IF p \in peers THEN pongMutex ELSE pongMutex \ {p}
  /\ UNCHANGED <<list, connected, pongReceived, pongNonce, pinging, inbox, reader, setup, closing>>

\* If the connection is not in the list any more, DisconnectPeer returns.
MonitorDrops(p) ==
  /\ monitor[p] = "drop"
  /\ FindAndDisconnect(p)
  /\ Watch(p, IF p \in peers THEN "wake" ELSE "ended")
  /\ pongMutex' = IF p \in peers THEN pongMutex ELSE pongMutex \ {p}
  /\ UNCHANGED <<list, pongReceived, pongNonce, pinging, inbox, reader, setup, closing>>

\* Locks pongMutex; the monitor may be the holder, and then waits for ever.
MonitorWakes(p) ==
  /\ monitor[p] = "wake"
  /\ WakeMonitor(p)
  /\ Watch(p, "ended")
  /\ UNCHANGED <<list, connected, pinging, inbox, reader, setup, closing>>

-----------------------------------------------------------------------------
(***************************************************************************)
(* Connections are set up by the accept loop and by RunOutboundLoop: test  *)
(* the number of peers, add to the list, start the two threads.            *)
(***************************************************************************)
Fresh(p) == reader[p] = "off" /\ \A c \in Connectors : link[c] # p

CheckRoom(c, p) ==
  /\ connector[c] = "idle" /\ running
  /\ peersMutex = None /\ Cardinality(peers) < MAX_PEERS
  /\ Fresh(p)
  /\ connected' = [connected EXCEPT ![p] = TRUE]
  /\ link' = [link EXCEPT ![c] = p]
  /\ Connect(c, "checked")
  /\ UNCHANGED <<list, flags, pinging, inbox, reader, monitor, closing>>

\* SendVersion throws: the connection never gets into the list.
SetupFails ==
  /\ connector[Outbound] = "checked"
  /\ Disconnect(link[Outbound])
  /\ link' = [link EXCEPT ![Outbound] = None]
  /\ Connect(Outbound, "idle")
  /\ UNCHANGED <<list, flags, pinging, inbox, reader, monitor, closing>>

List(c) ==
  /\ connector[c] = "checked"
  /\ peersMutex = None
  /\ peers' = peers \cup {link[c]}
  /\ Connect(c, "listed")
  /\ UNCHANGED <<running, peersMutex, connected, flags, pinging, inbox, reader, monitor, link,
                 closing>>

StartReader(c) ==
  /\ connector[c] = "listed"
  /\ Read(link[c], "loop")
  /\ Connect(c, "reading")
  /\ UNCHANGED <<list, connected, flags, pinging, inbox, monitor, link, closing>>

StartMonitor(c) ==
  /\ connector[c] = "reading"
  /\ Watch(link[c], "sleep")
  /\ link' = [link EXCEPT ![c] = None]
  /\ Connect(c, "idle")
  /\ UNCHANGED <<list, connected, flags, pinging, inbox, reader, closing>>

OutboundEnds ==
  /\ connector[Outbound] = "idle" /\ ~running
  /\ Connect(Outbound, "ended")
  /\ UNCHANGED <<list, connected, flags, pinging, inbox, reader, monitor, link, closing>>

\* A send of any other thread (a broadcast, the flush of the inventory) fails.
\* They all test handshakeComplete, which the reader sets.
SendFails(p) ==
  /\ p \in peers /\ connected[p]
  /\ reader[p] # "off"
  /\ Disconnect(p)
  /\ UNCHANGED <<list, flags, pinging, inbox, reader, monitor, setup, closing>>

-----------------------------------------------------------------------------
(***************************************************************************)
(* CleanupDisconnectedPeers: take the dead connections off the list under  *)
(* peersMutex, join their threads without it.  A thread that has not been  *)
(* started is not joinable and is passed over.                             *)
(***************************************************************************)
\* Mutant of Collect: peersMutex is kept for the joins.
CollectLocked ==
  /\ cleaner = "idle"
  /\ peersMutex = None
  /\ \E p \in peers : ~connected[p]
  /\ joining' = [joining EXCEPT ![Cleaner] = {p \in peers : ~connected[p]}]
  /\ peers' = peers \ joining'[Cleaner]
  /\ peersMutex' = Cleaner
  /\ cleaner' = "joining"
  /\ UNCHANGED <<running, connected, flags, pinging, inbox, reader, monitor, setup, waking, toWake>>

\* Mutant of Collect: every connection is taken.
CollectAll ==
  /\ cleaner = "idle"
  /\ peersMutex = None
  /\ \E p \in peers : ~connected[p]
  /\ joining' = [joining EXCEPT ![Cleaner] = peers]
  /\ peers' = peers \ joining'[Cleaner]
  /\ cleaner' = "joining"
  /\ UNCHANGED <<running, peersMutex, connected, flags, pinging, inbox, reader, monitor, setup,
                 waking, toWake>>

Collect ==
  /\ cleaner = "idle"
  /\ peersMutex = None
  /\ \E p \in peers : ~connected[p]
  /\ joining' = [joining EXCEPT ![Cleaner] = {p \in peers : ~connected[p]}]
  /\ peers' = peers \ joining'[Cleaner]
  /\ cleaner' = "joining"
  /\ UNCHANGED <<running, peersMutex, connected, flags, pinging, inbox, reader, monitor, setup,
                 waking, toWake>>

\* Mutant of Join: only the reader is joined.
JoinReader(j, p) ==
  /\ p \in joining[j]
  /\ j = Main => connector[Main] = "joining"
  /\ reader[p] \in {"off", "ended"}
  /\ joining' = [joining EXCEPT ![j] = @ \ {p}]
  /\ UNCHANGED <<list, connected, flags, pinging, inbox, reader, monitor, setup, cleaner, waking,
                 toWake>>

Join(j, p) ==
  /\ p \in joining[j]
  /\ j = Main => connector[Main] = "joining"
  /\ reader[p] \in {"off", "ended"} /\ monitor[p] \in {"off", "ended"}
  /\ joining' = [joining EXCEPT ![j] = @ \ {p}]
  /\ UNCHANGED <<list, connected, flags, pinging, inbox, reader, monitor, setup, cleaner, waking,
                 toWake>>

CleanupDone ==
  /\ cleaner = "joining" /\ joining[Cleaner] = {}
  /\ cleaner' = "idle"
  /\ UNCHANGED <<list, connected, flags, pinging, inbox, reader, monitor, setup, waking, toWake,
                 joining>>

CleanerEnds ==
  /\ cleaner = "idle" /\ ~running
  /\ cleaner' = "ended"
  /\ UNCHANGED <<list, connected, flags, pinging, inbox, reader, monitor, setup, waking, toWake,
                 joining>>

-----------------------------------------------------------------------------
(***************************************************************************)
(* Stop: the loops first, then under peersMutex close each connection and  *)
(* wake its monitor, then without it join the threads.                     *)
(***************************************************************************)
StopBegins ==
  /\ connector[Main] = "idle"
  /\ running' = FALSE
  /\ Connect(Main, "joinThreads")
  /\ UNCHANGED <<peers, peersMutex, connected, flags, pinging, inbox, reader, monitor, link,
                 closing>>

\* Mutant of StopLocks: the outbound thread is not joined before.
StopLocksEarly ==
  /\ connector[Main] = "joinThreads"
  /\ cleaner = "ended"
  /\ peersMutex = None
  /\ peersMutex' = Main
  /\ toWake' = peers
  /\ joining' = [joining EXCEPT ![Main] = peers]
  /\ Connect(Main, "waking")
  /\ UNCHANGED <<running, peers, connected, flags, pinging, inbox, reader, monitor, link, cleaner,
                 waking>>

StopLocks ==
  /\ connector[Main] = "joinThreads"
  /\ cleaner = "ended" /\ connector[Outbound] = "ended"
  /\ peersMutex = None
  /\ peersMutex' = Main
  /\ toWake' = peers
  /\ joining' = [joining EXCEPT ![Main] = peers]
  /\ Connect(Main, "waking")
  /\ UNCHANGED <<running, peers, connected, flags, pinging, inbox, reader, monitor, link, cleaner,
                 waking>>

StopDisconnects(p) ==
  /\ p \in toWake /\ waking = None
  /\ Disconnect(p)
  /\ waking' = p
  /\ toWake' = toWake \ {p}
  /\ UNCHANGED <<list, flags, pinging, inbox, reader, monitor, setup, cleaner, joining>>

StopWakes ==
  /\ waking # None
  /\ WakeMonitor(waking)
  /\ waking' = None
  /\ UNCHANGED <<list, connected, pinging, inbox, reader, monitor, setup, cleaner, toWake, joining>>

StopUnlocks ==
  /\ connector[Main] = "waking" /\ toWake = {} /\ waking = None
  /\ peersMutex' = None
  /\ Connect(Main, "joining")
  /\ UNCHANGED <<running, peers, connected, flags, pinging, inbox, reader, monitor, link, closing>>

StopEnds ==
  /\ connector[Main] = "joining" /\ joining[Main] = {}
  /\ peersMutex = None
  /\ peers' = {}
  /\ Connect(Main, "stopped")
  /\ UNCHANGED <<running, peersMutex, connected, flags, pinging, inbox, reader, monitor, link,
                 closing>>

-----------------------------------------------------------------------------
ReaderStep(p) ==
  \/ ReadLoop(p) \/ ReceivePong(p) \/ ReceiveOther(p) \/ ReceiveFails(p) \/ HandlePong(p)
  \/ HandleOther(p) \/ ReaderDrops(p) \/ ReaderWakes(p) \/ ReaderCloses(p) \/ ReaderEnds(p)

MonitorStep(p) ==
  \/ SendPing(p) \/ MonitorEnds(p) \/ AwaitPong(p) \/ PongArrived(p) \/ GiveUp(p)
  \/ MonitorDrops(p) \/ MonitorWakes(p)

ConnectorStep(c) == List(c) \/ StartReader(c) \/ StartMonitor(c)

CleanerStep == Collect \/ CleanupDone \/ CleanerEnds \/ \E p \in Peers : Join(Cleaner, p)

StopStep ==
  \/ StopLocks \/ StopWakes \/ StopUnlocks \/ StopEnds
  \/ \E p \in Peers : StopDisconnects(p) \/ Join(Main, p)

Next ==
  \/ \E p \in Peers : ReaderStep(p) \/ MonitorStep(p) \/ PingFails(p) \/ SendFails(p)
  \/ \E c \in Connectors : ConnectorStep(c) \/ \E p \in Peers : CheckRoom(c, p)
  \/ SetupFails \/ OutboundEnds
  \/ CleanerStep \/ StopBegins \/ StopStep

\* Every thread runs; recv, send and wait_for return, by their timeouts if by
\* nothing else.  Nobody has to connect, to ask for a stop or to break a link.
Fairness ==
  /\ \A p \in Peers : WF_vars(ReaderStep(p)) /\ WF_vars(MonitorStep(p))
  /\ \A c \in Connectors : WF_vars(ConnectorStep(c))
  /\ WF_vars(OutboundEnds) /\ WF_vars(CleanerStep) /\ WF_vars(StopStep)

Spec == Init /\ [][Next]_vars /\ Fairness

-----------------------------------------------------------------------------
(***************************************************************************)
(* What the threads promise                                                *)
(***************************************************************************)

\* No open connection is lost: one that has threads stays in the list, where
\* DisconnectPeer, the cleanup and Stop can reach it, until it is closed.
OpenIsListed == \A p \in Peers : connected[p] /\ reader[p] # "off" => p \in peers

\* The limit is tested in one critical section and the list grows in another:
\* accept loop and outbound loop together overrun it by one at most.
PeersBounded == Cardinality(peers) <= MAX_PEERS + 1

\* Once Stop has returned no connection is open, be it one that another thread
\* was setting up when the node was told to stop.
StoppedIsClosed == connector[Main] = "stopped" => \A p \in Peers : ~connected[p]

\* When Stop has returned, every reader that was started has been joined,
\* whoever closed its connection and took it off the list, and nobody is left
\* with a pong mutex.  So has every monitor, save those whose connection the
\* cleanup took before they were started: these find it closed, and neither
\* send a ping nor wait for a pong.
ThreadsJoined ==
  connector[Main] = "stopped" =>
    /\ \A p \in Peers : /\ reader[p] \in {"off", "ended"}
                        /\ monitor[p] \in {"off", "ended", "sleep", "drop"}
    /\ pongMutex = {}

\* The steps that are left once the node is to stop: for each connection, how
\* far its threads are from their ends, whether it has to be closed, and who has
\* still to wake its monitor and to join its threads; for the connectors, how
\* far they have come; for the cleanup, as many rounds as there are connections
\* that it might find dead.
ReaderRank(s) ==
  CASE s = "off" -> 8 [] s = "recv" -> 7 [] s \in {"pong", "busy", "drop"} -> 6 [] s = "wake" -> 5
    [] s = "loop" -> 4 [] s = "closing" -> 3 [] s = "leaving" -> 2 [] s = "ended" -> 1

MonitorRank(s) ==
  CASE s = "off" -> 7 [] s = "sent" -> 6 [] s = "waiting" -> 5 [] s = "drop" -> 4
    [] s = "wake" -> 3 [] s = "sleep" -> 2 [] s = "ended" -> 1

ConnectorRank(s) ==
  CASE s = "checked" -> 8 [] s = "listed" -> 7 [] s = "reading" -> 6 [] s = "idle" -> 5
    [] s = "joinThreads" -> 4 [] s = "waking" -> 3 [] s = "joining" -> 2
    [] s \in {"ended", "stopped"} -> 1

One(b) == IF b THEN 1 ELSE 0

\* Stop has taken its copy of the list.
Closing == {"waking", "joining", "stopped"}

\* The connections that are in the list or about to be added to it.
Waiting(c) == IF connector[c] = "checked" THEN {link[c]} ELSE {}

Counted == peers \cup Waiting(Main) \cup Waiting(Outbound)

StopHas(left) == IF connector[Main] \in Closing THEN left ELSE Counted

ConnectionRank(p) ==
  ReaderRank(reader[p]) + MonitorRank(monitor[p]) + One(connected[p])
    + One(p \in Counted \cup joining[Cleaner])
    + One(p \in StopHas(toWake)) + One(p \in StopHas(toWake \cup {waking}))
    + One(p \in StopHas(joining[Main]))

CleanerRank ==
  2 * Cardinality(Counted)
    + (CASE cleaner = "joining" -> 2 [] cleaner = "idle" -> 1 [] cleaner = "ended" -> 0)

Left(tag, S, rank) == UNION {{<<tag, x, k>> : k \in 1 .. rank[x]} : x \in S}

StepsLeft ==
       Left("connection", Peers, [p \in Peers |-> ConnectionRank(p)])
  \cup Left("connector", Connectors, [c \in Connectors |-> ConnectorRank(connector[c])])
  \cup Left("cleaner", {Cleaner}, [c \in {Cleaner} |-> CleanerRank])

\* Once the node is to stop, every step of every thread is one of a fixed number:
\* no reader reads for ever, nobody pings, connects or cleans up for ever.  A
\* stop that does not end is one that waits, for a mutex or for a thread.
StopAdvances == [][~running => StepsLeft' \subseteq StepsLeft /\ StepsLeft' # StepsLeft]_vars

\* A connection whose ping was given up is closed, unless the node stops,
\* although the monitor holds pongMutex at that point.
GivenUpIsClosed ==
  \A p \in Peers : (monitor[p] = "drop") ~> (~connected[p] \/ ~running)

\* Stop returns in every run in which no monitor gives a ping up: no other
\* waiting of the threads for mutexes and for each other is circular.
StopReturns ==
  [](pongMutex = {}) => (connector[Main] = "joinThreads" ~> connector[Main] = "stopped")

(***************************************************************************)
(* What the comments say and the code does not keep                        *)
(***************************************************************************)

\* "wake the monitor thread so it exits" (node.cpp:1046)
MonitorExits == \A p \in Peers : (reader[p] = "ended") ~> (monitor[p] = "ended")
=============================================================================
