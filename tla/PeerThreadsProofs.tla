------------------------- MODULE PeerThreadsProofs -------------------------
(***************************************************************************)
(* Theorems about PeerThreads, for any number of connections.              *)
(***************************************************************************)
EXTENDS PeerThreads, FiniteSetTheorems, TLAPS

Dialling == {"checked", "listed", "reading"}

(***************************************************************************)
(* The inductive invariant.  An open connection outside the list is one    *)
(* that a connector is about to add (Dialled); no two connectors set up    *)
(* the same one (LinksDiffer).  Once Stop holds peersMutex nobody is       *)
(* setting up a connection any more (Alone), so those that Stop has walked *)
(* past stay closed (Closed).                                              *)
(***************************************************************************)
LinksDiffer ==
  /\ \A c \in Connectors : link[c] # None <=> connector[c] \in Dialling
  /\ link[Main] = link[Outbound] => link[Main] = None

Dialled ==
  \A p \in Peers : connected[p] /\ p \notin peers =>
    reader[p] = "off" /\ \E c \in Connectors : link[c] = p /\ connector[c] = "checked"

Alone ==
  /\ connector[Main] \in Closing \cup {"joinThreads"} => ~running
  /\ connector[Main] # "ended"
  /\ connector[Outbound] \in Dialling \cup {"idle", "ended"}
  /\ connector[Outbound] = "ended" => ~running
  /\ connector[Main] \in Closing => connector[Outbound] = "ended"

Closed ==
  /\ connector[Main] \notin Closing => toWake = {}
  /\ connector[Main] \in Closing => \A p \in peers \ toWake : ~connected[p]
  /\ connector[Main] \in {"joining", "stopped"} => toWake = {}
  /\ connector[Main] = "stopped" => peers = {}

Inv == TypeOK /\ LinksDiffer /\ Dialled /\ Alone /\ Closed

\* The initial states satisfy it.
LEMMA InitInv == ASSUME Init PROVE Inv
<1> USE PeerThreadsAssumption DEF Init, Connectors
<1>1. PICK seed \in Peers \cup {None} :
        /\ link = [c \in Connectors |-> IF c = Main THEN seed ELSE None]
        /\ connector = [c \in Connectors |-> IF c = Main /\ seed # None THEN "checked" ELSE "idle"]
        /\ connected = [p \in Peers |-> p = seed]
  OBVIOUS
<1>2. TypeOK
  <2>1. connected \in [Peers -> BOOLEAN]
    BY <1>1
  <2> QED BY <1>1, <2>1 DEF TypeOK, Nonces
<1>3. LinksDiffer
  BY <1>1 DEF LinksDiffer, Dialling
<1>4. Dialled
  <2> SUFFICES ASSUME NEW p \in Peers, connected[p]
               PROVE  reader[p] = "off" /\ link[Main] = p /\ connector[Main] = "checked"
    BY DEF Dialled
  <2>1. p = seed
    BY <1>1
  <2> QED BY <1>1, <2>1
<1>5. Alone /\ Closed
  BY <1>1 DEF Alone, Closed, Dialling, Closing
<1> QED BY <1>2, <1>3, <1>4, <1>5 DEF Inv

\* A step of a reader or a monitor, and a link that breaks, close connections
\* and start none; what connectors and Stop do is not touched.
Closes ==
  /\ \A p \in Peers : connected'[p] => connected[p]
  /\ \A p \in Peers : reader[p] = "off" => reader'[p] = "off"
  /\ UNCHANGED <<running, peers, connector, link, toWake>>

LEMMA ClosesInv == ASSUME Inv, Closes, TypeOK' PROVE Inv'
<1>1. LinksDiffer' /\ Alone'
  BY DEF Inv, Closes, LinksDiffer, Alone
<1>2. Dialled'
  <2> SUFFICES ASSUME NEW p \in Peers, connected'[p], p \notin peers
               PROVE  reader'[p] = "off" /\ \E c \in Connectors : link[c] = p /\ connector[c] = "checked"
    BY DEF Dialled, Closes
  <2> QED BY DEF Inv, Dialled, Closes
<1>3. Closed'
  BY DEF Inv, Closes, Closed, TypeOK
<1> QED BY <1>1, <1>2, <1>3 DEF Inv

\* Types are kept by the readers.
LEMMA ReaderTypes ==
  ASSUME Inv, NEW p \in Peers, ReaderStep(p) PROVE TypeOK' /\ Closes
<1> USE DEF Inv, TypeOK, Closes, Read, Disconnect, list, flags, pinging, setup, closing, Nonces
<1>1. CASE ReadLoop(p) BY <1>1 DEF ReadLoop
<1>2. CASE ReceivePong(p)
  <2>1. PICK n \in pongs[p] \cup {0} :
          /\ inbox' = [inbox EXCEPT ![p] = n]
          /\ pongs' = [pongs EXCEPT ![p] = @ \ {n}]
    BY <1>2 DEF ReceivePong
  <2>2. inbox' \in [Peers -> Nonces]
    BY <2>1, PeerThreadsAssumption
  <2>3. pongs' \in [Peers -> SUBSET Nonces]
    BY <2>1
  <2>4. reader' = [reader EXCEPT ![p] = "pong"] /\ UNCHANGED <<list, connected, flags, nonce, monitor, setup, closing>>
    BY <1>2 DEF ReceivePong
  <2>5. reader' \in [Peers -> {"off", "loop", "recv", "pong", "busy", "drop", "wake", "closing",
                               "leaving", "ended"}]
    BY <2>4
  <2>6. TypeOK'
    BY <2>2, <2>3, <2>4, <2>5
  <2>7. Closes
    BY <1>2, <2>4 DEF ReceivePong
  <2> QED BY <2>6, <2>7
<1>3. CASE ReceiveOther(p) BY <1>3 DEF ReceiveOther
<1>4. CASE ReceiveFails(p) BY <1>4 DEF ReceiveFails
<1>5. CASE HandlePong(p) BY <1>5, PeerThreadsAssumption DEF HandlePong
<1>6. CASE HandleOther(p) BY <1>6 DEF HandleOther
<1>7. CASE ReaderDrops(p) BY <1>7 DEF ReaderDrops, FindAndDisconnect
<1>8. CASE ReaderWakes(p) BY <1>8 DEF ReaderWakes, WakeMonitor
<1>9. CASE ReaderCloses(p) BY <1>9 DEF ReaderCloses
<1>10. CASE ReaderEnds(p) BY <1>10 DEF ReaderEnds, WakeMonitor
<1> QED
  BY <1>1, <1>2, <1>3, <1>4, <1>5, <1>6, <1>7, <1>8, <1>9, <1>10 DEF ReaderStep

\* And by the monitors and whatever breaks a connection.
LEMMA MonitorTypes ==
  ASSUME Inv, NEW p \in Peers, MonitorStep(p) \/ PingFails(p) \/ SendFails(p)
  PROVE  TypeOK' /\ Closes
<1> USE PeerThreadsAssumption DEF Inv, TypeOK, Closes, Watch, Disconnect, list, flags, pinging,
        setup, closing, Nonces
<1>1. CASE SendPing(p) BY <1>1 DEF SendPing
<1>2. CASE MonitorEnds(p) BY <1>2 DEF MonitorEnds
<1>3. CASE AwaitPong(p) BY <1>3 DEF AwaitPong
<1>4. CASE PongArrived(p) BY <1>4 DEF PongArrived
<1>5. CASE GiveUp(p) BY <1>5 DEF GiveUp
<1>6. CASE MonitorDrops(p) BY <1>6 DEF MonitorDrops, FindAndDisconnect
<1>7. CASE MonitorWakes(p) BY <1>7 DEF MonitorWakes, WakeMonitor
<1>8. CASE PingFails(p) BY <1>8 DEF PingFails
<1>9. CASE SendFails(p) BY <1>9 DEF SendFails
<1> QED
  BY <1>1, <1>2, <1>3, <1>4, <1>5, <1>6, <1>7, <1>8, <1>9 DEF MonitorStep

-----------------------------------------------------------------------------
(***************************************************************************)
(* The threads that set connections up and take them down                  *)
(***************************************************************************)

\* A connector opens a connection nobody else has, gives it up, adds it to
\* the list and starts its threads.
LEMMA ConnectorInv ==
  ASSUME Inv, NEW c \in Connectors,
         ConnectorStep(c) \/ (\E p \in Peers : CheckRoom(c, p)) \/ SetupFails \/ OutboundEnds
  PROVE  Inv'
<1> USE PeerThreadsAssumption
<1> USE DEF Inv, TypeOK, Read, Watch, Connect, Disconnect, list, flags, pinging, setup, closing,
        Connectors, Dialling, Closing
<1>1. CASE List(c)
  <2>1. link[c] \in Peers
    BY <1>1 DEF List, LinksDiffer
  <2>2. TypeOK'
    BY <1>1, <2>1 DEF List
  <2>3. LinksDiffer' /\ Alone'
    BY <1>1 DEF List, LinksDiffer, Alone
  <2>4. Dialled'
    BY <1>1, <2>1 DEF List, LinksDiffer, Dialled
  <2>5. Closed'
    BY <1>1 DEF List, Alone, Closed
  <2> QED BY <2>2, <2>3, <2>4, <2>5
<1>2. CASE StartReader(c)
  <2>1. link[c] \in Peers
    BY <1>2 DEF StartReader, LinksDiffer
  <2>2. TypeOK'
    BY <1>2, <2>1 DEF StartReader
  <2>3. LinksDiffer' /\ Alone'
    BY <1>2 DEF StartReader, LinksDiffer, Alone
  <2>4. Dialled'
    BY <1>2, <2>1 DEF StartReader, LinksDiffer, Dialled
  <2>5. Closed'
    BY <1>2 DEF StartReader, Alone, Closed
  <2> QED BY <2>2, <2>3, <2>4, <2>5
<1>3. CASE StartMonitor(c)
  <2>1. link[c] \in Peers
    BY <1>3 DEF StartMonitor, LinksDiffer
  <2>2. TypeOK'
    BY <1>3, <2>1 DEF StartMonitor
  <2>3. LinksDiffer' /\ Alone'
    BY <1>3 DEF StartMonitor, LinksDiffer, Alone
  <2>4. Dialled'
    BY <1>3, <2>1 DEF StartMonitor, LinksDiffer, Dialled
  <2>5. Closed'
    BY <1>3 DEF StartMonitor, Alone, Closed
  <2> QED BY <2>2, <2>3, <2>4, <2>5
<1>4. CASE \E p \in Peers : CheckRoom(c, p)
  <2>1. PICK p \in Peers : CheckRoom(c, p)
    BY <1>4
  <2>2. TypeOK'
    BY <2>1 DEF CheckRoom
  <2>3. LinksDiffer' /\ Alone'
    BY <2>1 DEF CheckRoom, Fresh, LinksDiffer, Alone
  <2>4. Dialled'
    <3> SUFFICES ASSUME NEW q \in Peers, connected'[q], q \notin peers
                 PROVE  reader[q] = "off" /\ \E d \in Connectors : link'[d] = q /\ connector'[d] = "checked"
      BY <2>1 DEF Dialled, CheckRoom
    <3>1. CASE q = p
      BY <2>1, <3>1 DEF CheckRoom, Fresh
    <3>2. CASE q # p
      <4>1. PICK d \in Connectors : link[d] = q /\ connector[d] = "checked" /\ reader[q] = "off"
        BY <2>1, <3>2 DEF CheckRoom, Dialled
      <4>2. d # c
        BY <2>1, <4>1 DEF CheckRoom
      <4> QED BY <2>1, <4>1, <4>2 DEF CheckRoom
    <3> QED BY <3>1, <3>2
  <2>5. Closed'
    BY <2>1 DEF CheckRoom, Alone, Closed
  <2> QED BY <2>2, <2>3, <2>4, <2>5
<1>5. CASE SetupFails
  <2>1. link[Outbound] \in Peers
    BY <1>5 DEF SetupFails, LinksDiffer
  <2>2. TypeOK'
    BY <1>5, <2>1 DEF SetupFails
  <2>3. LinksDiffer' /\ Alone'
    BY <1>5 DEF SetupFails, LinksDiffer, Alone
  <2>4. Dialled'
    BY <1>5, <2>1 DEF SetupFails, LinksDiffer, Dialled
  <2>5. Closed'
    BY <1>5, <2>1 DEF SetupFails, Alone, Closed
  <2> QED BY <2>2, <2>3, <2>4, <2>5
<1>6. CASE OutboundEnds
  BY <1>6 DEF OutboundEnds, LinksDiffer, Dialled, Alone, Closed
<1> QED
  BY <1>1, <1>2, <1>3, <1>4, <1>5, <1>6 DEF ConnectorStep

\* The cleanup takes only closed connections off the list.
LEMMA CleanerInv == ASSUME Inv, CleanerStep PROVE Inv'
<1> USE PeerThreadsAssumption
<1> USE DEF Inv, TypeOK, list, flags, pinging, setup, closing
<1>1. CASE Collect
  <2>1. TypeOK'
    BY <1>1 DEF Collect
  <2>2. peers' \subseteq peers /\ \A p \in peers \ peers' : ~connected[p]
    BY <1>1 DEF Collect
  <2> QED BY <1>1, <2>1, <2>2 DEF Collect, LinksDiffer, Dialled, Alone, Closed
<1>2. CASE CleanupDone
  BY <1>2 DEF CleanupDone, LinksDiffer, Dialled, Alone, Closed
<1>3. CASE CleanerEnds
  BY <1>3 DEF CleanerEnds, LinksDiffer, Dialled, Alone, Closed
<1>4. ASSUME NEW p \in Peers, Join(Cleaner, p) PROVE Inv'
  BY <1>4 DEF Join, LinksDiffer, Dialled, Alone, Closed
<1> QED BY <1>1, <1>2, <1>3, <1>4 DEF CleanerStep

\* Stop closes what is in the list, and the list does not change meanwhile.
LEMMA StopInv == ASSUME Inv, StopBegins \/ StopStep PROVE Inv'
<1> USE PeerThreadsAssumption
<1> USE DEF Inv, TypeOK, Connect, Disconnect, list, flags, pinging, setup, closing, Connectors,
        Dialling, Closing
<1>1. CASE StopBegins
  <2>1. TypeOK'
    BY <1>1 DEF StopBegins
  <2>2. LinksDiffer' /\ Alone' /\ Closed'
    BY <1>1 DEF StopBegins, LinksDiffer, Alone, Closed
  <2>3. Dialled'
    BY <1>1 DEF StopBegins, Dialled
  <2> QED BY <2>1, <2>2, <2>3
<1>2. CASE StopLocks
  BY <1>2 DEF StopLocks, LinksDiffer, Dialled, Alone, Closed
<1>3. ASSUME NEW p \in Peers, StopDisconnects(p) PROVE Inv'
  <2>1. TypeOK'
    BY <1>3 DEF StopDisconnects
  <2>2. LinksDiffer' /\ Dialled' /\ Alone'
    BY <1>3 DEF StopDisconnects, LinksDiffer, Dialled, Alone
  <2>3. Closed'
    BY <1>3 DEF StopDisconnects, Closed
  <2> QED BY <2>1, <2>2, <2>3
<1>4. CASE StopWakes
  BY <1>4 DEF StopWakes, WakeMonitor, LinksDiffer, Dialled, Alone, Closed
<1>5. CASE StopUnlocks
  BY <1>5 DEF StopUnlocks, LinksDiffer, Dialled, Alone, Closed
<1>6. CASE StopEnds
  BY <1>6 DEF StopEnds, LinksDiffer, Dialled, Alone, Closed
<1>7. ASSUME NEW p \in Peers, Join(Main, p) PROVE Inv'
  BY <1>7 DEF Join, LinksDiffer, Dialled, Alone, Closed
<1> QED BY <1>1, <1>2, <1>3, <1>4, <1>5, <1>6, <1>7 DEF StopStep

-----------------------------------------------------------------------------
LEMMA NextInv == ASSUME Inv, [Next]_vars PROVE Inv'
<1>1. ASSUME NEW p \in Peers, ReaderStep(p) \/ MonitorStep(p) \/ PingFails(p) \/ SendFails(p)
      PROVE  Inv'
  BY <1>1, ReaderTypes, MonitorTypes, ClosesInv
<1>2. ASSUME NEW c \in Connectors, ConnectorStep(c) \/ \E p \in Peers : CheckRoom(c, p)
      PROVE  Inv'
  BY <1>2, ConnectorInv
<1>3. CASE SetupFails \/ OutboundEnds
  BY <1>3, ConnectorInv DEF Connectors
<1>4. CASE CleanerStep
  BY <1>4, CleanerInv
<1>5. CASE StopBegins \/ StopStep
  BY <1>5, StopInv
<1>6. CASE UNCHANGED vars
  BY <1>6 DEF vars, list, flags, pinging, setup, closing, Inv, TypeOK, LinksDiffer, Dialled, Alone,
              Closed
<1> QED BY <1>1, <1>2, <1>3, <1>4, <1>5, <1>6 DEF Next

LEMMA InvAlways == Spec => []Inv
<1>1. Init => Inv
  BY InitInv
<1>2. Inv /\ [Next]_vars => Inv'
  BY NextInv
<1> QED BY <1>1, <1>2, PTL DEF Spec

\* Types: in particular only Stop keeps peersMutex from one step to the next.
THEOREM PeerTypes == Spec => []TypeOK
<1>1. Inv => TypeOK
  BY DEF Inv
<1> QED BY <1>1, InvAlways, PTL

\* An open connection with threads stays where the node can reach it.
THEOREM OpenListed == Spec => []OpenIsListed
<1>1. Inv => OpenIsListed
  BY DEF Inv, Dialled, OpenIsListed
<1> QED BY <1>1, InvAlways, PTL

\* After Stop no connection is open.
THEOREM StopCloses == Spec => []StoppedIsClosed
<1>1. Inv => StoppedIsClosed
  BY DEF Inv, Dialled, Alone, Closed, Closing, Connectors, Dialling, StoppedIsClosed
<1> QED BY <1>1, InvAlways, PTL

-----------------------------------------------------------------------------
(***************************************************************************)
(* The limit on peers.  A connection counts from the moment its connector  *)
(* has seen room for it.                                                   *)
(***************************************************************************)
Bound == Cardinality(Counted) <= MAX_PEERS + 1

\* Cardinalities of the sets at hand.
LEMMA CountedFinite ==
  ASSUME Inv PROVE Counted \subseteq Peers /\ IsFiniteSet(Counted) /\ Cardinality(Counted) \in Nat
<1>1. Counted \subseteq Peers
  BY DEF Inv, TypeOK, LinksDiffer, Dialling, Connectors, Counted, Waiting
<1> QED BY <1>1, PeerThreadsAssumption, FS_Subset, FS_CardinalityType

\* A step that counts no new connection keeps the bound.
LEMMA FewerBound ==
  ASSUME Inv, Inv', Bound, Counted' \subseteq Counted PROVE Bound'
BY CountedFinite, FS_Subset, FS_CardinalityType, PeerThreadsAssumption DEF Bound

\* A connector that sees room: the list is below the limit, and besides the
\* new connection only the other connector's can be counted.
LEMMA RoomBound ==
  ASSUME Inv, NEW c \in Connectors, NEW p \in Peers, CheckRoom(c, p) PROVE Bound'
<1>1. PICK d \in Connectors : d # c /\ Connectors = {c, d}
  BY PeerThreadsAssumption DEF Connectors
<1>2. Counted' = (peers \cup Waiting(d)) \cup {p}
  <2>1. Waiting(c)' = {p} /\ Waiting(d)' = Waiting(d) /\ peers' = peers
    BY <1>1, PeerThreadsAssumption DEF CheckRoom, Waiting, Inv, TypeOK, Connect, list, Connectors
  <2>2. Counted' = peers' \cup Waiting(c)' \cup Waiting(d)'
    BY <1>1, PeerThreadsAssumption DEF Counted, Connectors
  <2> QED BY <2>1, <2>2
<1>3. IsFiniteSet(peers) /\ Cardinality(peers) \in Nat /\ Cardinality(peers) < MAX_PEERS
  BY PeerThreadsAssumption, FS_Subset, FS_CardinalityType DEF Inv, TypeOK, CheckRoom
<1>4. /\ IsFiniteSet(peers \cup Waiting(d))
      /\ Cardinality(peers \cup Waiting(d)) \in Nat
      /\ Cardinality(peers \cup Waiting(d)) <= Cardinality(peers) + 1
  <2>1. CASE connector[d] = "checked"
    <3>1. Waiting(d) = {link[d]}
      BY <2>1 DEF Waiting
    <3>2. /\ IsFiniteSet(peers \cup {link[d]})
          /\ Cardinality(peers \cup {link[d]}) =
               IF link[d] \in peers THEN Cardinality(peers) ELSE Cardinality(peers) + 1
      BY <1>3, FS_AddElement
    <3>3. Cardinality(peers \cup {link[d]}) \in Nat
      BY <3>2, FS_CardinalityType
    <3> QED BY <3>1, <3>2, <3>3, <1>3
  <2>2. CASE connector[d] # "checked"
    <3>1. peers \cup Waiting(d) = peers
      BY <2>2 DEF Waiting
    <3> QED BY <3>1, <1>3
  <2> QED BY <2>1, <2>2
<1>5. Cardinality(Counted') <= Cardinality(peers \cup Waiting(d)) + 1
  BY <1>2, <1>4, FS_AddElement
<1>6. Cardinality(Counted') \in Nat
  BY <1>2, <1>4, FS_AddElement, FS_CardinalityType
<1> QED BY <1>3, <1>4, <1>5, <1>6, PeerThreadsAssumption DEF Bound

LEMMA NextBound == ASSUME Inv, Inv', Bound, [Next]_vars PROVE Bound'
<1> USE DEF Counted, Waiting, list, setup, closing
<1>1. ASSUME NEW p \in Peers, ReaderStep(p) \/ MonitorStep(p) \/ PingFails(p) \/ SendFails(p)
      PROVE  Bound'
  <2>1. Closes
    BY <1>1, ReaderTypes, MonitorTypes
  <2> QED BY <2>1, FewerBound DEF Closes
<1>2. ASSUME NEW c \in Connectors, ConnectorStep(c) PROVE Bound'
  <2>1. Counted' \subseteq Counted
    BY <1>2, PeerThreadsAssumption
       DEF ConnectorStep, List, StartReader, StartMonitor, Connectors, Connect, Inv, TypeOK
  <2> QED BY <2>1, FewerBound
<1>3. ASSUME NEW c \in Connectors, NEW p \in Peers, CheckRoom(c, p) PROVE Bound'
  BY <1>3, RoomBound
<1>4. CASE SetupFails \/ OutboundEnds
  <2>1. Counted' \subseteq Counted
    BY <1>4, PeerThreadsAssumption DEF SetupFails, OutboundEnds, Connectors, Connect, Inv, TypeOK
  <2> QED BY <2>1, FewerBound
<1>5. CASE CleanerStep
  <2>1. Counted' \subseteq Counted
    BY <1>5 DEF CleanerStep, Collect, CleanupDone, CleanerEnds, Join
  <2> QED BY <2>1, FewerBound
<1>6. CASE StopBegins \/ StopStep
  <2>1. Counted' \subseteq Counted
    BY <1>6, PeerThreadsAssumption
       DEF StopBegins, StopStep, StopLocks, StopDisconnects, StopWakes, StopUnlocks, StopEnds, Join,
           Connectors, Connect, Inv, TypeOK
  <2> QED BY <2>1, FewerBound
<1>7. CASE UNCHANGED vars
  BY <1>7, FewerBound DEF vars
<1> QED BY <1>1, <1>2, <1>3, <1>4, <1>5, <1>6, <1>7 DEF Next

LEMMA InitBound == ASSUME Init PROVE Bound
<1>1. PICK seed \in Peers \cup {None} : link[Main] = seed /\ connector[Outbound] = "idle"
  BY PeerThreadsAssumption DEF Init, Connectors
<1>2. Counted \subseteq {seed}
  BY <1>1 DEF Counted, Waiting, Init
<1>3. IsFiniteSet({seed}) /\ Cardinality({seed}) = 1
  BY FS_Singleton
<1>4. Cardinality(Counted) <= 1 /\ Cardinality(Counted) \in Nat
  BY <1>2, <1>3, FS_Subset, FS_CardinalityType
<1> QED BY <1>4, PeerThreadsAssumption DEF Bound

\* The list holds one connection more than MAX_PEERS at most.
THEOREM PeersAreBounded == Spec => []PeersBounded
<1>1. Inv /\ Bound => PeersBounded
  <2> SUFFICES ASSUME Inv, Bound PROVE PeersBounded
    OBVIOUS
  <2>1. peers \subseteq Counted /\ IsFiniteSet(Counted) /\ Cardinality(Counted) \in Nat
    BY CountedFinite DEF Counted
  <2>2. IsFiniteSet(peers) /\ Cardinality(peers) <= Cardinality(Counted)
    BY <2>1, FS_Subset
  <2> QED BY <2>1, <2>2, FS_CardinalityType, PeerThreadsAssumption DEF Bound, PeersBounded
<1>2. Init => Bound
  BY InitBound
<1>3. Inv /\ Inv' /\ Bound /\ [Next]_vars => Bound'
  BY NextBound
<1> QED BY <1>1, <1>2, <1>3, InvAlways, PTL DEF Spec

-----------------------------------------------------------------------------
(***************************************************************************)
(* The threads.  Those of a connection are started by the connector that   *)
(* set it up, the reader first (Starting), and only a monitor that closes  *)
(* a connection keeps its pong mutex (Holding).  A reader is joined by who *)
(* took its connection off the list, or by Stop (Joined): a connection in  *)
(* nobody's hands has no threads but, perhaps, a monitor that was started  *)
(* after the cleanup had looked for it.                                    *)
(***************************************************************************)
Starting ==
  /\ \A p \in Peers :
       /\ reader[p] = "off" => monitor[p] = "off"
       /\ reader[p] = "off" /\ p \in peers =>
            \E c \in Connectors : link[c] = p /\ connector[c] = "listed"
       /\ reader[p] # "off" /\ monitor[p] = "off" =>
            \E c \in Connectors : link[c] = p /\ connector[c] = "reading"
  /\ \A c \in Connectors :
       /\ connector[c] \in {"checked", "listed"} =>
            reader[link[c]] = "off" /\ connected[link[c]]
       /\ connector[c] = "reading" => reader[link[c]] # "off" /\ monitor[link[c]] = "off"

Holding ==
  /\ \A p \in pongMutex : monitor[p] \in {"drop", "wake"}
  /\ peersMutex = Main <=> connector[Main] = "waking"

Tracked == peers \cup joining[Main] \cup joining[Cleaner]

Late == {"off", "sleep", "drop", "ended"}

Joined ==
  /\ cleaner # "joining" => joining[Cleaner] = {}
  /\ connector[Main] \in Closing => cleaner = "ended"
  /\ connector[Main] \notin {"waking", "joining"} => joining[Main] = {}
  /\ connector[Main] \in {"waking", "joining"} =>
       \A p \in peers \ joining[Main] : reader[p] = "ended" /\ monitor[p] = "ended"
  /\ \A p \in Peers \ Tracked :
       reader[p] = "off" \/ (reader[p] = "ended" /\ monitor[p] \in Late /\ p \notin pongMutex)

Threads == Starting /\ Holding /\ Joined

\* The initial states satisfy it.
LEMMA InitThreads == ASSUME Init PROVE Threads
<1> USE PeerThreadsAssumption DEF Init, Connectors
<1>1. PICK seed \in Peers \cup {None} :
        /\ link = [c \in Connectors |-> IF c = Main THEN seed ELSE None]
        /\ connector = [c \in Connectors |-> IF c = Main /\ seed # None THEN "checked" ELSE "idle"]
  OBVIOUS
<1>2. Starting
  BY <1>1 DEF Starting
<1>3. Holding
  BY <1>1 DEF Holding
<1>4. Joined
  BY <1>1 DEF Joined, Closing
<1> QED BY <1>2, <1>3, <1>4 DEF Threads

\* What a step of the reader of p does to the threads: it goes on or ends.
ReaderGoes(p) ==
  /\ reader[p] \notin {"off", "ended"} /\ reader'[p] # "off"
  /\ \A q \in Peers \ {p} : reader'[q] = reader[q] /\ connected'[q] = connected[q]
  /\ UNCHANGED <<monitor, pongMutex, list, setup, closing>>

\* The same of its monitor, which may take its pong mutex or release it.
MonitorGoes(p) ==
  /\ pongMutex' \subseteq Peers
  /\ monitor[p] \notin {"off", "ended"} /\ monitor'[p] # "off"
  /\ \A q \in Peers \ {p} : monitor'[q] = monitor[q] /\ connected'[q] = connected[q]
  /\ \A q \in Peers \ {p} : q \in pongMutex' <=> q \in pongMutex
  /\ p \in pongMutex' => monitor'[p] \in {"drop", "wake"}
  /\ p \notin Tracked => monitor'[p] \in Late /\ p \notin pongMutex'
  /\ UNCHANGED <<reader, list, setup, closing>>

LEMMA ReaderGoesOn == ASSUME Inv, NEW p \in Peers, ReaderStep(p) PROVE ReaderGoes(p)
<1> USE DEF Inv, TypeOK, ReaderGoes, Read, Disconnect, list, flags, pinging, setup, closing
<1>1. CASE ReadLoop(p) BY <1>1 DEF ReadLoop
<1>2. CASE ReceivePong(p) BY <1>2 DEF ReceivePong
<1>3. CASE ReceiveOther(p) BY <1>3 DEF ReceiveOther
<1>4. CASE ReceiveFails(p) BY <1>4 DEF ReceiveFails
<1>5. CASE HandlePong(p) BY <1>5 DEF HandlePong
<1>6. CASE HandleOther(p) BY <1>6 DEF HandleOther
<1>7. CASE ReaderDrops(p) BY <1>7 DEF ReaderDrops, FindAndDisconnect
<1>8. CASE ReaderWakes(p) BY <1>8 DEF ReaderWakes, WakeMonitor
<1>9. CASE ReaderCloses(p) BY <1>9 DEF ReaderCloses
<1>10. CASE ReaderEnds(p) BY <1>10 DEF ReaderEnds, WakeMonitor
<1> QED
  BY <1>1, <1>2, <1>3, <1>4, <1>5, <1>6, <1>7, <1>8, <1>9, <1>10 DEF ReaderStep

\* A monitor in nobody's hands finds its connection closed and unlisted.
LEMMA MonitorGoesOn ==
  ASSUME Inv, Threads, NEW p \in Peers, MonitorStep(p) \/ PingFails(p) PROVE MonitorGoes(p)
<1> USE DEF Inv, TypeOK, MonitorGoes, Watch, Disconnect, list, flags, pinging, setup, closing
<1>1. p \in pongMutex => monitor[p] \in {"drop", "wake"}
  BY DEF Threads, Holding
<1>2. p \notin Tracked => p \notin peers
  BY DEF Tracked
<1>3. monitor[p] # "off" => reader[p] # "off"
  BY DEF Threads, Starting
<1>4. p \notin Tracked /\ monitor[p] # "off" => monitor[p] \in Late /\ p \notin pongMutex
  BY <1>3 DEF Threads, Joined
<1>5. p \notin Tracked /\ monitor[p] # "off" => ~connected[p]
  BY <1>2, <1>3 DEF Dialled
<1> USE <1>1, <1>2, <1>4, <1>5 DEF Late
<1>6. CASE SendPing(p) BY <1>6 DEF SendPing
<1>7. CASE MonitorEnds(p) BY <1>7 DEF MonitorEnds
<1>8. CASE AwaitPong(p) BY <1>8 DEF AwaitPong
<1>9. CASE PongArrived(p) BY <1>9 DEF PongArrived
<1>10. CASE GiveUp(p) BY <1>10 DEF GiveUp
<1>11. CASE MonitorDrops(p) BY <1>11 DEF MonitorDrops, FindAndDisconnect
<1>12. CASE MonitorWakes(p) BY <1>12 DEF MonitorWakes, WakeMonitor
<1>13. CASE PingFails(p) BY <1>13 DEF PingFails
<1> QED
  BY <1>6, <1>7, <1>8, <1>9, <1>10, <1>11, <1>12, <1>13 DEF MonitorStep

LEMMA ReaderThreads ==
  ASSUME Inv, Threads, NEW p \in Peers, ReaderGoes(p) PROVE Threads'
<1> USE DEF ReaderGoes, list, setup, closing
<1>1. \A q \in Peers : /\ reader'[q] = "off" <=> reader[q] = "off"
                       /\ reader'[q] = "off" => connected'[q] = connected[q]
                       /\ reader[q] = "ended" => reader'[q] = "ended"
  OBVIOUS
<1>2. \A c \in Connectors : connector[c] \in Dialling => link[c] \in Peers
  BY DEF Inv, TypeOK, LinksDiffer
<1>3. Starting'
  <2>1. /\ UNCHANGED <<monitor, peers, connector, link>>
        /\ Starting
    BY DEF Threads
  <2> QED BY <1>1, <1>2, <2>1 DEF Starting, Dialling
<1>4. Holding'
  BY DEF Threads, Holding
<1>5. Joined'
  <2>1. /\ UNCHANGED <<monitor, pongMutex, peers, connector, cleaner, joining, Tracked>>
        /\ Joined /\ peers \subseteq Peers
    BY DEF Threads, Tracked, Inv, TypeOK
  <2> QED BY <1>1, <2>1 DEF Joined
<1> QED BY <1>3, <1>4, <1>5 DEF Threads

LEMMA MonitorThreads ==
  ASSUME Inv, Threads, NEW p \in Peers, MonitorGoes(p) PROVE Threads'
<1> USE DEF MonitorGoes, list, setup, closing
<1>1. \A q \in Peers : /\ monitor'[q] = "off" <=> monitor[q] = "off"
                       /\ monitor[q] = "off" => connected'[q] = connected[q]
                       /\ monitor[q] = "ended" => monitor'[q] = "ended"
                       /\ q \in pongMutex' => monitor'[q] \in {"drop", "wake"}
                       /\ q \notin Tracked /\ monitor[q] \in Late /\ q \notin pongMutex =>
                            monitor'[q] \in Late /\ q \notin pongMutex'
  BY DEF Threads, Holding
<1>2. \A c \in Connectors : connector[c] \in Dialling => link[c] \in Peers
  BY DEF Inv, TypeOK, LinksDiffer
<1>3. Starting'
  <2>1. /\ UNCHANGED <<reader, peers, connector, link>>
        /\ Starting
    BY DEF Threads
  <2> QED BY <1>1, <1>2, <2>1 DEF Starting, Dialling
<1>4. Holding'
  <2>1. pongMutex' \subseteq Peers
    BY DEF Threads, Holding, Inv, TypeOK
  <2> QED BY <1>1, <2>1 DEF Threads, Holding
<1>5. Joined'
  <2>1. /\ UNCHANGED <<reader, peers, connector, cleaner, joining, Tracked>>
        /\ Joined /\ peers \subseteq Peers
    BY DEF Threads, Tracked, Inv, TypeOK
  <2> QED BY <1>1, <2>1 DEF Joined
<1> QED BY <1>3, <1>4, <1>5 DEF Threads

\* A link that breaks under somebody's send has a reader.
LEMMA SendThreads ==
  ASSUME Inv, Threads, NEW p \in Peers, SendFails(p) PROVE Threads'
<1> USE DEF SendFails, Disconnect, list, flags, pinging, setup, closing
<1>1. \A q \in Peers : reader[q] = "off" => connected'[q] = connected[q]
  BY DEF Inv, TypeOK
<1>2. Starting'
  BY <1>1 DEF Threads, Starting
<1>3. Holding' /\ Joined'
  BY DEF Threads, Holding, Joined, Tracked
<1> QED BY <1>2, <1>3 DEF Threads

\* A connector hands what it sets up from one stage to the next; nobody else
\* has the same connection.
LEMMA ConnectorThreads ==
  ASSUME Inv, Threads, NEW c \in Connectors,
         ConnectorStep(c) \/ (\E p \in Peers : CheckRoom(c, p)) \/ SetupFails \/ OutboundEnds
  PROVE  Threads'
<1> USE PeerThreadsAssumption
<1> USE DEF Read, Watch, Connect, Disconnect, list, flags, pinging, setup, closing
<1>1. /\ connector \in [Connectors -> {"idle", "checked", "listed", "reading", "ended", "joinThreads",
                                      "waking", "joining", "stopped"}]
      /\ reader \in [Peers -> {"off", "loop", "recv", "pong", "busy", "drop", "wake", "closing",
                              "leaving", "ended"}]
      /\ monitor \in [Peers -> {"off", "sleep", "sent", "waiting", "drop", "wake", "ended"}]
      /\ connected \in [Peers -> BOOLEAN] /\ link \in [Connectors -> Peers \cup {None}]
      /\ peers \subseteq Peers
  BY DEF Inv, TypeOK
<1>2. \A d \in Connectors : connector[d] \in Dialling => link[d] \in Peers
  BY <1>1 DEF Inv, LinksDiffer
<1>3. \A d, e \in Connectors : d # e /\ connector[d] \in Dialling => link[d] # link[e]
  BY <1>1, <1>2 DEF Inv, LinksDiffer, Connectors
<1>4. Starting /\ Holding /\ Joined
  BY DEF Threads
<1>5. connector[Main] \in Closing => connector[Outbound] = "ended"
  BY DEF Inv, Alone
<1>6. Main # Outbound /\ Connectors = {Main, Outbound}
  BY DEF Connectors
<1>7. CASE List(c)
  <2> USE <1>7 DEF List
  <2>1. link[c] \in Peers
    BY <1>2 DEF Dialling
  <2>2. reader[link[c]] = "off" /\ connected[link[c]] /\ monitor[link[c]] = "off"
    BY <1>4, <2>1 DEF Starting
  <2>3. Starting'
    BY <1>1, <1>3, <1>4, <2>2 DEF Starting, Dialling
  <2>4. Holding'
    BY <1>1, <1>4, <1>6 DEF Holding
  <2>5. Joined'
    <3>1. connector[Main] \notin Closing /\ connector'[Main] \notin Closing
      BY <1>1, <1>5, <1>6 DEF Closing
    <3> QED BY <1>1, <1>4, <3>1 DEF Joined, Tracked, Closing
  <2> QED BY <2>3, <2>4, <2>5 DEF Threads
<1>8. CASE StartReader(c)
  <2> USE <1>8 DEF StartReader
  <2>1. link[c] \in Peers
    BY <1>2 DEF Dialling
  <2>2. reader[link[c]] = "off" /\ monitor[link[c]] = "off"
    BY <1>4, <2>1 DEF Starting
  <2>3. Starting'
    BY <1>1, <1>2, <1>3, <1>4, <2>1, <2>2 DEF Starting, Dialling
  <2>4. Holding'
    BY <1>1, <1>4, <1>6 DEF Holding
  <2>5. Joined'
    <3>1. connector[Main] \notin Closing /\ connector'[Main] \notin Closing
      BY <1>1, <1>5, <1>6 DEF Closing
    <3>2. link[c] \in peers
      <4>1. connected[link[c]]
        BY <1>4 DEF Starting
      <4> QED BY <1>3, <2>1, <4>1 DEF Inv, Dialled, Dialling
    <3> QED BY <1>1, <1>4, <3>1, <3>2 DEF Joined, Tracked, Closing
  <2> QED BY <2>3, <2>4, <2>5 DEF Threads
<1>9. CASE StartMonitor(c)
  <2> USE <1>9 DEF StartMonitor
  <2>1. link[c] \in Peers
    BY <1>2 DEF Dialling
  <2>2. reader[link[c]] # "off" /\ monitor[link[c]] = "off"
    BY <1>4, <2>1 DEF Starting
  <2>3. Starting'
    BY <1>1, <1>2, <1>3, <1>4, <2>1, <2>2 DEF Starting, Dialling
  <2>4. Holding'
    BY <1>1, <1>4, <1>6, <2>2 DEF Holding
  <2>5. Joined'
    <3>1. connector[Main] \notin Closing /\ connector'[Main] \notin Closing
      BY <1>1, <1>5, <1>6 DEF Closing
    <3>2. \A q \in Peers : monitor[q] \in Late => monitor'[q] \in Late
      BY <1>1, <2>1 DEF Late
    <3> QED BY <1>1, <1>4, <3>1, <3>2 DEF Joined, Tracked, Closing
  <2> QED BY <2>3, <2>4, <2>5 DEF Threads
<1>10. ASSUME NEW p \in Peers, CheckRoom(c, p) PROVE Threads'
  <2> USE <1>10 DEF CheckRoom, Fresh
  <2>1. reader[p] = "off" /\ \A d \in Connectors : link[d] # p
    OBVIOUS
  <2>2. Starting'
    BY <1>1, <1>4, <2>1 DEF Starting
  <2>3. Holding'
    BY <1>1, <1>4, <1>6 DEF Holding
  <2>4. Joined'
    <3>1. connector[Main] \notin Closing /\ connector'[Main] \notin Closing
      BY <1>1, <1>5, <1>6 DEF Closing
    <3> QED BY <1>1, <1>4, <3>1 DEF Joined, Tracked, Closing
  <2> QED BY <2>2, <2>3, <2>4 DEF Threads
<1>11. CASE SetupFails
  <2> USE <1>11 DEF SetupFails
  <2>1. link[Outbound] \in Peers
    BY <1>2, <1>6 DEF Dialling
  <2>2. reader[link[Outbound]] = "off"
    BY <1>4, <1>6 DEF Starting
  <2>3. Starting'
    BY <1>1, <1>3, <1>4, <1>6, <2>1, <2>2 DEF Starting, Dialling
  <2>4. Holding'
    BY <1>1, <1>4, <1>6 DEF Holding
  <2>5. Joined'
    <3>1. connector'[Main] = connector[Main]
      BY <1>1, <1>6
    <3> QED BY <1>1, <1>4, <3>1 DEF Joined, Tracked, Closing
  <2> QED BY <2>3, <2>4, <2>5 DEF Threads
<1>12. CASE OutboundEnds
  <2> USE <1>12 DEF OutboundEnds
  <2>1. connector'[Main] = connector[Main]
    BY <1>1, <1>6
  <2>2. Starting'
    BY <1>1, <1>4, <1>6 DEF Starting
  <2>3. Holding' /\ Joined'
    BY <1>4, <2>1 DEF Holding, Joined, Tracked
  <2> QED BY <2>2, <2>3 DEF Threads
<1> QED
  BY <1>7, <1>8, <1>9, <1>10, <1>11, <1>12 DEF ConnectorStep

\* The cleanup takes closed connections, whose readers have been started, and
\* lets go of those whose threads have ended or were not there to be joined.
LEMMA CleanerThreads == ASSUME Inv, Threads, CleanerStep PROVE Threads'
<1> USE PeerThreadsAssumption
<1> USE DEF list, flags, pinging, setup, closing
<1>1. Starting /\ Holding /\ Joined
  BY DEF Threads
<1>2. peers \subseteq Peers /\ joining \in [{Main, Cleaner} -> SUBSET Peers]
  BY DEF Inv, TypeOK
<1>3. CASE Collect
  <2> USE <1>3 DEF Collect
  <2>1. peers' = peers \ joining'[Cleaner] /\ joining'[Cleaner] = {p \in peers : ~connected[p]}
    BY <1>2
  <2>2. joining'[Main] = joining[Main] /\ joining[Cleaner] = {}
    BY <1>1, <1>2 DEF Joined
  <2>3. Tracked' = Tracked
    BY <2>1, <2>2 DEF Tracked
  <2>4. Starting' /\ Holding'
    BY <1>1, <2>1 DEF Starting, Holding
  <2>5. Joined'
    BY <1>1, <2>1, <2>2, <2>3 DEF Joined
  <2> QED BY <2>4, <2>5 DEF Threads
<1>4. CASE CleanupDone
  BY <1>1, <1>4 DEF CleanupDone, Threads, Starting, Holding, Joined, Tracked
<1>5. CASE CleanerEnds
  BY <1>1, <1>5 DEF CleanerEnds, Threads, Starting, Holding, Joined, Tracked
<1>6. ASSUME NEW p \in Peers, Join(Cleaner, p) PROVE Threads'
  <2> USE <1>6 DEF Join
  <2>1. joining'[Main] = joining[Main] /\ joining'[Cleaner] = joining[Cleaner] \ {p}
    BY <1>2
  <2>2. Starting' /\ Holding'
    BY <1>1 DEF Starting, Holding
  <2>3. p \notin pongMutex
    BY <1>1 DEF Holding
  <2>4. \A q \in Peers \ Tracked' : q \in Peers \ Tracked \/ q = p
    BY <2>1 DEF Tracked
  <2>5. Joined'
    <3>1. \A q \in Peers \ Tracked' :
            reader[q] = "off" \/ (reader[q] = "ended" /\ monitor[q] \in Late /\ q \notin pongMutex)
      BY <1>1, <2>3, <2>4 DEF Joined, Late
    <3> QED BY <1>1, <2>1, <3>1 DEF Joined
  <2> QED BY <2>2, <2>5 DEF Threads
<1> QED BY <1>3, <1>4, <1>5, <1>6 DEF CleanerStep

\* When Stop locks the list, nobody sets a connection up any more: each one has
\* both its threads and Stop joins them.
LEMMA StopThreads == ASSUME Inv, Threads, StopBegins \/ StopStep PROVE Threads'
<1> USE PeerThreadsAssumption
<1> USE DEF Connect, Disconnect, list, flags, pinging, setup, closing
<1>1. Starting /\ Holding /\ Joined
  BY DEF Threads
<1>2. /\ peers \subseteq Peers /\ joining \in [{Main, Cleaner} -> SUBSET Peers]
      /\ connector \in [Connectors -> {"idle", "checked", "listed", "reading", "ended", "joinThreads",
                                      "waking", "joining", "stopped"}]
      /\ reader \in [Peers -> {"off", "loop", "recv", "pong", "busy", "drop", "wake", "closing",
                              "leaving", "ended"}]
      /\ connected \in [Peers -> BOOLEAN]
  BY DEF Inv, TypeOK
<1>3. Main # Outbound /\ Connectors = {Main, Outbound}
  BY DEF Connectors
<1>4. connector[Main] \in Closing => connector[Outbound] = "ended"
  BY DEF Inv, Alone
<1>5. connector[Main] \notin Closing => toWake = {}
  BY DEF Inv, Closed
<1>6. CASE StopBegins
  <2> USE <1>6 DEF StopBegins
  <2>1. connector'[Main] = "joinThreads" /\ connector'[Outbound] = connector[Outbound]
    BY <1>2, <1>3
  <2>2. Starting' /\ Holding'
    BY <1>1, <1>3, <2>1 DEF Starting, Holding
  <2>3. Joined'
    BY <1>1, <2>1 DEF Joined, Tracked, Closing
  <2> QED BY <2>2, <2>3 DEF Threads
<1>7. CASE StopLocks
  <2> USE <1>7 DEF StopLocks
  <2>1. connector'[Main] = "waking" /\ connector'[Outbound] = connector[Outbound]
    BY <1>2, <1>3
  <2>2. joining'[Main] = peers /\ joining'[Cleaner] = joining[Cleaner] /\ joining[Main] = {}
    BY <1>1, <1>2 DEF Joined
  <2>3. Starting' /\ Holding'
    BY <1>1, <1>3, <2>1 DEF Starting, Holding
  <2>4. Tracked' = Tracked
    BY <2>2 DEF Tracked
  <2>5. Joined'
    BY <1>1, <2>1, <2>2, <2>4 DEF Joined, Closing
  <2> QED BY <2>3, <2>5 DEF Threads
<1>8. ASSUME NEW p \in Peers, StopDisconnects(p) PROVE Threads'
  <2> USE <1>8 DEF StopDisconnects
  <2>1. connector[Main] \in Closing
    BY <1>5
  <2>2. Starting'
    BY <1>1, <1>2, <1>3, <1>4, <2>1 DEF Starting, Closing
  <2>3. Holding' /\ Joined'
    BY <1>1 DEF Holding, Joined, Tracked
  <2> QED BY <2>2, <2>3 DEF Threads
<1>9. CASE StopWakes
  BY <1>1, <1>9 DEF StopWakes, WakeMonitor, Threads, Starting, Holding, Joined, Tracked
<1>10. CASE StopUnlocks
  <2> USE <1>10 DEF StopUnlocks
  <2>1. connector'[Main] = "joining" /\ connector'[Outbound] = connector[Outbound]
    BY <1>2, <1>3
  <2>2. Starting' /\ Holding'
    BY <1>1, <1>3, <2>1 DEF Starting, Holding
  <2>3. Joined'
    BY <1>1, <2>1 DEF Joined, Tracked, Closing
  <2> QED BY <2>2, <2>3 DEF Threads
<1>11. CASE StopEnds
  <2> USE <1>11 DEF StopEnds
  <2>1. connector'[Main] = "stopped" /\ connector'[Outbound] = connector[Outbound]
    BY <1>2, <1>3
  <2>2. Starting' /\ Holding'
    BY <1>1, <1>3, <1>4, <2>1 DEF Starting, Holding, Closing
  <2>3. \A p \in peers : reader[p] = "ended" /\ monitor[p] = "ended" /\ p \notin pongMutex
    BY <1>1 DEF Joined, Holding
  <2>4. \A p \in Peers \ Tracked' : p \in Peers \ Tracked \/ p \in peers
    BY DEF Tracked
  <2>5. Joined'
    <3>1. \A q \in Peers \ Tracked' :
            reader[q] = "off" \/ (reader[q] = "ended" /\ monitor[q] \in Late /\ q \notin pongMutex)
      BY <1>1, <2>3, <2>4 DEF Joined, Late
    <3> QED BY <1>1, <2>1, <3>1 DEF Joined, Closing
  <2> QED BY <2>2, <2>5 DEF Threads
<1>12. ASSUME NEW p \in Peers, Join(Main, p) PROVE Threads'
  <2> USE <1>12 DEF Join
  <2>1. joining'[Main] = joining[Main] \ {p} /\ joining'[Cleaner] = joining[Cleaner]
    BY <1>2
  <2>2. Starting' /\ Holding'
    BY <1>1 DEF Starting, Holding
  <2>3. p \notin pongMutex
    BY <1>1 DEF Holding
  <2>4. \A q \in Peers \ Tracked' : q \in Peers \ Tracked \/ q = p
    BY <2>1 DEF Tracked
  <2>5. \A q \in Peers \ Tracked' :
          reader[q] = "off" \/ (reader[q] = "ended" /\ monitor[q] \in Late /\ q \notin pongMutex)
    BY <1>1, <2>3, <2>4 DEF Joined, Late
  <2>6. connector[Main] = "joining" /\ connector[Outbound] = "ended"
    BY <1>4 DEF Closing
  <2>7. p \in peers => reader[p] = "ended" /\ monitor[p] = "ended"
    BY <1>1, <1>3, <2>6 DEF Starting
  <2>8. \A q \in peers \ joining'[Main] : reader[q] = "ended" /\ monitor[q] = "ended"
    BY <1>1, <2>1, <2>6, <2>7 DEF Joined
  <2>9. Joined'
    BY <1>1, <2>1, <2>5, <2>6, <2>8 DEF Joined
  <2> QED BY <2>2, <2>9 DEF Threads
<1> QED
  BY <1>6, <1>7, <1>8, <1>9, <1>10, <1>11, <1>12 DEF StopStep

LEMMA NextThreads == ASSUME Inv, Threads, [Next]_vars PROVE Threads'
<1>1. ASSUME NEW p \in Peers, ReaderStep(p) PROVE Threads'
  BY <1>1, ReaderGoesOn, ReaderThreads
<1>2. ASSUME NEW p \in Peers, MonitorStep(p) \/ PingFails(p) PROVE Threads'
  BY <1>2, MonitorGoesOn, MonitorThreads
<1>3. ASSUME NEW p \in Peers, SendFails(p) PROVE Threads'
  BY <1>3, SendThreads
<1>4. ASSUME NEW c \in Connectors, ConnectorStep(c) \/ \E p \in Peers : CheckRoom(c, p)
      PROVE  Threads'
  BY <1>4, ConnectorThreads
<1>5. CASE SetupFails \/ OutboundEnds
  BY <1>5, ConnectorThreads DEF Connectors
<1>6. CASE CleanerStep
  BY <1>6, CleanerThreads
<1>7. CASE StopBegins \/ StopStep
  BY <1>7, StopThreads
<1>8. CASE UNCHANGED vars
  BY <1>8 DEF vars, list, flags, pinging, setup, closing, Threads, Starting, Holding, Joined, Tracked
<1> QED BY <1>1, <1>2, <1>3, <1>4, <1>5, <1>6, <1>7, <1>8 DEF Next

LEMMA ThreadsAlways == Spec => []Threads
<1>1. Init => Threads
  BY InitThreads
<1>2. Inv /\ Threads /\ [Next]_vars => Threads'
  BY NextThreads
<1> QED BY <1>1, <1>2, InvAlways, PTL DEF Spec

\* Stop has joined every reader and left nobody with a pong mutex.
THEOREM StopJoins == Spec => []ThreadsJoined
<1>1. Inv /\ Threads => ThreadsJoined
  <2> SUFFICES ASSUME Inv, Threads, connector[Main] = "stopped" PROVE ThreadsJoined
    BY DEF ThreadsJoined
  <2>1. Tracked = {}
    BY DEF Inv, Closed, Threads, Joined, Closing, Tracked
  <2>2. \A p \in Peers :
          reader[p] = "off" \/ (reader[p] = "ended" /\ monitor[p] \in Late /\ p \notin pongMutex)
    BY <2>1 DEF Threads, Joined
  <2>3. \A p \in Peers : reader[p] = "off" => monitor[p] = "off" /\ p \notin pongMutex
    BY DEF Threads, Starting, Holding
  <2>4. pongMutex \subseteq Peers
    BY DEF Inv, TypeOK
  <2> QED BY <2>2, <2>3, <2>4 DEF ThreadsJoined, Late
<1> QED BY <1>1, InvAlways, ThreadsAlways, PTL

-----------------------------------------------------------------------------
(***************************************************************************)
(* Why StopReturns supposes that no ping is given up: a monitor that gives *)
(* one up while its connection is in the list comes to wait for the mutex  *)
(* it holds; if Stop has the list locked and the connection still before   *)
(* it, the monitor waits for Stop and Stop for the monitor.                *)
(***************************************************************************)
Doomed(p) ==
  /\ p \in pongMutex
  /\ \/ monitor[p] = "wake"
     \/ monitor[p] = "drop" /\ peersMutex = Main /\ p \in toWake \cup {waking}

LEMMA DoomedStays ==
  ASSUME Inv, Threads, NEW p \in Peers, Doomed(p), [Next]_vars PROVE Doomed(p)'
<1> USE PeerThreadsAssumption DEF Doomed, list, flags, pinging, setup, closing
<1>1. ASSUME NEW q \in Peers, ReaderStep(q) PROVE Doomed(p)'
  BY <1>1 DEF ReaderStep, ReadLoop, ReceivePong, ReceiveOther, ReceiveFails, HandlePong, HandleOther,
              ReaderDrops, ReaderWakes, ReaderCloses, ReaderEnds, WakeMonitor
<1>2. ASSUME NEW q \in Peers, MonitorStep(q) \/ PingFails(q) PROVE Doomed(p)'
  <2>1. q # p
    BY <1>2 DEF MonitorStep, SendPing, MonitorEnds, AwaitPong, PongArrived, GiveUp, MonitorDrops,
                FindAndDisconnect, MonitorWakes, WakeMonitor, PingFails
  <2>2. monitor'[p] = monitor[p] /\ (p \in pongMutex' <=> p \in pongMutex)
    BY <1>2, <2>1 DEF MonitorStep, SendPing, MonitorEnds, AwaitPong, PongArrived, GiveUp, MonitorDrops,
                      MonitorWakes, WakeMonitor, PingFails, Watch, Inv, TypeOK
  <2>3. UNCHANGED <<peersMutex, toWake, waking>>
    BY <1>2 DEF MonitorStep, SendPing, MonitorEnds, AwaitPong, PongArrived, GiveUp, MonitorDrops,
                MonitorWakes, PingFails
  <2> QED BY <2>2, <2>3
<1>3. ASSUME NEW q \in Peers, SendFails(q) PROVE Doomed(p)'
  BY <1>3 DEF SendFails
<1>4. ASSUME NEW c \in Connectors, ConnectorStep(c) \/ \E q \in Peers : CheckRoom(c, q)
      PROVE  Doomed(p)'
  <2>1. CASE StartMonitor(c)
    <3>1. monitor[link[c]] = "off"
      BY <2>1 DEF Threads, Starting, StartMonitor
    <3>2. monitor'[p] = monitor[p]
      BY <2>1, <3>1 DEF StartMonitor, Watch, Inv, TypeOK
    <3> QED BY <2>1, <3>2 DEF StartMonitor
  <2> QED BY <1>4, <2>1 DEF ConnectorStep, List, StartReader, CheckRoom
<1>5. CASE SetupFails \/ OutboundEnds
  BY <1>5 DEF SetupFails, OutboundEnds
<1>6. CASE CleanerStep
  BY <1>6 DEF CleanerStep, Collect, CleanupDone, CleanerEnds, Join
<1>7. CASE StopBegins
  BY <1>7 DEF StopBegins
<1>8. CASE StopStep
  BY <1>8 DEF StopStep, StopLocks, StopDisconnects, StopWakes, WakeMonitor, StopUnlocks, StopEnds, Join
<1>9. CASE UNCHANGED vars
  BY <1>9 DEF vars
<1> QED BY <1>1, <1>2, <1>3, <1>4, <1>5, <1>6, <1>7, <1>8, <1>9 DEF Next

\* Once a ping has been given up so, it stays so and Stop never returns.
THEOREM GivenUpBlocksStop ==
  ASSUME NEW p \in Peers
  PROVE  Spec => [](Doomed(p) => [](Doomed(p) /\ connector[Main] # "stopped"))
<1>1. Inv /\ Threads /\ Doomed(p) /\ [Next]_vars => Doomed(p)'
  BY DoomedStays
<1>2. ThreadsJoined /\ Doomed(p) => connector[Main] # "stopped"
  BY DEF ThreadsJoined, Doomed
<1> QED BY <1>1, <1>2, InvAlways, ThreadsAlways, StopJoins, PTL DEF Spec

-----------------------------------------------------------------------------
(***************************************************************************)
(* The steps that a stop leaves.  What the cleanup has taken has a reader  *)
(* and is off the list for good; Stop wakes each monitor once (Once).      *)
(***************************************************************************)
Once ==
  /\ \A p \in joining[Cleaner] : reader[p] # "off" /\ p \notin peers
  /\ waking # None => connector[Main] = "waking" /\ waking \notin toWake

LEMMA InitOnce == ASSUME Init PROVE Once
BY PeerThreadsAssumption DEF Init, Once

LEMMA NextOnce == ASSUME Inv, Threads, Once, [Next]_vars PROVE Once'
<1> USE PeerThreadsAssumption
<1> USE DEF Once, Read, Connect, list, flags, pinging, setup, closing
<1>1. /\ connector \in [Connectors -> {"idle", "checked", "listed", "reading", "ended", "joinThreads",
                                      "waking", "joining", "stopped"}]
      /\ reader \in [Peers -> {"off", "loop", "recv", "pong", "busy", "drop", "wake", "closing",
                              "leaving", "ended"}]
      /\ joining \in [{Main, Cleaner} -> SUBSET Peers] /\ peers \subseteq Peers
      /\ waking \in Peers \cup {None}
  BY DEF Inv, TypeOK
<1>2. Starting /\ Joined
  BY DEF Threads
<1>3. ASSUME NEW p \in Peers, ReaderStep(p) PROVE Once'
  BY <1>1, <1>3, ReaderGoesOn DEF ReaderGoes
<1>4. ASSUME NEW p \in Peers, MonitorStep(p) \/ PingFails(p) PROVE Once'
  BY <1>4, MonitorGoesOn DEF MonitorGoes
<1>5. ASSUME NEW p \in Peers, SendFails(p) PROVE Once'
  BY <1>5 DEF SendFails
<1>6. ASSUME NEW c \in Connectors, ConnectorStep(c) \/ \E p \in Peers : CheckRoom(c, p)
      PROVE  Once'
  <2>1. waking # None => c # Main
    BY <1>1, <1>6 DEF ConnectorStep, List, StartReader, StartMonitor, CheckRoom
  <2>2. waking # None => connector'[Main] = connector[Main]
    BY <1>1, <1>6, <2>1 DEF ConnectorStep, List, StartReader, StartMonitor, CheckRoom, Connectors
  <2>3. CASE List(c)
    <3>1. reader[link[c]] = "off"
      BY <1>2, <2>3 DEF List, Starting
    <3> QED BY <2>2, <2>3, <3>1 DEF List
  <2>4. CASE StartReader(c)
    BY <1>1, <2>2, <2>4 DEF StartReader
  <2>5. CASE StartMonitor(c)
    BY <2>2, <2>5 DEF StartMonitor
  <2>6. CASE \E p \in Peers : CheckRoom(c, p)
    BY <2>2, <2>6 DEF CheckRoom
  <2> QED BY <1>6, <2>3, <2>4, <2>5, <2>6 DEF ConnectorStep
<1>7. CASE SetupFails \/ OutboundEnds
  BY <1>1, <1>7 DEF SetupFails, OutboundEnds, Connectors
<1>8. CASE Collect
  <2>1. joining'[Cleaner] = {p \in peers : ~connected[p]} /\ peers' = peers \ joining'[Cleaner]
    BY <1>1, <1>8 DEF Collect
  <2>2. \A p \in joining'[Cleaner] : reader[p] # "off"
    BY <1>1, <1>2, <2>1 DEF Starting
  <2> QED BY <1>8, <2>1, <2>2 DEF Collect
<1>9. CASE CleanupDone \/ CleanerEnds
  BY <1>9 DEF CleanupDone, CleanerEnds
<1>10. ASSUME NEW p \in Peers, Join(Cleaner, p) \/ Join(Main, p) PROVE Once'
  <2>1. joining'[Cleaner] \subseteq joining[Cleaner]
    BY <1>1, <1>10 DEF Join
  <2> QED BY <1>10, <2>1 DEF Join
<1>11. CASE StopBegins \/ StopLocks
  <2>1. waking = None
    BY <1>11 DEF StopBegins, StopLocks
  <2>2. joining'[Cleaner] = joining[Cleaner]
    BY <1>1, <1>11 DEF StopBegins, StopLocks
  <2> QED BY <1>11, <2>1, <2>2 DEF StopBegins, StopLocks
<1>12. ASSUME NEW p \in Peers, StopDisconnects(p) PROVE Once'
  <2>1. connector[Main] = "waking"
    BY <1>1, <1>12 DEF StopDisconnects, Inv, Closed, Closing, Connectors
  <2> QED BY <1>12, <2>1 DEF StopDisconnects
<1>13. CASE StopWakes \/ StopUnlocks \/ StopEnds
  BY <1>1, <1>13 DEF StopWakes, StopUnlocks, StopEnds
<1>14. CASE UNCHANGED vars
  BY <1>14 DEF vars
<1> QED
  BY <1>3, <1>4, <1>5, <1>6, <1>7, <1>8, <1>9, <1>10, <1>11, <1>12, <1>13, <1>14
     DEF Next, CleanerStep, StopStep

LEMMA OnceAlways == Spec => []Once
<1>1. Init => Once
  BY InitOnce
<1>2. Inv /\ Threads /\ Once /\ [Next]_vars => Once'
  BY NextOnce
<1> QED BY <1>1, <1>2, InvAlways, ThreadsAlways, PTL DEF Spec

\* What is in a list of steps, and when one is shorter than another.
LEMMA LeftIn ==
  ASSUME NEW tag, NEW S, NEW f, NEW s
  PROVE  s \in Left(tag, S, f) <=> \E x \in S : \E k \in 1 .. f[x] : s = <<tag, x, k>>
BY DEF Left

LEMMA LeftLess ==
  ASSUME NEW tag, NEW S, NEW f \in [S -> Nat], NEW g \in [S -> Nat], \A x \in S : g[x] <= f[x]
  PROVE  /\ Left(tag, S, g) \subseteq Left(tag, S, f)
         /\ (\E x \in S : g[x] < f[x]) =>
              \E s \in Left(tag, S, f) : s[1] = tag /\ s \notin Left(tag, S, g)
<1>1. Left(tag, S, g) \subseteq Left(tag, S, f)
  <2> SUFFICES ASSUME NEW s \in Left(tag, S, g) PROVE s \in Left(tag, S, f)
    OBVIOUS
  <2>0. PICK x \in S : \E k \in 1 .. g[x] : s = <<tag, x, k>>
    BY LeftIn
  <2>1. PICK k \in 1 .. g[x] : s = <<tag, x, k>>
    BY <2>0
  <2>2. k \in 1 .. f[x]
    <3>1. f[x] \in Nat /\ g[x] \in Nat /\ g[x] <= f[x]
      OBVIOUS
    <3> QED BY <3>1
  <2> QED BY <2>1, <2>2, LeftIn
<1>2. ASSUME NEW x \in S, g[x] < f[x]
      PROVE  \E s \in Left(tag, S, f) : s[1] = tag /\ s \notin Left(tag, S, g)
  <2>1. f[x] \in Nat /\ g[x] \in Nat
    OBVIOUS
  <2>2. f[x] \in 1 .. f[x] /\ f[x] \notin 1 .. g[x]
    BY <1>2, <2>1
  <2>3. <<tag, x, f[x]>> \in Left(tag, S, f)
    BY <2>2, LeftIn
  <2>4. <<tag, x, f[x]>> \notin Left(tag, S, g)
    <3> SUFFICES ASSUME NEW y \in S, NEW k \in 1 .. g[y], <<tag, x, f[x]>> = <<tag, y, k>> PROVE FALSE
      BY LeftIn
    <3>1. x = y /\ f[x] = k
      OBVIOUS
    <3> QED BY <3>1, <2>2
  <2> QED BY <2>3, <2>4
<1> QED BY <1>1, <1>2

Parts(a, b, c) ==
  Left("connection", Peers, a) \cup Left("connector", Connectors, b) \cup Left("cleaner", {Cleaner}, c)

\* Ranks that nowhere grow, and fall somewhere, leave fewer steps.
LEMMA PartsLess ==
  ASSUME NEW a1 \in [Peers -> Nat], NEW a2 \in [Peers -> Nat],
         NEW b1 \in [Connectors -> Nat], NEW b2 \in [Connectors -> Nat],
         NEW c1 \in [{Cleaner} -> Nat], NEW c2 \in [{Cleaner} -> Nat],
         \A p \in Peers : a2[p] <= a1[p], \A c \in Connectors : b2[c] <= b1[c],
         c2[Cleaner] <= c1[Cleaner],
         \/ \E p \in Peers : a2[p] < a1[p]
         \/ \E c \in Connectors : b2[c] < b1[c]
         \/ c2[Cleaner] < c1[Cleaner]
  PROVE  Parts(a2, b2, c2) \subseteq Parts(a1, b1, c1) /\ Parts(a2, b2, c2) # Parts(a1, b1, c1)
<1> DEFINE A(r) == Left("connection", Peers, r)
           B(r) == Left("connector", Connectors, r)
           C(r) == Left("cleaner", {Cleaner}, r)
<1>1. A(a2) \subseteq A(a1) /\ ((\E p \in Peers : a2[p] < a1[p]) =>
        \E s \in A(a1) : s[1] = "connection" /\ s \notin A(a2))
  BY LeftLess
<1>2. B(b2) \subseteq B(b1) /\ ((\E c \in Connectors : b2[c] < b1[c]) =>
        \E s \in B(b1) : s[1] = "connector" /\ s \notin B(b2))
  BY LeftLess
<1>3. C(c2) \subseteq C(c1) /\ ((\E x \in {Cleaner} : c2[x] < c1[x]) =>
        \E s \in C(c1) : s[1] = "cleaner" /\ s \notin C(c2))
  <2>1. \A x \in {Cleaner} : c2[x] <= c1[x]
    OBVIOUS
  <2> QED BY <2>1, LeftLess
<1>4. /\ \A r : \A s \in A(r) : s[1] = "connection"
      /\ \A r : \A s \in B(r) : s[1] = "connector"
      /\ \A r : \A s \in C(r) : s[1] = "cleaner"
  BY LeftIn
<1> HIDE DEF A, B, C
<1>5. /\ Parts(a1, b1, c1) = A(a1) \cup B(b1) \cup C(c1)
      /\ Parts(a2, b2, c2) = A(a2) \cup B(b2) \cup C(c2)
  BY DEF Parts, A, B, C
<1>6. \E s \in Parts(a1, b1, c1) : s \notin Parts(a2, b2, c2)
  <2>1. CASE \E p \in Peers : a2[p] < a1[p]
    <3>1. PICK s \in A(a1) : s[1] = "connection" /\ s \notin A(a2)
      BY <1>1, <2>1
    <3>2. s \notin B(b2) /\ s \notin C(c2)
      BY <1>4, <3>1
    <3> QED BY <1>5, <3>1, <3>2
  <2>2. CASE \E c \in Connectors : b2[c] < b1[c]
    <3>1. PICK s \in B(b1) : s[1] = "connector" /\ s \notin B(b2)
      BY <1>2, <2>2
    <3>2. s \notin A(a2) /\ s \notin C(c2)
      BY <1>4, <3>1
    <3> QED BY <1>5, <3>1, <3>2
  <2>3. CASE c2[Cleaner] < c1[Cleaner]
    <3>1. PICK s \in C(c1) : s[1] = "cleaner" /\ s \notin C(c2)
      BY <1>3, <2>3
    <3>2. s \notin A(a2) /\ s \notin B(b2)
      BY <1>4, <3>1
    <3> QED BY <1>5, <3>1, <3>2
  <2> QED BY <2>1, <2>2, <2>3
<1> QED BY <1>1, <1>2, <1>3, <1>5, <1>6

\* The ranks are numbers.
Ranks ==
  /\ \A p \in Peers : /\ ReaderRank(reader[p]) \in Nat /\ MonitorRank(monitor[p]) \in Nat
                      /\ ConnectionRank(p) \in Nat
  /\ \A c \in Connectors : ConnectorRank(connector[c]) \in Nat
  /\ CleanerRank \in Nat

LEMMA RankTypes == ASSUME Inv PROVE Ranks
<1> USE DEF Inv, TypeOK
<1>1. \A b \in BOOLEAN : One(b) \in Nat
  BY DEF One
<1>2. ASSUME NEW p \in Peers PROVE ReaderRank(reader[p]) \in Nat
  <2>1. reader[p] \in {"off", "loop", "recv", "pong", "busy", "drop", "wake", "closing", "leaving",
                       "ended"}
    OBVIOUS
  <2> QED BY <2>1 DEF ReaderRank
<1>3. ASSUME NEW p \in Peers PROVE MonitorRank(monitor[p]) \in Nat
  <2>1. monitor[p] \in {"off", "sleep", "sent", "waiting", "drop", "wake", "ended"}
    OBVIOUS
  <2> QED BY <2>1 DEF MonitorRank
<1>4. ASSUME NEW p \in Peers PROVE ConnectionRank(p) \in Nat
  <2>1. /\ One(connected[p]) \in Nat /\ One(p \in Counted \cup joining[Cleaner]) \in Nat
        /\ One(p \in StopHas(toWake)) \in Nat /\ One(p \in StopHas(toWake \cup {waking})) \in Nat
        /\ One(p \in StopHas(joining[Main])) \in Nat
    BY DEF One
  <2> QED BY <1>2, <1>3, <2>1 DEF ConnectionRank
<1>5. ASSUME NEW c \in Connectors PROVE ConnectorRank(connector[c]) \in Nat
  <2>1. connector[c] \in {"idle", "checked", "listed", "reading", "ended", "joinThreads",
                          "waking", "joining", "stopped"}
    OBVIOUS
  <2> QED BY <2>1 DEF ConnectorRank
<1>6. CleanerRank \in Nat
  <2>1. Cardinality(Counted) \in Nat
    BY CountedFinite
  <2> QED BY <2>1 DEF CleanerRank
<1> QED BY <1>2, <1>3, <1>4, <1>5, <1>6 DEF Ranks

LEMMA RankTypesNext == Inv' => Ranks'
<1>1. Inv => Ranks
  BY RankTypes
<1> QED BY <1>1, PTL

(***************************************************************************)
(* What a step has to keep and to bring forward                            *)
(***************************************************************************)
KeepsRanks ==
  /\ \A p \in Peers : /\ ReaderRank(reader'[p]) <= ReaderRank(reader[p])
                      /\ MonitorRank(monitor'[p]) <= MonitorRank(monitor[p])
                      /\ connected'[p] => connected[p]
  /\ \A c \in Connectors : ConnectorRank(connector'[c]) <= ConnectorRank(connector[c])
  /\ CleanerRank' <= CleanerRank

KeepsSets ==
  \A p \in Peers :
    /\ p \in (Counted \cup joining[Cleaner])' => p \in Counted \cup joining[Cleaner]
    /\ p \in StopHas(toWake)' => p \in StopHas(toWake)
    /\ p \in StopHas(toWake \cup {waking})' => p \in StopHas(toWake \cup {waking})
    /\ p \in StopHas(joining[Main])' => p \in StopHas(joining[Main])

\* Something of the connection of p is done.
Falls(p) ==
  \/ ReaderRank(reader'[p]) < ReaderRank(reader[p])
  \/ MonitorRank(monitor'[p]) < MonitorRank(monitor[p])
  \/ connected[p] /\ ~connected'[p]
  \/ p \in Counted \cup joining[Cleaner] /\ p \notin (Counted \cup joining[Cleaner])'
  \/ p \in StopHas(toWake) /\ p \notin StopHas(toWake)'
  \/ p \in StopHas(toWake \cup {waking}) /\ p \notin StopHas(toWake \cup {waking})'
  \/ p \in StopHas(joining[Main]) /\ p \notin StopHas(joining[Main])'

Progress ==
  \/ \E p \in Peers : Falls(p)
  \/ \E c \in Connectors : ConnectorRank(connector'[c]) < ConnectorRank(connector[c])
  \/ CleanerRank' < CleanerRank

Advance == StepsLeft' \subseteq StepsLeft /\ StepsLeft' # StepsLeft

LEMMA OneLess ==
  ASSUME NEW x, NEW y, y => x
  PROVE  /\ One(x) \in Nat /\ One(y) \in Nat /\ One(y) <= One(x)
         /\ x /\ ~y => One(y) < One(x)
BY DEF One

\* A sum falls with its terms.
LEMMA SumLess ==
  ASSUME NEW x1 \in Nat, NEW x2 \in Nat, NEW x3 \in Nat, NEW x4 \in Nat, NEW x5 \in Nat,
         NEW x6 \in Nat, NEW x7 \in Nat,
         NEW y1 \in Nat, NEW y2 \in Nat, NEW y3 \in Nat, NEW y4 \in Nat, NEW y5 \in Nat,
         NEW y6 \in Nat, NEW y7 \in Nat,
         y1 <= x1, y2 <= x2, y3 <= x3, y4 <= x4, y5 <= x5, y6 <= x6, y7 <= x7
  PROVE  /\ y1 + y2 + y3 + y4 + y5 + y6 + y7 <= x1 + x2 + x3 + x4 + x5 + x6 + x7
         /\ y1 < x1 \/ y2 < x2 \/ y3 < x3 \/ y4 < x4 \/ y5 < x5 \/ y6 < x6 \/ y7 < x7 =>
              y1 + y2 + y3 + y4 + y5 + y6 + y7 < x1 + x2 + x3 + x4 + x5 + x6 + x7
OBVIOUS

LEMMA ConnectionLess ==
  ASSUME NEW p \in Peers,
         ReaderRank(reader[p]) \in Nat, MonitorRank(monitor[p]) \in Nat,
         ReaderRank(reader'[p]) \in Nat, MonitorRank(monitor'[p]) \in Nat,
         KeepsRanks, KeepsSets
  PROVE  /\ ConnectionRank(p)' <= ConnectionRank(p)
         /\ Falls(p) => ConnectionRank(p)' < ConnectionRank(p)
<1>1. /\ ReaderRank(reader'[p]) <= ReaderRank(reader[p])
      /\ MonitorRank(monitor'[p]) <= MonitorRank(monitor[p])
  BY DEF KeepsRanks
<1>2. /\ One(connected[p]) \in Nat /\ One(connected'[p]) \in Nat
      /\ One(connected'[p]) <= One(connected[p])
      /\ connected[p] /\ ~connected'[p] => One(connected'[p]) < One(connected[p])
  BY OneLess DEF KeepsRanks
<1> DEFINE u1 == p \in Counted \cup joining[Cleaner]
           u2 == p \in StopHas(toWake)
           u3 == p \in StopHas(toWake \cup {waking})
           u4 == p \in StopHas(joining[Main])
<1>3. (u1' => u1) /\ (u2' => u2) /\ (u3' => u3) /\ (u4' => u4)
  BY DEF KeepsSets
<1>4. /\ ConnectionRank(p) = ReaderRank(reader[p]) + MonitorRank(monitor[p]) + One(connected[p])
                                + One(u1) + One(u2) + One(u3) + One(u4)
      /\ ConnectionRank(p)' = ReaderRank(reader'[p]) + MonitorRank(monitor'[p]) + One(connected'[p])
                                + One(u1') + One(u2') + One(u3') + One(u4')
  BY DEF ConnectionRank, ReaderRank, MonitorRank
<1>5. Falls(p) => \/ ReaderRank(reader'[p]) < ReaderRank(reader[p])
                  \/ MonitorRank(monitor'[p]) < MonitorRank(monitor[p])
                  \/ connected[p] /\ ~connected'[p]
                  \/ (u1 /\ ~u1') \/ (u2 /\ ~u2') \/ (u3 /\ ~u3') \/ (u4 /\ ~u4')
  BY DEF Falls
<1> HIDE DEF u1, u2, u3, u4
<1>6. /\ One(u1) \in Nat /\ One(u1') \in Nat /\ One(u1') <= One(u1)
      /\ u1 /\ ~u1' => One(u1') < One(u1)
  BY <1>3, OneLess
<1>7. /\ One(u2) \in Nat /\ One(u2') \in Nat /\ One(u2') <= One(u2)
      /\ u2 /\ ~u2' => One(u2') < One(u2)
  BY <1>3, OneLess
<1>8. /\ One(u3) \in Nat /\ One(u3') \in Nat /\ One(u3') <= One(u3)
      /\ u3 /\ ~u3' => One(u3') < One(u3)
  BY <1>3, OneLess
<1>9. /\ One(u4) \in Nat /\ One(u4') \in Nat /\ One(u4') <= One(u4)
      /\ u4 /\ ~u4' => One(u4') < One(u4)
  BY <1>3, OneLess
<1> QED
  BY <1>1, <1>2, <1>4, <1>5, <1>6, <1>7, <1>8, <1>9, SumLess

LEMMA Advances ==
  ASSUME Inv, Inv', KeepsRanks, KeepsSets, Progress PROVE Advance
<1> DEFINE a1 == [p \in Peers |-> ConnectionRank(p)]
           b1 == [c \in Connectors |-> ConnectorRank(connector[c])]
           c1 == [c \in {Cleaner} |-> CleanerRank]
           a2 == [p \in Peers |-> ConnectionRank(p)']
           b2 == [c \in Connectors |-> ConnectorRank(connector'[c])]
           c2 == [c \in {Cleaner} |-> CleanerRank']
<1>1. StepsLeft = Parts(a1, b1, c1) /\ StepsLeft' = Parts(a2, b2, c2)
  BY DEF StepsLeft, Parts
<1>2. Ranks
  BY RankTypes
<1>3. Ranks'
  BY RankTypesNext
<1>4. \A p \in Peers : /\ ConnectionRank(p)' <= ConnectionRank(p)
                       /\ Falls(p) => ConnectionRank(p)' < ConnectionRank(p)
  BY <1>2, <1>3, ConnectionLess DEF Ranks
<1>5. /\ \A c \in Connectors : ConnectorRank(connector'[c]) <= ConnectorRank(connector[c])
      /\ CleanerRank' <= CleanerRank
  BY DEF KeepsRanks
<1>6. /\ a1 \in [Peers -> Nat] /\ a2 \in [Peers -> Nat] /\ b1 \in [Connectors -> Nat]
      /\ b2 \in [Connectors -> Nat] /\ c1 \in [{Cleaner} -> Nat] /\ c2 \in [{Cleaner} -> Nat]
  BY <1>2, <1>3 DEF Ranks
<1>7. /\ \A p \in Peers : a1[p] = ConnectionRank(p) /\ a2[p] = ConnectionRank(p)'
      /\ \A c \in Connectors : b1[c] = ConnectorRank(connector[c]) /\ b2[c] = ConnectorRank(connector'[c])
      /\ c1[Cleaner] = CleanerRank /\ c2[Cleaner] = CleanerRank'
  OBVIOUS
<1> HIDE DEF a1, a2, b1, b2, c1, c2
<1>8. /\ \A p \in Peers : a2[p] <= a1[p]
      /\ \A c \in Connectors : b2[c] <= b1[c]
      /\ c2[Cleaner] <= c1[Cleaner]
  BY <1>4, <1>5, <1>7
<1>9. \/ \E p \in Peers : a2[p] < a1[p]
      \/ \E c \in Connectors : b2[c] < b1[c]
      \/ c2[Cleaner] < c1[Cleaner]
  BY <1>4, <1>7 DEF Progress
<1>10. Parts(a2, b2, c2) \subseteq Parts(a1, b1, c1) /\ Parts(a2, b2, c2) # Parts(a1, b1, c1)
  BY <1>6, <1>8, <1>9, PartsLess
<1> QED BY <1>1, <1>10 DEF Advance

\* What a step that leaves the list and the work of Stop alone keeps.
LEMMA SetsStill ==
  ASSUME UNCHANGED <<peers, connector, link, joining, toWake, waking>>
  PROVE  KeepsSets /\ Counted' = Counted
BY DEF KeepsSets, Counted, Waiting, StopHas

LEMMA CleanerStill ==
  ASSUME Inv, Counted' \subseteq Counted, cleaner' = cleaner PROVE CleanerRank' <= CleanerRank
<1>1. IsFiniteSet(Counted) /\ Cardinality(Counted) \in Nat
  BY CountedFinite
<1>2. Cardinality(Counted') <= Cardinality(Counted) /\ Cardinality(Counted') \in Nat
  BY <1>1, FS_Subset, FS_CardinalityType
<1>3. cleaner \in {"idle", "joining", "ended"}
  BY DEF Inv, TypeOK
<1> DEFINE x == Cardinality(Counted)
           y == Cardinality(Counted)'
<1>4. x \in Nat /\ y \in Nat /\ y <= x
  BY <1>1, <1>2
<1>5. /\ CleanerRank = 2 * x + (CASE cleaner = "joining" -> 2 [] cleaner = "idle" -> 1
                                  [] cleaner = "ended" -> 0)
      /\ CleanerRank' = 2 * y + (CASE cleaner = "joining" -> 2 [] cleaner = "idle" -> 1
                                  [] cleaner = "ended" -> 0)
  BY DEF CleanerRank
<1> HIDE DEF x, y
<1> QED BY <1>3, <1>4, <1>5

LEMMA ReaderAdvances ==
  ASSUME Inv, Inv', ~running, NEW p \in Peers, ReaderStep(p) PROVE Advance
<1>1. /\ ReaderRank(reader'[p]) < ReaderRank(reader[p])
      /\ \A q \in Peers \ {p} : reader'[q] = reader[q]
      /\ \A q \in Peers : connected'[q] => connected[q]
      /\ UNCHANGED <<monitor, list, setup, closing>>
  <2> USE DEF Inv, TypeOK, Read, Disconnect, ReaderRank
  <2>1. CASE ReadLoop(p) BY <2>1 DEF ReadLoop
  <2>2. CASE ReceivePong(p) BY <2>2 DEF ReceivePong
  <2>3. CASE ReceiveOther(p) BY <2>3 DEF ReceiveOther
  <2>4. CASE ReceiveFails(p) BY <2>4 DEF ReceiveFails
  <2>5. CASE HandlePong(p) BY <2>5 DEF HandlePong
  <2>6. CASE HandleOther(p) BY <2>6 DEF HandleOther
  <2>7. CASE ReaderDrops(p) BY <2>7 DEF ReaderDrops, FindAndDisconnect
  <2>8. CASE ReaderWakes(p) BY <2>8 DEF ReaderWakes
  <2>9. CASE ReaderCloses(p) BY <2>9 DEF ReaderCloses
  <2>10. CASE ReaderEnds(p) BY <2>10 DEF ReaderEnds
  <2> QED
    BY <2>1, <2>2, <2>3, <2>4, <2>5, <2>6, <2>7, <2>8, <2>9, <2>10 DEF ReaderStep
<1>2. KeepsSets /\ CleanerRank' <= CleanerRank
  BY <1>1, SetsStill, CleanerStill DEF list, setup, closing
<1>3. Ranks /\ Ranks'
  BY RankTypes, RankTypesNext
<1>4. KeepsRanks
  <2>1. \A q \in Peers : ReaderRank(reader'[q]) <= ReaderRank(reader[q])
    BY <1>1, <1>3 DEF Ranks
  <2>2. \A q \in Peers : MonitorRank(monitor'[q]) <= MonitorRank(monitor[q])
    BY <1>1, <1>3 DEF Ranks
  <2>3. \A c \in Connectors : ConnectorRank(connector'[c]) <= ConnectorRank(connector[c])
    BY <1>1, <1>3 DEF Ranks, setup
  <2> QED BY <1>1, <1>2, <2>1, <2>2, <2>3 DEF KeepsRanks
<1>5. Progress
  BY <1>1 DEF Progress, Falls
<1> QED BY <1>2, <1>4, <1>5, Advances

LEMMA MonitorAdvances ==
  ASSUME Inv, Inv', ~running, NEW p \in Peers, MonitorStep(p) \/ PingFails(p) PROVE Advance
<1>1. /\ MonitorRank(monitor'[p]) < MonitorRank(monitor[p])
      /\ \A q \in Peers \ {p} : monitor'[q] = monitor[q]
      /\ \A q \in Peers : connected'[q] => connected[q]
      /\ UNCHANGED <<reader, list, setup, closing>>
  <2> USE DEF Inv, TypeOK, Watch, Disconnect, MonitorRank
  <2>1. CASE SendPing(p) BY <2>1 DEF SendPing
  <2>2. CASE MonitorEnds(p) BY <2>2 DEF MonitorEnds
  <2>3. CASE AwaitPong(p) BY <2>3 DEF AwaitPong
  <2>4. CASE PongArrived(p) BY <2>4 DEF PongArrived
  <2>5. CASE GiveUp(p) BY <2>5 DEF GiveUp
  <2>6. CASE MonitorDrops(p) BY <2>6 DEF MonitorDrops, FindAndDisconnect
  <2>7. CASE MonitorWakes(p) BY <2>7 DEF MonitorWakes
  <2>8. CASE PingFails(p) BY <2>8 DEF PingFails
  <2> QED
    BY <2>1, <2>2, <2>3, <2>4, <2>5, <2>6, <2>7, <2>8 DEF MonitorStep
<1>2. KeepsSets /\ CleanerRank' <= CleanerRank
  BY <1>1, SetsStill, CleanerStill DEF list, setup, closing
<1>3. Ranks /\ Ranks'
  BY RankTypes, RankTypesNext
<1>4. KeepsRanks
  <2>1. \A q \in Peers : ReaderRank(reader'[q]) <= ReaderRank(reader[q])
    BY <1>1, <1>3 DEF Ranks
  <2>2. \A q \in Peers : MonitorRank(monitor'[q]) <= MonitorRank(monitor[q])
    BY <1>1, <1>3 DEF Ranks
  <2>3. \A c \in Connectors : ConnectorRank(connector'[c]) <= ConnectorRank(connector[c])
    BY <1>1, <1>3 DEF Ranks, setup
  <2> QED BY <1>1, <1>2, <2>1, <2>2, <2>3 DEF KeepsRanks
<1>5. Progress
  BY <1>1 DEF Progress, Falls
<1> QED BY <1>2, <1>4, <1>5, Advances

LEMMA SendAdvances ==
  ASSUME Inv, Inv', NEW p \in Peers, SendFails(p) PROVE Advance
<1>1. /\ connected[p] /\ ~connected'[p]
      /\ \A q \in Peers : connected'[q] => connected[q]
      /\ UNCHANGED <<reader, monitor, list, setup, closing>>
  BY DEF SendFails, Disconnect, Inv, TypeOK
<1>2. KeepsSets /\ CleanerRank' <= CleanerRank
  BY <1>1, SetsStill, CleanerStill DEF list, setup, closing
<1>3. KeepsRanks
  BY <1>1, <1>2, RankTypes DEF Ranks, KeepsRanks, setup
<1> QED BY <1>1, <1>2, <1>3, Advances DEF Progress, Falls

\* Before Stop has its copy of the list, what is counted for it is what is in
\* the list or about to be added.
LEMMA ConnectorAdvances ==
  ASSUME Inv, Inv', Threads, ~running, NEW c \in Connectors,
         ConnectorStep(c) \/ (\E p \in Peers : CheckRoom(c, p)) \/ SetupFails \/ OutboundEnds
  PROVE  Advance
<1> USE PeerThreadsAssumption
<1>1. /\ connector \in [Connectors -> {"idle", "checked", "listed", "reading", "ended", "joinThreads",
                                      "waking", "joining", "stopped"}]
      /\ reader \in [Peers -> {"off", "loop", "recv", "pong", "busy", "drop", "wake", "closing",
                              "leaving", "ended"}]
      /\ monitor \in [Peers -> {"off", "sleep", "sent", "waiting", "drop", "wake", "ended"}]
      /\ connected \in [Peers -> BOOLEAN] /\ link \in [Connectors -> Peers \cup {None}]
  BY DEF Inv, TypeOK
<1>2. Main # Outbound /\ Connectors = {Main, Outbound}
  BY DEF Connectors
<1>3. connector[Main] \in Closing => connector[Outbound] = "ended"
  BY DEF Inv, Alone
<1>4. \A d \in Connectors : connector[d] \in Dialling => link[d] \in Peers
  BY <1>1 DEF Inv, LinksDiffer
<1>5. \A d \in Connectors : connector[d] = "listed" => reader[link[d]] = "off"
  BY DEF Threads, Starting
<1>6. \A d \in Connectors : connector[d] = "reading" => monitor[link[d]] = "off"
  BY DEF Threads, Starting
<1>7. ~ \E p \in Peers : CheckRoom(c, p)
  BY DEF CheckRoom
<1>8. PICK d \in Connectors :
        /\ ConnectorRank(connector'[d]) < ConnectorRank(connector[d])
        /\ \A e \in Connectors \ {d} : connector'[e] = connector[e]
  <2> USE <1>1 DEF Connect, ConnectorRank
  <2>1. CASE List(c) BY <2>1 DEF List
  <2>2. CASE StartReader(c) BY <2>2 DEF StartReader
  <2>3. CASE StartMonitor(c) BY <2>3 DEF StartMonitor
  <2>4. CASE SetupFails BY <1>2, <2>4 DEF SetupFails
  <2>5. CASE OutboundEnds BY <1>2, <2>5 DEF OutboundEnds
  <2> QED BY <1>7, <2>1, <2>2, <2>3, <2>4, <2>5 DEF ConnectorStep
<1>9. connector[Main] \notin Closing /\ connector'[Main] \notin Closing
  <2> USE <1>1, <1>2, <1>3 DEF Connect, Closing
  <2>1. CASE List(c) BY <2>1 DEF List
  <2>2. CASE StartReader(c) BY <2>2 DEF StartReader
  <2>3. CASE StartMonitor(c) BY <2>3 DEF StartMonitor
  <2>4. CASE SetupFails BY <2>4 DEF SetupFails
  <2>5. CASE OutboundEnds BY <2>5 DEF OutboundEnds
  <2> QED BY <1>7, <2>1, <2>2, <2>3, <2>4, <2>5 DEF ConnectorStep
<1>10. Counted' \subseteq Counted
  BY <1>1, <1>7 DEF ConnectorStep, List, StartReader, StartMonitor, SetupFails, OutboundEnds,
                    Connectors, Connect, Counted, Waiting, list
<1>11. UNCHANGED <<cleaner, joining>>
  BY <1>7 DEF ConnectorStep, List, StartReader, StartMonitor, SetupFails, OutboundEnds, closing
<1>12. KeepsSets
  BY <1>9, <1>10, <1>11 DEF KeepsSets, StopHas
<1>13. CleanerRank' <= CleanerRank
  BY <1>10, <1>11, CleanerStill
<1>14. Ranks /\ Ranks'
  BY RankTypes, RankTypesNext
<1>15. \A q \in Peers : ReaderRank(reader'[q]) <= ReaderRank(reader[q])
  <2>1. CASE StartReader(c)
    <3>1. \A q \in Peers : reader'[q] = reader[q] \/ (reader[q] = "off" /\ reader'[q] = "loop")
      BY <1>1, <1>4, <1>5, <2>1 DEF StartReader, Read, Dialling
    <3>2. ReaderRank("off") = 8 /\ ReaderRank("loop") = 4
      BY DEF ReaderRank
    <3> QED BY <1>14, <3>1, <3>2 DEF Ranks
  <2>2. CASE ~StartReader(c)
    <3>1. reader' = reader
      BY <1>7, <2>2 DEF ConnectorStep, List, StartMonitor, SetupFails, OutboundEnds
    <3> QED BY <1>14, <3>1 DEF Ranks
  <2> QED BY <2>1, <2>2
<1>16. \A q \in Peers : MonitorRank(monitor'[q]) <= MonitorRank(monitor[q])
  <2>1. CASE StartMonitor(c)
    <3>1. \A q \in Peers : monitor'[q] = monitor[q] \/ (monitor[q] = "off" /\ monitor'[q] = "sleep")
      BY <1>1, <1>4, <1>6, <2>1 DEF StartMonitor, Watch, Dialling
    <3>2. MonitorRank("off") = 7 /\ MonitorRank("sleep") = 2
      BY DEF MonitorRank
    <3> QED BY <1>14, <3>1, <3>2 DEF Ranks
  <2>2. CASE ~StartMonitor(c)
    <3>1. monitor' = monitor
      BY <1>7, <2>2 DEF ConnectorStep, List, StartReader, SetupFails, OutboundEnds
    <3> QED BY <1>14, <3>1 DEF Ranks
  <2> QED BY <2>1, <2>2
<1>17. \A q \in Peers : connected'[q] => connected[q]
  BY <1>1, <1>7 DEF ConnectorStep, List, StartReader, StartMonitor, SetupFails, OutboundEnds, Disconnect
<1>18. \A e \in Connectors : ConnectorRank(connector'[e]) <= ConnectorRank(connector[e])
  BY <1>8, <1>14 DEF Ranks
<1>19. KeepsRanks
  BY <1>13, <1>15, <1>16, <1>17, <1>18 DEF KeepsRanks
<1> QED BY <1>8, <1>12, <1>19, Advances DEF Progress

\* Each round of the cleanup takes a connection off the list for good.
LEMMA CleanerAdvances ==
  ASSUME Inv, Inv', Threads, Once, ~running, CleanerStep PROVE Advance
<1> USE PeerThreadsAssumption
<1> USE DEF list, setup, closing
<1>1. /\ cleaner \in {"idle", "joining", "ended"}
      /\ joining \in [{Main, Cleaner} -> SUBSET Peers] /\ peers \subseteq Peers
  BY DEF Inv, TypeOK
<1>2. /\ UNCHANGED <<reader, monitor, connected, connector, link, toWake, waking>>
  BY DEF CleanerStep, Collect, CleanupDone, CleanerEnds, Join
<1>3. Ranks /\ Ranks'
  BY RankTypes, RankTypesNext
<1>4. SUFFICES CleanerRank' <= CleanerRank /\ KeepsSets /\ Progress
  BY <1>2, <1>3, Advances DEF KeepsRanks, Ranks
<1>5. IsFiniteSet(Counted) /\ Cardinality(Counted) \in Nat
  BY CountedFinite
<1>6. CASE Collect
  <2> USE <1>6 DEF Collect
  <2>1. joining'[Cleaner] = {p \in peers : ~connected[p]} /\ joining'[Main] = joining[Main]
    BY <1>1
  <2>2. Counted' \subseteq Counted
    BY <1>2 DEF Counted, Waiting
  <2>3. PICK p \in peers : ~connected[p]
    OBVIOUS
  <2>4. reader[p] # "off"
    BY <1>1, <2>3 DEF Threads, Starting
  <2>5. p \notin Counted'
    <3>1. \A c \in Connectors : p \notin Waiting(c)
      BY <2>4 DEF Threads, Starting, Waiting
    <3> QED BY <1>2, <2>1, <2>3, <3>1 DEF Counted, Waiting, Connectors
  <2>6. Cardinality(Counted') < Cardinality(Counted) /\ Cardinality(Counted') \in Nat
    <3>1. p \in Counted
      BY <2>3 DEF Counted
    <3>2. Counted' # Counted
      BY <2>5, <3>1
    <3>3. /\ IsFiniteSet(Counted') /\ Cardinality(Counted') <= Cardinality(Counted)
          /\ Cardinality(Counted') = Cardinality(Counted) => Counted' = Counted
      BY <1>5, <2>2, FS_Subset
    <3>4. Cardinality(Counted') \in Nat
      BY <3>3, FS_CardinalityType
    <3> QED BY <1>5, <3>2, <3>3, <3>4
  <2>7. CleanerRank' < CleanerRank
    <3> DEFINE x == Cardinality(Counted)
               y == Cardinality(Counted)'
    <3>1. x \in Nat /\ y \in Nat /\ y < x
      BY <1>5, <2>6
    <3>2. CleanerRank = 2 * x + 1 /\ CleanerRank' = 2 * y + 2
      BY DEF CleanerRank
    <3> HIDE DEF x, y
    <3> QED BY <3>1, <3>2
  <2>8. KeepsSets
    <3>1. (Counted \cup joining[Cleaner])' \subseteq Counted
      BY <2>1, <2>2 DEF Counted
    <3>2. Counted' \subseteq Counted /\ UNCHANGED <<toWake, waking, connector>>
      BY <1>2, <2>2
    <3> QED BY <2>1, <3>1, <3>2 DEF KeepsSets, StopHas
  <2> QED BY <1>3, <2>7, <2>8 DEF Progress, Ranks
<1>7. CASE CleanupDone \/ CleanerEnds
  <2>1. UNCHANGED <<peers, joining>>
    BY <1>7 DEF CleanupDone, CleanerEnds
  <2>2. KeepsSets /\ Counted' = Counted
    BY <1>2, <2>1, SetsStill
  <2>3. CleanerRank' < CleanerRank
    <3> DEFINE x == Cardinality(Counted)
    <3>1. x \in Nat /\ x' = x
      BY <1>5, <2>2
    <3>2. \/ CleanerRank = 2 * x + 2 /\ CleanerRank' = 2 * x' + 1
          \/ CleanerRank = 2 * x + 1 /\ CleanerRank' = 2 * x'
      BY <1>7, <3>1 DEF CleanerRank, CleanupDone, CleanerEnds
    <3> HIDE DEF x
    <3> QED BY <3>1, <3>2
  <2> QED BY <1>3, <2>2, <2>3 DEF Progress, Ranks
<1>8. ASSUME NEW p \in Peers, Join(Cleaner, p)
      PROVE  CleanerRank' <= CleanerRank /\ KeepsSets /\ Progress
  <2> USE <1>8 DEF Join
  <2>1. joining'[Cleaner] = joining[Cleaner] \ {p} /\ joining'[Main] = joining[Main]
    BY <1>1
  <2>2. Counted' = Counted
    BY <1>2 DEF Counted, Waiting
  <2>3. CleanerRank' <= CleanerRank
    BY <2>2, CleanerStill
  <2>4. KeepsSets
    BY <1>2, <2>1, <2>2 DEF KeepsSets, StopHas
  <2>5. p \notin Counted
    <3>1. \A c \in Connectors : p \notin Waiting(c)
      BY DEF Once, Threads, Starting, Waiting
    <3> QED BY <3>1 DEF Once, Counted, Connectors
  <2>6. Falls(p)
    BY <2>1, <2>2, <2>5 DEF Falls
  <2> QED BY <2>3, <2>4, <2>6 DEF Progress
<1> QED BY <1>6, <1>7, <1>8 DEF CleanerStep

\* Stop counts a connection until it has closed it, woken its monitor and joined
\* its threads.
LEMMA StopAdvancing ==
  ASSUME Inv, Inv', Threads, Once, ~running, StopBegins \/ StopStep PROVE Advance
<1> USE PeerThreadsAssumption
<1> USE DEF Connect, Disconnect, list, flags, pinging, setup, closing
<1>1. /\ peers \subseteq Peers /\ joining \in [{Main, Cleaner} -> SUBSET Peers]
      /\ connector \in [Connectors -> {"idle", "checked", "listed", "reading", "ended", "joinThreads",
                                      "waking", "joining", "stopped"}]
      /\ connected \in [Peers -> BOOLEAN] /\ waking \in Peers \cup {None} /\ toWake \subseteq Peers
  BY DEF Inv, TypeOK
<1>2. Main # Outbound /\ Connectors = {Main, Outbound}
  BY DEF Connectors
<1>3. Ranks /\ Ranks'
  BY RankTypes, RankTypesNext
<1>4. /\ UNCHANGED <<reader, monitor, link, cleaner>>
      /\ \A q \in Peers : connected'[q] => connected[q]
  BY <1>1 DEF StopBegins, StopStep, StopLocks, StopDisconnects, StopWakes, StopUnlocks, StopEnds, Join
<1>5. connector'[Outbound] = connector[Outbound]
  BY <1>1, <1>2 DEF StopBegins, StopStep, StopLocks, StopDisconnects, StopWakes, StopUnlocks, StopEnds, Join
<1>6. peers \subseteq Counted /\ (Waiting(Outbound))' = Waiting(Outbound)
  BY <1>4, <1>5 DEF Counted, Waiting
<1>7. SUFFICES /\ connector'[Main] = connector[Main]
                  \/ ConnectorRank(connector'[Main]) < ConnectorRank(connector[Main])
               /\ Counted' \subseteq Counted /\ KeepsSets /\ Progress
  <2>1. CleanerRank' <= CleanerRank
    BY <1>4, <1>7, CleanerStill
  <2>2. \A c \in Connectors : ConnectorRank(connector'[c]) <= ConnectorRank(connector[c])
    BY <1>2, <1>3, <1>5, <1>7 DEF Ranks
  <2>3. KeepsRanks
    BY <1>3, <1>4, <2>1, <2>2 DEF KeepsRanks, Ranks
  <2> QED BY <1>7, <2>3, Advances
<1>8. CASE StopBegins
  <2> USE <1>8 DEF StopBegins
  <2>1. connector[Main] = "idle" /\ connector'[Main] = "joinThreads"
    BY <1>1, <1>2
  <2>2. ConnectorRank(connector'[Main]) < ConnectorRank(connector[Main])
    BY <2>1 DEF ConnectorRank
  <2>3. Counted' = Counted
    BY <1>4, <1>6, <2>1 DEF Counted, Waiting
  <2>4. KeepsSets
    BY <2>1, <2>3 DEF KeepsSets, StopHas, Closing
  <2> QED BY <1>2, <2>2, <2>3, <2>4 DEF Progress
<1>9. CASE StopLocks
  <2> USE <1>9 DEF StopLocks
  <2>1. connector[Main] = "joinThreads" /\ connector'[Main] = "waking"
    BY <1>1, <1>2
  <2>2. ConnectorRank(connector'[Main]) < ConnectorRank(connector[Main])
    BY <2>1 DEF ConnectorRank
  <2>3. Counted' = Counted
    BY <1>4, <1>6, <2>1 DEF Counted, Waiting
  <2>4. waking = None
    BY <2>1 DEF Once
  <2>5. toWake' = peers /\ joining'[Main] = peers /\ joining'[Cleaner] = joining[Cleaner] /\ waking' = None
    BY <1>1, <2>4
  <2>6. KeepsSets
    BY <1>6, <2>1, <2>3, <2>5 DEF KeepsSets, StopHas, Closing
  <2> QED BY <1>2, <2>2, <2>3, <2>6 DEF Progress
<1>10. ASSUME NEW p \in Peers, StopDisconnects(p)
       PROVE  /\ connector'[Main] = connector[Main]
              /\ Counted' \subseteq Counted /\ KeepsSets /\ Progress
  <2> USE <1>10 DEF StopDisconnects
  <2>1. connector[Main] \in Closing /\ connector' = connector /\ joining' = joining /\ peers' = peers
    BY DEF Inv, Closed
  <2>2. Counted' = Counted
    BY <1>4, <2>1 DEF Counted, Waiting
  <2>3. toWake' = toWake \ {p} /\ waking' = p /\ p \in toWake
    OBVIOUS
  <2>4. KeepsSets
    BY <2>1, <2>2, <2>3 DEF KeepsSets, StopHas
  <2>5. Falls(p)
    BY <2>1, <2>3 DEF Falls, StopHas
  <2> QED BY <2>1, <2>2, <2>4, <2>5 DEF Progress
<1>11. CASE StopWakes
  <2> USE <1>11 DEF StopWakes
  <2>1. connector[Main] = "waking" /\ waking \in Peers /\ waking \notin toWake
    BY <1>1 DEF Once
  <2>2. connector' = connector /\ joining' = joining /\ peers' = peers /\ toWake' = toWake /\ waking' = None
    OBVIOUS
  <2>3. Counted' = Counted
    BY <1>4, <2>2 DEF Counted, Waiting
  <2>4. KeepsSets
    BY <2>1, <2>2, <2>3 DEF KeepsSets, StopHas, Closing
  <2>5. Falls(waking)
    BY <2>1, <2>2 DEF Falls, StopHas, Closing
  <2> QED BY <2>1, <2>2, <2>3, <2>4, <2>5 DEF Progress
<1>12. CASE StopUnlocks \/ StopEnds
  <2>1. \/ connector[Main] = "waking" /\ connector'[Main] = "joining" /\ peers' = peers
        \/ connector[Main] = "joining" /\ connector'[Main] = "stopped" /\ peers' = {}
    BY <1>1, <1>2, <1>12 DEF StopUnlocks, StopEnds
  <2>2. ConnectorRank(connector'[Main]) < ConnectorRank(connector[Main])
    BY <2>1 DEF ConnectorRank
  <2>3. Counted' \subseteq Counted
    BY <1>4, <1>6, <2>1 DEF Counted, Waiting
  <2>4. UNCHANGED <<joining, toWake, waking>>
    BY <1>12 DEF StopUnlocks, StopEnds
  <2>5. KeepsSets
    BY <2>1, <2>3, <2>4 DEF KeepsSets, StopHas, Closing
  <2> QED BY <1>2, <2>2, <2>3, <2>5 DEF Progress
<1>13. ASSUME NEW p \in Peers, Join(Main, p)
       PROVE  /\ connector'[Main] = connector[Main]
              /\ Counted' \subseteq Counted /\ KeepsSets /\ Progress
  <2> USE <1>13 DEF Join
  <2>1. /\ connector[Main] = "joining" /\ connector' = connector /\ peers' = peers
        /\ toWake' = toWake /\ waking' = waking
    OBVIOUS
  <2>2. joining'[Main] = joining[Main] \ {p} /\ joining'[Cleaner] = joining[Cleaner] /\ p \in joining[Main]
    BY <1>1
  <2>3. Counted' = Counted
    BY <1>4, <2>1 DEF Counted, Waiting
  <2>4. KeepsSets
    BY <2>1, <2>2, <2>3 DEF KeepsSets, StopHas
  <2>5. Falls(p)
    BY <2>1, <2>2 DEF Falls, StopHas, Closing
  <2> QED BY <2>1, <2>3, <2>4, <2>5 DEF Progress
<1> QED
  BY <1>8, <1>9, <1>10, <1>11, <1>12, <1>13 DEF StopStep

LEMMA NextAdvances ==
  ASSUME Inv, Inv', Threads, Once, ~running, Next PROVE Advance
<1>1. ASSUME NEW p \in Peers, ReaderStep(p) \/ MonitorStep(p) \/ PingFails(p) \/ SendFails(p)
      PROVE  Advance
  BY <1>1, ReaderAdvances, MonitorAdvances, SendAdvances
<1>2. ASSUME NEW c \in Connectors, ConnectorStep(c) \/ \E p \in Peers : CheckRoom(c, p)
      PROVE  Advance
  BY <1>2, ConnectorAdvances
<1>3. CASE SetupFails \/ OutboundEnds
  BY <1>3, ConnectorAdvances DEF Connectors
<1>4. CASE CleanerStep
  BY <1>4, CleanerAdvances
<1>5. CASE StopBegins \/ StopStep
  BY <1>5, StopAdvancing
<1> QED BY <1>1, <1>2, <1>3, <1>4, <1>5 DEF Next

\* The steps left are finitely many.
LEMMA LeftFinite ==
  ASSUME NEW tag, NEW S, IsFiniteSet(S), NEW f \in [S -> Nat] PROVE IsFiniteSet(Left(tag, S, f))
<1> DEFINE Of(x) == {<<tag, x, k>> : k \in 1 .. f[x]}
<1>1. ASSUME NEW x \in S PROVE IsFiniteSet(Of(x))
  <2>1. IsFiniteSet(1 .. f[x])
    <3>1. f[x] \in Int /\ 1 \in Int
      OBVIOUS
    <3> QED BY <3>1, FS_Interval
  <2> DEFINE g == [k \in 1 .. f[x] |-> <<tag, x, k>>]
  <2>2. g \in Surjection(1 .. f[x], Of(x))
    BY DEF Surjection
  <2> QED BY <2>1, <2>2, FS_Surjection
<1>2. IsFiniteSet({Of(x) : x \in S})
  <2> DEFINE h == [x \in S |-> Of(x)]
             T == {Of(x) : x \in S}
  <2> HIDE DEF Of
  <2>1. h \in Surjection(S, T)
    <3>1. h \in [S -> T]
      OBVIOUS
    <3>2. \A t \in T : \E x \in S : h[x] = t
      OBVIOUS
    <3> HIDE DEF h, T
    <3> QED BY <3>1, <3>2 DEF Surjection
  <2> QED BY <2>1, FS_Surjection
<1>3. IsFiniteSet(UNION {Of(x) : x \in S})
  <2>1. \A T \in {Of(x) : x \in S} : IsFiniteSet(T)
    BY <1>1
  <2> HIDE DEF Of
  <2> QED BY <1>2, <2>1, FS_UNION
<1> QED BY <1>3 DEF Left

LEMMA StepsFinite == ASSUME Inv PROVE IsFiniteSet(StepsLeft)
<1>1. /\ [p \in Peers |-> ConnectionRank(p)] \in [Peers -> Nat]
      /\ [c \in Connectors |-> ConnectorRank(connector[c])] \in [Connectors -> Nat]
      /\ [c \in {Cleaner} |-> CleanerRank] \in [{Cleaner} -> Nat]
  BY RankTypes DEF Ranks
<1>2. IsFiniteSet(Peers) /\ IsFiniteSet(Connectors) /\ IsFiniteSet({Cleaner})
  <2>1. IsFiniteSet({Main}) /\ IsFiniteSet({Cleaner})
    BY FS_Singleton
  <2>2. IsFiniteSet({Main} \cup {Outbound}) /\ Connectors = {Main} \cup {Outbound}
    BY <2>1, FS_AddElement DEF Connectors
  <2> QED BY <2>1, <2>2, PeerThreadsAssumption
<1>3. /\ IsFiniteSet(Left("connection", Peers, [p \in Peers |-> ConnectionRank(p)]))
      /\ IsFiniteSet(Left("connector", Connectors, [c \in Connectors |-> ConnectorRank(connector[c])]))
      /\ IsFiniteSet(Left("cleaner", {Cleaner}, [c \in {Cleaner} |-> CleanerRank]))
  BY <1>1, <1>2, LeftFinite
<1> QED BY <1>3, FS_Union DEF StepsLeft

\* Once the node is to stop every step of a thread is one of the steps left, and
\* these are finitely many: a stop that does not end waits for something.
THEOREM StopIsBounded == Spec => StopAdvances /\ []IsFiniteSet(StepsLeft)
<1>1. Inv /\ Inv' /\ Threads /\ Once /\ [Next]_vars =>
        [~running => StepsLeft' \subseteq StepsLeft /\ StepsLeft' # StepsLeft]_vars
  BY NextAdvances DEF Advance
<1>2. Inv => IsFiniteSet(StepsLeft)
  BY StepsFinite
<1> QED BY <1>1, <1>2, InvAlways, ThreadsAlways, OnceAlways, PTL DEF Spec, StopAdvances
=============================================================================
