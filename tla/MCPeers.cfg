\* Two connections at a time and a limit of one, one ping on each.  The process
\* ends when Stop has returned; threads that wait for each other are the
\* subject of the other runs.
CONSTANTS
  Peers = {p1, p2}
  Main = Main
  Outbound = Outbound
  Cleaner = Cleaner
  None = None
  MAX_PEERS = 1
  MaxPings = 1
SPECIFICATION Spec
INVARIANTS
  TypeOK
  OpenIsListed
  StoppedIsClosed
  ThreadsJoined
SYMMETRY Symmetry
CHECK_DEADLOCK FALSE
