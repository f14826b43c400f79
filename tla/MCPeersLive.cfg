\* One connection, two pings, under fairness.  The process ends when Stop has
\* returned.
CONSTANTS
  Peers = {p1}
  Main = Main
  Outbound = Outbound
  Cleaner = Cleaner
  None = None
  MAX_PEERS = 1
  MaxPings = 2
SPECIFICATION Spec
PROPERTIES
  GivenUpIsClosed
  StopReturns
  StopAdvances
CHECK_DEADLOCK FALSE
