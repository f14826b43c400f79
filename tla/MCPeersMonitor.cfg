\* One connection, one ping, under fairness.  The process ends when Stop has
\* returned.
CONSTANTS
  Peers = {p1}
  Main = Main
  Outbound = Outbound
  Cleaner = Cleaner
  None = None
  MAX_PEERS = 1
  MaxPings = 1
SPECIFICATION Spec
PROPERTY MonitorExits
CHECK_DEADLOCK FALSE
