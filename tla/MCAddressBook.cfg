\* Two entries in the book; a clock of four instants, so that entries get
\* stale, bans expire and timestamps lie ahead by more than is allowed.
CONSTANTS
  peer = peer
  port0 = port0
  port1 = port1
  port2 = port2
  ip1 = ip1
  None = None
  Addresses = {peer, port0, port1, port2}
  IPs = {ip1}
  IpOf <- MCIpOf
  Wildcards = {port1, port2}
  Portless = {port0}
  ADDR_MANAGER_MAX_ENTRIES = 2
  ADDR_MAX_AGE_SECS = 1
  MAX_SKEW = 1
  BAN_DURATION = 2
  UINT32 = 16
  Offsets <- MCOffsets
  MaxTime = 3
SPECIFICATION Spec
INVARIANTS
  TypeOK
  OnlyRecentOffered
  BansOutlive
