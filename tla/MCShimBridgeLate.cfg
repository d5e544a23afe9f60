CONSTANTS
  p1 = p1
  ra = ra
  home = home
  Peers <- MCPeers
  Relays <- MCRelays
  DefaultRelay = home
  NoRelay = NoRelay
  MaxRequests = 2
  Capacity = 2
  MaxBody = 3
  MaxPeerFrames = 0
SPECIFICATION Spec
CHECK_DEADLOCK FALSE
INVARIANTS
  AnswersMatch
