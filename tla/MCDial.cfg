CONSTANTS
  p1 = p1
  Requests = {r1, r2}
  Peers <- MCPeers
  PeerOf <- MCPeerOf
  Paths = {"unknown", "direct", "relay"}
  NoConn = NoConn
  NoEntry = NoEntry
SPECIFICATION FairSpec
CHECK_DEADLOCK FALSE
INVARIANTS
  TypeOK
  AppliedAtMostOnce
  StaleCacheIsInvisible
  OnlyUnheldIsClosed
PROPERTIES
  KnownPathsStayKnown
  ImplementsAtMostOnce
  EveryCallReturns
