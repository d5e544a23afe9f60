CONSTANTS
  p1 = p1
  p2 = p2
  c2 = c2
  Threads = {t1, t2}
  Peers <- MCPeers
  Conns = {c1, c2}
  PeerOf <- MCPeerOf
  Streams = {s1}
  ConnOf <- MCConnOf
  AllowLists <- MCAllowLists
  MaxServes = 2
SPECIFICATION Spec
CHECK_DEADLOCK FALSE
INVARIANTS
  OneAcceptLoop
