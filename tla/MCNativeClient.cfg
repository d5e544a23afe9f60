CONSTANTS
  p1 = p1
  s1 = s1
  Peers <- MCPeers
  Statements <- MCStatements
  Retries = 1
  Requests <- MCRequests
  PeerOf <- MCPeerOf
  Paths = {"unknown"}
  NoConn = NoConn
  NoEntry = NoEntry
SPECIFICATION ClientSpec
CHECK_DEADLOCK FALSE
INVARIANTS
  StatementAppliedAtMostOnce
