CONSTANTS
  Peers = {p1, p2}
  TokenPeers = {p1}
  MaxNames = 2
  MaxSessions = 1
  Calls = {t1, t2, t3}
  NoPeer = NoPeer
  MaxTyped = 0
SPECIFICATION Spec
SYMMETRY Symmetry
INVARIANTS
  ConnectionsDistinct
