CONSTANTS
  Peers = {p1, p2}
  TokenPeers = {p1}
  MaxNames = 2
  MaxSessions = 2
  Calls = {t1, t2}
  NoPeer = NoPeer
  MaxTyped = 1
SPECIFICATION Spec
SYMMETRY Symmetry
INVARIANTS
  TypeOK
  DistinctUnlessCrossed
  AttachedIsListed
  SecretsFollowTheList
  RouteUnlessCrossed
  NoRouteLeftBehind
  QuietRailIsTrue
