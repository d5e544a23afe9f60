CONSTANTS
  d1 = d1
  d2 = d2
  t1 = t1
  t2 = t2
  t3 = t3
  r1 = r1
  r2 = r2
  Databases = {d1, d2}
  Threads = {t1, t2, t3}
  DbOf <- MCDbOf
  Makes <- MCMakes
  Peers = {p1}
  TokenPeers = {p1}
  Aliases = {n1}
  RelayLists = {Default, r1, r2, TooLong}
  Default = Default
  TooLong = TooLong
  Throwaway = Throwaway
  None = None
SPECIFICATION Spec
SYMMETRY Symmetry
INVARIANTS
  OneIdentity
  ServedAsAsked
  AttachedHasItsSecret
