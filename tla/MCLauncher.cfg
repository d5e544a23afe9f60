CONSTANTS
  Launchers = {l1, l2}
  Strangers = {s1}
  Ports = {n1, n2}
  None = None
SPECIFICATION Spec
SYMMETRY Symmetry
INVARIANTS
  CachedIsWhole
  
  NothingLeftBehind
