SPECIFICATION Spec
CONSTANTS
  CodeEditors = {c1, c2}
  Ids = {r1, r2}
  None = None
  Writers = {s1}
SYMMETRY Symmetry
CHECK_DEADLOCK FALSE
INVARIANT TypeOK
INVARIANT HostsAlive
INVARIANT ModelOfWidget
INVARIANT NoModelLeaks
INVARIANT ShownNamesOwnReference
