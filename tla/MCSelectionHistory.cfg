SPECIFICATION Spec
CONSTANTS
  e1 = e1
  e2 = e2
  Ids = {e1, e2}
  NoRange = NoRange
  Ranges <- MCRanges
  LineCounts = {6, 12}
  MaxStack = 3
SYMMETRY Symmetry
INVARIANTS
  TypeOK
  BackThenForwardReturns
PROPERTY OlderSelectionsKept
