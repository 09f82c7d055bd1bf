SPECIFICATION Spec
CONSTANTS
  e1 = e1
  e2 = e2
  e3 = e3
  Null = Null
  Undefined = Undefined
  Ids = {e1, e2, e3}
  MaxStack = 4
SYMMETRY Symmetry
INVARIANTS
  TypeOK
  ButtonsMatchStacks
  BackThenForwardReturns
PROPERTY DeletedLeaveBackStack
