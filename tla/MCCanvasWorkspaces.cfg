SPECIFICATION Spec
CONSTANTS
  w1 = w1
  w2 = w2
  g1 = g1
  t1 = t1
  t2 = t2
  NoWorkspace = NoWorkspace
  Ids <- MCIds
  Groups <- MCGroups
  CodeGroups <- MCCodeGroups
  Slots <- MCSlots
INVARIANTS
  TypeOK
  StoredOnce
  CurrentIsStored
PROPERTY WorkspacesKept
SYMMETRY MCSymmetry
CONSTRAINT FewClicks
