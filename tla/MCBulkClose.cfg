SPECIFICATION Spec
CONSTANTS
  e1 = e1
  e2 = e2
  p1 = p1
  p2 = p2
  p3 = p3
  s1 = s1
  s2 = s2
  NoPane = NoPane
  NoId = NoId
  Ids <- MCIds
  Panes <- FewPanes
  Slots <- MCSlots
  Types = {"CODE_EDITOR", "MERGE_EDITOR"}
  Ops = {"insert", "insertAtPosition", "delete", "closeAll", "openWorkspace", "select"}
SYMMETRY Symmetry
INVARIANTS
  TypeOK
  LivePanesListed
PROPERTIES
  NoResurrection
  BulkCloseIsComplete
CHECK_DEADLOCK FALSE
