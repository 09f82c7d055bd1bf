SPECIFICATION Spec
CONSTANTS
  e1 = e1
  e2 = e2
  p1 = p1
  p2 = p2
  p3 = p3
  s1 = s1
  s2 = s2
  NoPane = NoPane
  NoId = NoId
  Ids <- MCIds
  Panes <- FewPanes
  Slots <- MCSlots
  Types = {"CODE_EDITOR"}
  Ops = {"insert", "insertAdjacent", "reload", "close", "openWorkspace"}
SYMMETRY Symmetry
INVARIANTS
  LivePanesListed
PROPERTIES
  NoResurrection
  BulkCloseIsComplete
  ReloadKeepsEditor
CHECK_DEADLOCK FALSE
