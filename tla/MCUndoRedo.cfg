SPECIFICATION Spec
CONSTANTS
  e1 = e1
  e2 = e2
  p1 = p1
  g1 = g1
  p2 = p2
  NoIdentifier = NoIdentifier
  NoMap = NoMap
  EditorIds <- MCEditorIds
  Identifiers <- MCIdentifiers
  Geometries <- MCGeometries
  Editors <- MCEditors
  BatchWindow = 1
  MaxTime = 2
  MaxHistory = 2
INVARIANTS
  TypeOK
  OpenBatchHasNoRedo
  UndoThenRedoReturns
PROPERTIES
  LateCloseKeepsHistory
  ImplementsTimeline
