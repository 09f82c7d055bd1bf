SPECIFICATION Spec
CONSTANTS
  Ids = {1, 2, 3}
  Rect <- MCRect
  Edges <- MCEdges
  Joined <- MCJoined
  Arrange <- MCArrange
  Selections <- MCSelections
  NoIndex = NoIndex
  MaxDrift = 3
PROPERTY SingleSelectionIsUsed
