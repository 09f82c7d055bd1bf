SPECIFICATION Spec
CONSTANTS
  e1 = e1
  e2 = e2
  e3 = e3
  p1 = p1
  p2 = p2
  p3 = p3
  inside1 = inside1
  s = s
  File = File
  Ids <- MCIds
  Places <- MCPlaces
  Overlaps <- MCOverlaps
  Symbols <- MCSymbols
  Dependencies <- MCDependencies
  Orders <- MCOrders
  Layouts <- MCLayouts
  Joined <- MCJoined
  MaxCalls = 3
INVARIANTS
  TypeOK
  OneSortAtATime
  
PROPERTY EveryCallBegins
