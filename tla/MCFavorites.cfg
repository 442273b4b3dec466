SPECIFICATION Spec
CONSTANTS
  NoId = NoId
  a = a  b = b  g = g  h = h  c = c  d = d  e = e  n = n  k = k
  Vars <- PanelVars
  Fields <- PanelFields
  Statics <- NoStatics
  Entries <- PanelEntries
  ChunkSize = 2
  SectionSize = 4
  SnapshotLimit = 6
  MaxDepth = 2
  StackDepth = 12
  Stacks <- PanelStacks
  PinPaths <- PanelPaths
  MaxMarks = 3
INVARIANTS
  RowsAgree
  HiddenBelongs
PROPERTIES
  ClosesTheRow
  SnapshotIsWhole
