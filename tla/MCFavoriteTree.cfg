SPECIFICATION Spec
CONSTANTS
  NoId = NoId
  a = a  b = b  g = g  h = h  c = c  d = d  e = e  n = n  k = k
  Vars <- TreeVars
  Fields <- TreeFields
  Statics <- NoStatics
  Entries <- TreeEntries
  ChunkSize = 2
  SectionSize = 4
  SnapshotLimit = 6
  MaxDepth = 2
  StackDepth = 12
  Stacks <- TreeStacks
  PinPaths <- TreePaths
  MaxMarks = 1
INVARIANTS
  RowsAgree
