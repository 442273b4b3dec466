SPECIFICATION FairSpec
CONSTANTS
  NoId = NoId  NoThread = NoThread
  t1 = t1  t2 = t2  a = a  b = b  c = c  d = d
  Vars <- PinVars
  Fields <- PinFields
  Statics <- PinStatics
  Entries <- PinEntries
  ChunkSize = 1
  SectionSize = 2
  ThreadList <- TwoThreads
  Frames <- SmallFrames
  Resolvable = {a}
  Pageable = {c}
  WorkersDie = FALSE
  StepCap = 2
  Filters = {}
  MaxPins = 1
  Keys = {"Enter", "Move", "Open", "Select", "LeaveStack", "Pin", "Favorites", "GoToPin", "EscapeWalk", "Unpin", "Leave"}
INVARIANTS
  WorkOfOpenThread
  NavHasSource
PROPERTIES
  WalkLands
  NavigationEnds
