SPECIFICATION Spec
CONSTANTS
  NoId = NoId  NoThread = NoThread
  t1 = t1  t2 = t2  a = a  b = b  c = c  d = d
  Vars <- LossVars
  Fields <- LossFields
  Statics <- LossStatics
  Entries <- LossEntries
  ChunkSize = 1
  SectionSize = 2
  ThreadList <- OneThread
  Frames <- SmallFrames
  Resolvable = {}
  Pageable = {}
  WorkersDie = TRUE
  StepCap = 2
  Filters <- Searches
  MaxPins = 1
  Keys = {"Enter", "Move", "Open", "Close", "ClosePages", "LeaveStack", "Tab", "Search", "Pin", "Unpin", "Favorites", "ListFavorites", "Leave"}
INVARIANTS
  ChunksHaveSource
  FocusIsVisible
VIEW ButSpinner
