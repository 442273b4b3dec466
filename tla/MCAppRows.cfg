SPECIFICATION Spec
CONSTANTS
  NoId = NoId  NoThread = NoThread
  t1 = t1  t2 = t2  a = a  b = b  c = c  d = d
  Vars <- RichVars
  Fields <- RichFields
  Statics <- RichStatics
  Entries <- RichEntries
  ChunkSize = 1
  SectionSize = 2
  ThreadList <- OneThread
  Frames <- SmallFrames
  Resolvable = {a, b, d}
  Pageable = {c}
  WorkersDie = FALSE
  StepCap = 2
  Filters = {}
  MaxPins = 1
  Keys = {"Enter", "Move", "Open", "Close", "ClosePages", "EscapeLoading", "BatchExpand"}
INVARIANTS
  NoRowStuck
  ExpandsWhatItShows
PROPERTIES
  CancelledStaysClosed
VIEW ButSpinner
