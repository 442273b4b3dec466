SPECIFICATION Spec
CONSTANTS
    IdSize = 4
    SegmentSize = 64
    Files <- MCFiles
    Setups <- MCSetups
    MaxWarnings = 1
    MaxValidation = 2
    ReportInterval = 100
    NoBudget = NoBudget
    ParallelThreshold = 150
    ChunkFloor = 50
    BatchFloor = 150
    Garbage = 999
    Unnamed = "unnamed"
INVARIANTS
    FullyIndexedMeansWhole WarningsAccounted OffsetsAreTrue
    LookupsFind LocalsInFileOrder CyclesExact ThreadsAreTrue ProgressIsTrue
PROPERTIES ExtractionIsOrdered
