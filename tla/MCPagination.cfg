SPECIFICATION Spec
CONSTANTS
    Heap <- MCHeap
    Subjects <- MCSubjects
    Ranges <- MCRanges
    SkipInterval = 2
    BatchThreshold = 2
INVARIANTS
    ResumeFindsNode CompleteHasAll VisibleIsCached

PROPERTIES ServesRanges
