SPECIFICATION FairSpec
CONSTANTS
    o2 = o2
    o3 = o3
    p3 = p3
    o8 = o8
    Objects = {o2, o3, p3, o8}
    Unreadable = {o8}
    SizeOf <- Sizes
    Base = 9
    Budget = 21
    Word = 64
    Workers = {w1, w2, w3}
    MaxReinserted = 2
    NoObject = NoObject
CHECK_DEADLOCK FALSE
INVARIANTS
 TypeOK
 BudgetAtRest
 CounterCoversCache
PROPERTIES
 ExpansionReturns
