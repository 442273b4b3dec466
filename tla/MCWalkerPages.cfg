SPECIFICATION Spec
CONSTANTS
    SkipInterval = 2
    BatchSendInterval = 2
    MaxWalkers = 1
    Collections = {map1, list2}
    LinkedLists = {list2}
    NullEnded = {}
    Nodes = {n1, n2, n3, n4, n5}
    Chain <- ChainOf
    Size <- SizeOf
    UI = UI
    Pagers = {p1}
    Walkers = {w1, w2}
    Requests <- MapRequests
    NoWalker = NoWalker
    NoThread = NoThread
    End = End
    map1 = map1
    list1 = list1
    list2 = list2
    n1 = n1
    n2 = n2
    n3 = n3
    n4 = n4
    n5 = n5
INVARIANTS
 TypeOK
 SkipIndexSound
 PagesMatchChain
 OneWalkerPerCollection
 RunningWalkersBounded
PROPERTIES
 IndexOnlyGrows
SYMMETRY WalkerIds
