CONSTANTS
    t1 = t1
    t2 = t2
    Threads <- MCThreadsTwo
    Keys <- MCKeysDeep
    RemoveKeys <- MCRemoveKeysDeep
    BeginKeys <- MCBeginKeysDeep
    InitKeys <- MCInitKeysDeep
    PageIds <- MCPageIdsDeep
    LeafMaxSize = 2
    InternalMaxSize = 3
SPECIFICATION Spec
SYMMETRY MCSymmetry
INVARIANTS
    TypeOK
    DeletedPagesInPageSet
    QuiescentTreeWellFormed
    IteratorOnItsLeaf
PROPERTIES
    PairsWrittenUnderLatch
VIEW ConcView
