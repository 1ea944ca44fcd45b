CONSTANTS
    t1 = t1
    t2 = t2
    Threads <- MCThreadsTwo
    LeafMaxSize = 2
    InternalMaxSize = 3
    Keys <- MCKeys
    InitKeys <- MCInitKeys
    PageIds <- MCPageIds
    RemoveKeys <- MCRemoveKeysAll
    BeginKeys <- MCBeginKeysNone
SPECIFICATION Spec
SYMMETRY MCSymmetry
VIEW ConcView
INVARIANT
    FindLeafPageNonNull
CHECK_DEADLOCK FALSE
