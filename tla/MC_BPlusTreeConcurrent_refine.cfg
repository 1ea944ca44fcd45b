CONSTANTS
    t1 = t1
    t2 = t2
    Threads <- MCThreadsTwo
    Keys <- MCKeysTiny
    RemoveKeys <- MCKeysTiny
    BeginKeys <- MCBeginKeysNone
    InitKeys <- MCInitKeysTiny
    PageIds <- MCPageIdsTiny
    LeafMaxSize = 2
    InternalMaxSize = 3
SPECIFICATION FairSpec
PROPERTIES
    KeySetRefinement
    BusyThreadsProgress
CHECK_DEADLOCK FALSE
