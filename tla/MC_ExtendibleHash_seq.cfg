CONSTANTS
    t1 = t1
    t2 = t2
    v1 = v1
    v2 = v2
    Threads <- MCThreadsOne
    Keys <- MCKeysSmall
    Values <- MCValues
    BucketSize = 1
    BucketIds <- MCBucketIdsSmall
    MaxLocalDepth = 2
SPECIFICATION Spec
INVARIANTS
    TypeOK
    DirectoryWellFormed
    KeysInTheirBucket
PROPERTIES
    HashTableRefinement
    EveryCallReturns
CHECK_DEADLOCK FALSE
