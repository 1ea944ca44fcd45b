CONSTANTS
    Values <- MCValues
    Nodes <- MCNodes
SPECIFICATION Spec
INVARIANTS
    TypeOK
    ListWellFormed
PROPERTY
    LRURefinement
