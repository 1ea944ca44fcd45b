CONSTANTS
    Keys <- MCKeys
    PageIds <- MCPageIds
    LeafMaxSize = 2
    InternalMaxSize = 3
SPECIFICATION Spec
INVARIANTS
    TypeOK
    SearchTreeOrder
    NodeSizeBounds
    CheckersAcceptTree
    ParentPointersConsistent
    PagesAccountedFor
    LeafChainInOrder
PROPERTY
    KeySetRefinement
