CONSTANTS
    Keys <- MCKeys
    PageIds <- MCPageIds
    LeafMaxSize = 3
    InternalMaxSize = 3
SPECIFICATION Spec
INVARIANT
    SpecMinOccupancy
