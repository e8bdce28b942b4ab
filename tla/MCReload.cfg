CONSTANTS
    d1 = d1
    d2 = d2
    d3 = d3
    x = x
    y = y
    NoDoc = NoDoc
    NoData = NoData
    NumNodes = 6
    MaxAttempts = 3
    Kind <- MCKind
    Parents <- MCParents
    Keeps <- MCKeeps
    Doc <- MCDoc
    Data <- MCData
    Extract <- MCExtract
SPECIFICATION Spec
INVARIANTS
    TypeOK
    SnapshotConsistent
    ResourcesAccounted
    PublishedResourcesOpen
    ChildrenClosedFirst
PROPERTIES
    UnchangedParentsKeepValue
    ImplementsAtomicConfig
CHECK_DEADLOCK FALSE
