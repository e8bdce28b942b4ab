CONSTANTS
    d1 = d1
    d2 = d2
    x = x
    y = y
    NoDoc = NoDoc
    NoData = NoData
    NumNodes = 4
    MaxAttempts = 3
    Reader = {r1}
    Kind <- ChainKind
    Parents <- ChainParents
    Keeps <- ChainKeeps
    Doc <- ChainDoc
    Data <- ChainData
    Extract <- ChainExtract
SPECIFICATION TestSpec
INVARIANTS
    PublishedResourcesOpen
CHECK_DEADLOCK FALSE
