CONSTANTS
    MaxContent = 2
    MaxRunning = 2
SPECIFICATION FairSpec
INVARIANTS
    TypeOK
    NoWriteLost
PROPERTIES
    LastContentTried
