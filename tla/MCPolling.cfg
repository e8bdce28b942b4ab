CONSTANTS
    MaxDoc = 1
    MaxSecret = 1
    MaxStarts = 2
    Reverts = FALSE
    Intervals = {TRUE, FALSE}
    ManualWith = {TRUE, FALSE}
SPECIFICATION FairSpec
INVARIANTS
    TypeOK
    SeenIsApplied
    EditForcesFresh
PROPERTIES
    NeverStepsBack
    OncePerInterval
    ConvergesInOrder
CHECK_DEADLOCK FALSE
