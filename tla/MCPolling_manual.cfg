CONSTANTS
    MaxDoc = 0
    MaxSecret = 1
    MaxStarts = 1
    Reverts = FALSE
    Intervals = {TRUE}
    ManualWith = {TRUE}
SPECIFICATION FairSpec
PROPERTIES
    Converges
