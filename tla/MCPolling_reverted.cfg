CONSTANTS
    MaxDoc = 1
    MaxSecret = 0
    MaxStarts = 1
    Reverts = TRUE
    Intervals = {FALSE}
    ManualWith = {}
SPECIFICATION FairSpec
PROPERTIES
    Converges
