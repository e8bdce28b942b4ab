CONSTANTS
    c1 = c1
    c2 = c2
    t1 = t1
    Free = Free
    Callers <- TwoCallers
    Timers <- OneTimer
    Sources = {"inline"}
    MaxStarts = 1
    MaxWrites = 0
SPECIFICATION FairSpec
PROPERTIES
    StopReturns
CHECK_DEADLOCK FALSE
