CONSTANTS
    c1 = c1
    c2 = c2
    t1 = t1
    Free = Free
    Callers <- TwoCallers
    Timers <- OneTimer
    Sources = {"timers"}
    MaxStarts = 1
    MaxWrites = 1
SPECIFICATION Spec
PROPERTIES
    QuietAfterStop
CHECK_DEADLOCK FALSE
