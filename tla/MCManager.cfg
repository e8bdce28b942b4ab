CONSTANTS
    c1 = c1
    c2 = c2
    t1 = t1
    Free = Free
    Callers <- TwoCallers
    Timers <- OneTimer
    Sources = {"pull", "inline", "timers"}
    MaxStarts = 2
    MaxWrites = 1
SPECIFICATION FairSpec
INVARIANTS
    TypeOK
    WatcherOwned
    StartedIsLoaded
    HolderProceeds
PROPERTIES
    NeverRegresses
    FreshOnReturn
    ImplementsAtomicManager
    QuietUnlessTimers
    CallsReturn
CHECK_DEADLOCK FALSE
