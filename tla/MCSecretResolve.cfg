CONSTANTS
    n1 = n1
    n2 = n2
    n3 = n3
    n4 = n4
    NoName = NoName
    Names <- FourNames
    Slots = 2
SPECIFICATION FairSpec
INVARIANTS
    TypeOK
    AtMostSlots
    CauseIsFirst
    AllOrNothing
PROPERTIES
    Returns
CHECK_DEADLOCK FALSE
