SPECIFICATION FairSpec
CONSTANTS
    Purchase = {p1, p2}
    None = None
    MaxSessions = 3
INVARIANTS
    TypeOK
    OkIsTheBanks
    RefusedIsNotCharged
PROPERTIES
    CancelOnlyItsOwn
    EveryRequestEnds
CHECK_DEADLOCK FALSE
