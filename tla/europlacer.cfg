SPECIFICATION FairSpec
CONSTANTS
    Order = {o1, o2}
    MaxJobs = 2
    MaxInstances = 2
    Attempts = 2
    Workers = 1
    Archives = TRUE
INVARIANTS
    TypeOK
    SuccessIsApplied
    OneProducer
PROPERTIES
    ExistingIsNotRefused
    EveryOrderEnds
CHECK_DEADLOCK FALSE
