CONSTANTS
    Cmd = {c1}
    SeqCount = 3
    Retries = 3
    MaxFailures = 1
    MaxCalls = 4
    MaxSessions = 2
SPECIFICATION FairSpec
INVARIANT TypeOK
INVARIANT StaleAnswersAreSkipped
PROPERTY RefinesCommandOnce
PROPERTY EveryCallEnds
CHECK_DEADLOCK FALSE
