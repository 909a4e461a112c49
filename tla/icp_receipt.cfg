CONSTANTS
    Sale = {r1}
    Invoice = {i1}
    NoDoc = NoDoc
    SerialLine = FALSE
    CommentFallback = TRUE
    Retries = 2
    MaxQueue = 2
    MaxRuns = 3
    MaxFaults = 1
SPECIFICATION Spec
INVARIANT TypeOK
INVARIANT AtMostOnePrint
INVARIANT FailedMeansNotPrinted
INVARIANT OneSaleADocument
INVARIANT ResetMeansClean
CHECK_DEADLOCK FALSE
