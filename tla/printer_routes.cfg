SPECIFICATION FairSpec
CONSTANTS
    Kind = {"zreport", "iot", "simple", "rates", "vat", "plu", "unsupported", "reset", "status", "info", "receipt"}
    Items = 2
    MaxRequests = 3
    MaxFaults = 1
    MaxRestarts = 1
INVARIANT TypeOK
INVARIANT TotalsAreTheReports
PROPERTY TablesAreOnesOwn
PROPERTY EveryRequestAnswered
CHECK_DEADLOCK FALSE
