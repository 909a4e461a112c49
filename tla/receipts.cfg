CONSTANTS
    r1 = r1
    r2 = r2
    r3 = r3
    k1 = k1
    Plain = Plain
    NoRequest = NoRequest
    Receipt = {k1}
    Request = {r1, r2, r3}
    MaxRestarts = 1
    ReconcileInFlight = FALSE
    ResolveInFlight = FALSE
SPECIFICATION FairSpec
INVARIANT TypeOK
INVARIANT AtMostOnePrint
INVARIANT FailedMeansNotPrinted
INVARIANT OkMeansPrinted
PROPERTY OwnDocument
PROPERTY RefinesOnceOnly
PROPERTY EveryPostAnswered
