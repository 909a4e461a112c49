CONSTANTS
    r1 = r1
    r2 = r2
    r3 = r3
    k1 = k1
    Plain = Plain
    NoRequest = NoRequest
    Receipt = {k1}
    Request = {r1, r2, r3}
    MaxRestarts = 0
    ReconcileInFlight = TRUE
    ResolveInFlight = FALSE
SPECIFICATION Spec
SYMMETRY Symmetry
INVARIANT DoneMeansPrinted
