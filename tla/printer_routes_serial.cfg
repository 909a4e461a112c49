SPECIFICATION Spec
CONSTANTS
    Kind = {"status", "info", "receipt"}
    Items = 1
    MaxRequests = 3
    MaxFaults = 1
    MaxRestarts = 1
INVARIANT InfoHasTheSerial
CHECK_DEADLOCK FALSE
