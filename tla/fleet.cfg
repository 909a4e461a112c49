SPECIFICATION FairSpec
CONSTANTS
    Family = {"cameras", "access", "cfx", "scales"}
    Broker = {b1}
    MaxSecrets = 3
    MaxCommands = 3
    MaxBatch = 2
    MaxBoots = 2
INVARIANTS
    TypeOK
    AppliedRuns
    BrokersAsConfigured
PROPERTIES
    KeepsItsIdentity
    ForgottenComesBack
CHECK_DEADLOCK FALSE
