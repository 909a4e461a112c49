SPECIFICATION FairSpec
CONSTANTS
    Device = {r1}
    Stream = {s1, s2}
    Client = {c1}
    MaxScans = 2
    MaxPlugs = 2
    QueueSize = 1
INVARIANTS
    TypeOK
    OneScanOneBarcode
    StreamsAreComplete
PROPERTIES
    AnswersMoveForward
    ReaderComesBack
CHECK_DEADLOCK FALSE
