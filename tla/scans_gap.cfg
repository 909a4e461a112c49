SPECIFICATION Spec
CONSTANTS
    Device = {r1}
    Stream = {}
    Client = {c1}
    MaxScans = 3
    MaxPlugs = 0
    QueueSize = 1
PROPERTY GapIsBuffered
CHECK_DEADLOCK FALSE
