SPECIFICATION Spec
CONSTANTS
    Proc = {p1, p2}
    Key = {k}
    Threshold = 2
    QueueSize = 1
    MaxCalls = 3
    MaxFaults = 3
    None = None
SYMMETRY Symmetry
INVARIANTS WholeUnlessReaped
PROPERTIES LostOnlyByCleanup
CHECK_DEADLOCK FALSE
