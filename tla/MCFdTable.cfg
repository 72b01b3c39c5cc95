SPECIFICATION Spec
CONSTANTS
    Thread = {t1, t2}
    Object = {o1, o2, o3}
    Right <- MCRight
    OpenRight = "open"
    PollRight = "io"
    Type = {"dir", "device"}
    TypeRights <- MCTypeRights
    Directory = "dir"
    StdioType = "device"
    Stdio = 1
    Preopens = 1
    Requests <- MCRequests
    Slots = 2
    Renumbers = 1
    SizeMax = 8
    None = None
SYMMETRY Symmetry
INVARIANTS  NoAssertionFails RightsComeFromPreopens
CHECK_DEADLOCK FALSE
