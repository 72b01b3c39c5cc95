SPECIFICATION Spec
CONSTANTS
    Inst = {i1, i2, i3}
    Compiled = {c}
    Name = {"n1", "n2"}
    Module <- MCModule
    MemorySize = 2
    MaxHandles = 1
    MaxTable = 3
    None = None
SYMMETRY Symmetry
INVARIANTS ImportsAlive FreedWhenUnreachable FailedLinkLeavesNoTrace
