SPECIFICATION Spec
CONSTANTS
    Info = {e1, e2}
    Bounds <- MCBounds
    Rules <- RuleNames
    MaxCalls = 2
    MaxItems = 1
    None = None
SYMMETRY InfoSymmetry
INVARIANTS NothingDangles FinalizedAtTheEnd 
CHECK_DEADLOCK FALSE
