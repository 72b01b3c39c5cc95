SPECIFICATION Spec
CONSTANTS
    Thread = {t1, t2}
    Map = {m1, m2, m3}
    MapSize = 2
    Signature = {s}
    ValueSize = {8}
    Trap <- MCTrap
    MaxFrames = 3
    InstallFails = TRUE
    None = None
SYMMETRY Symmetry
INVARIANTS NoAssertionFails ScopeIsInnermostCall TrapsReportedExactly RunsPublishedCode
CHECK_DEADLOCK FALSE
