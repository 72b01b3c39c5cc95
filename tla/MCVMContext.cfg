SPECIFICATION Spec
CONSTANTS
    Inst = {1, 2, 3}
    Module <- MCModule
    Value = {0}
    Delta = {1}
    Page = {0, 1}
    None = None
    PointerSize = 8
    StaticBound = 2
    MaxWork = 4
    MaxPages = 2
    MaxTable = 2
VIEW View
CHECK_DEADLOCK FALSE
INVARIANTS DefinitionsCurrent
 
