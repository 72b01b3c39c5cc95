SPECIFICATION Spec
CONSTANTS
    Now = 10
    U64Max = 100000
    Factor <- MCFactor
    DefaultSetting <- MCDefaultSetting
    ProjectDirs = TRUE
    Scenarios <- MCScenarios
    Invalid = Invalid
    None = None
INVARIANTS WithinLimits  LeavesOnlyWhatIsInUse EnabledMeansUsable
 
CHECK_DEADLOCK FALSE
