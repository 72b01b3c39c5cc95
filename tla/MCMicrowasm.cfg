SPECIFICATION MeaningSpec
CONSTANTS
    NumParams = 1
    NumDeclared = 1
    NumReturns = 1
    BlockReturns = {0, 1}
    LoopReturns = {0, 1}
    Plain <- MCPlain
    Untidy <- MCUntidy
    TableDepths = {0, 1, 2}
    MaxFrames = 3
    MaxOperands <- MCMaxOperands
VIEW View
CHECK_DEADLOCK FALSE
INVARIANTS StackIsState 
PROPERTY BranchesHandOver
