SPECIFICATION Spec
CONSTANTS
    SizeOf <- MCSizeOf
    AlignOf <- MCAlignOf
    Ptr <- MCPtr
    Length <- MCLength
    MaxLen = 2
    Iovecs <- MCIovecs
    MaxEvents = 1
    Address <- MCAddress
    Argv <- MCArgv
    Environ <- MCEnviron
    None = None
INVARIANTS HostGetsGuestMemory BadArgumentsHaveNoEffect 
 
