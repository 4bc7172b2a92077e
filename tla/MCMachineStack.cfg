CONSTANTS
    LongMax <- MCLongMax
    DoubleMax <- MCDoubleMax
    LongBits <- MCLongBits
    DoubleBits <- MCDoubleBits
    Registers <- MCRegisters
    MaxMem <- MCMaxMem
    Programs <- StackPrograms
    Pointer <- MCPointer
    Base <- MCBase
    SetupLines <- MCSetupLines
SPECIFICATION Spec
PROPERTIES
    StackSpec
CHECK_DEADLOCK FALSE
