CONSTANTS
    LongMax <- MCLongMax
    DoubleMax <- MCDoubleMax
    LongBits <- MCLongBits
    DoubleBits <- MCDoubleBits
    Registers <- MCRegisters
    MaxMem <- MCMaxMem
    Programs <- ControlPrograms
SPECIFICATION Spec
INVARIANTS
    TypeOK
    ControlStaysIn
PROPERTIES
    Frame
    Terminates
CHECK_DEADLOCK FALSE
