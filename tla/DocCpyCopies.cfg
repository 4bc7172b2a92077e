CONSTANTS
    LongMax <- MCLongMax
    DoubleMax <- MCDoubleMax
    LongBits <- MCLongBits
    DoubleBits <- MCDoubleBits
    Registers <- MCRegisters
    MaxMem <- MCMaxMem
    Programs <- DocPrograms
SPECIFICATION Spec
PROPERTY CpyCopies
CHECK_DEADLOCK FALSE
