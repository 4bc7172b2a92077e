CONSTANTS
    LongMax <- MCLongMax
    DoubleMax <- MCDoubleMax
    LongBits <- MCLongBits
    DoubleBits <- MCDoubleBits
    Registers <- MCRegisters
    MaxMem <- MCMaxMem
    Programs <- DataPrograms
SPECIFICATION Spec
INVARIANTS
    TypeOK
    TagsTellTruth
    NoFault
PROPERTIES
    Frame
    ReadBack
    PointerAsOperand
    LiesBegin
    FaultsHaveCause
CHECK_DEADLOCK FALSE
