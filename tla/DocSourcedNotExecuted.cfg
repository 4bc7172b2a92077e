CONSTANTS
    LongMax <- MCLongMax
    DoubleMax <- MCDoubleMax
    LongBits <- MCLongBits
    DoubleBits <- MCDoubleBits
    Registers <- MCRegisters
    MaxMem <- MCMaxMem
    Keys <- MCKeys
    KeySize <- MCKeySize
    DefaultCap = 11
    Growth = 2
    MaxRehash = 4
    Texts <- DocTexts
    Main = "main"
    Hash <- MCHash
    MaxOpen = 3
    MaxLines = 11
SPECIFICATION Spec
INVARIANT SourcedNotExecuted
CHECK_DEADLOCK FALSE
