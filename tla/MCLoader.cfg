CONSTANTS
    LongMax <- MCLongMax
    DoubleMax <- MCDoubleMax
    LongBits <- MCLongBits
    DoubleBits <- MCDoubleBits
    Registers <- MCRegisters
    MaxMem <- MCMaxMem
    Keys <- MCKeys
    KeySize <- MCKeySize
    DefaultCap = 11
    Growth = 2
    MaxRehash = 4
    Texts <- PoolTexts
    Main = "main"
    Hash <- MCHash
    MaxOpen = 3
    MaxLines = 11
SPECIFICATION Spec
INVARIANTS
    TypeOK
    HandsOver
    NamesResolve
    LiteralsApart
    ErrorNamesLine
    InlinesSources
PROPERTIES
    LoadEnds
CHECK_DEADLOCK FALSE
