CONSTANTS
    LongMax <- MCLongMax
    DoubleMax <- MCDoubleMax
    LongBits <- MCLongBits
    DoubleBits <- MCDoubleBits
    Registers <- MCRegisters
    MaxMem <- MCMaxMem
    Programs <- MCPrograms
    TableSize = 4
    MaxFds = 5
    ReadMax = 2
    BufSize = 3
    Disk <- MCDisk
    Stdin <- MCStdin
SPECIFICATION SysSpec
INVARIANTS
    SysTypeOK
    TableTruth
    OutputComplete
    StdinOnce
PROPERTIES
    SysFrame
    Finishes
CHECK_DEADLOCK FALSE
