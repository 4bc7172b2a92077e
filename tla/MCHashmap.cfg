CONSTANTS
    Keys <- MCKeys
    KeySize <- MCKeySize
    DefaultCap = 3
    Growth = 2
    MaxRehash = 5
    Hashes <- MCHashes
    MaxCalls = 4
SPECIFICATION Spec
INVARIANTS
    IsDictionary
    EntriesAreGiven
    RehashEnds
CHECK_DEADLOCK FALSE
