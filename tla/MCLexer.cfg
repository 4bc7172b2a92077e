CONSTANTS
    Chars <- MCChars
    Beginnings <- MCBeginnings
    MaxMore = 4
SPECIFICATION Spec
INVARIANTS
    TypeOK
    SplitsIntoFields
    ReadsBack
    WildOnlyUnterminated
PROPERTIES
    CommentIgnored
CHECK_DEADLOCK FALSE
