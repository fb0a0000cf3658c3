SPECIFICATION FairSpec
CONSTANTS
    Data <- MCData
    Capacity = 5
    MaxBlock = 2
    SeqMod = 2
    FileLen = 5
    BlockLen = 2
    MaxTries = 3
    MaxAttempts = 3
INVARIANTS
    TypeOK
    OneFile
    Agree
    FailedMark
PROPERTY Ends
CHECK_DEADLOCK FALSE
