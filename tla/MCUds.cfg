SPECIFICATION Spec
CONSTANTS
    Data <- MCData
    Capacity = 3
    MaxBlock = 2
    SeqMod = 4
    Seed <- MCSeed
    Unsigned = Unsigned
    MaxAttempts = 2
    LockTime = 2
    S3Time = 2
INVARIANTS
    UdsTypeOK
    MarkedComplete
    DownloadAuthorised
    LockoutHolds
    UdsInv
