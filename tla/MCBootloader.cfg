CONSTANTS
    v1 = v1
    v2 = v2
    alien = alien
    None = None
    Erased = Erased
    Torn = Torn
    Image = {v1, v2}
    ImageSize <- MCImageSize
    Version <- MCVersion
    WellFormed = {v1, v2}
    Authentic = {v1, v2}
    Page <- MCPage
    Sendable <- MCSendable
    FwPages = 3
    TornRecords = TRUE
    MaxLosses = 2
SPECIFICATION BootSpec
INVARIANTS BootTypeOK BootsIntact GoodImageKept RollbackReady NoDowngrade
PROPERTIES OneTrial
