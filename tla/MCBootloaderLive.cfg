CONSTANTS
    v1 = v1
    v2 = v2
    alien = alien
    None = None
    Erased = Erased
    Torn = Torn
    Image = {v1, v2, alien}
    ImageSize <- MCImageSize
    Version <- MCVersion
    WellFormed = {v1, v2}
    Authentic = {v1, v2}
    Page <- MCPage
    Sendable <- MCSendable
    FwPages = 2
    TornRecords = FALSE
    MaxLosses = 1
SPECIFICATION BootFairSpec

PROPERTIES Settles TrialEnds
