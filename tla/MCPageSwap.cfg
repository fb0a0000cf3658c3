CONSTANTS
    Page <- MCPage
    Erased = Erased
    Torn = Torn
    FwPages = 4
    TornRecords = TRUE
    MaxLosses = 3
SPECIFICATION MCFairSpec
INVARIANTS TypeOK NothingLost ExchangeExact Confined SwapInv
PROPERTIES Completes ProgressKept ImplementsAtomicSwap
