SPECIFICATION Spec
CONSTANTS
    SwapTime = 5
    WatchdogTime = 20
    WaitTime = 45
    ResultTime = 2
    Rejections = 3
    MaxLost = 2
    MaxPower = 1
    MaxBroken = 1
INVARIANTS TypeOK ReportsTrue WaitCovers LastResort
