SPECIFICATION Spec
CONSTANTS
    SwapTime = 5
    WatchdogTime = 20
    WaitTime = 45
    ResultTime = 2
    Rejections = 3
    MaxLost = 1
    MaxPower = 0
    MaxBroken = 0
INVARIANT ReportsWhetherStuck
