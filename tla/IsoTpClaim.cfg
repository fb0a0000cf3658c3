SPECIFICATION Spec
CONSTANTS
    MaxMsgs = 2
    IdxMod = 3
    Unlimited = Unlimited
INVARIANT SingleFrameWaits
