SPECIFICATION FairSpec
CONSTANTS
    MaxMsgs = 3
    IdxMod = 3
    Unlimited = Unlimited
INVARIANTS
    TypeOK
    DeliveredIntact
PROPERTIES
    BufferHeld
    HearsAgain
    Listens
