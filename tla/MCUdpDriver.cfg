SPECIFICATION FairSpec
CONSTANTS
    Address <- ShortAndLong
    NoClient = none
    Width = 3
    InitCommands = 1
    WaitTicks = 2
    PauseTicks = 1
    DogPeriod = 6
    MaxHeard = 2
    MaxShort = 1
    RxTokens = 3
INVARIANTS TypeOK AddressIsWhole InStep 
PROPERTY HeardIsServed
