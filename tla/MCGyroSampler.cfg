SPECIFICATION FairSpec
CONSTANTS
    Attempts = 2
    DogPeriod = 5
    FifoSize = 10
INVARIANTS TypeOK  OneLeftBehind OverflowIsNoticed SilentOnlyIfCut
PROPERTY BacklogDrains
