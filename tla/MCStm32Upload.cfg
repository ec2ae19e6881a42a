SPECIFICATION FairSpec
CONSTANTS
    PageSize = 2
    FlashPages = 3
    MaxLength = 7
    Fill = Fill
    Garbage = Garbage
    Old = Old
INVARIANTS TypeOK StartedIsWritten NeverMixed
PROPERTY UploadEnds
CHECK_DEADLOCK FALSE
