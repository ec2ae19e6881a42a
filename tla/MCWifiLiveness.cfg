SPECIFICATION FairSpec
CONSTANTS
    Links = {0}
    NoLink = none
    Url = {"file"}
    NoUrl = nourl
    MaxSegment = 2
    MaxEvents = 3
    MaxTroubles = 1
    RxTokens = 4
    LongDelay = 0
    ShortDelay = 0
    InitCommands = 1
    UrlSlots = 3
    Chunks <- PageAndFile
    DogPeriod = 3
    MayBeLate = TRUE
PROPERTIES BackToLoop QueueDrains
