SPECIFICATION ServiceSpec
CONSTANTS
    Links = {0}
    NoLink = none
    Url = {"page", "file", "stray"}
    NoUrl = nourl
    MaxSegment = 2
    MaxEvents = 2
    MaxTroubles = 0
    RxTokens = 4
    LongDelay = 0
    ShortDelay = 0
    InitCommands = 2
    UrlSlots = 2
    Chunks <- PageAndFile
    DogPeriod = 3
    MayBeLate = FALSE
INVARIANT NoMishap
PROPERTY QueueDrains
