SPECIFICATION Spec
CONSTANTS
    Links = {0, 1}
    NoLink = none
    Url = {"file"}
    NoUrl = nourl
    MaxSegment = 2
    MaxEvents = 3
    MaxTroubles = 1
    RxTokens = 3
    LongDelay = 0
    ShortDelay = 0
    InitCommands = 1
    UrlSlots = 2
    Chunks <- PageAndFile
    DogPeriod = 3
    MayBeLate = TRUE
INVARIANTS TypeOK StaleAnswerNeedsTimeout BlindPayloadNeedsTimeout
