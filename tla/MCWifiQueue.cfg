SPECIFICATION Spec
CONSTANTS
    Links = {0, 1}
    NoLink = none
    Url = {"page", "file"}
    NoUrl = nourl
    MaxSegment = 4
    MaxEvents = 4
    MaxTroubles = 1
    RxTokens = 3
    LongDelay = 0
    ShortDelay = 0
    InitCommands = 1
    UrlSlots = 3
    Chunks <- PageAndFile
    DogPeriod = 3
    MayBeLate = FALSE
INVARIANTS UrlRingIsQueue AnswersRequester
