SPECIFICATION FairSpec
CONSTANTS
    Settings = 3
    MaxNews = 2
    RxTokens = 4
INVARIANTS TypeOK OwnAnswer TextMeetsPrompt
PROPERTY MessageGoesOut
