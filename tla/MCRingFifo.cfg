SPECIFICATION FairSpec
CONSTANTS
    Size = 4
    Byte = {nul, lf, a, b}
    Nul = nul
    LineFeed = lf
    None = none
    Backlog = 3
INVARIANT TypeOK
PROPERTIES ImplementsFifo EveryLineReturned
