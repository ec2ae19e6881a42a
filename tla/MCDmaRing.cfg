SPECIFICATION FairSpec
CONSTANTS
    Size = 5
    NulRun = 2
    Byte = {nul, lf, ipd, x}
    Nul = nul
    Lf = lf
    Ipd = ipd
    None = none
    BlockLength = 2
    Backlog = 5
INVARIANT TypeOK
PROPERTIES ImplementsFifo SearchEnds LineIsRead
