SPECIFICATION Spec
CONSTANTS
    Size = 4
    Byte = {nul, lf, a}
    Nul = nul
    LineFeed = lf
    None = none
    Backlog = 4
INVARIANT ZeroSizeMeansEmpty
