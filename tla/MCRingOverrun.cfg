SPECIFICATION Spec
CONSTANTS
    Size = 4
    Byte = {nul, lf, a, b}
    Nul = nul
    LineFeed = lf
    None = none
    Backlog = 9
SYMMETRY Symmetric
INVARIANTS VisibleUpToLaps NoPhantomRead
