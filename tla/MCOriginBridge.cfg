SPECIFICATION Spec
CONSTANTS
    Calls = {c1, c2, c3}
    Kinds = {"owned", "borrowed"}
    MaxAsks = 1
    MaxSignals = 2
    DestructorsCall = TRUE
    None = None
SYMMETRY CallSymmetry
INVARIANTS NestingIsSafe NoAnonymousFailure
