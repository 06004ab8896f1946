SPECIFICATION Spec
CONSTANTS
    Calls = {c1, c2, c3}
    Kinds = {"owned"}
    MaxAsks = 1
    MaxSignals = 1
    DestructorsCall = TRUE
    None = None
INVARIANT OwnerOutlivesEveryWorker
