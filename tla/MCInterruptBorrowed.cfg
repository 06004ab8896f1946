SPECIFICATION PumpSpec
CONSTANTS
    Calls = {c1, c2}
    Kinds = {"borrowed"}
    MaxAsks = 1
    MaxSignals = 1
    DestructorsCall = FALSE
    None = None
PROPERTY EveryInterruptReturns
