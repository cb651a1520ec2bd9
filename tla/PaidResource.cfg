SPECIFICATION ServerSpec
CONSTANTS
    c1 = c1  c2 = c2  c3 = c3  r1 = r1
    Calls = {c1, c2}
    Receipts = {r1}
    Max = 1
    Life = 1
    Tolerance = 1
    Horizon = 2
    Signals = {"SIGINT", "SIGTERM"}
CHECK_DEADLOCK FALSE
INVARIANTS
    LastUseReportedOnce
    ToleranceBuysNoUse
    HeldReceiptsAreKnown
    StatusIsHonest
    StopLosesNoAnswer
PROPERTIES
    KeepsPromise
    StopCompletes
