SPECIFICATION Spec
CONSTANTS
    a = a  b = b  c = c  r1 = r1  r2 = r2
    NoSession = NoSession
    Sessions = {a, b, c}
    Receipts <- OneRowAndUnknown
    Persisted <- OneRow
    Max <- MaxTwo
    Nbf <- NbfOne
    Exp <- ExpTwo
    Times <- Clock
    Commands <- SomeCommands
SYMMETRY Symmetry
INVARIANTS
    NeverOverGranted
    LastUseReportedOnce
    AdmittedNeverConflicts
    ExhaustedMeansNoUseLeft
PROPERTIES
    WindowIsEnforcedUnderLock
    KeepsPromise
