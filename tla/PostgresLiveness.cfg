SPECIFICATION FairSpec
CONSTANTS
    a = a  b = b  c = c  r1 = r1  r2 = r2
    NoSession = NoSession
    Sessions = {a, b}
    Receipts <- TwoRows
    Persisted <- TwoRows
    Max <- MaxOne
    Nbf <- NbfOne
    Exp <- ExpTwo
    Times = {1}
    Commands <- GenuineCommands
INVARIANTS
    LockedRowsAreCurrent
    FailedTransactionKeepsNothing
PROPERTIES
    EveryCallReturns
