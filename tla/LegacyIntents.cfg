SPECIFICATION Spec
CONSTANTS
    c1 = c1  c2 = c2  c3 = c3  p1 = p1  p2 = p2  k1 = k1  r1 = r1  r2 = r2
    NoKey = NoKey  Blank = Blank  NoRef = NoRef
    Creates = {c1, c2, c3}
    Key <- RetryKey
    Ref <- SharedRef
    Passes = {p1, p2}
    Modes = {"fake", "real"}
    Retries = TRUE
    Mute = {}
SYMMETRY Symmetry
CHECK_DEADLOCK FALSE
INVARIANTS
    StatusMatchesReceipt
    KeyNamesOneIntent
    LogTellsStatus
PROPERTIES
    KeepsSale
