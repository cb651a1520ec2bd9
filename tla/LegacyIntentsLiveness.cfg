SPECIFICATION FairSpec
CONSTANTS
    c1 = c1  c2 = c2  c3 = c3  p1 = p1  p2 = p2  k1 = k1  r1 = r1  r2 = r2
    NoKey = NoKey  Blank = Blank  NoRef = NoRef
    Creates = {c1, c2}
    Key <- NoKeys
    Ref <- TwoPayments
    Passes = {p1}
    Modes = {"real"}
    Retries = TRUE
    Mute = {r1}
CHECK_DEADLOCK FALSE
PROPERTY PaidIntentsGetReceipts
