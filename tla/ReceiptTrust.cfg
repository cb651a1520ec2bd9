SPECIFICATION Spec
CONSTANTS
    n1 = n1  n2 = n2  p1 = p1  p2 = p2  p3 = p3
    Unusable = Unusable  None = None
    Names = {n1, n2}
    Pairs = {p1, p2, p3}
    MaxKeys = 3
    MaxEdits = 2
SYMMETRY Symmetry
CHECK_DEADLOCK FALSE
INVARIANTS
    ShownKeysAreTrusted
    AcceptedWereShown
