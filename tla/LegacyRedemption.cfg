SPECIFICATION Spec
CONSTANTS
    v1 = v1  v2 = v2  q1 = q1  q2 = q2  q3 = q3
    Verifies = {v1}
    Redeems = {q1, q2, q3}
    Max = 2
    Exp = 3
    Second = 2
    Horizon = 3
SYMMETRY Symmetry
CHECK_DEADLOCK FALSE
INVARIANTS
    CountIsUses
    GrantsAreLogged
    AnsweredCountCoversOwnUse
    DenialsAreFree
    SomeContenderWins
PROPERTIES
    ClosedStaysClosed
    KeepsPromise
