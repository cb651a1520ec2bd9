SPECIFICATION Spec
CONSTANTS
    v1 = v1  v2 = v2  q1 = q1  q2 = q2  q3 = q3
    Verifies = {v1}
    Redeems = {q1, q2}
    Max = 1
    Exp = 3
    Second = 2
    Horizon = 3
CHECK_DEADLOCK FALSE
PROPERTY TerminalStatusesAreFinal
