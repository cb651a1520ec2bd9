SPECIFICATION Spec
CONSTANT
    TestAmounts <- ScriptAmounts
CHECK_DEADLOCK FALSE
INVARIANTS
    SpendingIsReported
    PaidReachedIsPaid
