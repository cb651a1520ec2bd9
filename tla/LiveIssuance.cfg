SPECIFICATION Spec
CONSTANTS
    Skews <- SomeSkews
    Horizon = 4
    Ttl = 2
    Max = 1
CHECK_DEADLOCK FALSE
INVARIANTS
    PaidMeansSettled
    OpenInvoiceStaysOpen
    CapturedTokenIsStored
    GrantsFollowSettlement
PROPERTY KeepsSale
