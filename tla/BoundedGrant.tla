---------------------------- MODULE BoundedGrant ----------------------------
(***************************************************************************)
(* What every FiberLatch store promises about a receipt, whatever its      *)
(* storage: the uses recorded for it only grow, never pass its maximum,    *)
(* stop for good once it is closed, and no host honours more uses than are *)
(* recorded.  It says nothing of locks, clocks, transactions or answers.   *)
(***************************************************************************)
EXTENDS Integers

CONSTANTS
    Receipts,   \* the receipts (one row each)
    Max         \* Max[r]: the uses the receipt r was issued with

VARIABLES
    used,       \* used[r]: the uses recorded for good
    honoured,   \* honoured[r]: the uses a host has answered with access
    closed      \* the receipts no further use may be recorded for

vars == <<used, honoured, closed>>

Init ==
    /\ used = [r \in Receipts |-> 0]
    /\ honoured = [r \in Receipts |-> 0]
    /\ closed = {}

(* Uses of one or more receipts are recorded, honoured, or both at once.   *)
Settle ==
    /\ used' \in [Receipts -> Nat]
    /\ honoured' \in [Receipts -> Nat]
    /\ \A r \in Receipts :
        /\ used[r] <= used'[r] /\ used'[r] <= Max[r]
        /\ r \in closed => used'[r] = used[r]
        /\ honoured[r] <= honoured'[r] /\ honoured'[r] <= used'[r]
    /\ UNCHANGED closed

(* A receipt is closed for good: revoked or expired.                       *)
Close ==
    /\ closed' \in SUBSET Receipts
    /\ closed \subseteq closed'
    /\ UNCHANGED <<used, honoured>>

Next == Settle \/ Close

Spec == Init /\ [][Next]_vars

=============================================================================
