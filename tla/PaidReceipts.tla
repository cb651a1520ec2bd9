---------------------------- MODULE PaidReceipts ----------------------------
(***************************************************************************)
(* What the historical service promises about the receipts it sells,       *)
(* whoever issues them and whenever: a payment that is settled stays so,   *)
(* a receipt is stored for a settled payment only, one payment and one     *)
(* intent buy one receipt, a stored receipt is neither withdrawn nor       *)
(* replaced, and no token is answered or honoured but that of a stored     *)
(* receipt.  It says nothing of creates, passes, transactions, lookups or  *)
(* statuses, nor of who else held a token before its receipt was stored.   *)
(***************************************************************************)
CONSTANTS
    Payments,   \* the payments receipts can be bought with
    Intents,    \* the access intents
    Issuers     \* who may issue a receipt, and name it

VARIABLES
    paid,       \* the payments settled for good
    sold,       \* the stored receipts
    shown       \* the receipts whose token was answered or honoured

vars == <<paid, sold, shown>>

Receipts == [payment : Payments, intent : Intents, issuer : Issuers]

Init ==
    /\ paid \in SUBSET Payments
    /\ sold = {}
    /\ shown = {}

(* A payment is settled, for good.                                         *)
SettlePayment ==
    /\ paid' \in SUBSET Payments
    /\ paid \subseteq paid'
    /\ UNCHANGED <<sold, shown>>

(* A receipt is stored, for a settled payment that bought none yet; its    *)
(* token may be answered by whoever stored it.                             *)
Sell(r) ==
    /\ r.payment \in paid
    /\ \A s \in sold : s.payment # r.payment /\ s.intent # r.intent
    /\ sold' = sold \cup {r}
    /\ shown' \in {shown, shown \cup {r}}
    /\ UNCHANGED paid

(* The token of a stored receipt is answered, or honoured.                 *)
Show(r) ==
    /\ r \in sold
    /\ shown' = shown \cup {r}
    /\ UNCHANGED <<paid, sold>>

Next == SettlePayment \/ \E r \in Receipts : Sell(r) \/ Show(r)

Spec == Init /\ [][Next]_vars

=============================================================================
