----------------------------- MODULE FiberClient -----------------------------
(***************************************************************************)
(* The historical service's client of a Fiber node (integrations/fiber/    *)
(* real-fiber-client.ts) and the node it asks.  verifyPayment reads the    *)
(* clock, asks get_invoice and, if the answer has no status, get_payment;  *)
(* the node goes on between the two.  The node is external: an invoice it  *)
(* issued, a payment it made, or both (it pays itself), by the statuses    *)
(* that fiber-status-mapper.ts lists.  Times are in one unit.              *)
(***************************************************************************)
EXTENDS Integers

CONSTANTS
    Skews,      \* by how much the node's clock may differ from the host's
    Horizon     \* bound: the clock stops here

ASSUME ClockAssumption == Skews \subseteq Int /\ Horizon \in Nat

VARIABLES
    clock,      \* the host's clock
    skew,       \* what the node's clock is ahead of it
    invoice,    \* the node's invoice for the payment hash
    payment,    \* its payment
    touched,    \* the payment's last_updated_at, by the node's clock
    unread,     \* an invoice was there and its answer had no status (ghost)
    lookup      \* the verifyPayment under way, or its result

node == <<skew, invoice, payment, touched>>
clientVars == <<clock, node, unread, lookup>>

-----------------------------------------------------------------------------
Never == -100
Invoices == {"absent", "Open", "Received", "Paid", "Cancelled", "Expired"}
Payments == {"absent", "Created", "Inflight", "Success", "Failed"}
States == {"waiting", "payment_pending", "paid_verified", "expired", "failed",
           "unknown"}

NoLookup == [at |-> "idle", begun |-> 0, told |-> "waiting", settledAt |-> Never]
Lookups == [at : {"idle", "invoice", "payment", "answered", "threw"},
            begun : 0 .. Horizon, told : States, settledAt : Int]

ClientTypeOK ==
    /\ clock \in 0 .. Horizon /\ skew \in Skews
    /\ invoice \in Invoices /\ payment \in Payments
    /\ touched \in Int
    /\ unread \in BOOLEAN /\ lookup \in Lookups

ClientInit ==
    /\ clock = 0 /\ skew \in Skews
    /\ invoice \in {"absent", "Open"} /\ payment = "absent"
    /\ touched = 0
    /\ unread = FALSE /\ lookup = NoLookup

-----------------------------------------------------------------------------
(* The node.  The payee's side settles first; a failed payment gives the   *)
(* invoice back and may be tried again.                                    *)
Touch(p) == payment' = p /\ touched' = clock + skew

NodeStep ==
    /\ \/ /\ payment \in {"absent", "Failed"} /\ invoice \in {"absent", "Open"}
          /\ Touch("Created") /\ UNCHANGED invoice
       \/ payment = "Created" /\ Touch("Inflight") /\ UNCHANGED invoice
       \/ /\ invoice = "Open" /\ invoice' = "Received"
          /\ UNCHANGED <<payment, touched>>
       \/ /\ invoice = "Received" /\ payment \in {"absent", "Inflight"}
          /\ invoice' = "Paid"
          /\ UNCHANGED <<payment, touched>>
       \/ /\ payment = "Inflight" /\ invoice \in {"absent", "Paid"}
          /\ Touch("Success") /\ UNCHANGED invoice
       \/ /\ payment \in {"Created", "Inflight"} /\ invoice # "Paid"
          /\ Touch("Failed")
          /\ invoice' = IF invoice = "Received" THEN "Open" ELSE invoice
       \/ /\ invoice \in {"Open", "Received"} /\ invoice' \in {"Expired", "Cancelled"}
          /\ UNCHANGED <<payment, touched>>
    /\ UNCHANGED <<clock, skew, unread, lookup>>

Tick ==
    /\ clock < Horizon /\ clock' = clock + 1
    /\ UNCHANGED <<node, unread, lookup>>

-----------------------------------------------------------------------------
(* mapFiberRawStatus, by the words of the node and of the fake client.     *)
PendingWords == {"Open", "Received", "Created", "Inflight", "UNPAID"}
PaidWordsAndReceived == {"Paid", "Success", "PAID", "Received"}
PaidWords == {"Paid", "Success", "PAID"}
FailedWords == {"Failed", "Cancelled"}

StateOf(word) ==
    CASE word = "none" -> "waiting"
      [] word \in PaidWords -> "paid_verified"
      [] word \in PendingWords \ PaidWords -> "payment_pending"
      [] word = "Expired" -> "expired"
      [] word \in FailedWords -> "failed"
      [] OTHER -> "unknown"

(* buildVerificationResult: a payment that counts as paid is dated by the  *)
(* node's last_updated_at, else by the clock when the lookup began.        *)
Result(word, stamp) ==
    lookup' = [lookup EXCEPT
        !.at = "answered", !.told = StateOf(word),
        !.settledAt = IF StateOf(word) # "paid_verified" THEN Never
                      ELSE IF stamp = Never THEN lookup.begun ELSE stamp]

Throw == lookup' = [lookup EXCEPT !.at = "threw"]

(* verifyPayment.                                                          *)
BeginLookup == lookup' = [NoLookup EXCEPT !.at = "invoice", !.begun = clock]

(* A status ends the lookup; an answer without one (no such field, or a    *)
(* body that is no JSON) does not; an error of the node or of HTTP throws. *)
AnswerInvoiceIfPaid ==
    /\ lookup.at = "invoice"
    /\ \/ /\ invoice = "Paid" /\ Result(invoice, Never) /\ UNCHANGED unread
       \/ /\ invoice # "Paid" /\ lookup' = [lookup EXCEPT !.at = "payment"]
          /\ UNCHANGED unread
    /\ UNCHANGED <<clock, node>>

AnswerInvoice ==
    /\ lookup.at = "invoice"
    /\ \/ /\ invoice # "absent" /\ Result(invoice, Never) /\ UNCHANGED unread
       \/ /\ lookup' = [lookup EXCEPT !.at = "payment"]
          /\ unread' = (unread \/ invoice # "absent")
       \/ Throw /\ UNCHANGED unread
    /\ UNCHANGED <<clock, node>>

(* get_payment: its dates may be missing; one that is an integer but no    *)
(* date throws.                                                            *)
AnswerPayment ==
    /\ lookup.at = "payment"
    /\ \/ payment # "absent" /\ \E stamp \in {touched, Never} : Result(payment, stamp)
       \/ Result("none", Never)
       \/ Throw
    /\ UNCHANGED <<clock, node, unread>>

(* The client of the demo scripts: every lookup finds the payment settled. *)
FakeLookup ==
    /\ lookup.at = "invoice"
    /\ lookup' = [lookup EXCEPT !.at = "answered", !.told = StateOf("PAID"),
                                !.settledAt = lookup.begun]
    /\ UNCHANGED <<clock, node, unread>>

Ended == lookup.at \in {"answered", "threw"}

=============================================================================
