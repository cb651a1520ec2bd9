---------------------------- MODULE LiveIssuance ----------------------------
(***************************************************************************)
(* The historical service from end to end, as the scripts of scripts/ run  *)
(* it: one process with a fresh database creates an access intent for a    *)
(* payment, reconciles once, takes the receipt's token from its own signer *)
(* (reconciliation drops it), verifies it and redeems it twice, while the  *)
(* Fiber node of FiberClient and the clock go on.  Its requests are made   *)
(* one after the other, so each handler is one step here; LegacyIntents    *)
(* and LegacyRedemption take them apart.                                   *)
(***************************************************************************)
EXTENDS FiberClient, FiniteSets

CONSTANTS
    Ttl,        \* receiptTtlSeconds
    Max         \* defaultMaxRedemptions

ASSUME PositiveAssumption == Ttl \in Nat \ {0} /\ Max \in Nat \ {0}

VARIABLES
    script,     \* which script runs
    at,         \* where it is
    intent,     \* the stored intent's status
    receipt,    \* the stored receipt, or NoReceipt
    token,      \* capturedReceiptToken: the claims signed last, or NoToken
    grants      \* when access was granted, and by which redemption

vars == <<clientVars, script, at, intent, receipt, token, grants>>

-----------------------------------------------------------------------------
(* demo-local-access, demo-protected-resource, demo-live-paid-issuance and *)
(* fiber-testnet-verify; the first two run on the fake client's answers.   *)
Scripts == {"local", "protected", "live", "manual"}
Fake == script \in {"local", "protected"}

Places == {"start", "creating", "created", "reconciling", "signed",
           "reconciled", "verify", "redeem", "again", "doomed", "asking",
           "invoicing", "done", "failed"}
Ends == {"done", "failed"}
Redeeming == {"redeem", "again", "doomed"}
NoToken == [iat |-> Never, exp |-> Never]
NoReceipt == [iat |-> Never, exp |-> Never, count |-> 0]

TypeOK ==
    /\ ClientTypeOK
    /\ script \in Scripts /\ at \in Places
    /\ intent \in {"ABSENT", "PENDING_VERIFICATION", "VERIFIED",
                   "RECEIPT_ISSUED", "EXPIRED", "REJECTED"}
    /\ receipt \in [iat : Int, exp : Int, count : 0 .. Max]
    /\ token \in [iat : Int, exp : Int]
    /\ grants \subseteq [time : 0 .. Horizon, by : {"redeem", "again"}]

Init ==
    /\ ClientInit
    /\ script \in Scripts /\ at = "start"
    /\ intent = "ABSENT" /\ receipt = NoReceipt
    /\ token = NoToken /\ grants = {}

Go(place) == at' = place
Stored == <<intent, receipt, token, grants>>
Outside == <<clock, node, unread>>

-----------------------------------------------------------------------------
(* ensureLiveTestEnv and readManualPaymentHash: what the environment asks  *)
(* of the manual script.                                                   *)
Environments == [hash : {"none", "h"}, ref : {"none", "h", "other"},
                 amount : {"none", "positive", "malformed"}, memo : BOOLEAN]
Contradicts(env) == env.hash # "none" /\ env.ref # "none" /\ env.hash # env.ref
Named(env) == env.hash # "none" \/ env.ref # "none"
Refuses(env) ==
    \/ Contradicts(env)
    \/ Named(env) <=> env.amount # "none"
    \/ env.amount # "none" /\ ~env.memo
    \/ env.amount = "malformed"

(* Each script prepares its database and builds the app without listening. *)
Start ==
    /\ at = "start"
    /\ \/ script = "manual" /\ \E env \in Environments :
            IF Refuses(env) THEN Go("failed") /\ UNCHANGED lookup
            ELSE IF Named(env) THEN Go("asking") /\ BeginLookup
            ELSE Go("invoicing") /\ UNCHANGED lookup
       \/ script # "manual" /\ Go("creating") /\ BeginLookup
    /\ UNCHANGED <<Outside, script, Stored>>

(* fiber-testnet-verify prints what verifyPayment found, or creates an     *)
(* invoice: the answer must have its address and its hash.                 *)
ReportPayment ==
    /\ at = "asking" /\ Ended
    /\ Go(IF lookup.at = "answered" THEN "done" ELSE "failed")
    /\ UNCHANGED <<clientVars, script, Stored>>

CreateInvoice ==
    /\ at = "invoicing"
    /\ \/ /\ invoice = "absent" /\ invoice' = "Open"
          /\ Go("done") \/ Go("failed")
       \/ Go("failed") /\ UNCHANGED invoice
    /\ UNCHANGED <<clock, skew, payment, touched, unread, lookup,
                   script, Stored>>

-----------------------------------------------------------------------------

(* mapFiberRawStatus once more: the status of the intent.                  *)
IntentStatus(told) ==
    CASE told = "paid_verified" -> "VERIFIED"
      [] told = "expired" -> "EXPIRED"
      [] told = "failed" -> "REJECTED"
      [] OTHER -> "PENDING_VERIFICATION"

(* POST /v1/access-intents: only 201 lets the script go on.  The client's  *)
(* mode is real, so no receipt is issued yet.                              *)
CreateAccessIntent ==
    /\ at = "creating" /\ Ended
    /\ IF lookup.at = "threw" THEN Go("failed") /\ UNCHANGED intent
       ELSE intent' = IntentStatus(lookup.told) /\ Go("created")
    /\ UNCHANGED <<clientVars, script, receipt, token, grants>>

(* worker.runOnce: the intent is a candidate while it is open.             *)
StartPass ==
    /\ at = "created"
    /\ IF intent \in {"PENDING_VERIFICATION", "VERIFIED"}
       THEN Go("reconciling") /\ BeginLookup
       ELSE Go("reconciled") /\ UNCHANGED lookup
    /\ UNCHANGED <<Outside, script, Stored>>

SignFromNow ==
    token' = [iat |-> lookup.settledAt, exp |-> clock + Ttl]

(* The receipt is dated by the settlement; the script's signer keeps the   *)
(* token in passing.                                                       *)
Sign == token' = [iat |-> lookup.settledAt, exp |-> lookup.settledAt + Ttl]

ReconcileUnlessClosed ==
    /\ at = "reconciling" /\ Ended
    /\ IF lookup.at = "answered" /\ lookup.told \notin {"expired", "failed"}
       THEN Sign /\ Go("signed") ELSE Go("failed") /\ UNCHANGED token
    /\ UNCHANGED <<clientVars, script, intent, receipt, grants>>

Reconcile ==
    /\ at = "reconciling" /\ Ended
    /\ \/ /\ lookup.at = "threw"
          /\ Go("failed") /\ UNCHANGED <<intent, token>>
       \/ /\ lookup.at = "answered" /\ lookup.told = "paid_verified"
          /\ Sign /\ Go("signed") /\ UNCHANGED intent
       \/ /\ lookup.at = "answered" /\ lookup.told # "paid_verified"
          /\ intent' = IF lookup.told \in {"expired", "failed"}
                       THEN IntentStatus(lookup.told) ELSE intent
          /\ Go("reconciled") /\ UNCHANGED token
    /\ UNCHANGED <<clientVars, script, receipt, grants>>

(* Mutation of Commit: the pass swallows a transaction that fails.         *)
CommitOrGoOn ==
    /\ at = "signed" /\ Go("reconciled")
    /\ \/ /\ receipt' = [iat |-> token.iat, exp |-> token.exp, count |-> 0]
          /\ intent' = "RECEIPT_ISSUED"
       \/ UNCHANGED <<receipt, intent>>
    /\ UNCHANGED <<clientVars, script, token, grants>>

(* The transaction stores the receipt, or runOnce rejects.                 *)
Commit ==
    /\ at = "signed"
    /\ \/ /\ receipt' = [iat |-> token.iat, exp |-> token.exp, count |-> 0]
          /\ intent' = "RECEIPT_ISSUED"
          /\ Go("reconciled")
       \/ Go("failed") /\ UNCHANGED <<receipt, intent>>
    /\ UNCHANGED <<clientVars, script, token, grants>>

TakeToken ==
    /\ at = "reconciled"
    /\ Go(IF token = NoToken THEN "failed"
          ELSE IF script = "protected" THEN "redeem" ELSE "verify")
    /\ UNCHANGED <<clientVars, script, Stored>>

(* POST /v1/receipts/verify answers 200 whatever it finds.                 *)
VerifyAccessReceipt ==
    /\ at = "verify" /\ Go("redeem")
    /\ UNCHANGED <<clientVars, script, Stored>>

(* POST /v1/receipts/redeem, twice; it answers 200 whether or not access   *)
(* is granted.  The signer and the stored receipt have the same window.    *)
Honoured ==
    /\ token.iat <= clock /\ clock < token.exp
    /\ receipt # NoReceipt /\ receipt.count < Max
Used == [receipt EXCEPT !.count = @ + 1]

(* The local script reads the stored receipt afterwards, which may fail.   *)
RedeemAccessReceipt ==
    /\ at \in Redeeming
    /\ IF Honoured
       THEN /\ receipt' = Used
            /\ grants' = grants \cup
                   {[time |-> clock, by |-> IF at = "redeem" THEN at ELSE "again"]}
       ELSE UNCHANGED <<receipt, grants>>
    /\ \/ at = "redeem" /\ Go("again")
       \/ at = "again" /\ Go("done")
       \/ at = "doomed" /\ Go("failed")
       \/ at = "again" /\ script = "local" /\ Go("failed")
    /\ UNCHANGED <<clientVars, script, intent, token>>

(* A redemption answers 500, with or without having recorded its use (the  *)
(* event log, written after it, may fail).  The live script looks at the   *)
(* first answer's status alone; the local script goes on too, and ends in  *)
(* an error when it reads the answer.                                      *)
FailRedemption ==
    /\ at \in Redeeming
    /\ \/ UNCHANGED receipt
       \/ Honoured /\ receipt' = Used
    /\ Go(IF at = "again" /\ script = "live" THEN "done"
          ELSE IF at = "redeem" /\ script = "local" THEN "doomed" ELSE "failed")
    /\ UNCHANGED <<clientVars, script, intent, token, grants>>

(* Any other call may fail (500, or no such field in its body); the script *)
(* closes the app, removes its database and exits with 1.                  *)
Fail ==
    /\ at \notin Ends \cup Redeeming /\ Go("failed")
    /\ UNCHANGED <<clientVars, script, Stored>>

-----------------------------------------------------------------------------
Ask ==
    /\ IF Fake THEN FakeLookup ELSE AnswerInvoice \/ AnswerPayment
    /\ UNCHANGED <<script, at, Stored>>

ScriptStep ==
    \/ Start \/ ReportPayment \/ CreateInvoice
    \/ Ask \/ CreateAccessIntent \/ StartPass \/ Reconcile \/ Commit
    \/ TakeToken \/ VerifyAccessReceipt \/ RedeemAccessReceipt \/ FailRedemption

Next ==
    \/ ScriptStep \/ Fail
    \/ (NodeStep \/ Tick) /\ UNCHANGED <<script, at, Stored>>

Spec == Init /\ [][Next]_vars

-----------------------------------------------------------------------------
(* No receipt without money: an intent is VERIFIED or has its receipt only *)
(* when the node has settled the invoice or the payment for good, whatever *)
(* it was told in between and however often a failed payment was retried.  *)
PaidMeansSettled ==
    intent \in {"VERIFIED", "RECEIPT_ISSUED"} /\ ~Fake =>
        invoice = "Paid" \/ payment = "Success"

(* An intent is closed by its invoice: it is EXPIRED or REJECTED only if   *)
(* the invoice is, unless a lookup could not read the invoice's status and *)
(* judged it by a payment that may yet be retried.                         *)
OpenInvoiceStaysOpen ==
    intent \in {"EXPIRED", "REJECTED"} /\ invoice # "absent" /\ ~unread =>
        invoice \in {"Expired", "Cancelled"}

(* What the script takes for its receipt is the receipt of the database:   *)
(* past the pass, a captured token is that of a stored receipt.            *)
CapturedTokenIsStored ==
    at \in {"verify", "done"} \cup Redeeming /\ token # NoToken =>
        token = [iat |-> receipt.iat, exp |-> receipt.exp]

(* A receipt is good for Ttl from the settlement or, when the node gives   *)
(* no date for it, from the lookup that found it: however long the pass    *)
(* took, and whatever the clocks' difference, no grant is later, none is   *)
(* before the date it bears, and there are at most Max.                    *)
GrantsFollowSettlement ==
    /\ Cardinality(grants) <= Max
    /\ \A g \in grants :
        /\ receipt.iat <= g.time
        /\ \/ g.time < lookup.begun + Ttl
           \/ payment = "Success" /\ g.time < touched + Ttl

(* The service, driven end to end, keeps the promise of PaidReceipts: the  *)
(* receipt is stored once, after the node has settled the payment (the     *)
(* fake client's always is), and a token is honoured only when its receipt *)
(* is stored.  The script itself holds the token from Sign on, before the  *)
(* transaction that stores the receipt has ended.                          *)
Bought == [payment |-> "hash", intent |-> "intent", issuer |-> "pass"]
Sale == INSTANCE PaidReceipts WITH
    Payments <- {"hash"},
    Intents <- {"intent"},
    Issuers <- {"pass"},
    paid <- IF Fake \/ invoice = "Paid" \/ payment = "Success" THEN {"hash"} ELSE {},
    sold <- IF receipt # NoReceipt THEN {Bought} ELSE {},
    shown <- IF grants # {} THEN {Bought} ELSE {}
KeepsSale == Sale!Spec

=============================================================================
