-------------------------- MODULE LiveIssuanceProofs --------------------------
(***************************************************************************)
(* Safety of LiveIssuance for every difference of the clocks, every        *)
(* horizon, every lifetime of receipts and every number of uses.           *)
(***************************************************************************)
EXTENDS LiveIssuance, FiniteSetTheorems, TLAPS

Settled == invoice = "Paid" \/ payment = "Success"
Shut == unread \/ invoice \in {"absent", "Expired", "Cancelled"}
Early == {"start", "creating", "created", "reconciling", "asking", "invoicing"}

(* What a finished lookup said is still true of the node.                  *)
LookupInv ==
    /\ lookup.at = "payment" => unread \/ invoice = "absent"
    /\ lookup.at = "answered" /\ lookup.told = "paid_verified" =>
        /\ Fake \/ Settled
        /\ \/ lookup.settledAt = lookup.begun
           \/ payment = "Success" /\ lookup.settledAt = touched
    /\ lookup.at = "answered" /\ lookup.told \in {"expired", "failed"} => Shut

IntentInv ==
    /\ at \in {"start", "invoicing"} => lookup.at = "idle" /\ intent = "ABSENT"
    /\ intent \in {"VERIFIED", "RECEIPT_ISSUED"} => Fake \/ Settled
    /\ intent \in {"EXPIRED", "REJECTED"} => Shut

(* The token comes from the lookup, and the receipt from the token.        *)
TokenInv ==
    /\ token # NoToken =>
        /\ at \notin Early /\ lookup.at = "answered" /\ lookup.told = "paid_verified"
        /\ token.iat = lookup.settledAt /\ token.exp = token.iat + Ttl
    /\ at = "signed" => token # NoToken /\ receipt = NoReceipt
    /\ receipt # NoReceipt =>
        token # NoToken /\ receipt.iat = token.iat /\ receipt.exp = token.exp
    /\ at \in {"reconciled", "verify", "done"} \cup Redeeming /\ token # NoToken =>
        receipt # NoReceipt

(* Every grant is within the receipt's window and has its own use.         *)
GrantInv ==
    /\ IsFiniteSet(grants) /\ Cardinality(grants) <= receipt.count
    /\ \A g \in grants :
        receipt # NoReceipt /\ receipt.iat <= g.time /\ g.time < receipt.exp

FInv == TypeOK /\ LookupInv /\ IntentInv /\ TokenInv /\ GrantInv

-----------------------------------------------------------------------------
(* What is settled stays settled, what is shut stays shut.                 *)
LEMMA NodeGoesOn ==
    ASSUME NodeStep
    PROVE  /\ Settled => Settled'
           /\ payment = "Success" => payment' = "Success" /\ touched' = touched
           /\ invoice \in {"absent", "Expired", "Cancelled"} => invoice' = invoice
           /\ UNCHANGED <<clock, skew, unread, lookup>>
  BY DEF NodeStep, Touch, Settled

LEMMA NodeTypes ==
    ASSUME ClientTypeOK, NodeStep
    PROVE  ClientTypeOK'
  <1>1. /\ payment' \in Payments /\ invoice' \in Invoices
        /\ UNCHANGED <<clock, skew, unread, lookup>>
    BY DEF NodeStep, Touch, ClientTypeOK, Payments, Invoices
  <1>2. touched' = touched \/ touched' = clock + skew
    BY DEF NodeStep, Touch
  <1>3. clock \in Int /\ skew \in Int /\ touched \in Int
    BY ClockAssumption DEF ClientTypeOK
  <1>4. touched' \in Int
    BY <1>2, <1>3
  <1> QED BY <1>1, <1>4 DEF ClientTypeOK

LEMMA WordTypes ==
    /\ \A word \in Invoices \cup Payments \cup {"none", "PAID"} : StateOf(word) \in States
    /\ StateOf("PAID") = "paid_verified"
    /\ \A word \in Invoices : StateOf(word) = "paid_verified" <=> word = "Paid"
    /\ \A word \in Payments \cup {"none"} : StateOf(word) = "paid_verified" <=> word = "Success"
    /\ \A word \in Invoices :
        StateOf(word) \in {"expired", "failed"} => word \in {"Expired", "Cancelled"}
  BY DEF Invoices, Payments, StateOf, States, PaidWords, PendingWords, FailedWords

(* One answer of the node, or of the fake client.                          *)
LEMMA Asking ==
    ASSUME ClientTypeOK, LookupInv, Ask
    PROVE  /\ ClientTypeOK' /\ LookupInv'
           /\ lookup.at \in {"invoice", "payment"} /\ lookup'.at # "idle"
           /\ unread => unread'
           /\ UNCHANGED <<clock, node, script, at, Stored>>
  <1>0. /\ lookup \in Lookups /\ unread \in BOOLEAN /\ touched \in Int
        /\ invoice \in Invoices /\ payment \in Payments /\ Never \in Int
    BY DEF ClientTypeOK, Never
  <1>1. ASSUME NEW word, NEW stamp \in Int, Result(word, stamp), StateOf(word) \in States
        PROVE  /\ lookup' \in Lookups /\ lookup'.at = "answered"
               /\ lookup'.told = StateOf(word) /\ lookup'.begun = lookup.begun
               /\ StateOf(word) = "paid_verified" => lookup'.settledAt \in {lookup.begun, stamp}
               /\ StateOf(word) = "paid_verified" /\ stamp = Never =>
                        lookup'.settledAt = lookup.begun
    <2>1. lookup.begun \in Int
      BY <1>0 DEF Lookups
    <2> QED BY <1>0, <1>1, <2>1 DEF Result, Lookups
  <1>2. CASE Fake
    <2>1. /\ FakeLookup /\ UNCHANGED <<clock, node, unread, script, at, Stored>>
      BY <1>2 DEF Ask, FakeLookup
    <2>2. /\ lookup' \in Lookups /\ lookup'.at = "answered" /\ lookup'.told = "paid_verified"
          /\ lookup'.settledAt = lookup'.begun /\ lookup.at = "invoice"
      <3>1. lookup.begun \in Int
        BY <1>0 DEF Lookups
      <3> QED BY <1>0, <2>1, <3>1, WordTypes DEF FakeLookup, Lookups, States
    <2>3. ClientTypeOK'
      BY <2>1, <2>2 DEF ClientTypeOK, node
    <2>4. LookupInv'
      BY <1>2, <2>1, <2>2 DEF LookupInv, Fake
    <2> QED BY <2>1, <2>2, <2>3, <2>4
  <1>3. CASE ~Fake /\ AnswerInvoice
    <2>0. /\ UNCHANGED <<clock, node, script, at, Stored>> /\ lookup.at = "invoice"
          /\ unread' \in {unread, unread \/ invoice # "absent"}
      BY <1>3 DEF Ask, AnswerInvoice
    <2>1. unread' \in BOOLEAN /\ (unread => unread')
      BY <1>0, <2>0
    <2>2. CASE invoice # "absent" /\ Result(invoice, Never) /\ UNCHANGED unread
      <3>1. StateOf(invoice) \in States
        BY <1>0, WordTypes
      <3>2. ClientTypeOK'
        BY <1>0, <1>1, <2>0, <2>1, <2>2, <3>1 DEF ClientTypeOK, node
      <3>3. LookupInv'
        BY <1>0, <1>1, <2>0, <2>1, <2>2, <3>1, WordTypes DEF LookupInv, Settled, Shut, node
      <3>4. lookup'.at = "answered"
        BY <1>0, <1>1, <2>2, <3>1
      <3> QED BY <2>0, <2>1, <3>2, <3>3, <3>4
    <2>3. CASE /\ lookup' = [lookup EXCEPT !.at = "payment"]
               /\ unread' = (unread \/ invoice # "absent")
      <3>1. lookup' \in Lookups /\ lookup'.at = "payment"
        BY <1>0, <2>3 DEF Lookups
      <3> QED BY <2>0, <2>1, <2>3, <3>1 DEF ClientTypeOK, LookupInv, node
    <2>4. CASE Throw /\ UNCHANGED unread
      <3>1. lookup' \in Lookups /\ lookup'.at = "threw"
        BY <1>0, <2>4 DEF Lookups, Throw
      <3> QED BY <2>0, <2>1, <2>4, <3>1 DEF ClientTypeOK, LookupInv, node
    <2> QED BY <1>3, <2>2, <2>3, <2>4 DEF AnswerInvoice
  <1>4. CASE ~Fake /\ AnswerPayment
    <2>1. /\ UNCHANGED <<clock, node, unread, script, at, Stored>> /\ lookup.at = "payment"
          /\ unread \/ invoice = "absent"
      BY <1>4 DEF Ask, AnswerPayment, LookupInv
    <2>2. ASSUME NEW word \in {payment, "none"}, NEW stamp \in {touched, Never},
                 Result(word, stamp)
          PROVE  ClientTypeOK' /\ LookupInv' /\ lookup'.at = "answered"
      <3>1. StateOf(word) \in States /\ stamp \in Int
        BY <1>0, WordTypes
      <3>2. StateOf(word) = "paid_verified" => payment = "Success"
        BY <1>0, WordTypes
      <3>3. /\ lookup' \in Lookups /\ lookup'.at = "answered" /\ lookup'.told = StateOf(word)
            /\ StateOf(word) = "paid_verified" =>
                    lookup'.settledAt \in {lookup'.begun, touched}
        BY <1>1, <2>2, <3>1
      <3> QED BY <2>1, <3>2, <3>3 DEF ClientTypeOK, LookupInv, Settled, Shut, node
    <2>3. CASE Throw
      <3>1. lookup' \in Lookups /\ lookup'.at = "threw"
        BY <1>0, <2>3 DEF Lookups, Throw
      <3> QED BY <2>1, <3>1 DEF ClientTypeOK, LookupInv, node
    <2> QED BY <1>4, <2>1, <2>2, <2>3 DEF AnswerPayment
  <1> QED BY <1>2, <1>3, <1>4 DEF Ask

LEMMA Beginning ==
    ASSUME ClientTypeOK, BeginLookup, UNCHANGED Outside
    PROVE  ClientTypeOK' /\ LookupInv' /\ lookup'.at = "invoice"
  <1>1. lookup' = [at |-> "invoice", begun |-> clock, told |-> "waiting", settledAt |-> Never]
    BY DEF BeginLookup, NoLookup
  <1>2. Never \in Int /\ clock \in 0 .. Horizon /\ "waiting" \in States
    BY DEF Never, ClientTypeOK, States
  <1>3. lookup' \in Lookups /\ lookup'.at = "invoice"
    BY <1>1, <1>2 DEF Lookups
  <1> QED BY <1>3 DEF ClientTypeOK, LookupInv, Outside, node

-----------------------------------------------------------------------------
LEMMA FInvInitially == Init => FInv
  <1> SUFFICES ASSUME Init PROVE FInv
    OBVIOUS
  <1>1. /\ Never \in Int /\ 0 \in 0 .. Horizon /\ "waiting" \in States
        /\ Max \in Nat
    BY ClockAssumption, PositiveAssumption DEF Never, States
  <1>2. lookup \in Lookups /\ lookup.at = "idle"
    BY <1>1 DEF Init, ClientInit, NoLookup, Lookups
  <1>3. receipt = NoReceipt /\ receipt \in [iat : Int, exp : Int, count : 0 .. Max]
        /\ token = NoToken /\ token \in [iat : Int, exp : Int] /\ receipt.count = 0
    BY <1>1 DEF Init, NoReceipt, NoToken
  <1>4. TypeOK
    <2>1. ClientTypeOK
      <3>1. /\ clock = 0 /\ skew \in Skews /\ touched = 0 /\ unread = FALSE
            /\ invoice \in {"absent", "Open"} /\ payment = "absent"
        BY DEF Init, ClientInit
      <3>2. touched \in Int /\ clock \in 0 .. Horizon
        BY <1>1, <3>1
      <3> QED BY <1>2, <3>1, <3>2 DEF ClientTypeOK, Invoices, Payments
    <2> QED BY <1>3, <2>1 DEF Init, TypeOK, Places
  <1>5. LookupInv /\ IntentInv /\ TokenInv
    BY <1>2, <1>3 DEF Init, LookupInv, IntentInv, TokenInv
  <1>6. GrantInv
    <2>1. grants = {}
      BY DEF Init
    <2> QED BY <1>3, <2>1, FS_EmptySet DEF GrantInv
  <1> QED BY <1>4, <1>5, <1>6 DEF FInv

(* The node, the clock and the answers to the lookup: nothing of the       *)
(* service's own changes.                                                  *)
LEMMA OutsideKept ==
    ASSUME FInv,
           \/ NodeStep /\ UNCHANGED <<script, at, Stored>>
           \/ Tick /\ UNCHANGED <<script, at, Stored>>
           \/ Ask
    PROVE  FInv'
  <1> USE DEF FInv
  <1>1. CASE NodeStep /\ UNCHANGED <<script, at, Stored>>
    <2>1. /\ UNCHANGED <<script, at, intent, receipt, token, grants>>
          /\ UNCHANGED <<lookup, unread>> /\ ClientTypeOK'
          /\ Settled => Settled'
          /\ payment = "Success" => payment' = "Success" /\ touched' = touched
          /\ invoice \in {"absent", "Expired", "Cancelled"} => invoice' = invoice
      BY <1>1, NodeGoesOn, NodeTypes DEF TypeOK, Stored
    <2>2. TypeOK' /\ TokenInv' /\ GrantInv'
      BY <2>1 DEF TypeOK, TokenInv, GrantInv
    <2>3. (Fake => Fake') /\ (Shut => Shut')
      BY <2>1 DEF Fake, Shut
    <2>4. LookupInv'
      BY <2>1, <2>3 DEF LookupInv
    <2>5. IntentInv'
      BY <2>1, <2>3 DEF IntentInv
    <2> QED BY <2>2, <2>4, <2>5
  <1>2. CASE Tick /\ UNCHANGED <<script, at, Stored>>
    <2>1. /\ UNCHANGED <<script, at, intent, receipt, token, grants>>
          /\ UNCHANGED <<skew, invoice, payment, touched, lookup, unread>>
          /\ clock' \in 0 .. Horizon
      BY <1>2, ClockAssumption DEF Tick, node, Stored, TypeOK, ClientTypeOK
    <2> QED BY <2>1 DEF TypeOK, ClientTypeOK, LookupInv, IntentInv, TokenInv, GrantInv, Fake,
            Settled, Shut
  <1>3. CASE Ask
    <2>1. /\ UNCHANGED <<script, at, intent, receipt, token, grants>>
          /\ UNCHANGED <<skew, invoice, payment, touched, clock>>
          /\ unread => unread'
          /\ ClientTypeOK' /\ LookupInv' /\ lookup.at \in {"invoice", "payment"}
      BY <1>3, Asking DEF TypeOK, node, Stored
    <2>2. TypeOK' /\ GrantInv'
      BY <2>1 DEF TypeOK, GrantInv
    <2>3. IntentInv'
      BY <2>1 DEF IntentInv, Fake, Settled, Shut
    <2>4. TokenInv'
      BY <2>1 DEF TokenInv
    <2> QED BY <2>1, <2>2, <2>3, <2>4
  <1> QED BY <1>1, <1>2, <1>3

(* The requests before the receipt is signed, and the manual script.       *)
LEMMA EarlyKept ==
    ASSUME FInv, Start \/ ReportPayment \/ CreateInvoice \/ CreateAccessIntent \/ StartPass
    PROVE  FInv'
  <1> USE DEF FInv
  <1>0. /\ UNCHANGED <<clock, skew, payment, touched, unread, script, receipt, token, grants>>
        /\ at \in {"start", "asking", "invoicing", "creating", "created"}
        /\ at' \in {"failed", "asking", "invoicing", "creating", "done", "created",
                    "reconciling", "reconciled"}
    BY DEF Start, ReportPayment, CreateInvoice, CreateAccessIntent, StartPass, Go, Outside,
       Stored, clientVars, node
  <1>1. token = NoToken /\ receipt = NoReceipt
    BY <1>0 DEF TokenInv, Early
  <1>2. TokenInv' /\ GrantInv'
    BY <1>0, <1>1 DEF TokenInv, GrantInv
  <1>3. CASE Start
    <2>1. /\ UNCHANGED <<intent, invoice, Outside>> /\ at = "start"
          /\ UNCHANGED lookup \/ BeginLookup
          /\ at' = "invoicing" => UNCHANGED lookup
          /\ at' # "start"
      BY <1>3 DEF Start, Go, Outside, Stored, node
    <2>2. ClientTypeOK' /\ LookupInv'
      <3>1. CASE BeginLookup
        BY <2>1, <3>1, Beginning DEF TypeOK
      <3>2. CASE UNCHANGED lookup
        BY <1>0, <2>1, <3>2 DEF TypeOK, ClientTypeOK, LookupInv, Settled, Shut, Fake
      <3> QED BY <2>1, <3>1, <3>2
    <2>3. IntentInv'
      BY <2>1 DEF IntentInv, Outside, node
    <2> QED BY <1>0, <1>2, <2>1, <2>2, <2>3 DEF TypeOK, Places
  <1>4. CASE StartPass
    <2>1. /\ UNCHANGED <<intent, invoice, Outside>>
          /\ UNCHANGED lookup \/ BeginLookup
          /\ at' \in {"reconciling", "reconciled"}
      BY <1>4 DEF StartPass, Go, Outside, Stored, node
    <2>2. ClientTypeOK' /\ LookupInv'
      <3>1. CASE BeginLookup
        BY <2>1, <3>1, Beginning DEF TypeOK
      <3>2. CASE UNCHANGED lookup
        BY <1>0, <2>1, <3>2 DEF TypeOK, ClientTypeOK, LookupInv, Settled, Shut, Fake
      <3> QED BY <2>1, <3>1, <3>2
    <2>3. IntentInv'
      BY <1>0, <2>1 DEF IntentInv, Fake, Settled, Shut
    <2> QED BY <1>0, <1>2, <2>1, <2>2, <2>3 DEF TypeOK, Places
  <1>5. CASE CreateAccessIntent
    <2>1. /\ UNCHANGED <<invoice, lookup>> /\ Ended /\ at' \in {"failed", "created"}
          /\ \/ UNCHANGED intent
             \/ lookup.at = "answered" /\ intent' = IntentStatus(lookup.told)
      BY <1>5 DEF CreateAccessIntent, Go, clientVars, node, Ended
    <2>2. ClientTypeOK' /\ LookupInv'
      BY <1>0, <2>1 DEF TypeOK, ClientTypeOK, LookupInv, Settled, Shut, Fake
    <2>3. CASE UNCHANGED intent
      BY <1>0, <1>2, <2>1, <2>2, <2>3 DEF IntentInv, Fake, Settled, Shut, TypeOK, Places
    <2>4. CASE lookup.at = "answered" /\ intent' = IntentStatus(lookup.told)
      <3>1. /\ intent' \in {"PENDING_VERIFICATION", "VERIFIED", "EXPIRED", "REJECTED"}
            /\ intent' = "VERIFIED" => lookup.told = "paid_verified"
            /\ intent' \in {"EXPIRED", "REJECTED"} => lookup.told \in {"expired", "failed"}
        BY <2>4 DEF IntentStatus
      <3>2. IntentInv'
        BY <1>0, <2>1, <2>4, <3>1 DEF IntentInv, LookupInv, Fake, Settled, Shut
      <3> QED BY <1>0, <1>2, <2>1, <2>2, <3>1, <3>2 DEF TypeOK, Places
    <2> QED BY <2>1, <2>3, <2>4
  <1>6. CASE ReportPayment
    <2>1. UNCHANGED <<invoice, lookup, intent>> /\ at' \in {"done", "failed"}
      BY <1>6 DEF ReportPayment, Go, clientVars, node, Stored
    <2> QED BY <1>0, <1>2, <2>1 DEF TypeOK, ClientTypeOK, LookupInv, IntentInv, Settled, Shut, Fake, Places
  <1>7. CASE CreateInvoice
    <2>1. /\ at = "invoicing" /\ UNCHANGED <<intent, lookup>> /\ at' \in {"done", "failed"}
          /\ invoice' \in {invoice, "Open"}
      BY <1>7 DEF CreateInvoice, Go, Stored
    <2>2. lookup.at = "idle" /\ intent = "ABSENT"
      BY <2>1 DEF IntentInv
    <2>3. LookupInv' /\ IntentInv'
      BY <2>1, <2>2 DEF LookupInv, IntentInv
    <2>4. ClientTypeOK'
      BY <1>0, <2>1 DEF TypeOK, ClientTypeOK, Invoices
    <2> QED BY <1>0, <1>2, <2>1, <2>3, <2>4 DEF TypeOK, Places
  <1> QED BY <1>3, <1>4, <1>5, <1>6, <1>7

(* The pass signs and stores the receipt, or is rejected.                  *)
LEMMA PassKept ==
    ASSUME FInv, Reconcile \/ Commit
    PROVE  FInv'
  <1> USE DEF FInv
  <1>0. /\ UNCHANGED <<clientVars, script, grants>> /\ at \in {"reconciling", "signed"}
        /\ at' \in {"failed", "signed", "reconciled"}
    BY DEF Reconcile, Commit, Go
  <1>1. /\ UNCHANGED <<clock, skew, invoice, payment, touched, unread, lookup, script, grants>>
        /\ ClientTypeOK' /\ LookupInv' /\ (Fake' <=> Fake)
        /\ (Settled' <=> Settled) /\ (Shut' <=> Shut)
    BY <1>0 DEF clientVars, node, TypeOK, ClientTypeOK, LookupInv, Fake, Settled, Shut
  <1>2. CASE Reconcile
    <2>1. /\ token = NoToken /\ receipt = NoReceipt /\ UNCHANGED receipt
      BY <1>2 DEF Reconcile, TokenInv, Early, Redeeming
    <2>2. GrantInv'
      BY <1>1, <2>1 DEF GrantInv
    <2>3. CASE UNCHANGED token /\ at' # "signed"
      <3>1. TokenInv'
        BY <1>1, <2>1, <2>3 DEF TokenInv, Redeeming
      <3>2. \/ UNCHANGED intent
            \/ /\ lookup.at = "answered" /\ lookup.told \in {"expired", "failed"}
               /\ intent' \in {"EXPIRED", "REJECTED"}
        BY <1>2, <2>3 DEF Reconcile, IntentStatus, Go
      <3>3. IntentInv' /\ TypeOK'
        BY <1>0, <1>1, <2>1, <2>3, <3>2 DEF IntentInv, LookupInv, TypeOK, Places
      <3> QED BY <1>1, <2>2, <3>1, <3>3
    <2>4. CASE ~(UNCHANGED token /\ at' # "signed")
      <3>1. /\ lookup.at = "answered" /\ lookup.told = "paid_verified" /\ at' = "signed"
            /\ token' = [iat |-> lookup.settledAt, exp |-> lookup.settledAt + Ttl]
            /\ UNCHANGED intent
        BY <1>2, <2>4 DEF Reconcile, Sign, Go
      <3>2. lookup.settledAt \in Int /\ Ttl \in Nat \ {0}
        BY PositiveAssumption DEF TypeOK, ClientTypeOK, Lookups
      <3>3. token' \in [iat : Int, exp : Int] /\ token' # NoToken
        BY <3>1, <3>2 DEF NoToken, Never
      <3>4. TokenInv'
        BY <1>1, <2>1, <3>1, <3>3 DEF TokenInv, Early, Redeeming
      <3>5. IntentInv' /\ TypeOK'
        BY <1>1, <2>1, <3>1, <3>3 DEF IntentInv, TypeOK, Places
      <3> QED BY <1>1, <2>2, <3>4, <3>5
    <2> QED BY <2>3, <2>4
  <1>3. CASE Commit
    <2>1. /\ token # NoToken /\ receipt = NoReceipt /\ UNCHANGED token
          /\ lookup.at = "answered" /\ lookup.told = "paid_verified"
          /\ token.iat = lookup.settledAt /\ token.exp = token.iat + Ttl
      BY <1>3 DEF Commit, TokenInv
    <2>2. grants = {} /\ receipt.count = 0
      BY <2>1 DEF GrantInv, NoReceipt
    <2>3. CASE UNCHANGED <<receipt, intent>> /\ at' = "failed"
      BY <1>1, <2>1, <2>3 DEF TokenInv, GrantInv, IntentInv, TypeOK, Places, Early, Redeeming
    <2>4. CASE /\ receipt' = [iat |-> token.iat, exp |-> token.exp, count |-> 0]
               /\ intent' = "RECEIPT_ISSUED" /\ at' = "reconciled"
      <3>1. token.iat \in Int /\ Ttl \in Nat \ {0} /\ token.exp \in Int /\ Max \in Nat
        BY PositiveAssumption DEF TypeOK
      <3>2. receipt' \in [iat : Int, exp : Int, count : 0 .. Max]
        BY <2>4, <3>1
      <3>3. receipt' # NoReceipt
        BY <2>1, <2>4, <3>1 DEF NoReceipt, Never
      <3>4. receipt'.iat = token.iat /\ receipt'.exp = token.exp /\ receipt'.count = 0
        BY <2>4
      <3>5. TokenInv'
        BY <1>1, <2>1, <2>4, <3>3, <3>4 DEF TokenInv, Early, Redeeming
      <3>6. GrantInv'
        BY <1>1, <2>2, <3>4, FS_EmptySet DEF GrantInv
      <3>7. IntentInv' /\ TypeOK'
        BY <1>1, <2>1, <2>4, <3>2 DEF IntentInv, LookupInv, TypeOK, Places
      <3> QED BY <1>1, <3>5, <3>6, <3>7
    <2> QED BY <1>3, <2>3, <2>4 DEF Commit, Go
  <1> QED BY <1>2, <1>3

(* The uses of the receipt, and the ends of the script.                    *)
LEMMA LateKept ==
    ASSUME FInv, TakeToken \/ VerifyAccessReceipt \/ RedeemAccessReceipt
                 \/ FailRedemption \/ Fail
    PROVE  FInv'
  <1> USE DEF FInv
  <1>1. /\ UNCHANGED <<clock, skew, invoice, payment, touched, unread, lookup, script>>
        /\ UNCHANGED <<intent, token>>
    BY DEF TakeToken, VerifyAccessReceipt, RedeemAccessReceipt, FailRedemption, Fail,
       clientVars, node, Stored
  <1>2. ClientTypeOK' /\ LookupInv' /\ (Fake' <=> Fake) /\ (Settled' <=> Settled)
        /\ (Shut' <=> Shut)
    BY <1>1 DEF TypeOK, ClientTypeOK, LookupInv, Fake, Settled, Shut
  <1>3. /\ at' \in {"failed", "verify", "done"} \cup Redeeming
        /\ at' # "failed" => at \in {"reconciled", "verify"} \cup Redeeming
    BY DEF TakeToken, VerifyAccessReceipt, RedeemAccessReceipt, FailRedemption, Fail, Go,
       Redeeming
  <1>4. IntentInv'
    BY <1>1, <1>2, <1>3 DEF IntentInv, Redeeming
  <1>5. CASE UNCHANGED <<receipt, grants>>
    BY <1>1, <1>2, <1>3, <1>4, <1>5 DEF TokenInv, GrantInv, TypeOK, Places,
       Early, Redeeming
  <1>6. CASE ~UNCHANGED <<receipt, grants>>
    <2> DEFINE g == [time |-> clock, by |-> IF at = "redeem" THEN at ELSE "again"]
    <2>1. /\ Honoured /\ at \in Redeeming
          /\ receipt' = [receipt EXCEPT !.count = @ + 1]
          /\ grants' = grants \/ grants' = grants \cup {g}
      BY <1>6 DEF TakeToken, VerifyAccessReceipt, RedeemAccessReceipt, FailRedemption, Fail,
         Stored, Used
    <2>2. /\ receipt # NoReceipt /\ receipt.count < Max /\ Max \in Nat
          /\ token # NoToken /\ receipt.iat = token.iat /\ receipt.exp = token.exp
          /\ token.iat <= clock /\ clock < token.exp
          /\ receipt \in [iat : Int, exp : Int, count : 0 .. Max]
      BY <2>1, PositiveAssumption DEF Honoured, TokenInv, TypeOK
    <2>3. /\ receipt'.iat = receipt.iat /\ receipt'.exp = receipt.exp
          /\ receipt'.count = receipt.count + 1
          /\ receipt' \in [iat : Int, exp : Int, count : 0 .. Max]
      BY <2>1, <2>2
    <2>4. receipt' # NoReceipt
      BY <2>2, <2>3 DEF NoReceipt
    <2>5. TokenInv'
      BY <1>1, <1>3, <2>2, <2>3, <2>4 DEF TokenInv, Early, Redeeming
    <2>6. GrantInv'
      <3>1. g.time = clock
        OBVIOUS
      <3> HIDE DEF g
      <3>2. /\ IsFiniteSet(grants \cup {g}) /\ Cardinality(grants) \in Nat
            /\ \/ Cardinality(grants \cup {g}) = Cardinality(grants)
               \/ Cardinality(grants \cup {g}) = Cardinality(grants) + 1
        BY FS_AddElement, FS_CardinalityType DEF GrantInv
      <3>3. IsFiniteSet(grants') /\ Cardinality(grants') <= receipt'.count
        <4>1. IsFiniteSet(grants) /\ Cardinality(grants) <= receipt.count /\ receipt.count \in Nat
          BY <2>2 DEF GrantInv
        <4>2. CASE grants' = grants
          BY <2>3, <3>2, <4>1, <4>2
        <4>3. CASE grants' = grants \cup {g}
          BY <2>3, <3>2, <4>1, <4>3
        <4> QED BY <2>1, <4>2, <4>3
      <3>4. \A h \in grants' : receipt'.iat <= h.time /\ h.time < receipt'.exp
        BY <2>1, <2>2, <2>3, <3>1 DEF GrantInv
      <3> QED BY <2>4, <3>3, <3>4 DEF GrantInv
    <2>7. TypeOK'
      <3>1. g \in [time : 0 .. Horizon, by : {"redeem", "again"}]
        BY DEF TypeOK, ClientTypeOK
      <3> QED BY <1>1, <1>2, <1>3, <2>1, <2>3, <3>1 DEF TypeOK, Places, Redeeming
    <2> QED BY <1>2, <1>4, <2>5, <2>6, <2>7
  <1> QED BY <1>5, <1>6

LEMMA FInvKept == FInv /\ [Next]_vars => FInv'
  <1> SUFFICES ASSUME FInv, [Next]_vars PROVE FInv'
    OBVIOUS
  <1>1. CASE UNCHANGED vars
    BY <1>1 DEF vars, clientVars, node, FInv, TypeOK, ClientTypeOK, LookupInv, IntentInv,
       TokenInv, GrantInv, Fake, Settled, Shut
  <1> QED BY <1>1, OutsideKept, EarlyKept, PassKept, LateKept DEF Next, ScriptStep

(* The invariant, and the types, hold in every reachable state.            *)
THEOREM Invariance == Spec => []FInv
  BY FInvInitially, FInvKept, PTL DEF Spec

-----------------------------------------------------------------------------
(* An intent is verified or has its receipt only if the node has settled   *)
(* the invoice or the payment.                                             *)
THEOREM PaidIsSettled == Spec => []PaidMeansSettled
  <1>1. FInv => PaidMeansSettled
    BY DEF FInv, IntentInv, PaidMeansSettled, Settled
  <1> QED BY <1>1, Invariance, PTL

(* An intent is closed only if its invoice is, or was never readable.      *)
THEOREM OpenStaysOpen == Spec => []OpenInvoiceStaysOpen
  <1>1. FInv => OpenInvoiceStaysOpen
    BY DEF FInv, IntentInv, OpenInvoiceStaysOpen, Shut
  <1> QED BY <1>1, Invariance, PTL

(* Past the pass, the captured token is the stored receipt's.              *)
THEOREM TokenIsStored == Spec => []CapturedTokenIsStored
  <1>1. FInv => CapturedTokenIsStored
    BY DEF FInv, TypeOK, TokenInv, CapturedTokenIsStored, Redeeming
  <1> QED BY <1>1, Invariance, PTL

(* Every grant is within Ttl of the settlement or of the lookup that found *)
(* it, and there are at most Max.                                          *)
THEOREM GrantsFollow == Spec => []GrantsFollowSettlement
  <1>1. FInv => GrantsFollowSettlement
    <2> SUFFICES ASSUME FInv PROVE GrantsFollowSettlement
      OBVIOUS
    <2>1. Cardinality(grants) <= Max
      <3>1. /\ Cardinality(grants) \in Nat /\ Cardinality(grants) <= receipt.count
            /\ receipt.count \in 0 .. Max /\ Max \in Nat
        BY FS_CardinalityType, PositiveAssumption DEF FInv, GrantInv, TypeOK
      <3> QED BY <3>1
    <2>2. ASSUME NEW g \in grants
          PROVE  /\ receipt.iat <= g.time
                 /\ \/ g.time < lookup.begun + Ttl
                    \/ payment = "Success" /\ g.time < touched + Ttl
      <3>1. /\ receipt.iat <= g.time /\ g.time < receipt.exp
            /\ receipt.exp = lookup.settledAt + Ttl
            /\ lookup.at = "answered" /\ lookup.told = "paid_verified"
        BY DEF FInv, GrantInv, TokenInv
      <3> QED BY <3>1 DEF FInv, LookupInv
    <2> QED BY <2>1, <2>2 DEF GrantsFollowSettlement
  <1> QED BY <1>1, Invariance, PTL

-----------------------------------------------------------------------------
(* The refinement.  Redemptions alone use the receipt and grant access.    *)
LEMMA UseOrNot ==
    ASSUME FInv, FInv', [Next]_vars
    PROVE  /\ \/ UNCHANGED <<receipt, grants>>
              \/ /\ receipt # NoReceipt /\ receipt' # NoReceipt
                 /\ receipt'.count = receipt.count + 1 /\ grants \subseteq grants'
              \/ /\ receipt = NoReceipt /\ receipt'.count = 0 /\ UNCHANGED grants
                 /\ at = "signed"
           /\ ~UNCHANGED <<receipt, grants>> =>
                 UNCHANGED <<script, invoice, payment>>
  <1>1. CASE UNCHANGED <<receipt, grants>>
    BY <1>1
  <1>2. CASE (RedeemAccessReceipt \/ FailRedemption) /\ ~UNCHANGED <<receipt, grants>>
    <2>1. /\ receipt # NoReceipt /\ receipt' = [receipt EXCEPT !.count = @ + 1]
          /\ grants \subseteq grants' /\ UNCHANGED <<script, invoice, payment>>
      BY <1>2 DEF RedeemAccessReceipt, FailRedemption, Honoured, Used, clientVars, node
    <2>2. receipt \in [iat : Int, exp : Int, count : 0 .. Max] /\ Max \in Nat
      BY PositiveAssumption DEF FInv, TypeOK
    <2>3. receipt'.count = receipt.count + 1 /\ receipt.count \in Nat
      BY <2>1, <2>2
    <2>4. receipt' # NoReceipt
      BY <2>3 DEF NoReceipt
    <2> QED BY <2>1, <2>3, <2>4
  <1>3. CASE Commit /\ ~UNCHANGED <<receipt, grants>>
    <2>1. receipt = NoReceipt /\ at = "signed"
      BY <1>3 DEF Commit, FInv, TokenInv
    <2> QED BY <1>3, <2>1 DEF Commit, clientVars, node
  <1>4. CASE ~RedeemAccessReceipt /\ ~FailRedemption /\ ~Commit
    BY <1>4 DEF Next, ScriptStep, Start, ReportPayment, CreateInvoice, Ask,
       CreateAccessIntent, StartPass, Reconcile, TakeToken, VerifyAccessReceipt, Fail,
       Stored, vars
  <1> QED BY <1>1, <1>2, <1>3, <1>4

(* What is settled, or taken for settled by the fake client, stays so.     *)
LEMMA SettledStays ==
    ASSUME FInv, [Next]_vars, Fake \/ Settled
    PROVE  (Fake \/ Settled)'
  <1>1. CASE NodeStep /\ UNCHANGED <<script, at, Stored>>
    BY <1>1, NodeGoesOn DEF Fake
  <1>2. CASE CreateInvoice
    <2>1. script' = script /\ payment' = payment /\ (invoice' = invoice \/ invoice = "absent")
      BY <1>2 DEF CreateInvoice
    <2> QED BY <2>1 DEF Fake, Settled
  <1>3. CASE Ask
    <2>1. UNCHANGED <<node, script>>
      BY <1>3, Asking DEF FInv, TypeOK
    <2> QED BY <2>1 DEF node, Fake, Settled
  <1>4. CASE UNCHANGED <<script, invoice, payment>>
    BY <1>4 DEF Fake, Settled
  <1> QED BY <1>1, <1>2, <1>3, <1>4 DEF Next, ScriptStep, Tick, Start, ReportPayment,
          CreateAccessIntent, StartPass, Reconcile, Commit, TakeToken,
          VerifyAccessReceipt, RedeemAccessReceipt, FailRedemption, Fail, Outside,
          clientVars, node, vars

(* It implements PaidReceipts: its receipt is stored after the settlement, *)
(* once, and a token without a stored receipt is never honoured.           *)
THEOREM SaleIsKept == Spec => KeepsSale
  <1>1. Init => Sale!Init
    BY DEF Init, Sale!Init
  <1>2. FInv /\ FInv' /\ [Next]_vars => [Sale!Next]_(Sale!vars)
    <2> SUFFICES ASSUME FInv, FInv', [Next]_vars PROVE [Sale!Next]_(Sale!vars)
      OBVIOUS
    <2> DEFINE paid == IF Fake \/ invoice = "Paid" \/ payment = "Success"
                       THEN {"hash"} ELSE {}
               sold == IF receipt # NoReceipt THEN {Bought} ELSE {}
               shown == IF grants # {} THEN {Bought} ELSE {}
    <2>0. /\ Bought \in Sale!Receipts /\ Bought.payment = "hash"
          /\ grants # {} => receipt # NoReceipt
      BY DEF Bought, Sale!Receipts, FInv, GrantInv
    <2>1. CASE UNCHANGED <<receipt, grants>>
      <3>1. Fake \/ Settled => (Fake \/ Settled)'
        BY SettledStays
      <3>2. paid \subseteq paid' /\ paid' \in SUBSET {"hash"}
        BY <3>1 DEF Settled
      <3>3. UNCHANGED <<sold, shown>>
        BY <2>1 DEF Bought
      <3> QED BY <3>2, <3>3 DEF Sale!Next, Sale!SettlePayment
    <2>2. CASE /\ receipt # NoReceipt /\ receipt' # NoReceipt
               /\ UNCHANGED <<script, invoice, payment>> /\ grants \subseteq grants'
      <3>1. paid' = paid /\ sold' = sold /\ Bought \in sold
        BY <2>2 DEF Fake, Bought
      <3>2. shown' = shown \/ shown' = shown \cup {Bought}
        BY <2>2 DEF Bought
      <3>3. CASE shown' = shown
        BY <3>1, <3>3 DEF Sale!vars
      <3>4. CASE shown' = shown \cup {Bought}
        BY <2>0, <3>1, <3>4 DEF Sale!Next, Sale!Show
      <3> QED BY <3>2, <3>3, <3>4
    <2>3. CASE /\ receipt = NoReceipt /\ ~UNCHANGED <<receipt, grants>>
               /\ UNCHANGED grants /\ at = "signed"
               /\ UNCHANGED <<script, invoice, payment>>
      <3>1. Fake \/ Settled
        BY <2>3 DEF FInv, TokenInv, LookupInv
      <3>2. "hash" \in paid /\ paid' = paid /\ shown' = shown
        BY <2>3, <3>1 DEF Settled, Fake, Bought
      <3>3. sold = {} /\ sold' = sold \cup {Bought}
        BY <2>3 DEF Bought
      <3>4. Sale!Sell(Bought)
        BY <2>0, <3>2, <3>3 DEF Sale!Sell
      <3> QED BY <2>0, <3>4 DEF Sale!Next
    <2> QED BY <2>1, <2>2, <2>3, UseOrNot
  <1> QED BY <1>1, <1>2, Invariance, PTL DEF Spec, KeepsSale, Sale!Spec

=============================================================================
