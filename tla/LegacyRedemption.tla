-------------------------- MODULE LegacyRedemption --------------------------
(***************************************************************************)
(* The historical service: verifyAccessReceipt and redeemAccessReceipt of  *)
(* src/services/fiber-latch-service.ts on one stored receipt.  Requests    *)
(* run concurrently and no transaction spans their database calls, so each *)
(* await is a step: between two of them any other request may run, time    *)
(* may pass and the process may fail.                                      *)
(***************************************************************************)
EXTENDS Integers, FiniteSets

CONSTANTS
    Verifies,   \* requests that call verifyAccessReceipt
    Redeems,    \* requests that call redeemAccessReceipt
    Max,        \* maxRedemptions of the receipt
    Exp,        \* its exp, in milliseconds
    Second,     \* the milliseconds of a second
    Horizon     \* bound: the clock stops here

Requests == Verifies \cup Redeems

ASSUME KindAssumption == Verifies \cap Redeems = {}
ASSUME NumberAssumption ==
    /\ Max \in Nat \ {0} /\ Exp \in Nat /\ Second \in Nat \ {0}
    /\ Horizon \in Nat

VARIABLES
    row,        \* the receipt: status, active, redemptionCount
    clock,      \* Date.now()
    pc,         \* pc[q]: the await the request is at
    seen,       \* seen[q]: the row as the request last read it
    now,        \* now[q]: the time the request last captured
    reply,      \* reply[q]: its answer, or NoReply
    logged,     \* logged[q]: the events it appended to the event log
    slot        \* slot[q]: the count its own use produced, 0 before

vars == <<row, clock, pc, seen, now, reply, logged, slot>>

-----------------------------------------------------------------------------
Statuses == {"ISSUED", "EXHAUSTED", "REVOKED", "EXPIRED"}
Rows == [status : Statuses, active : BOOLEAN, count : Nat]
Fresh == [status |-> "ISSUED", active |-> TRUE, count |-> 0]

Steps == {"start", "jwt", "lookup", "check", "expire", "read", "update",
          "reread", "explain", "log", "logLast", "done"}
Verdicts == {"VERIFIED", "GRANTED", "RECEIPT_EXPIRED", "RECEIPT_NOT_ACTIVE",
             "RECEIPT_CLAIMS_MISMATCH", "FAILED"}
NoReply == [verdict |-> "none"]
Replies == {NoReply} \cup [verdict : Verdicts, row : Rows]

Events == {"ACCESS_RECEIPT_VERIFIED", "ACCESS_RECEIPT_REDEEMED",
           "ACCESS_RECEIPT_REDEMPTION_REJECTED"}

TypeOK ==
    /\ row \in Rows
    /\ clock \in 0 .. Horizon
    /\ pc \in [Requests -> Steps]
    /\ seen \in [Requests -> Rows]
    /\ now \in [Requests -> 0 .. Horizon]
    /\ reply \in [Requests -> Replies]
    /\ logged \in [Requests -> SUBSET Events]
    /\ slot \in [Requests -> Nat]

Init ==
    /\ row = Fresh
    /\ clock = 0
    /\ pc = [q \in Requests |-> "start"]
    /\ seen = [q \in Requests |-> Fresh]
    /\ now = [q \in Requests |-> 0]
    /\ reply = [q \in Requests |-> NoReply]
    /\ logged = [q \in Requests |-> {}]
    /\ slot = [q \in Requests |-> 0]

-----------------------------------------------------------------------------
(* The exp claim is cut to whole seconds and compared with the current     *)
(* second; the row's exp is compared to the millisecond.                   *)
Seconds(t) == t \div Second
TokenExpired(t) == Seconds(Exp) <= Seconds(t)
IsIsoDateExpired(t) == Exp <= t

Goto(q, step) == pc' = [pc EXCEPT ![q] = step]

(* The answer ends the request, and its locals go with it.                 *)
Answer(q, verdict, r) ==
    /\ Goto(q, "done")
    /\ reply' = [reply EXCEPT ![q] = [verdict |-> verdict, row |-> r]]
    /\ seen' = [seen EXCEPT ![q] = Fresh]
    /\ now' = [now EXCEPT ![q] = 0]
Log(q, e) == logged' = [logged EXCEPT ![q] = @ \cup {e}]
Read(q) == seen' = [seen EXCEPT ![q] = row]
Capture(q) == now' = [now EXCEPT ![q] = clock]

(* A redemption captures its time before its token is verified.            *)
Start(q) ==
    /\ pc[q] = "start"
    /\ Goto(q, "jwt") /\ Capture(q)
    /\ UNCHANGED <<row, clock, seen, reply, logged, slot>>

(* receiptSigner.verify: only its expiry changes with time.                *)
VerifyToken(q) ==
    /\ pc[q] = "jwt"
    /\ IF TokenExpired(clock)
       THEN Answer(q, "RECEIPT_EXPIRED", Fresh)
       ELSE Goto(q, "lookup") /\ UNCHANGED <<reply, seen, now>>
    /\ UNCHANGED <<row, clock, logged, slot>>

(* getAccessReceiptByJti.                                                  *)
Lookup(q) ==
    /\ pc[q] = "lookup"
    /\ Goto(q, "check") /\ Read(q)
    /\ UNCHANGED <<row, clock, now, reply, logged, slot>>

(* verifyAccessReceipt judges the row it read, on a clock read afterwards. *)
(* A request's context and claims match the row or they do not: each       *)
(* compares them at most once, so either outcome may come of it.           *)
CheckVerify(q) ==
    /\ q \in Verifies /\ pc[q] = "check"
    /\ IF ~seen[q].active \/ seen[q].status # "ISSUED"
       THEN Answer(q, "RECEIPT_NOT_ACTIVE", seen[q])
       ELSE \/ Answer(q, "RECEIPT_CLAIMS_MISMATCH", seen[q])
            \/ /\ Goto(q, IF IsIsoDateExpired(clock) THEN "expire" ELSE "log")
               /\ UNCHANGED <<reply, seen, now>>
    /\ UNCHANGED <<row, clock, logged, slot>>

(* evaluatePreAtomicRedemptionDenial judges it on the time captured first; *)
(* a redemption that passes captures its time anew.                        *)
CheckRedeem(q) ==
    /\ q \in Redeems /\ pc[q] = "check"
    /\ IF IsIsoDateExpired(now[q])
       THEN Goto(q, "expire") /\ UNCHANGED <<reply, seen, now>>
       ELSE \/ Answer(q, "RECEIPT_CLAIMS_MISMATCH", seen[q])
            \/ Goto(q, "read") /\ Capture(q) /\ UNCHANGED <<reply, seen>>
    /\ UNCHANGED <<row, clock, logged, slot>>

(* setReceiptExpired writes whatever the row has become since it was read. *)
SetReceiptExpired(q) ==
    /\ pc[q] = "expire"
    /\ row' = [row EXCEPT !.status = "EXPIRED", !.active = FALSE]
    /\ Answer(q, "RECEIPT_EXPIRED", [seen[q] EXCEPT !.status = "EXPIRED"])
    /\ UNCHANGED <<clock, logged, slot>>

(* redeemAccessReceiptAtomically: the read its update is conditional on.   *)
ReadCount(q) ==
    /\ pc[q] = "read"
    /\ Goto(q, "update") /\ Read(q)
    /\ UNCHANGED <<row, clock, now, reply, logged, slot>>

RedeemableAtAnyCount(q) ==
    row.active /\ row.status = "ISSUED" /\ now[q] < Exp
RedeemableAtNextCount(q) ==
    /\ row.active /\ row.status = "ISSUED"
    /\ row.count = seen[q].count + 1 /\ now[q] < Exp
RedeemableWhateverStatus(q) ==
    row.count = seen[q].count /\ now[q] < Exp

(* The where clause of updateMany, evaluated on the row it finds.          *)
Redeemable(q) ==
    /\ row.active /\ row.status = "ISSUED"
    /\ row.count = seen[q].count
    /\ now[q] < Exp

UpdateManyThenDenyLast(q) ==
    /\ pc[q] = "update"
    /\ IF Redeemable(q)
       THEN LET exhausted == seen[q].count + 1 >= Max
            IN  /\ row' = [status |-> IF exhausted THEN "EXHAUSTED" ELSE "ISSUED",
                           active |-> ~exhausted, count |-> row.count + 1]
                /\ slot' = [slot EXCEPT ![q] = row.count + 1]
                /\ Goto(q, IF exhausted THEN "explain" ELSE "reread")
       ELSE Goto(q, "explain") /\ UNCHANGED <<row, slot>>
    /\ UNCHANGED <<clock, seen, now, reply, logged>>

UpdateMany(q) ==
    /\ pc[q] = "update"
    /\ IF Redeemable(q)
       THEN LET exhausted == seen[q].count + 1 >= Max
            IN  /\ row' = [status |-> IF exhausted THEN "EXHAUSTED" ELSE "ISSUED",
                           active |-> ~exhausted, count |-> row.count + 1]
                /\ slot' = [slot EXCEPT ![q] = row.count + 1]
                /\ Goto(q, "reread")
       ELSE Goto(q, "explain") /\ UNCHANGED <<row, slot>>
    /\ UNCHANGED <<clock, seen, now, reply, logged>>

RereadSkipped(q) ==
    /\ pc[q] = "reread"
    /\ Goto(q, "log")
    /\ UNCHANGED <<row, clock, seen, now, reply, logged, slot>>

(* The row is read back by a statement of its own.                         *)
Reread(q) ==
    /\ pc[q] = "reread"
    /\ Goto(q, "log") /\ Read(q)
    /\ UNCHANGED <<row, clock, now, reply, logged, slot>>

ExplainHopefully(q) ==
    /\ pc[q] = "explain"
    /\ Answer(q, IF row.active THEN "GRANTED" ELSE "RECEIPT_NOT_ACTIVE", row)
    /\ UNCHANGED <<row, clock, logged, slot>>

(* Denied, whatever made the update miss: the answer shows the row as it   *)
(* is now.                                                                 *)
Explain(q) ==
    /\ pc[q] = "explain"
    /\ Answer(q, "RECEIPT_NOT_ACTIVE", row)
    /\ UNCHANGED <<row, clock, logged, slot>>

(* The events of a verification, of a redemption and, when the row read    *)
(* back is exhausted, of its last redemption; then the answer.             *)
LogVerified(q) ==
    /\ q \in Verifies /\ pc[q] = "log"
    /\ Log(q, "ACCESS_RECEIPT_VERIFIED") /\ Answer(q, "VERIFIED", seen[q])
    /\ UNCHANGED <<row, clock, slot>>

LogRedeemedOnlyIfLast(q) ==
    /\ q \in Redeems /\ pc[q] = "log"
    /\ IF seen[q].status = "EXHAUSTED"
       THEN /\ Log(q, "ACCESS_RECEIPT_REDEEMED") /\ Goto(q, "logLast")
            /\ UNCHANGED <<reply, seen, now>>
       ELSE Answer(q, "GRANTED", seen[q]) /\ UNCHANGED logged
    /\ UNCHANGED <<row, clock, slot>>

LogRedeemed(q) ==
    /\ q \in Redeems /\ pc[q] = "log"
    /\ Log(q, "ACCESS_RECEIPT_REDEEMED")
    /\ IF seen[q].status = "EXHAUSTED"
       THEN Goto(q, "logLast") /\ UNCHANGED <<reply, seen, now>>
       ELSE Answer(q, "GRANTED", seen[q])
    /\ UNCHANGED <<row, clock, slot>>

LogLast(q) ==
    /\ pc[q] = "logLast"
    /\ Log(q, "ACCESS_RECEIPT_REDEMPTION_REJECTED")
    /\ Answer(q, "GRANTED", seen[q])
    /\ UNCHANGED <<row, clock, slot>>

(* A database call throws or the process dies: the caller gets no answer   *)
(* of the service, and what was written stays.                             *)
Fail(q) ==
    /\ pc[q] \notin {"start", "done"}
    /\ Answer(q, "FAILED", Fresh)
    /\ UNCHANGED <<row, clock, logged, slot>>

Tick ==
    /\ clock < Horizon
    /\ clock' = clock + 1
    /\ UNCHANGED <<row, pc, seen, now, reply, logged, slot>>

Advance(q) ==
    \/ Start(q) \/ VerifyToken(q) \/ Lookup(q) \/ CheckVerify(q)
    \/ CheckRedeem(q) \/ SetReceiptExpired(q) \/ ReadCount(q)
    \/ UpdateMany(q) \/ Reread(q) \/ Explain(q) \/ LogVerified(q)
    \/ LogRedeemed(q) \/ LogLast(q)

Next == Tick \/ \E q \in Requests : Advance(q) \/ Fail(q)

Spec == Init /\ [][Next]_vars

-----------------------------------------------------------------------------
Took == {q \in Requests : slot[q] > 0}
Granted == {q \in Requests : reply[q].verdict = "GRANTED"}

(* No lost update: the stored count is the number of redemptions that took *)
(* a use, each took a different one, and they never pass the maximum.      *)
CountIsUses ==
    /\ row.count = Cardinality(Took)
    /\ row.count <= Max
    /\ \A p, q \in Took : slot[p] = slot[q] => p = q

(* A redemption is granted only for a use it took itself, and only after   *)
(* the event log shows it; the log never shows a use nobody took.          *)
GrantsAreLogged ==
    \A q \in Requests :
        /\ q \in Granted => "ACCESS_RECEIPT_REDEEMED" \in logged[q]
        /\ "ACCESS_RECEIPT_REDEEMED" \in logged[q] => q \in Took

(* A caller who is denied has not been charged a use.                      *)
DenialsAreFree ==
    \A q \in Redeems :
        reply[q].verdict \notin {"none", "GRANTED", "FAILED"} => q \notin Took

(* The count answered is never behind the use it answers for, and if it is *)
(* ahead another redemption came between.                                  *)
AnsweredCountCoversOwnUse ==
    \A q \in Granted :
        /\ slot[q] <= reply[q].row.count
        /\ \A n \in slot[q] .. reply[q].row.count : \E p \in Took : slot[p] = n

(* Contention wastes nothing: while the token has not expired and nothing  *)
(* failed, a matching redemption that ended without a use ended so because *)
(* another one took a use.                                                 *)
SomeContenderWins ==
    ~TokenExpired(clock)
      /\ (\A q \in Requests : pc[q] = "done" /\ reply[q].verdict # "FAILED")
      /\ (\E q \in Redeems : reply[q].verdict # "RECEIPT_CLAIMS_MISMATCH")
    => Took # {}

(* A receipt that left ISSUED is never redeemed or reopened.               *)
ClosedStaysClosed ==
    [][row.status # "ISSUED" =>
            row'.status # "ISSUED" /\ row'.count = row.count]_vars

(* docs/state-machine.md: "EXHAUSTED, REVOKED, and EXPIRED are terminal".  *)
TerminalStatusesAreFinal ==
    [][row.status \in {"EXHAUSTED", "REVOKED", "EXPIRED"} =>
            row'.status = row.status]_vars

(* The service keeps the promise of BoundedGrant about its one receipt.    *)
Promise == INSTANCE BoundedGrant WITH
    Receipts <- {"receipt"},
    Max <- [r \in {"receipt"} |-> Max],
    used <- [r \in {"receipt"} |-> row.count],
    honoured <- [r \in {"receipt"} |-> Cardinality(Granted)],
    closed <- IF row.status = "EXPIRED" THEN {"receipt"} ELSE {}
KeepsPromise == Promise!Spec

=============================================================================
