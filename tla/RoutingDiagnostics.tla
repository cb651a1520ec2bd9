-------------------------- MODULE RoutingDiagnostics --------------------------
(***************************************************************************)
(* scripts/phase3-routing-diagnostics.mjs, the one program of the          *)
(* repository that spends money: it looks at three Fiber nodes, has node 2 *)
(* issue invoices of growing amounts, tries a payment of each through node *)
(* 1 without sending it, sends the tiny ones from the local node and looks *)
(* once, 5 seconds later, whether they arrived.  The nodes are external:   *)
(* they go on between two calls, a call may have its effect though its     *)
(* answer is lost, and a payment whose answer timed out may start later.   *)
(* The script may be killed anywhere.                                      *)
(***************************************************************************)
EXTENDS Sequences, Integers

CONSTANT
    TestAmounts \* the amounts of the invoices, in the order they are tried

ASSUME AmountsAssumption == TestAmounts \in Seq(Nat) /\ TestAmounts # <<>>

VARIABLES
    at,         \* where the script is
    test,       \* the amount under test
    key,        \* node 1 told its public key
    heard,      \* node 2 told the address and the hash of the invoice
    report,     \* RESULTS.amountTests, as far as they have got
    printed,    \* the last test whose part of the report is on the console
    succeeded,  \* succeededPayment: the test found paid, 0 if none
    invoice,    \* node 2's invoice of each test
    payment,    \* the local node's payment of each test
    queued      \* payments the local node is asked for and may yet start

nodes == <<invoice, payment, queued>>
vars == <<at, test, key, heard, report, printed, succeeded, nodes>>

-----------------------------------------------------------------------------
Tests == DOMAIN TestAmounts
Tiny(t) == TestAmounts[t] <= 10000

Places == {"survey", "invoice", "try", "send", "sending", "wait", "check",
           "next", "summary", "saved", "unsaved", "crashed", "killed"}
Invoices == {"absent", "Open", "Received", "Paid", "Expired"}
Payments == {"absent", "Created", "Inflight", "Success", "Failed"}

(* What a test leaves in the report: each part is "none" until it is       *)
(* there, "error" if the call failed.                                      *)
Untested == [trampoline |-> "none", attempted |-> FALSE, sent |-> "none",
             final |-> "none", paid |-> FALSE]
Reports == [trampoline : {"none", "ok", "error"}, attempted : BOOLEAN,
            sent : {"none", "ok", "error"},
            final : {"none", "unknown"} \cup Invoices, paid : BOOLEAN]

TypeOK ==
    /\ at \in Places /\ test \in Tests
    /\ key \in BOOLEAN /\ heard \in BOOLEAN
    /\ report \in [Tests -> Reports]
    /\ printed \in {0} \cup Tests /\ succeeded \in {0} \cup Tests
    /\ invoice \in [Tests -> Invoices] /\ payment \in [Tests -> Payments]
    /\ queued \subseteq Tests

Init ==
    /\ at = "survey" /\ test = 1
    /\ key = FALSE /\ heard = FALSE
    /\ report = [t \in Tests |-> Untested] /\ printed = 0 /\ succeeded = 0
    /\ invoice = [t \in Tests |-> "absent"]
    /\ payment = [t \in Tests |-> "absent"]
    /\ queued = {}

(* A test that ends is printed at once.                                    *)
Go(place) ==
    /\ at' = place
    /\ printed' = IF place = "next" THEN test ELSE printed

-----------------------------------------------------------------------------
(* The node infos, channels and peers.  A call that fails leaves null, and *)
(* the script goes on without; an answer of another shape than expected    *)
(* throws outside step() and ends it.                                      *)
Survey ==
    /\ at = "survey"
    /\ \/ key' \in BOOLEAN /\ Go("invoice")
       \/ Go("crashed") /\ UNCHANGED key
    /\ UNCHANGED <<test, heard, report, succeeded, nodes>>

(* new_invoice on node 2.  Without an address and a hash in the answer the *)
(* test is over, whether or not there is an invoice now.  The amount is    *)
(* the one asked for only if node 2 says the truth: the script pays the    *)
(* address it is given and never looks at the amount in it.                *)
NewInvoice ==
    /\ at = "invoice"
    /\ \/ /\ invoice' = [invoice EXCEPT ![test] = "Open"]
          /\ heard' \in BOOLEAN
       \/ heard' = FALSE /\ UNCHANGED invoice
    /\ Go(IF heard' THEN "try" ELSE "next")
    /\ UNCHANGED <<test, key, report, succeeded, payment, queued>>

(* get_invoice and the automatic dry run only appear in the report; the    *)
(* dry run through node 1 needs its key.  What it says is the node's view  *)
(* of the moment: any answer without an error counts.                      *)
DryRun ==
    /\ at = "try"
    /\ \E answer \in IF key THEN {"ok", "error"} ELSE {"none"} :
          report' = [report EXCEPT ![test].trampoline = answer]
    /\ Go("send")
    /\ UNCHANGED <<test, key, heard, succeeded, nodes>>

DryOk(t) == report[t].trampoline = "ok"

(* What a send leaves in the report (the mutation: only if it succeeded).  *)
SentIfAnswered(r, answer) ==
    [r EXCEPT !.attempted = answer = "ok", !.sent = answer]
Sent(r, answer) == [r EXCEPT !.attempted = TRUE, !.sent = answer]

(* send_payment, for a tiny amount: from here on the node may start it.    *)
RealSend ==
    /\ at = "send"
    /\ IF DryOk(test) /\ Tiny(test)
       THEN Go("sending") /\ queued' = queued \cup {test}
       ELSE Go("next") /\ UNCHANGED queued
    /\ UNCHANGED <<test, key, heard, report, succeeded, invoice, payment>>

(* Its answer says that the payment was created; an error that it was      *)
(* refused, or nothing at all: the call was lost, its answer was, or the   *)
(* node does it after the 15 seconds are over.                             *)
SendAnswered ==
    /\ at = "sending"
    /\ \/ /\ payment[test] # "absent"
          /\ report' = [report EXCEPT ![test] = Sent(@, "ok")]
          /\ Go("wait") /\ UNCHANGED queued
       \/ /\ report' = [report EXCEPT ![test] = Sent(@, "error")]
          /\ queued' \in {queued, queued \ {test}}
          /\ Go("next")
    /\ UNCHANGED <<test, key, heard, succeeded, invoice, payment>>

(* Five seconds, and get_payment for the report.                           *)
Wait ==
    /\ at = "wait" /\ Go("check")
    /\ UNCHANGED <<test, key, heard, report, succeeded, nodes>>

(* The verdict of a test (the mutation: money that is on hold counts too). *)
PaidUnlessOpen(status) == status \in {"Received", "Paid"}
PaidReached(status) == status = "Paid"

(* get_invoice on node 2.                                                  *)
FinalInvoice ==
    /\ at = "check"
    /\ \E status \in {invoice[test], "unknown"} :
          report' = [report EXCEPT ![test].final = status,
                                   ![test].paid = PaidReached(status)]
    /\ Go("next")
    /\ UNCHANGED <<test, key, heard, succeeded, nodes>>

NextAmount ==
    /\ at = "next"
    /\ IF test = Len(TestAmounts) THEN Go("summary") /\ UNCHANGED test
       ELSE Go("invoice") /\ test' = test + 1
    /\ heard' = FALSE
    /\ UNCHANGED <<key, report, succeeded, nodes>>

(* The first test found paid; then the report goes to a path that only one *)
(* machine has, unless an odd channel balance has thrown before.           *)
Summarise ==
    /\ at = "summary"
    /\ succeeded' = IF \E t \in Tests : report[t].paid
                    THEN CHOOSE t \in Tests :
                            report[t].paid /\ \A u \in 1 .. t - 1 : ~report[u].paid
                    ELSE 0
    /\ Go("saved") \/ Go("unsaved")
    /\ UNCHANGED <<test, key, heard, report, nodes>>

(* The process is killed.                                                  *)
Kill ==
    /\ at \notin {"saved", "unsaved", "crashed", "killed"}
    /\ Go("killed")
    /\ UNCHANGED <<test, key, heard, report, succeeded, nodes>>

-----------------------------------------------------------------------------
(* The nodes.  The payee settles first; a payment fails only while the     *)
(* invoice is unsettled.                                                   *)
NodeStep ==
    \E t \in Tests :
      /\ \/ /\ t \in queued /\ queued' = queued \ {t}
            /\ payment' = [payment EXCEPT ![t] = "Created"] /\ UNCHANGED invoice
         \/ /\ payment[t] = "Created" /\ payment' = [payment EXCEPT ![t] = "Inflight"]
            /\ UNCHANGED <<invoice, queued>>
         \/ /\ payment[t] = "Inflight" /\ invoice[t] = "Open"
            /\ invoice' = [invoice EXCEPT ![t] = "Received"]
            /\ UNCHANGED <<payment, queued>>
         \/ /\ payment[t] = "Inflight" /\ invoice[t] = "Received"
            /\ invoice' = [invoice EXCEPT ![t] = "Paid"]
            /\ UNCHANGED <<payment, queued>>
         \/ /\ payment[t] = "Inflight" /\ invoice[t] = "Paid"
            /\ payment' = [payment EXCEPT ![t] = "Success"]
            /\ UNCHANGED <<invoice, queued>>
         \/ /\ payment[t] \in {"Created", "Inflight"} /\ invoice[t] # "Paid"
            /\ payment' = [payment EXCEPT ![t] = "Failed"]
            /\ UNCHANGED <<invoice, queued>>
         \/ /\ invoice[t] \in {"Open", "Received"}
            /\ invoice' = [invoice EXCEPT ![t] = "Expired"]
            /\ UNCHANGED <<payment, queued>>
      /\ UNCHANGED <<at, test, key, heard, report, printed, succeeded>>

ScriptStep ==
    \/ Survey \/ NewInvoice \/ DryRun \/ RealSend \/ SendAnswered \/ Wait
    \/ FinalInvoice \/ NextAmount \/ Summarise \/ Kill

Next == ScriptStep \/ NodeStep

Spec == Init /\ [][Next]_vars

-----------------------------------------------------------------------------
Spent == queued \cup {t \in Tests : payment[t] # "absent"}

(* No silent spending: however calls are lost or late, a payment that was  *)
(* made or may yet be made is printed as attempted, but for the one under  *)
(* test while the script is waiting for it or if it was killed there: a    *)
(* kill hides one payment at most.  A script that crashed has made none.   *)
SpendingIsReported ==
    /\ \A t \in Spent :
        \/ t <= printed /\ report[t].attempted
        \/ t = test /\ at \in {"sending", "wait", "check", "killed"}
    /\ at = "crashed" => Spent = {}

(* The verdict: an amount reported paid, and the one named for the         *)
(* verification, has arrived at node 2; one that arrived is missing from   *)
(* the report only if its send failed for the script, node 2 did not say,  *)
(* or it arrived after the one look the script takes.                      *)
PaidReachedIsPaid ==
    /\ \A t \in Tests : report[t].paid \/ t = succeeded => invoice[t] = "Paid"
    /\ \A t \in Tests :
        invoice[t] = "Paid" /\ ~report[t].paid /\ at \in {"saved", "unsaved"} =>
            report[t].sent = "error" \/ report[t].final \in {"unknown", "Open", "Received"}
    /\ at \in {"saved", "unsaved"} /\ succeeded = 0 => \A t \in Tests : ~report[t].paid

=============================================================================
