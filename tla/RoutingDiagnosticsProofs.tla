----------------------- MODULE RoutingDiagnosticsProofs -----------------------
(***************************************************************************)
(* Safety of RoutingDiagnostics for every list of amounts: no money moves  *)
(* in silence, and what is reported paid is.                               *)
(***************************************************************************)
EXTENDS RoutingDiagnostics, TLAPS, WellFoundedInduction

(* What is still ahead of the script is untouched.                         *)
Ended == {"summary", "saved", "unsaved"}
Blank(t) ==
    /\ report[t] = Untested /\ t \notin queued
    /\ invoice[t] = "absent" /\ payment[t] = "absent"
Ahead(t) ==
    \/ at \in {"survey", "crashed"}
    \/ t > test
    \/ t = test /\ at = "invoice"

(* A test's part of the report agrees with the nodes: what may have been   *)
(* sent is reported and printed, or under way; what was sent and left was  *)
(* looked at, and what the look found for good is still so.                *)
Sending(t) == t \in queued \/ payment[t] # "absent"
TestInv(t) ==
    /\ Ahead(t) => Blank(t)
    /\ Sending(t) =>
        \/ report[t].attempted
        \/ t = test /\ at \in {"sending", "killed"}
    /\ Sending(t) =>
        \/ t <= printed
        \/ t = test /\ at \in {"sending", "wait", "check", "killed"}
    /\ report[t].attempted => report[t].sent # "none"
    /\ invoice[t] \in {"Received", "Paid"} => payment[t] # "absent"
    /\ report[t].final # "none" => report[t].attempted
    /\ report[t].final = "Paid" <=> report[t].paid
    /\ report[t].final \in {"Paid", "Expired"} => invoice[t] = report[t].final
    /\ report[t].final # "absent"
    /\ report[t].sent = "ok" /\ report[t].final = "none" =>
        t = test /\ at \in {"wait", "check", "killed"}

ScriptInv ==
    /\ printed <= test
    /\ at \in {"try", "send", "sending", "wait", "check"} => invoice[test] # "absent"
    /\ at \in {"try", "send"} => ~Sending(test)
    /\ at \in {"try", "send", "sending"} => ~report[test].attempted
    /\ at \in {"wait", "check"} => report[test].sent = "ok" /\ report[test].attempted
    /\ at \in Ended => test = Len(TestAmounts)
    /\ at \notin {"saved", "unsaved"} => succeeded = 0
    /\ succeeded # 0 => report[succeeded].paid
    /\ at \in {"saved", "unsaved"} /\ succeeded = 0 => \A t \in Tests : ~report[t].paid

RInv == TypeOK /\ ScriptInv /\ \A t \in Tests : TestInv(t)

-----------------------------------------------------------------------------
LEMMA TestsAre ==
    /\ Len(TestAmounts) \in Nat \ {0} /\ Tests = 1 .. Len(TestAmounts)
    /\ 1 \in Tests /\ 0 \notin Tests /\ \A t \in Tests : t \in Nat
  <1>1. TestAmounts \in Seq(Nat) /\ TestAmounts # <<>>
    BY AmountsAssumption
  <1>2. Len(TestAmounts) \in Nat \ {0} /\ Tests = 1 .. Len(TestAmounts)
    BY <1>1 DEF Tests
  <1> QED BY <1>2

LEMMA RInvInitially == Init => RInv
  <1> SUFFICES ASSUME Init PROVE RInv
    OBVIOUS
  <1>1. TypeOK
    BY TestsAre DEF Init, TypeOK, Places, Reports, Untested, Invoices, Payments
  <1>2. ScriptInv
    BY DEF Init, ScriptInv, Ended, Sending
  <1>3. ASSUME NEW t \in Tests PROVE TestInv(t)
    BY <1>3 DEF Init, TestInv, Blank, Untested, Sending
  <1> QED BY <1>1, <1>2, <1>3 DEF RInv

(* Once the survey is over, a step that leaves the part of a test alone    *)
(* keeps what is known of it, unless the script looks at it just then.     *)
LEMMA OtherTests ==
    ASSUME TypeOK, ScriptInv, NEW t \in Tests, TestInv(t), UNCHANGED test, t # test,
           at' \notin {"survey", "crashed"}, printed' \in {printed, test},
           report'[t] = report[t], invoice'[t] = invoice[t], payment'[t] = payment[t],
           t \in queued' <=> t \in queued
    PROVE  TestInv(t)'
  <1>1. /\ t \in Nat /\ printed \in Nat /\ printed' \in Nat /\ printed <= printed'
    BY TestsAre DEF TypeOK, ScriptInv
  <1>2. Ahead(t)' => Ahead(t)
    BY DEF Ahead
  <1>3. /\ Blank(t)' <=> Blank(t)
        /\ Sending(t)' <=> Sending(t)
    BY DEF Blank, Sending
  <1> QED BY <1>1, <1>2, <1>3 DEF TestInv

(* The nodes go on.                                                        *)
LEMMA NodeKept == RInv /\ NodeStep => RInv'
  <1> SUFFICES ASSUME RInv, NodeStep PROVE RInv'
    OBVIOUS
  <1>0. TypeOK /\ ScriptInv /\ \A t \in Tests : TestInv(t)
    BY DEF RInv
  <1>1. UNCHANGED <<at, test, key, heard, report, printed, succeeded>>
    BY DEF NodeStep
  <1>2. PICK t \in Tests :
           \/ /\ t \in queued /\ queued' = queued \ {t}
              /\ payment' = [payment EXCEPT ![t] = "Created"] /\ UNCHANGED invoice
           \/ /\ payment[t] \in {"Created", "Inflight"}
              /\ \E p \in {"Inflight", "Success", "Failed"} :
                    payment' = [payment EXCEPT ![t] = p]
              /\ UNCHANGED <<invoice, queued>>
           \/ /\ \/ payment[t] = "Inflight" /\ invoice[t] \in {"Open", "Received"}
                 \/ invoice[t] \in {"Open", "Received"} /\ invoice'[t] = "Expired"
              /\ \E i \in {"Received", "Paid", "Expired"} :
                    invoice' = [invoice EXCEPT ![t] = i]
              /\ UNCHANGED <<payment, queued>>
    BY <1>0 DEF NodeStep, TypeOK
  <1>3. \A u \in Tests : u # t => /\ invoice'[u] = invoice[u] /\ payment'[u] = payment[u]
                                  /\ u \in queued' <=> u \in queued
    BY <1>0, <1>2 DEF TypeOK
  <1>4. /\ invoice'[t] = invoice[t]
           \/ /\ invoice[t] \in {"Open", "Received"}
              /\ invoice'[t] \in {"Received", "Paid", "Expired"}
              /\ invoice'[t] = "Expired" \/ payment[t] = "Inflight"
        /\ payment'[t] = payment[t] \/ payment'[t] # "absent"
        /\ payment'[t] # "absent" => Sending(t)
        /\ t \in queued' => t \in queued
        /\ payment[t] # "absent" => payment'[t] # "absent"
    BY <1>0, <1>2 DEF TypeOK, Sending
  <1>5. TypeOK'
    BY <1>0, <1>1, <1>2 DEF TypeOK, Invoices, Payments
  <1>6. TestInv(t)'
    <2>1. ~Blank(t)
      BY <1>2 DEF Blank
    <2> QED BY <1>0, <1>1, <1>4, <2>1 DEF TestInv, Ahead, Sending
  <1>7. ASSUME NEW u \in Tests, u # t PROVE TestInv(u)'
    BY <1>0, <1>1, <1>3, <1>7 DEF TestInv, Ahead, Blank, Sending
  <1>8. ScriptInv'
    <2>1. /\ invoice[test] # "absent" => invoice'[test] # "absent"
          /\ ~Sending(test) => ~Sending(test)'
      BY <1>0, <1>1, <1>3, <1>4 DEF TypeOK, Sending
    <2> QED BY <1>0, <1>1, <2>1 DEF ScriptInv
  <1> QED BY <1>5, <1>6, <1>7, <1>8 DEF RInv

(* What the script does before it has spent anything on a test.            *)
LEMMA SurveyKept == RInv /\ Survey => RInv'
  <1> SUFFICES ASSUME RInv, Survey PROVE RInv'
    OBVIOUS
  <1>0. TypeOK /\ ScriptInv /\ \A t \in Tests : TestInv(t)
    BY DEF RInv
  <1>1. /\ UNCHANGED <<test, heard, report, printed, succeeded, invoice, payment, queued>>
        /\ at = "survey" /\ at' \in {"invoice", "crashed"} /\ key' \in BOOLEAN
    BY <1>0 DEF Survey, Go, nodes, TypeOK
  <1>2. TypeOK' /\ ScriptInv'
    BY <1>0, <1>1 DEF TypeOK, Places, ScriptInv, Ended
  <1>3. ASSUME NEW t \in Tests PROVE TestInv(t)'
    <2>1. Blank(t)
      BY <1>0, <1>1 DEF TestInv, Ahead
    <2> QED BY <1>1, <2>1 DEF TestInv, Ahead, Blank, Untested, Sending
  <1> QED BY <1>2, <1>3 DEF RInv

LEMMA NewInvoiceKept == RInv /\ NewInvoice => RInv'
  <1> SUFFICES ASSUME RInv, NewInvoice PROVE RInv'
    OBVIOUS
  <1>0. TypeOK /\ ScriptInv /\ \A t \in Tests : TestInv(t)
    BY DEF RInv
  <1>1. /\ UNCHANGED <<test, key, report, succeeded, payment, queued>> /\ at = "invoice"
        /\ at' \in {"try", "next"} /\ heard' \in BOOLEAN /\ printed' \in {printed, test}
        /\ \/ invoice' = [invoice EXCEPT ![test] = "Open"]
           \/ UNCHANGED invoice /\ at' = "next"
    BY DEF NewInvoice, Go
  <1>2. Blank(test) /\ test \in Tests
    BY <1>0, <1>1 DEF TestInv, Ahead, TypeOK
  <1>3. TypeOK'
    BY <1>0, <1>1, <1>2 DEF TypeOK, Places, Invoices
  <1>4. ScriptInv'
    BY <1>0, <1>1, <1>2, TestsAre DEF ScriptInv, Ended, Blank, Untested, Sending, TypeOK
  <1>5. ASSUME NEW t \in Tests, t # test PROVE TestInv(t)'
    <2>1. invoice'[t] = invoice[t]
      BY <1>0, <1>1, <1>5 DEF TypeOK
    <2> QED BY <1>0, <1>1, <1>5, <2>1, OtherTests
  <1>6. TestInv(test)'
    <2>1. /\ ~Ahead(test)' /\ report'[test] = Untested /\ test \notin queued'
          /\ payment'[test] = "absent" /\ invoice'[test] \in {"Open", "absent"}
      BY <1>0, <1>1, <1>2, TestsAre DEF Ahead, Blank, TypeOK
    <2> QED BY <1>1, <2>1 DEF TestInv, Untested, Sending
  <1>7. test' = test
    BY <1>1
  <1> QED BY <1>3, <1>4, <1>5, <1>6, <1>7 DEF RInv

(* A step of the script within a test: it changes the test's own report,   *)
(* its payment and its place in the queue, and nothing else.               *)
WithinTest ==
    /\ UNCHANGED <<test, key, heard, succeeded, invoice>>
    /\ printed' = IF at' = "next" THEN test ELSE printed
    /\ \E r \in Reports : report' = [report EXCEPT ![test] = r]
    /\ \E p \in Payments : payment' = [payment EXCEPT ![test] = p]
    /\ queued' \in {queued, queued \cup {test}, queued \ {test}}
    /\ at \in {"try", "send", "sending", "wait", "check"}
    /\ at' \in {"send", "sending", "wait", "check", "next"}

LEMMA WithinKept ==
    ASSUME RInv, WithinTest, TestInv(test)',
           at' \in {"send", "sending"} => ~report'[test].attempted,
           at' = "send" => ~Sending(test)',
           at' \in {"wait", "check"} => report'[test].sent = "ok" /\ report'[test].attempted
    PROVE  RInv'
  <1>0. TypeOK /\ ScriptInv /\ test \in Tests /\ \A t \in Tests : TestInv(t)
    BY DEF RInv, TypeOK
  <1>1. TypeOK'
    <2>1. at' \in Places /\ queued' \subseteq Tests
      BY <1>0 DEF WithinTest, Places, TypeOK
    <2> QED BY <1>0, <2>1 DEF WithinTest, TypeOK
  <1>2. ScriptInv'
    BY <1>0, TestsAre DEF WithinTest, ScriptInv, Ended, TypeOK
  <1>3. ASSUME NEW t \in Tests, t # test PROVE TestInv(t)'
    <2>1. /\ report'[t] = report[t] /\ invoice'[t] = invoice[t]
          /\ payment'[t] = payment[t] /\ (t \in queued' <=> t \in queued)
      BY <1>0, <1>3 DEF WithinTest, TypeOK
    <2>2. at' \notin {"survey", "crashed"} /\ UNCHANGED test /\ printed' \in {printed, test}
      BY DEF WithinTest
    <2> QED BY <1>0, <1>3, <2>1, <2>2, OtherTests
  <1>4. test' = test
    BY DEF WithinTest
  <1> QED BY <1>1, <1>2, <1>3, <1>4 DEF RInv

LEMMA DryRunKept == RInv /\ DryRun => RInv'
  <1> SUFFICES ASSUME RInv, DryRun PROVE RInv'
    OBVIOUS
  <1>0. TypeOK /\ ScriptInv /\ test \in Tests /\ TestInv(test)
    BY DEF RInv, TypeOK
  <1>1. PICK answer \in IF key THEN {"ok", "error"} ELSE {"none"} :
            report' = [report EXCEPT ![test].trampoline = answer]
    BY DEF DryRun
  <1>2. /\ UNCHANGED <<test, key, heard, printed, succeeded, invoice, payment, queued>>
        /\ at = "try" /\ at' = "send"
    BY DEF DryRun, Go, nodes
  <1>3. /\ report[test] \in Reports /\ ~report[test].attempted /\ ~Sending(test)
        /\ report'[test] = [report[test] EXCEPT !.trampoline = answer]
    BY <1>0, <1>1, <1>2 DEF TypeOK, ScriptInv
  <1>4. /\ report'[test] \in Reports
        /\ report'[test].attempted = report[test].attempted
        /\ report'[test].sent = report[test].sent /\ report'[test].final = report[test].final
        /\ report'[test].paid = report[test].paid
    BY <1>1, <1>3 DEF Reports
  <1>5. WithinTest
    <2>1. report' = [report EXCEPT ![test] = [report[test] EXCEPT !.trampoline = answer]]
      BY <1>1
    <2>2. payment' = [payment EXCEPT ![test] = payment[test]] /\ payment[test] \in Payments
      BY <1>0, <1>2 DEF TypeOK
    <2> QED BY <1>2, <1>3, <1>4, <2>1, <2>2 DEF WithinTest
  <1>6. ~Sending(test)'
    BY <1>2, <1>3 DEF Sending
  <1>7. TestInv(test)'
    <2>1. ~Ahead(test)'
      BY <1>0, <1>2, TestsAre DEF Ahead
    <2> QED BY <1>0, <1>2, <1>4, <1>6, <2>1 DEF TestInv
  <1> QED BY <1>2, <1>3, <1>4, <1>5, <1>6, <1>7, WithinKept

LEMMA RealSendKept == RInv /\ RealSend => RInv'
  <1> SUFFICES ASSUME RInv, RealSend PROVE RInv'
    OBVIOUS
  <1>0. /\ TypeOK /\ ScriptInv /\ test \in Tests /\ TestInv(test) /\ report[test] \in Reports
        /\ payment[test] \in Payments
    BY DEF RInv, TypeOK
  <1>1. /\ UNCHANGED <<test, key, heard, report, succeeded, invoice, payment>> /\ at = "send"
        /\ printed' = IF at' = "next" THEN test ELSE printed
        /\ \/ at' = "sending" /\ queued' = queued \cup {test}
           \/ at' = "next" /\ UNCHANGED queued
    BY DEF RealSend, Go
  <1>2. ~report[test].attempted /\ ~Sending(test)
    BY <1>0, <1>1 DEF ScriptInv
  <1>3. WithinTest
    <2>1. report' = [report EXCEPT ![test] = report[test]]
          /\ payment' = [payment EXCEPT ![test] = payment[test]]
      BY <1>0, <1>1 DEF TypeOK
    <2> QED BY <1>0, <1>1, <2>1 DEF WithinTest
  <1>4. TestInv(test)'
    <2>1. ~Ahead(test)'
      BY <1>0, <1>1, TestsAre DEF Ahead
    <2>2. at' = "next" => ~Sending(test)'
      BY <1>1, <1>2 DEF Sending
    <2> QED BY <1>0, <1>1, <1>2, <2>1, <2>2 DEF TestInv
  <1> QED BY <1>1, <1>2, <1>3, <1>4, WithinKept

LEMMA SendAnsweredKept == RInv /\ SendAnswered => RInv'
  <1> SUFFICES ASSUME RInv, SendAnswered PROVE RInv'
    OBVIOUS
  <1>0. /\ TypeOK /\ ScriptInv /\ test \in Tests /\ TestInv(test) /\ report[test] \in Reports
        /\ payment[test] \in Payments /\ test \in Nat
    BY TestsAre DEF RInv, TypeOK
  <1>1. PICK answer \in {"ok", "error"} :
            /\ report' = [report EXCEPT ![test] = Sent(@, answer)]
            /\ at' = IF answer = "ok" THEN "wait" ELSE "next"
            /\ queued' \in {queued, queued \ {test}}
    BY DEF SendAnswered, Go
  <1>2. /\ UNCHANGED <<test, key, heard, succeeded, invoice, payment>> /\ at = "sending"
        /\ printed' = IF at' = "next" THEN test ELSE printed
    BY DEF SendAnswered, Go
  <1> DEFINE r == [report[test] EXCEPT !.attempted = TRUE, !.sent = answer]
  <1>3. /\ r \in Reports /\ r.attempted /\ r.sent = answer
        /\ r.final = report[test].final /\ r.paid = report[test].paid
    BY <1>0 DEF Reports
  <1>4. report' = [report EXCEPT ![test] = r] /\ report'[test] = r
    BY <1>0, <1>1 DEF TypeOK, Sent
  <1> HIDE DEF r
  <1>5. WithinTest
    <2>1. payment' = [payment EXCEPT ![test] = payment[test]]
      BY <1>0, <1>2 DEF TypeOK
    <2> QED BY <1>0, <1>1, <1>2, <1>3, <1>4, <2>1 DEF WithinTest
  <1>6. TestInv(test)'
    <2>1. ~Ahead(test)'
      BY <1>0, <1>1, <1>2 DEF Ahead
    <2>2. at' = "next" => printed' = test
      BY <1>2
    <2> QED BY <1>0, <1>1, <1>2, <1>3, <1>4, <2>1, <2>2 DEF TestInv
  <1> QED BY <1>1, <1>3, <1>4, <1>5, <1>6, WithinKept

LEMMA WaitKept == RInv /\ Wait => RInv'
  <1> SUFFICES ASSUME RInv, Wait PROVE RInv'
    OBVIOUS
  <1>0. TypeOK /\ ScriptInv /\ test \in Tests /\ TestInv(test)
    BY DEF RInv, TypeOK
  <1>1. /\ UNCHANGED <<test, key, heard, report, printed, succeeded, invoice, payment, queued>>
        /\ at = "wait" /\ at' = "check"
    BY DEF Wait, Go, nodes
  <1>2. WithinTest
    <2>1. report' = [report EXCEPT ![test] = report[test]] /\ report[test] \in Reports
          /\ payment' = [payment EXCEPT ![test] = payment[test]] /\ payment[test] \in Payments
      BY <1>0, <1>1 DEF TypeOK
    <2> QED BY <1>1, <2>1 DEF WithinTest
  <1>3. TestInv(test)'
    BY <1>0, <1>1, TestsAre DEF TestInv, Ahead, Sending
  <1> QED BY <1>0, <1>1, <1>2, <1>3, WithinKept DEF ScriptInv

LEMMA FinalInvoiceKept == RInv /\ FinalInvoice => RInv'
  <1> SUFFICES ASSUME RInv, FinalInvoice PROVE RInv'
    OBVIOUS
  <1>0. /\ TypeOK /\ ScriptInv /\ test \in Tests /\ TestInv(test)
        /\ report[test] \in Reports /\ invoice[test] \in Invoices
    BY DEF RInv, TypeOK
  <1>1. /\ UNCHANGED <<test, key, heard, succeeded, invoice, payment, queued>>
        /\ at = "check" /\ at' = "next" /\ printed' = test /\ ~Ahead(test)'
        /\ invoice[test] # "absent" /\ report[test].attempted
    BY <1>0, TestsAre DEF FinalInvoice, Go, nodes, ScriptInv, Ahead
  <1>2. PICK status \in {invoice[test], "unknown"} :
            report' = [report EXCEPT ![test].final = status,
                                     ![test].paid = PaidReached(status)]
    BY DEF FinalInvoice
  <1> DEFINE r == [report[test] EXCEPT !.final = status, !.paid = PaidReached(status)]
  <1>3. /\ r \in Reports /\ r.trampoline = report[test].trampoline
        /\ r.attempted = report[test].attempted /\ r.sent = report[test].sent
        /\ r.final = status /\ (r.paid <=> status = "Paid")
    BY <1>0 DEF Reports, PaidReached
  <1>4. report' = [report EXCEPT ![test] = r] /\ report'[test] = r
    BY <1>0, <1>2 DEF TypeOK
  <1> HIDE DEF r
  <1>5. WithinTest
    <2>1. payment' = [payment EXCEPT ![test] = payment[test]] /\ payment[test] \in Payments
      BY <1>0, <1>1 DEF TypeOK
    <2> QED BY <1>1, <1>3, <1>4, <2>1 DEF WithinTest
  <1>6. TestInv(test)'
    <2>1. status # "none" /\ status # "absent" /\ (status # "unknown" => status = invoice[test])
      BY <1>0, <1>1 DEF Invoices
    <2>2. test \in Nat /\ (Sending(test)' <=> Sending(test))
      BY <1>0, <1>1, TestsAre DEF Sending
    <2>3. /\ ~Ahead(test)' /\ printed' = test /\ report'[test].attempted
          /\ invoice'[test] = invoice[test] /\ payment'[test] = payment[test]
          /\ report'[test].sent = report[test].sent /\ report'[test].final = status
          /\ report'[test].paid <=> status = "Paid"
          /\ status # "none" /\ status # "absent"
      BY <1>1, <1>3, <1>4, <2>1
    <2>4. /\ report[test].sent # "none"
          /\ invoice[test] \in {"Received", "Paid"} => payment[test] # "absent"
      BY <1>0, <1>1 DEF TestInv
    <2> QED BY <1>1, <2>1, <2>2, <2>3, <2>4 DEF TestInv
  <1> QED BY <1>1, <1>5, <1>6, WithinKept

LEMMA NextAmountKept == RInv /\ NextAmount => RInv'
  <1> SUFFICES ASSUME RInv, NextAmount PROVE RInv'
    OBVIOUS
  <1>0. TypeOK /\ ScriptInv /\ test \in Tests /\ \A t \in Tests : TestInv(t)
    BY DEF RInv, TypeOK
  <1>1. /\ UNCHANGED <<key, report, printed, succeeded, invoice, payment, queued>>
        /\ at = "next" /\ heard' = FALSE
        /\ \/ test = Len(TestAmounts) /\ at' = "summary" /\ test' = test
           \/ test # Len(TestAmounts) /\ at' = "invoice" /\ test' = test + 1
    BY DEF NextAmount, Go, nodes
  <1>2. test' \in Tests
    BY <1>0, <1>1, TestsAre
  <1>3. TypeOK' /\ ScriptInv'
    <2>1. printed \in Nat /\ test \in Nat /\ test <= test'
      BY <1>0, <1>1, TestsAre DEF TypeOK
    <2>2. TypeOK'
      BY <1>0, <1>1, <1>2 DEF TypeOK, Places
    <2>3. printed <= test'
      BY <1>0, <1>1, <1>2, <2>1, TestsAre DEF ScriptInv
    <2> QED BY <1>0, <1>1, <2>2, <2>3 DEF ScriptInv, Ended
  <1>4. ASSUME NEW t \in Tests PROVE TestInv(t)'
    <2>1. Ahead(t)' => t > test
      BY <1>0, <1>1, TestsAre DEF Ahead
    <2>2. /\ Blank(t)' <=> Blank(t)
          /\ Sending(t)' <=> Sending(t)
      BY <1>1 DEF Blank, Sending
    <2>3. TestInv(t) /\ (t > test => Blank(t))
      BY <1>0 DEF TestInv, Ahead
    <2> QED BY <1>1, <2>1, <2>2, <2>3 DEF TestInv
  <1> QED BY <1>3, <1>4 DEF RInv

(* The least of a set of tests.                                            *)
LEMMA FirstTest ==
    ASSUME NEW T \in SUBSET Tests, T # {}
    PROVE  \E t \in T : \A u \in 1 .. t - 1 : u \notin T
  <1>1. T \subseteq Nat
    BY TestsAre
  <1>2. PICK t \in T : \A u \in T : <<u, t>> \notin OpToRel(<, Nat)
    BY <1>1, NatLessThanWellFounded, WFMin, Zenon
  <1>3. ASSUME NEW u \in T, u < t PROVE FALSE
    <2>1. <<u, t>> \in Nat \X Nat /\ <<u, t>>[1] < <<u, t>>[2]
      BY <1>1, <1>3
    <2> QED BY <1>2, <2>1 DEF OpToRel
  <1> QED BY <1>1, <1>3

LEMMA SummariseKept == RInv /\ Summarise => RInv'
  <1> SUFFICES ASSUME RInv, Summarise PROVE RInv'
    OBVIOUS
  <1>0. TypeOK /\ ScriptInv /\ test \in Tests /\ \A t \in Tests : TestInv(t)
    BY DEF RInv, TypeOK
  <1>1. /\ UNCHANGED <<test, key, heard, report, printed, invoice, payment, queued>>
        /\ at = "summary" /\ at' \in {"saved", "unsaved"}
    BY DEF Summarise, Go, nodes
  <1> DEFINE Arrived == {t \in Tests : report[t].paid}
             First(t) == report[t].paid /\ \A u \in 1 .. t - 1 : ~report[u].paid
  <1>2. /\ succeeded' \in {0} \cup Tests
        /\ succeeded' # 0 => report[succeeded'].paid
        /\ succeeded' = 0 => \A t \in Tests : ~report[t].paid
    <2>1. CASE \A t \in Tests : ~report[t].paid
      BY <2>1 DEF Summarise
    <2>2. CASE \E t \in Tests : report[t].paid
      <3>1. PICK t \in Arrived : \A u \in 1 .. t - 1 : u \notin Arrived
        BY <2>2, FirstTest
      <3>2. t \in Tests /\ First(t)
        <4>1. \A u \in 1 .. t - 1 : u \in Tests
          BY <3>1, TestsAre
        <4> QED BY <3>1, <4>1
      <3>3. succeeded' = CHOOSE v \in Tests : First(v)
        BY <2>2 DEF Summarise
      <3>4. succeeded' \in Tests /\ First(succeeded')
        BY <3>2, <3>3
      <3> QED BY <3>4, TestsAre
    <2> QED BY <2>1, <2>2
  <1>3. TypeOK' /\ ScriptInv'
    BY <1>0, <1>1, <1>2 DEF TypeOK, Places, ScriptInv, Ended
  <1>4. ASSUME NEW t \in Tests PROVE TestInv(t)'
    BY <1>0, <1>1 DEF TestInv, Ahead, Blank, Sending
  <1> QED BY <1>3, <1>4 DEF RInv

LEMMA KillKept == RInv /\ Kill => RInv'
  <1> SUFFICES ASSUME RInv, Kill PROVE RInv'
    OBVIOUS
  <1>0. TypeOK /\ ScriptInv /\ \A t \in Tests : TestInv(t)
    BY DEF RInv
  <1>1. /\ UNCHANGED <<test, key, heard, report, printed, succeeded, invoice, payment, queued>>
        /\ at \notin {"saved", "unsaved", "crashed"} /\ at' = "killed"
    BY DEF Kill, Go, nodes
  <1>2. TypeOK' /\ ScriptInv'
    BY <1>0, <1>1 DEF TypeOK, Places, ScriptInv, Ended
  <1>3. ASSUME NEW t \in Tests PROVE TestInv(t)'
    BY <1>0, <1>1 DEF TestInv, Ahead, Blank, Sending
  <1> QED BY <1>2, <1>3 DEF RInv

LEMMA RInvKept == RInv /\ [Next]_vars => RInv'
  <1> SUFFICES ASSUME RInv, [Next]_vars PROVE RInv'
    OBVIOUS
  <1>1. CASE UNCHANGED vars
    <2>1. TypeOK' /\ ScriptInv'
      BY <1>1 DEF RInv, TypeOK, ScriptInv, Sending, vars, nodes
    <2>2. ASSUME NEW t \in Tests PROVE TestInv(t)'
      <3>1. TestInv(t)
        BY DEF RInv
      <3> QED BY <1>1, <3>1 DEF TestInv, Ahead, Blank, Sending, vars, nodes
    <2> QED BY <2>1, <2>2 DEF RInv
  <1> QED BY <1>1, NodeKept, SurveyKept, NewInvoiceKept, DryRunKept, RealSendKept,
          SendAnsweredKept, WaitKept, FinalInvoiceKept, NextAmountKept, SummariseKept,
          KillKept DEF Next, ScriptStep

(* The invariant holds in every reachable state.                           *)
THEOREM Invariance == Spec => []RInv
  BY RInvInitially, RInvKept, PTL DEF Spec

-----------------------------------------------------------------------------
(* A payment that was made or may yet be made is printed as attempted, or  *)
(* is the one the script is waiting for or was killed in.                  *)
THEOREM NoSilentSpending == Spec => []SpendingIsReported
  <1>1. RInv => SpendingIsReported
    <2> SUFFICES ASSUME RInv PROVE SpendingIsReported
      OBVIOUS
    <2>1. \A t \in Spent : t \in Tests /\ Sending(t) /\ TestInv(t)
      BY DEF RInv, TypeOK, Spent, Sending
    <2>2. \A t \in Spent : \/ t <= printed /\ report[t].attempted
                           \/ t = test /\ at \in {"sending", "wait", "check", "killed"}
      BY <2>1 DEF TestInv
    <2>3. at = "crashed" => Spent = {}
      BY <2>1 DEF TestInv, Ahead, Blank, Sending
    <2> QED BY <2>2, <2>3 DEF SpendingIsReported
  <1> QED BY <1>1, Invariance, PTL

(* What is reported paid has arrived, and what arrived is missing from the *)
(* report only for a reason.                                               *)
THEOREM ReportedPaidIsPaid == Spec => []PaidReachedIsPaid
  <1>1. RInv => PaidReachedIsPaid
    <2> SUFFICES ASSUME RInv PROVE PaidReachedIsPaid
      OBVIOUS
    <2>1. ASSUME NEW t \in Tests, report[t].paid \/ t = succeeded
          PROVE  invoice[t] = "Paid"
      <3>1. report[t].paid
        BY <2>1, TestsAre DEF RInv, ScriptInv
      <3> QED BY <3>1 DEF RInv, TestInv
    <2>2. ASSUME NEW t \in Tests, invoice[t] = "Paid", ~report[t].paid,
                 at \in {"saved", "unsaved"}
          PROVE  report[t].sent = "error" \/ report[t].final \in {"unknown", "Open", "Received"}
      <3>1. TestInv(t) /\ report[t] \in Reports
        BY DEF RInv, TypeOK
      <3>2. report[t].attempted /\ report[t].sent \in {"ok", "error"}
        BY <2>2, <3>1 DEF TestInv, Sending, Reports
      <3>3. /\ report[t].final \in {"none", "unknown"} \cup Invoices
            /\ report[t].sent = "ok" => report[t].final # "none"
            /\ report[t].final \notin {"Paid", "Expired", "absent"}
        BY <2>2, <3>1 DEF TestInv, Reports
      <3> QED BY <3>2, <3>3 DEF Invoices
    <2> QED BY <2>1, <2>2 DEF PaidReachedIsPaid, RInv, ScriptInv
  <1> QED BY <1>1, Invariance, PTL

=============================================================================
