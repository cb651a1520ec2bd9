------------------------ MODULE AccessRedemptionProofs ------------------------
(***************************************************************************)
(* Safety of AccessRedemption for every set of calls and receipts, every   *)
(* maximum, lifetime and tolerance: the pipeline's results tell the truth  *)
(* about the uses taken, and it implements BoundedGrant.                   *)
(***************************************************************************)
EXTENDS AccessRedemption, TLAPS, FiniteSetTheorems

(* The call was told, or is about to be told, that its use was the last.   *)
Marked(c) ==
    \/ /\ call[c].at = "map" /\ call[c].outcome.outcome = "consumed"
       /\ call[c].outcome.exhausted
    \/ reply[c].status = "success" /\ reply[c].exhausted
Failed(c) == reply[c].status = "system_failure"

(* A call is charged between its consume and its answer, or was answered   *)
(* with success or a failure.                                              *)
CallInv(c) ==
    /\ call[c] # Idle => reply[c] = NoReply
    /\ call[c] # Idle /\ call[c].token.genuine => issue[call[c].token.receipt] = "issued"
    /\ call[c].at \in {"consume", "map"} => call[c].token.genuine
    /\ call[c].at = "map" =>
        /\ call[c].outcome.outcome # "receipt_missing"
        /\ Charged(c) <=> call[c].outcome.outcome = "consumed"
    /\ call[c].at \in {"verify", "consume"} => ~Charged(c)
    /\ call[c] = Idle =>
        /\ reply[c].status = "success" => Charged(c)
        /\ Charged(c) => reply[c].status \in {"success", "system_failure"}
        /\ reply[c].status = "consumption_denied" => reply[c].reason # "receipt_missing"

(* The record counts the uses, and who filled it knows or failed.          *)
ReceiptInv(r) ==
    /\ issue[r] = "issued" => record[r].registered
    /\ IsFiniteSet(Uses(r)) /\ Cardinality(Uses(r)) = record[r].count
    /\ record[r].count <= Max
    /\ \A u, v \in Uses(r) : Marked(u.call) /\ Marked(v.call) => u = v
    /\ \A u \in Uses(r) : Marked(u.call) => record[r].count >= Max
    /\ record[r].count >= Max =>
        \E u \in Uses(r) : Marked(u.call) \/ Failed(u.call)

UseInv ==
    /\ \A u, v \in took : u.call = v.call => u = v
    /\ \A u \in took : issue[u.receipt] = "issued" /\ u.begun < Exp(u.receipt)

AInv ==
    /\ TypeOK /\ UseInv
    /\ \A c \in Calls : CallInv(c)
    /\ \A r \in Receipts : ReceiptInv(r)

-----------------------------------------------------------------------------
(* What a call that is under way carries.                                  *)
LEMMA CallTypes ==
    ASSUME TypeOK, NEW c \in Calls
    PROVE  /\ call[c].at \in {"idle", "verify", "consume", "map"}
           /\ call[c].at = "idle" <=> call[c] = Idle
           /\ call[c] # Idle => call[c].token \in Tokens /\ call[c].time \in 0 .. Horizon
                               /\ call[c].token.receipt \in Receipts
                               /\ call[c].token.genuine \in BOOLEAN
           /\ call[c].at = "map" => call[c].outcome \in Outcomes
  BY DEF TypeOK, CallStates, Idle, Tokens

LEMMA VerdictTypes ==
    ASSUME TypeOK, NEW r \in Receipts, NEW t \in 0 .. Horizon
    PROVE  /\ Verdict(r, t) \in Outcomes
           /\ record[r].registered => Verdict(r, t).outcome # "receipt_missing"
           /\ Verdict(r, t).outcome = "consumed" =>
                /\ ~record[r].revoked /\ ~Expired(r, t) /\ record[r].count < Max
                /\ Verdict(r, t).exhausted <=> record[r].count + 1 >= Max
  <1>1. record[r].count \in Nat /\ Max \in Nat
    BY NumberAssumption DEF TypeOK, Records
  <1>2. CASE ~record[r].registered
    BY <1>2 DEF Verdict, Outcomes, Denials
  <1>3. CASE record[r].registered /\ (record[r].altered \/ record[r].revoked
                    \/ Expired(r, t) \/ record[r].count >= Max)
    <2>1. \E d \in Denials \ {"receipt_missing"} : Verdict(r, t) = [outcome |-> d]
      BY <1>3 DEF Verdict, Denials
    <2> QED BY <1>3, <2>1 DEF Outcomes, Denials
  <1>4. CASE record[r].registered /\ ~(record[r].altered \/ record[r].revoked
                    \/ Expired(r, t) \/ record[r].count >= Max)
    <2>1. Verdict(r, t) =
            [outcome |-> "consumed", exhausted |-> record[r].count + 1 >= Max]
      BY <1>4 DEF Verdict
    <2>2. Verdict(r, t).outcome = "consumed" /\ Verdict(r, t) \in Outcomes
      BY <1>1, <2>1 DEF Outcomes
    <2>3. record[r].count < Max
      BY <1>1, <1>4
    <2>4. Verdict(r, t).exhausted = (record[r].count + 1 >= Max)
      BY <2>1
    <2> QED BY <1>4, <2>2, <2>3, <2>4
  <1> QED BY <1>2, <1>3, <1>4

(* Consume denies the bindings, is denied, or takes a use.                 *)
Command(c, verdict) ==
    /\ call[c].at = "consume"
    /\ call' = [call EXCEPT ![c] = [at |-> "map", token |-> call[c].token,
                                    time |-> call[c].time, outcome |-> verdict]]
    /\ UNCHANGED <<clock, issue, iat, reply>>
Deny(c, verdict) ==
    /\ Command(c, verdict) /\ verdict.outcome # "consumed"
    /\ UNCHANGED <<record, took>>
Use(c, r, verdict) ==
    /\ Command(c, verdict) /\ verdict.outcome = "consumed"
    /\ record' = [record EXCEPT ![r].count = @ + 1]
    /\ took' = took \cup {[call |-> c, receipt |-> r, begun |-> call[c].time]}
End(c, result) ==
    /\ call[c] # Idle
    /\ Finish(c, result)
    /\ UNCHANGED <<clock, issue, iat, record, took>>

LEMMA ConsumeCases ==
    ASSUME TypeOK, NEW c \in Calls, Consume(c)
    PROVE  \/ End(c, [status |-> "binding_denied"])
           \/ \E verdict : /\ verdict = Verdict(call[c].token.receipt, call[c].time)
                           /\ \/ Deny(c, verdict)
                              \/ Use(c, call[c].token.receipt, verdict)
  BY CallTypes DEF Consume, End, Deny, Use, Command, TypeOK, Idle

-----------------------------------------------------------------------------
(* The steps of a call other than its use.                                 *)
Quietly(c) ==
    \/ \E token \in Tokens : Start(c, token)
    \/ Verify(c) \/ MapConsumeResult(c) \/ Fail(c)

LEMMA TypeOfCall ==
    ASSUME TypeOK, NEW c \in Calls, Quietly(c) \/ Consume(c)
    PROVE  call' \in [Calls -> CallStates] /\ reply' \in [Calls -> Results]
  <1>0. /\ call \in [Calls -> CallStates] /\ reply \in [Calls -> Results]
        /\ clock \in 0 .. Horizon
    BY DEF TypeOK
  <1>1. ASSUME NEW s \in CallStates, call' = [call EXCEPT ![c] = s]
        PROVE  call' \in [Calls -> CallStates]
    BY <1>0, <1>1
  <1>2. ASSUME NEW res \in Results, Finish(c, res)
        PROVE  call' \in [Calls -> CallStates] /\ reply' \in [Calls -> Results]
    BY <1>0, <1>2 DEF Finish, CallStates
  <1>3. ASSUME NEW token \in Tokens, Start(c, token)
        PROVE  call' \in [Calls -> CallStates] /\ reply' \in [Calls -> Results]
    <2>1. [at |-> "verify", token |-> token, time |-> clock] \in CallStates
      BY <1>0 DEF CallStates
    <2> QED BY <1>0, <1>1, <1>3, <2>1 DEF Start
  <1>4. CASE Verify(c)
    <2>1. CASE Verified(call[c].token)
      <3>1. call[c] \in [at : {"verify", "consume"}, token : Tokens, time : 0 .. Horizon]
        BY <1>0, <1>4 DEF Verify, CallStates, Idle
      <3>2. [call[c] EXCEPT !.at = "consume"] \in CallStates
        BY <3>1 DEF CallStates
      <3> QED BY <1>0, <1>1, <1>4, <2>1, <3>2 DEF Verify
    <2>2. CASE ~Verified(call[c].token)
      <3>1. [status |-> "verification_denied"] \in Results
        BY DEF Results
      <3> QED BY <1>2, <1>4, <2>2, <3>1 DEF Verify
    <2> QED BY <2>1, <2>2
  <1>5. CASE Consume(c)
    <2>1. CASE End(c, [status |-> "binding_denied"])
      <3>1. [status |-> "binding_denied"] \in Results
        BY DEF Results
      <3> QED BY <1>2, <2>1, <3>1 DEF End
    <2>2. CASE ~End(c, [status |-> "binding_denied"])
      <3>1. PICK v : /\ v = Verdict(call[c].token.receipt, call[c].time)
                     /\ Command(c, v)
        BY <1>5, <2>2, ConsumeCases DEF Deny, Use
      <3>2. /\ call[c].token \in Tokens /\ call[c].time \in 0 .. Horizon
            /\ call[c].token.receipt \in Receipts
        BY <3>1, CallTypes DEF Command
      <3>3. v \in Outcomes
        BY <3>1, <3>2, VerdictTypes
      <3>4. [at |-> "map", token |-> call[c].token, time |-> call[c].time,
             outcome |-> v] \in CallStates
        BY <3>2, <3>3 DEF CallStates
      <3> QED BY <1>0, <1>1, <3>1, <3>4 DEF Command
    <2> QED BY <2>1, <2>2
  <1>6. CASE MapConsumeResult(c)
    <2>1. call[c].outcome \in Outcomes
      BY <1>6, CallTypes DEF MapConsumeResult
    <2>2. PICK res : /\ Finish(c, res)
                     /\ res = IF call[c].outcome.outcome = "consumed"
                              THEN [status |-> "success", exhausted |-> call[c].outcome.exhausted]
                              ELSE [status |-> "consumption_denied",
                                    reason |-> call[c].outcome.outcome]
      BY <1>6 DEF MapConsumeResult
    <2>3. CASE call[c].outcome.outcome = "consumed"
      <3>1. call[c].outcome.exhausted \in BOOLEAN
        BY <2>1, <2>3 DEF Outcomes, Denials
      <3>2. res \in Results
        BY <2>2, <2>3, <3>1 DEF Results
      <3> QED BY <1>2, <2>2, <3>2
    <2>4. CASE call[c].outcome.outcome # "consumed"
      <3>1. call[c].outcome.outcome \in Denials
        BY <2>1, <2>4 DEF Outcomes
      <3>2. res \in Results
        BY <2>2, <2>4, <3>1 DEF Results
      <3> QED BY <1>2, <2>2, <3>2
    <2> QED BY <2>3, <2>4
  <1>7. CASE Fail(c)
    <2>1. [status |-> "system_failure"] \in Results
      BY DEF Results
    <2> QED BY <1>2, <1>7, <2>1 DEF Fail
  <1> QED BY <1>3, <1>4, <1>5, <1>6, <1>7 DEF Quietly

LEMMA ChangeCases ==
    ASSUME TypeOK, NEW r \in Receipts, NEW field, Change(r, field)
    PROVE  /\ record' \in [Receipts -> Records]
           /\ \A x \in Receipts : /\ record'[x].count = record[x].count
                                  /\ record'[x].registered = record[x].registered
                                  /\ record[x].revoked => record'[x].revoked
                                  /\ record[x].expired => record'[x].expired
  <1>1. record[r] \in Records /\ record \in [Receipts -> Records]
    BY DEF TypeOK
  <1>2. \A x \in Records :
            LET ys == {[x EXCEPT !.revoked = TRUE], [x EXCEPT !.expired = TRUE],
                       [x EXCEPT !.altered = TRUE]}
            IN  \A y \in ys : /\ y \in Records /\ y.count = x.count
                              /\ y.registered = x.registered
                              /\ (x.revoked => y.revoked) /\ (x.expired => y.expired)
    BY DEF Records
  <1>3. \/ record' = [record EXCEPT ![r].revoked = TRUE]
        \/ record' = [record EXCEPT ![r].expired = TRUE]
        \/ record' = [record EXCEPT ![r].altered = TRUE]
    BY DEF Change
  <1>4. \E y \in Records : /\ record' = [record EXCEPT ![r] = y]
                           /\ y.count = record[r].count
                           /\ y.registered = record[r].registered
                           /\ record[r].revoked => y.revoked
                           /\ record[r].expired => y.expired
    BY <1>1, <1>2, <1>3
  <1> QED BY <1>1, <1>4

LEMMA RecordCounts ==
    ASSUME NEW x \in Records, NEW n \in Nat
    PROVE  [x EXCEPT !.count = n] \in Records
  BY DEF Records

LEMMA TypeKept == TypeOK /\ [Next]_vars => TypeOK'
  <1> SUFFICES ASSUME TypeOK, [Next]_vars PROVE TypeOK'
    OBVIOUS
  <1>1. ASSUME NEW c \in Calls, Quietly(c) PROVE TypeOK'
    <2>1. UNCHANGED <<clock, issue, iat, record, took>>
      BY <1>1 DEF Quietly, Start, Verify, MapConsumeResult, Fail
    <2> QED BY <1>1, <2>1, TypeOfCall DEF TypeOK
  <1>2. ASSUME NEW c \in Calls, Consume(c) PROVE TypeOK'
    <2>0. call' \in [Calls -> CallStates] /\ reply' \in [Calls -> Results]
      BY <1>2, TypeOfCall
    <2>1. UNCHANGED <<clock, issue, iat>>
      BY <1>2 DEF Consume
    <2>2. record' \in [Receipts -> Records]
          /\ took' \subseteq [call : Calls, receipt : Receipts, begun : 0 .. Horizon]
      <3>1. CASE UNCHANGED <<record, took>>
        BY <3>1 DEF TypeOK
      <3>2. CASE ~UNCHANGED <<record, took>>
        <4>1. PICK v : Use(c, call[c].token.receipt, v)
          BY <1>2, <3>2, ConsumeCases DEF End, Deny
        <4>2. /\ call[c].time \in 0 .. Horizon /\ call[c].token.receipt \in Receipts
          BY <4>1, CallTypes DEF Use, Command
        <4>3. record' = [record EXCEPT ![call[c].token.receipt].count = @ + 1]
          BY <4>1 DEF Use
        <4>4. record' \in [Receipts -> Records]
          <5> DEFINE q == call[c].token.receipt
          <5>1. record[q] \in Records /\ record \in [Receipts -> Records]
            BY <4>2 DEF TypeOK
          <5>2. [record[q] EXCEPT !.count = record[q].count + 1] \in Records
            <6>1. record[q].count + 1 \in Nat
              BY <5>1 DEF Records
            <6> QED BY <5>1, <6>1, RecordCounts
          <5>3. record' = [record EXCEPT ![q] =
                              [record[q] EXCEPT !.count = record[q].count + 1]]
            BY <4>3
          <5> HIDE DEF q
          <5> QED BY <5>1, <5>2, <5>3
        <4>5. took' \subseteq [call : Calls, receipt : Receipts, begun : 0 .. Horizon]
          BY <4>1, <4>2 DEF Use, TypeOK
        <4> QED BY <4>4, <4>5
      <3> QED BY <3>1, <3>2
    <2> QED BY <2>0, <2>1, <2>2 DEF TypeOK
  <1>3. ASSUME NEW r \in Receipts, SignReceipt(r) \/ RegisterIssuedReceipt(r) PROVE TypeOK'
    <2>1. CASE SignReceipt(r)
      <3>1. /\ UNCHANGED <<clock, record, call, reply, took>>
            /\ issue' = [issue EXCEPT ![r] = "signing"] /\ iat' = [iat EXCEPT ![r] = clock]
        BY <2>1 DEF SignReceipt
      <3> QED BY <3>1 DEF TypeOK
    <2>2. CASE RegisterIssuedReceipt(r)
      <3>1. /\ UNCHANGED <<clock, iat, call, reply, took>>
            /\ issue' = [issue EXCEPT ![r] = "issued"]
            /\ record' = [record EXCEPT ![r] = [@ EXCEPT !.registered = TRUE]]
        BY <2>2 DEF RegisterIssuedReceipt
      <3>2. [record[r] EXCEPT !.registered = TRUE] \in Records
        BY DEF TypeOK, Records
      <3>3. record' \in [Receipts -> Records]
        BY <3>1, <3>2 DEF TypeOK
      <3> QED BY <3>1, <3>3 DEF TypeOK
    <2> QED BY <1>3, <2>1, <2>2
  <1>4. ASSUME NEW r \in Receipts, NEW field \in DOMAIN Unregistered, Change(r, field)
        PROVE  TypeOK'
    <2>1. record' \in [Receipts -> Records]
      BY <1>4, ChangeCases
    <2> QED BY <1>4, <2>1 DEF Change, TypeOK
  <1>5. CASE Tick
    BY <1>5, NumberAssumption DEF Tick, TypeOK
  <1>6. CASE UNCHANGED vars
    BY <1>6 DEF vars, TypeOK
  <1> QED BY <1>1, <1>2, <1>3, <1>4, <1>5, <1>6 DEF Next, Quietly

LEMMA TypeInitially == Init => TypeOK
  BY NumberAssumption DEF Init, TypeOK, Unregistered, Records, CallStates, Idle, Results, NoReply

(* Every variable keeps its type, for all calls, receipts and numbers.     *)
THEOREM TypeCorrect == Spec => []TypeOK
  BY TypeInitially, TypeKept, PTL DEF Spec

-----------------------------------------------------------------------------
(* A call that takes no use disturbs nothing but what is said of itself.   *)
LEMMA CallChange ==
    ASSUME AInv, TypeOK', NEW c \in Calls, UNCHANGED <<issue, iat, record, took>>,
           \A z \in Calls : z # c => call'[z] = call[z] /\ reply'[z] = reply[z],
           CallInv(c)', Marked(c)' => Marked(c), Marked(c) => Marked(c)' \/ Failed(c)',
           Failed(c) => Failed(c)'
    PROVE  AInv'
  <1>1. TypeOK /\ UseInv /\ took \subseteq [call : Calls, receipt : Receipts, begun : 0 .. Horizon]
    BY DEF AInv, TypeOK
  <1>2. UseInv'
    BY <1>1 DEF UseInv, Exp
  <1>3. ASSUME NEW z \in Calls PROVE CallInv(z)'
    <2>1. CASE z = c
      BY <2>1
    <2>2. CASE z # c
      <3>1. CallInv(z) /\ call'[z] = call[z] /\ reply'[z] = reply[z]
        BY <2>2 DEF AInv
      <3>2. Charged(z)' <=> Charged(z)
        BY DEF Charged
      <3> QED BY <3>1, <3>2 DEF CallInv
    <2> QED BY <2>1, <2>2
  <1>4. ASSUME NEW r \in Receipts PROVE ReceiptInv(r)'
    <2>1. ReceiptInv(r) /\ Uses(r)' = Uses(r)
      BY DEF AInv, Uses
    <2>2. \A u \in Uses(r) : u.call \in Calls
      BY <1>1 DEF Uses
    <2>3. \A z \in Calls : /\ Marked(z)' => Marked(z)
                           /\ Marked(z) => Marked(z)' \/ Failed(z)'
                           /\ Failed(z) => Failed(z)'
      <3>1. ASSUME NEW z \in Calls, z # c
            PROVE  (Marked(z)' <=> Marked(z)) /\ (Failed(z)' <=> Failed(z))
        BY <3>1 DEF Marked, Failed
      <3> QED BY <3>1
    <2>4. \A u, v \in Uses(r)' : Marked(u.call)' /\ Marked(v.call)' => u = v
      BY <2>1, <2>2, <2>3 DEF ReceiptInv
    <2>5. \A u \in Uses(r)' : Marked(u.call)' => record'[r].count >= Max
      BY <2>1, <2>2, <2>3 DEF ReceiptInv
    <2>6. record'[r].count >= Max =>
              \E u \in Uses(r)' : Marked(u.call)' \/ Failed(u.call)'
      BY <2>1, <2>2, <2>3 DEF ReceiptInv
    <2> QED BY <2>1, <2>4, <2>5, <2>6 DEF ReceiptInv
  <1> QED BY <1>2, <1>3, <1>4 DEF AInv

LEMMA QuietStep ==
    ASSUME AInv, TypeOK', NEW c \in Calls, Quietly(c)
    PROVE  AInv'
  <1>0. /\ TypeOK /\ CallInv(c) /\ call \in [Calls -> CallStates] /\ reply \in [Calls -> Results]
        /\ Charged(c)' <=> Charged(c)
    BY DEF AInv, TypeOK, Quietly, Start, Verify, MapConsumeResult, Fail, Charged
  <1>1. UNCHANGED <<issue, iat, record, took>>
    BY DEF Quietly, Start, Verify, MapConsumeResult, Fail
  <1>2. \A z \in Calls : z # c => call'[z] = call[z] /\ reply'[z] = reply[z]
    BY <1>0 DEF Quietly, Start, Verify, MapConsumeResult, Fail, Finish
  <1>f. ASSUME NEW res, Finish(c, res), call[c] # Idle
        PROVE  call'[c] = Idle /\ reply'[c] = res /\ reply[c] = NoReply
    BY <1>0, <1>f DEF Finish, CallInv
  <1>3. ASSUME NEW token \in Tokens, Start(c, token) PROVE AInv'
    <2>1. /\ call[c] = Idle /\ reply'[c] = NoReply /\ reply[c] = NoReply
          /\ call'[c] = [at |-> "verify", token |-> token, time |-> clock]
          /\ token.genuine => issue[token.receipt] = "issued"
      BY <1>0, <1>3 DEF Start
    <2>2. ~Charged(c)
      BY <1>0, <2>1 DEF CallInv, NoReply
    <2>3. CallInv(c)'
      BY <1>0, <1>1, <2>1, <2>2 DEF CallInv, Idle
    <2>4. ~Marked(c) /\ ~Marked(c)' /\ ~Failed(c)
      BY <2>1 DEF Marked, Failed, NoReply, Idle
    <2> QED BY <1>1, <1>2, <2>3, <2>4, CallChange
  <1>4. CASE Verify(c) /\ Verified(call[c].token)
    <2>1. /\ call[c].at = "verify" /\ call[c].token.genuine /\ UNCHANGED reply
          /\ call' = [call EXCEPT ![c].at = "consume"]
      BY <1>4 DEF Verify, Verified
    <2>2. call[c] \in [at : {"verify", "consume"}, token : Tokens, time : 0 .. Horizon]
      BY <1>0, <2>1 DEF CallStates, Idle
    <2>3. call'[c].at = "consume" /\ call'[c].token = call[c].token
      BY <1>0, <2>1, <2>2
    <2>4. call[c] # Idle /\ call'[c] # Idle /\ reply[c] = NoReply /\ ~Charged(c)
      BY <1>0, <2>1, <2>3 DEF CallInv, Idle
    <2>5. CallInv(c)'
      BY <1>0, <1>1, <2>1, <2>3, <2>4 DEF CallInv
    <2>6. ~Marked(c) /\ ~Marked(c)' /\ ~Failed(c)
      BY <2>1, <2>3, <2>4 DEF Marked, Failed, NoReply
    <2> QED BY <1>1, <1>2, <2>5, <2>6, CallChange
  <1>5. CASE Verify(c) /\ ~Verified(call[c].token)
    <2>1. /\ call[c].at = "verify" /\ call[c] # Idle
          /\ Finish(c, [status |-> "verification_denied"])
      BY <1>5 DEF Verify, Idle
    <2>2. /\ call'[c] = Idle /\ reply'[c] = [status |-> "verification_denied"]
          /\ reply[c] = NoReply /\ ~Charged(c)
      BY <1>0, <1>f, <2>1 DEF CallInv
    <2>3. CallInv(c)' /\ ~Marked(c) /\ ~Marked(c)' /\ ~Failed(c)
      BY <1>0, <2>1, <2>2 DEF CallInv, Marked, Failed, NoReply, Idle
    <2> QED BY <1>1, <1>2, <2>3, CallChange
  <1>6. CASE MapConsumeResult(c)
    <2>1. /\ call[c].at = "map" /\ call[c] # Idle
          /\ Charged(c) <=> call[c].outcome.outcome = "consumed"
          /\ call[c].outcome.outcome # "receipt_missing"
      BY <1>0, <1>6 DEF MapConsumeResult, CallInv, Idle
    <2>2. CASE call[c].outcome.outcome = "consumed"
      <3>1. Finish(c, [status |-> "success", exhausted |-> call[c].outcome.exhausted])
        BY <1>6, <2>2 DEF MapConsumeResult
      <3>2. /\ call'[c] = Idle /\ reply[c] = NoReply
            /\ reply'[c] = [status |-> "success", exhausted |-> call[c].outcome.exhausted]
        BY <1>f, <2>1, <3>1
      <3>3. CallInv(c)' /\ (Marked(c)' <=> Marked(c)) /\ ~Failed(c)
        BY <1>0, <2>1, <2>2, <3>2 DEF CallInv, Marked, Failed, NoReply, Idle
      <3> QED BY <1>1, <1>2, <3>3, CallChange
    <2>3. CASE call[c].outcome.outcome # "consumed"
      <3>1. Finish(c, [status |-> "consumption_denied", reason |-> call[c].outcome.outcome])
        BY <1>6, <2>3 DEF MapConsumeResult
      <3>2. /\ call'[c] = Idle /\ reply[c] = NoReply
            /\ reply'[c] = [status |-> "consumption_denied", reason |-> call[c].outcome.outcome]
        BY <1>f, <2>1, <3>1
      <3>3. CallInv(c)' /\ ~Marked(c)' /\ ~Marked(c) /\ ~Failed(c)
        BY <1>0, <2>1, <2>3, <3>2 DEF CallInv, Marked, Failed, NoReply, Idle
      <3> QED BY <1>1, <1>2, <3>3, CallChange
    <2> QED BY <2>2, <2>3
  <1>7. CASE Fail(c)
    <2>1. call[c] # Idle /\ Finish(c, [status |-> "system_failure"])
      BY <1>7 DEF Fail, Idle
    <2>2. call'[c] = Idle /\ reply'[c] = [status |-> "system_failure"]
      BY <1>f, <2>1
    <2>3. CallInv(c)' /\ ~Marked(c)' /\ Failed(c)'
      BY <1>0, <2>2 DEF CallInv, Marked, Failed, Idle
    <2> QED BY <1>1, <1>2, <2>3, CallChange
  <1> QED BY <1>3, <1>4, <1>5, <1>6, <1>7 DEF Quietly

-----------------------------------------------------------------------------
(* What a use changes: one more use of its receipt, by a call that had     *)
(* none, while there was room.                                             *)
LEMMA UseStep ==
    ASSUME AInv, TypeOK', NEW c \in Calls, NEW r, NEW v, r = call[c].token.receipt,
           v = Verdict(r, call[c].time), Use(c, r, v)
    PROVE  AInv'
  <1> DEFINE u0 == [call |-> c, receipt |-> r, begun |-> call[c].time]
  <1>0. /\ TypeOK /\ CallInv(c) /\ call[c].at = "consume" /\ call[c] # Idle
        /\ call \in [Calls -> CallStates] /\ UNCHANGED <<issue, iat, reply>>
    BY DEF AInv, TypeOK, Use, Command, Idle
  <1>1. r \in Receipts /\ call[c].time \in 0 .. Horizon
    BY <1>0, CallTypes
  <1>2. /\ call[c].token.genuine /\ issue[r] = "issued" /\ ~Charged(c) /\ reply[c] = NoReply
    BY <1>0 DEF CallInv
  <1>3. /\ v.outcome = "consumed" /\ ~Expired(r, call[c].time) /\ record[r].count < Max
        /\ v.exhausted <=> record[r].count + 1 >= Max
    BY <1>0, <1>1, VerdictTypes DEF Use
  <1>4. /\ call'[c] = [at |-> "map", token |-> call[c].token, time |-> call[c].time,
                       outcome |-> v]
        /\ \A z \in Calls : z # c => call'[z] = call[z]
    BY <1>0 DEF Use, Command
  <1>5. /\ took' = took \cup {u0} /\ u0 \notin took
        /\ \A u \in took : u.call # c /\ u.call \in Calls /\ u.receipt \in Receipts
    BY <1>0, <1>2 DEF Use, Charged, TypeOK
  <1>6. /\ record[r].count \in Nat /\ record'[r].count = record[r].count + 1
        /\ record'[r].registered = record[r].registered
        /\ \A x \in Receipts : x # r => record'[x] = record[x]
    <2>1. record[r] \in Records /\ record \in [Receipts -> Records]
      BY <1>0, <1>1 DEF TypeOK
    <2>2. record' = [record EXCEPT ![r].count = @ + 1]
      BY DEF Use
    <2> QED BY <1>1, <2>1, <2>2 DEF Records
  <1>7. UseInv'
    <2>1. call[c].time < Exp(r)
      <3>1. Exp(r) \in Int
        BY <1>0, <1>1, NumberAssumption DEF Exp, TypeOK
      <3> QED BY <1>1, <1>3, <3>1 DEF Expired
    <2>2. \A u \in took' : issue'[u.receipt] = "issued" /\ u.begun < Exp(u.receipt)'
      BY <1>0, <1>2, <1>5, <2>1 DEF UseInv, AInv, Exp
    <2>3. \A u, w \in took' : u.call = w.call => u = w
      BY <1>5 DEF UseInv, AInv
    <2> QED BY <2>2, <2>3 DEF UseInv
  <1>8. \A z \in Calls : Charged(z)' <=> Charged(z) \/ z = c
    BY <1>5 DEF Charged
  <1>9. ASSUME NEW z \in Calls PROVE CallInv(z)'
    <2>1. CASE z = c
      BY <1>0, <1>2, <1>3, <1>4, <1>8, <2>1 DEF CallInv, Idle
    <2>2. CASE z # c
      BY <1>0, <1>4, <1>8, <2>2 DEF CallInv, AInv
    <2> QED BY <2>1, <2>2
  <1>10. /\ \A z \in Calls : z # c => (Marked(z)' <=> Marked(z))
         /\ \A z \in Calls : Failed(z)' <=> Failed(z)
         /\ Marked(c)' <=> record[r].count + 1 >= Max
    <2>1. \A z \in Calls : z # c => (Marked(z)' <=> Marked(z))
      BY <1>0, <1>4 DEF Marked
    <2>2. Marked(c)' <=> record[r].count + 1 >= Max
      BY <1>0, <1>2, <1>3, <1>4 DEF Marked, NoReply
    <2>3. \A z \in Calls : Failed(z)' <=> Failed(z)
      BY <1>0 DEF Failed
    <2> QED BY <2>1, <2>2, <2>3
  <1>11. \A x \in Receipts : x # r => Uses(x)' = Uses(x)
    BY <1>5 DEF Uses
  <1>12. Uses(r)' = Uses(r) \cup {u0} /\ u0 \notin Uses(r)
    BY <1>5 DEF Uses
  <1>13. record[r].count \in Nat /\ Max \in Nat /\ record[r].count < Max
    BY <1>3, <1>6, NumberAssumption
  <1>14. ASSUME NEW x \in Receipts PROVE ReceiptInv(x)'
    <2>0. ReceiptInv(x) /\ \A u \in Uses(x) : u.call \in Calls /\ u.call # c
      BY <1>5 DEF AInv, Uses
    <2>1. CASE x # r
      <3>1. Uses(x)' = Uses(x) /\ record'[x] = record[x]
        BY <1>6, <1>11, <2>1
      <3>2. \A u \in Uses(x) : (Marked(u.call)' <=> Marked(u.call))
                               /\ (Failed(u.call)' <=> Failed(u.call))
        BY <1>10, <2>0
      <3> QED BY <1>0, <2>0, <3>1, <3>2 DEF ReceiptInv
    <2>2. CASE x = r
      <3>1. IsFiniteSet(Uses(r)) /\ Cardinality(Uses(r)) = record[r].count
        BY <2>0, <2>2 DEF ReceiptInv
      <3>2. IsFiniteSet(Uses(r) \cup {u0})
            /\ Cardinality(Uses(r) \cup {u0}) = record[r].count + 1
        <4> HIDE DEF u0
        <4> QED BY <1>12, <3>1, FS_AddElement
      <3>3. \A u \in Uses(r) : ~Marked(u.call)
        <4>1. ~(record[r].count >= Max)
          BY <1>13
        <4> QED BY <2>0, <2>2, <4>1 DEF ReceiptInv
      <3>4. ASSUME NEW u \in Uses(r) PROVE ~Marked(u.call)'
        <4>1. u.call \in Calls /\ u.call # c /\ ~Marked(u.call)
          BY <2>0, <2>2, <3>3
        <4>2. Marked(u.call)' <=> Marked(u.call)
          BY <1>10, <4>1
        <4> QED BY <4>1, <4>2
      <3>5. \A u, w \in Uses(r)' : Marked(u.call)' /\ Marked(w.call)' => u = w
        <4>1. \A u \in Uses(r)' : Marked(u.call)' => u = u0
          BY <1>12, <3>4
        <4> QED BY <4>1
      <3>6. \A u \in Uses(r)' : Marked(u.call)' => record'[r].count >= Max
        <4>1. \A u \in Uses(r)' : Marked(u.call)' => u.call = c
          BY <1>12, <3>4
        <4>2. Marked(c)' => record'[r].count >= Max
          BY <1>6, <1>10
        <4> QED BY <4>1, <4>2
      <3>7. record'[r].count >= Max =>
                \E u \in Uses(r)' : Marked(u.call)' \/ Failed(u.call)'
        <4>1. record'[r].count >= Max => Marked(u0.call)'
          BY <1>6, <1>10
        <4>2. u0 \in Uses(r)'
          BY <1>12
        <4> QED BY <4>1, <4>2
      <3>8. record'[r].count <= Max /\ (issue'[r] = "issued" => record'[r].registered)
        <4>1. record'[r].count <= Max
          BY <1>6, <1>13
        <4>2. issue[r] = "issued" => record[r].registered
          BY <2>0, <2>2 DEF ReceiptInv
        <4> QED BY <1>0, <1>6, <4>1, <4>2
      <3> QED BY <1>6, <1>12, <2>2, <3>2, <3>5, <3>6, <3>7, <3>8 DEF ReceiptInv
    <2> QED BY <2>1, <2>2
  <1> QED BY <1>7, <1>9, <1>14 DEF AInv

LEMMA ConsumeStep ==
    ASSUME AInv, TypeOK', NEW c \in Calls, Consume(c)
    PROVE  AInv'
  <1>0. /\ TypeOK /\ CallInv(c) /\ call \in [Calls -> CallStates] /\ reply \in [Calls -> Results]
        /\ call[c].at = "consume" /\ call[c] # Idle
    BY DEF AInv, TypeOK, Consume, Idle
  <1>1. /\ call[c].token.genuine /\ issue[call[c].token.receipt] = "issued"
        /\ ~Charged(c) /\ reply[c] = NoReply
    BY <1>0 DEF CallInv
  <1>2. ~Marked(c) /\ ~Failed(c)
    BY <1>0, <1>1 DEF Marked, Failed, NoReply
  <1>3. CASE End(c, [status |-> "binding_denied"])
    <2>1. /\ call'[c] = Idle /\ reply'[c] = [status |-> "binding_denied"]
          /\ \A z \in Calls : z # c => call'[z] = call[z] /\ reply'[z] = reply[z]
          /\ UNCHANGED <<issue, iat, record, took>>
      BY <1>0, <1>3 DEF End, Finish
    <2>2. Charged(c)' <=> Charged(c)
      BY <2>1 DEF Charged
    <2>3. CallInv(c)' /\ ~Marked(c)'
      BY <1>1, <2>1, <2>2 DEF CallInv, Marked, Idle
    <2> QED BY <1>2, <2>1, <2>3, CallChange
  <1>4. ASSUME NEW v, v = Verdict(call[c].token.receipt, call[c].time), Deny(c, v)
        PROVE  AInv'
    <2>1. /\ call'[c] = [at |-> "map", token |-> call[c].token, time |-> call[c].time,
                         outcome |-> v]
          /\ \A z \in Calls : z # c => call'[z] = call[z] /\ reply'[z] = reply[z]
          /\ UNCHANGED <<issue, iat, record, took, reply>> /\ v.outcome # "consumed"
      BY <1>0, <1>4 DEF Deny, Command
    <2>2. call[c].token.receipt \in Receipts /\ call[c].time \in 0 .. Horizon
      BY <1>0, CallTypes
    <2>3. record[call[c].token.receipt].registered
      BY <1>1, <2>2 DEF AInv, ReceiptInv
    <2>4. v.outcome # "receipt_missing"
      BY <1>0, <1>4, <2>2, <2>3, VerdictTypes
    <2>5. Charged(c)' <=> Charged(c)
      BY <2>1 DEF Charged
    <2>6. CallInv(c)' /\ ~Marked(c)'
      BY <1>1, <2>1, <2>4, <2>5 DEF CallInv, Marked, Idle, NoReply
    <2> QED BY <1>2, <2>1, <2>6, CallChange
  <1> QED BY <1>0, <1>3, <1>4, ConsumeCases, UseStep

-----------------------------------------------------------------------------
LEMMA AInvInitially == Init => AInv
  <1> SUFFICES ASSUME Init PROVE AInv
    OBVIOUS
  <1>1. UseInv
    BY DEF Init, UseInv
  <1>2. \A c \in Calls : CallInv(c)
    BY DEF Init, CallInv, Idle, NoReply, Charged
  <1>3. ASSUME NEW r \in Receipts PROVE ReceiptInv(r)
    <2>1. Uses(r) = {}
      BY DEF Init, Uses
    <2>2. IsFiniteSet(Uses(r)) /\ Cardinality(Uses(r)) = 0
      BY <2>1, FS_EmptySet
    <2> QED BY <2>1, <2>2, NumberAssumption DEF Init, ReceiptInv, Unregistered
  <1> QED BY <1>1, <1>2, <1>3, TypeInitially DEF AInv

(* Issuing, revoking and the clock leave uses and calls alone, and a       *)
(* receipt is dated before anybody can hold it.                            *)
LEMMA OtherStep ==
    ASSUME AInv, TypeOK', UNCHANGED <<call, reply, took>>,
           \A r \in Receipts :
               /\ record'[r].count = record[r].count
               /\ issue[r] = "issued" => issue'[r] = "issued" /\ iat'[r] = iat[r]
               /\ issue'[r] = "issued" => record'[r].registered
    PROVE  AInv'
  <1>0. TypeOK /\ \A u \in took : u.receipt \in Receipts /\ u.call \in Calls
    BY DEF AInv, TypeOK
  <1>1. UseInv'
    BY <1>0 DEF AInv, UseInv, Exp
  <1>2. ASSUME NEW c \in Calls PROVE CallInv(c)'
    <2>1. CallInv(c) /\ (Charged(c)' <=> Charged(c))
      BY DEF AInv, Charged
    <2>2. call[c] # Idle => call[c].token.receipt \in Receipts
      BY <1>0, CallTypes
    <2> QED BY <2>1, <2>2 DEF CallInv
  <1>3. ASSUME NEW r \in Receipts PROVE ReceiptInv(r)'
    <2>1. ReceiptInv(r) /\ Uses(r)' = Uses(r)
      BY DEF AInv, Uses
    <2>2. \A c : (Marked(c)' <=> Marked(c)) /\ (Failed(c)' <=> Failed(c))
      BY DEF Marked, Failed
    <2> QED BY <2>1, <2>2 DEF ReceiptInv
  <1> QED BY <1>1, <1>2, <1>3 DEF AInv

LEMMA AInvKept == AInv /\ [Next]_vars => AInv'
  <1> SUFFICES ASSUME AInv, [Next]_vars PROVE AInv'
    OBVIOUS
  <1>0. TypeOK /\ TypeOK' /\ \A r \in Receipts : ReceiptInv(r)
    BY TypeKept DEF AInv
  <1>1. ASSUME NEW c \in Calls, Quietly(c) PROVE AInv'
    BY <1>0, <1>1, QuietStep
  <1>2. ASSUME NEW c \in Calls, Consume(c) PROVE AInv'
    BY <1>0, <1>2, ConsumeStep
  <1>3. ASSUME NEW r \in Receipts, SignReceipt(r) PROVE AInv'
    <2>1. /\ UNCHANGED <<call, reply, took, record>>
          /\ \A x \in Receipts : /\ issue[x] = "issued" => issue'[x] = "issued" /\ iat'[x] = iat[x]
                                 /\ issue'[x] = "issued" => issue[x] = "issued"
      BY <1>0, <1>3 DEF SignReceipt, TypeOK
    <2> QED BY <1>0, <2>1, OtherStep DEF ReceiptInv
  <1>4. ASSUME NEW r \in Receipts, RegisterIssuedReceipt(r) PROVE AInv'
    <2>1. UNCHANGED <<call, reply, took, iat>>
      BY <1>4 DEF RegisterIssuedReceipt
    <2>2. \A x \in Receipts :
            /\ record'[x].count = record[x].count
            /\ record'[x].registered <=> record[x].registered \/ x = r
            /\ issue'[x] = IF x = r THEN "issued" ELSE issue[x]
      BY <1>0, <1>4 DEF RegisterIssuedReceipt, TypeOK, Records
    <2> QED BY <1>0, <2>1, <2>2, OtherStep DEF ReceiptInv
  <1>5. ASSUME NEW r \in Receipts, NEW field \in DOMAIN Unregistered, Change(r, field)
        PROVE  AInv'
    <2>1. UNCHANGED <<call, reply, took, issue, iat>>
      BY <1>5 DEF Change
    <2>2. \A x \in Receipts : record'[x].count = record[x].count
                             /\ record'[x].registered = record[x].registered
      BY <1>0, <1>5, ChangeCases
    <2> QED BY <1>0, <2>1, <2>2, OtherStep DEF ReceiptInv
  <1>6. CASE Tick \/ UNCHANGED vars
    <2>1. UNCHANGED <<call, reply, took, issue, iat, record>>
      BY <1>6 DEF Tick, vars
    <2> QED BY <1>0, <2>1, OtherStep DEF ReceiptInv
  <1> QED BY <1>1, <1>2, <1>3, <1>4, <1>5, <1>6 DEF Next, Quietly

(* The invariant holds in every reachable state.                           *)
THEOREM Invariance == Spec => []AInv
  BY AInvInitially, AInvKept, PTL DEF Spec

-----------------------------------------------------------------------------
(* The result never lies about a use.                                      *)
THEOREM HonestResults == Spec => []ResultIsHonest
  <1>1. AInv => ResultIsHonest
    <2> SUFFICES ASSUME AInv, NEW c \in Calls
                 PROVE  /\ reply[c].status = "success" => Charged(c)
                        /\ reply[c].status \in {"verification_denied", "binding_denied",
                                                "consumption_denied"} => ~Charged(c)
      BY DEF ResultIsHonest
    <2>1. CallInv(c)
      BY DEF AInv
    <2>2. CASE call[c] # Idle
      BY <2>1, <2>2 DEF CallInv, NoReply
    <2>3. CASE call[c] = Idle
      BY <2>1, <2>3 DEF CallInv
    <2> QED BY <2>2, <2>3
  <1> QED BY <1>1, Invariance, PTL

(* Every use was begun before its receipt's expiry, whatever the tolerance.*)
THEOREM ToleranceIsFree == Spec => []ToleranceBuysNoUse
  <1>1. AInv => ToleranceBuysNoUse
    BY DEF AInv, UseInv, ToleranceBuysNoUse
  <1> QED BY <1>1, Invariance, PTL

(* A token somebody holds always finds its record.                         *)
THEOREM RecordsAreFound == Spec => []HeldReceiptsAreKnown
  <1>1. AInv => HeldReceiptsAreKnown
    BY DEF AInv, CallInv, HeldReceiptsAreKnown, NoReply
  <1> QED BY <1>1, Invariance, PTL

LEMMA AtMostOne ==
    ASSUME NEW S, \A x, y \in S : x = y
    PROVE  IsFiniteSet(S) /\ Cardinality(S) <= 1
  <1>1. CASE S = {}
    <2>1. IsFiniteSet(S) /\ Cardinality(S) = 0
      BY <1>1, FS_EmptySet
    <2> QED BY <2>1
  <1>2. CASE S # {}
    <2>1. PICK x : S = {x}
      BY <1>2
    <2>2. IsFiniteSet({x}) /\ Cardinality({x}) = 1
      BY FS_Singleton
    <2> QED BY <2>1, <2>2
  <1> QED BY <1>1, <1>2

(* The use that empties the receipt, and no other, is reported as such.    *)
THEOREM ExhaustionReport == Spec => []LastUseReportedOnce
  <1>1. AInv => LastUseReportedOnce
    <2> SUFFICES ASSUME AInv, NEW r \in Receipts, NEW told, NEW last,
                        told = {u \in Uses(r) : reply[u.call].status = "success"},
                        last = {u \in told : reply[u.call].exhausted}
                 PROVE  /\ Cardinality(last) <= 1
                        /\ told = Uses(r) => (last # {} <=> Cardinality(told) >= Max)
      BY DEF LastUseReportedOnce
    <2>1. ReceiptInv(r) /\ \A u \in Uses(r) : u.call \in Calls /\ CallInv(u.call)
      BY DEF AInv, Uses, TypeOK
    <2>2. \A u \in last : u \in Uses(r) /\ Marked(u.call)
      BY DEF Marked
    <2>3. \A u, v \in last : u = v
      BY <2>1, <2>2 DEF ReceiptInv
    <2>4. Cardinality(last) <= 1
      BY <2>3, AtMostOne
    <2>5. ASSUME told = Uses(r), last # {} PROVE Cardinality(told) >= Max
      BY <2>1, <2>2, <2>5 DEF ReceiptInv
    <2>6. ASSUME told = Uses(r), Cardinality(told) >= Max PROVE last # {}
      <3>1. PICK u \in Uses(r) : Marked(u.call) \/ Failed(u.call)
        BY <2>1, <2>6 DEF ReceiptInv
      <3>2. reply[u.call].status = "success"
        BY <2>6, <3>1
      <3>3. call[u.call] = Idle
        BY <2>1, <3>1, <3>2 DEF CallInv, NoReply
      <3>4. reply[u.call].exhausted
        BY <3>1, <3>2, <3>3 DEF Marked, Failed, Idle
      <3> QED BY <2>6, <3>1, <3>4
    <2> QED BY <2>4, <2>5, <2>6
  <1> QED BY <1>1, Invariance, PTL

-----------------------------------------------------------------------------
Honoured(r) == {u \in Uses(r) : reply[u.call].status = "success"}

(* The uses honoured are among those recorded.                             *)
HonouredBacked ==
    \A r \in Receipts :
        /\ IsFiniteSet(Honoured(r)) /\ Cardinality(Honoured(r)) \in Nat
        /\ Cardinality(Honoured(r)) <= record[r].count

LEMMA HonouredAreUses == AInv => HonouredBacked
  <1> SUFFICES ASSUME AInv, NEW r \in Receipts
               PROVE  /\ IsFiniteSet(Honoured(r)) /\ Cardinality(Honoured(r)) \in Nat
                      /\ Cardinality(Honoured(r)) <= record[r].count
    BY DEF HonouredBacked
  <1>1. IsFiniteSet(Uses(r)) /\ Cardinality(Uses(r)) = record[r].count
    BY DEF AInv, ReceiptInv
  <1>2. Honoured(r) \subseteq Uses(r)
    BY DEF Honoured
  <1>3. IsFiniteSet(Honoured(r)) /\ Cardinality(Honoured(r)) <= Cardinality(Uses(r))
    BY <1>1, <1>2, FS_Subset
  <1>4. Cardinality(Honoured(r)) \in Nat
    BY <1>3, FS_CardinalityType
  <1> QED BY <1>1, <1>3, <1>4

(* An answer is given once: what was honoured stays so.                    *)
LEMMA HonouredGrow ==
    ASSUME AInv, AInv', NEW c \in Calls, Quietly(c) \/ Consume(c), NEW r \in Receipts
    PROVE  Cardinality(Honoured(r)) <= Cardinality(Honoured(r)')
  <1>1. CallInv(c) /\ reply \in [Calls -> Results] /\ took \subseteq took'
        /\ \A u \in took : u.call \in Calls
    BY DEF AInv, TypeOK, Quietly, Start, Verify, MapConsumeResult, Fail, Consume
  <1>2. reply' = reply \/ reply[c] = NoReply
    BY <1>1 DEF Quietly, Start, Verify, MapConsumeResult, Fail, Consume, CallInv, Idle
  <1>3. \A z \in Calls : z # c => reply'[z] = reply[z]
    BY <1>1 DEF Quietly, Start, Verify, MapConsumeResult, Fail, Consume, Finish
  <1>4. Honoured(r) \subseteq Honoured(r)'
    BY <1>1, <1>2, <1>3 DEF Honoured, Uses, NoReply
  <1>5. HonouredBacked'
    BY HonouredAreUses, PTL
  <1>6. IsFiniteSet(Honoured(r)')
    BY <1>5 DEF HonouredBacked
  <1> QED BY <1>4, <1>6, FS_Subset

(* A call takes a use only of a receipt that is open.                      *)
LEMMA OnlyOpenReceiptsAreUsed ==
    ASSUME TypeOK, NEW c \in Calls, Quietly(c) \/ Consume(c), NEW r \in Receipts
    PROVE  /\ record'[r].revoked = record[r].revoked /\ record'[r].expired = record[r].expired
           /\ record[r].count <= record'[r].count
           /\ record[r].revoked \/ record[r].expired => record'[r].count = record[r].count
  <1>0. record[r].count \in Nat /\ record \in [Receipts -> Records] /\ record[r] \in Records
    BY DEF TypeOK, Records
  <1>1. CASE UNCHANGED record
    BY <1>0, <1>1
  <1>2. CASE ~UNCHANGED record
    <2>1. PICK v : /\ v = Verdict(call[c].token.receipt, call[c].time)
                   /\ Use(c, call[c].token.receipt, v)
      BY <1>2, ConsumeCases DEF Quietly, Start, Verify, MapConsumeResult, Fail, End, Deny
    <2>2. /\ call[c].token.receipt \in Receipts /\ call[c].time \in 0 .. Horizon
      BY <2>1, CallTypes DEF Use, Command
    <2>3. /\ ~record[call[c].token.receipt].revoked
          /\ ~record[call[c].token.receipt].expired
      BY <2>1, <2>2, VerdictTypes DEF Use, Expired
    <2>4. record' = [record EXCEPT ![call[c].token.receipt].count = @ + 1]
      BY <2>1 DEF Use
    <2>5. CASE r = call[c].token.receipt
      BY <1>0, <2>3, <2>4, <2>5 DEF Records
    <2>6. CASE r # call[c].token.receipt
      BY <1>0, <2>4, <2>6
    <2> QED BY <2>5, <2>6
  <1> QED BY <1>1, <1>2

(* A step of a call settles, a revocation or expiry closes.                *)
LEMMA StepKeepsPromise ==
    ASSUME AInv, AInv', [Next]_vars
    PROVE  [Promise!Next]_(Promise!vars)
  <1>0. /\ TypeOK /\ TypeOK' /\ HonouredBacked /\ HonouredBacked'
        /\ \A r \in Receipts : ReceiptInv(r)'
    <2>1. HonouredBacked /\ HonouredBacked'
      BY HonouredAreUses, PTL
    <2> QED BY <2>1 DEF AInv
  <1>h. Promise!vars = <<[r \in Receipts |-> record[r].count],
                         [r \in Receipts |-> Cardinality(Honoured(r))],
                         {r \in Receipts : record[r].revoked \/ record[r].expired}>>
    BY DEF Promise!vars, Honoured
  <1>1. ASSUME NEW c \in Calls, Quietly(c) \/ Consume(c)
        PROVE  Promise!Settle
    <2>1. \A r \in Receipts : Cardinality(Honoured(r)) <= Cardinality(Honoured(r)')
      BY <1>1, HonouredGrow
    <2>2. \A r \in Receipts :
            /\ record'[r].revoked = record[r].revoked /\ record'[r].expired = record[r].expired
            /\ record[r].count <= record'[r].count
            /\ record[r].revoked \/ record[r].expired => record'[r].count = record[r].count
      BY <1>0, <1>1, OnlyOpenReceiptsAreUsed
    <2>3. \A r \in Receipts : /\ record'[r].count \in Nat /\ record'[r].count <= Max
                              /\ Cardinality(Honoured(r)') \in Nat
                              /\ Cardinality(Honoured(r)') <= record'[r].count
      BY <1>0 DEF ReceiptInv, HonouredBacked, TypeOK, Records
    <2> QED BY <2>1, <2>2, <2>3 DEF Promise!Settle, Honoured
  <1>2. ASSUME NEW r \in Receipts, SignReceipt(r) \/ RegisterIssuedReceipt(r)
        PROVE  UNCHANGED Promise!vars
    <2>1. UNCHANGED <<reply, took>>
      BY <1>2 DEF SignReceipt, RegisterIssuedReceipt
    <2>2. \A x \in Receipts : /\ record'[x].count = record[x].count
                              /\ record'[x].revoked = record[x].revoked
                              /\ record'[x].expired = record[x].expired
      BY <1>0, <1>2 DEF SignReceipt, RegisterIssuedReceipt, TypeOK, Records
    <2>3. \A x \in Receipts : Honoured(x)' = Honoured(x)
      BY <2>1 DEF Honoured, Uses
    <2> QED BY <1>h, <2>2, <2>3 DEF Promise!vars, Honoured
  <1>3. ASSUME NEW r \in Receipts, NEW field, Change(r, field)
        PROVE  Promise!Close
    <2>1. UNCHANGED <<reply, took>>
      BY <1>3 DEF Change
    <2>2. \A x \in Receipts : /\ record'[x].count = record[x].count
                              /\ record[x].revoked => record'[x].revoked
                              /\ record[x].expired => record'[x].expired
      BY <1>0, <1>3, ChangeCases
    <2>3. \A x \in Receipts : Honoured(x)' = Honoured(x)
      BY <2>1 DEF Honoured, Uses
    <2>4. UNCHANGED [x \in Receipts |-> record[x].count]
      <3>1. \A x \in Receipts : record'[x].count = record[x].count
        BY <2>2
      <3> QED BY <3>1
    <2>5. UNCHANGED [x \in Receipts |-> Cardinality(Honoured(x))]
      BY <2>3
    <2>6. {x \in Receipts : record[x].revoked \/ record[x].expired}
            \subseteq {x \in Receipts : record'[x].revoked \/ record'[x].expired}
      <3>1. \A x \in Receipts : record[x].revoked \/ record[x].expired =>
                                    record'[x].revoked \/ record'[x].expired
        BY <2>2
      <3> QED BY <3>1
    <2> QED BY <2>4, <2>5, <2>6 DEF Promise!Close, Honoured
  <1>4. CASE Tick \/ UNCHANGED vars
    <2>1. UNCHANGED <<reply, took, record>>
      BY <1>4 DEF Tick, vars
    <2>3. \A x \in Receipts : Honoured(x)' = Honoured(x)
      BY <2>1 DEF Honoured, Uses
    <2> QED BY <1>h, <2>1, <2>3 DEF Promise!vars, Honoured
  <1> QED BY <1>1, <1>2, <1>3, <1>4 DEF Promise!Next, Next, Quietly

(* The refinement: the pipeline over the demo's store implements           *)
(* BoundedGrant in every instance.                                         *)
THEOREM PromiseIsKept == Spec => KeepsPromise
  <1>1. Init => Promise!Init
    <2> SUFFICES ASSUME Init PROVE Promise!Init
      OBVIOUS
    <2>1. \A r \in Receipts : {u \in Uses(r) : reply[u.call].status = "success"} = {}
      BY DEF Init, Uses
    <2>2. Cardinality({}) = 0
      BY FS_EmptySet
    <2> QED BY <2>1, <2>2 DEF Promise!Init, Init, Unregistered
  <1>2. AInv /\ AInv' /\ [Next]_vars => [Promise!Next]_(Promise!vars)
    BY StepKeepsPromise
  <1> QED BY <1>1, <1>2, Invariance, PTL DEF Spec, KeepsPromise, Promise!Spec

=============================================================================
