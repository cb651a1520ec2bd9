------------------------ MODULE LegacyRedemptionProofs ------------------------
(***************************************************************************)
(* Safety of LegacyRedemption for every set of requests, every maximum and *)
(* every expiry: no update is lost, grants are logged, denials are free,   *)
(* and the service implements BoundedGrant.                                *)
(***************************************************************************)
EXTENDS LegacyRedemption, TLAPS, FiniteSetTheorems

(* The inductive invariant.  A request has a use only past its update, and *)
(* what it has read, answered and logged agrees with the use.              *)
REDEEMED == "ACCESS_RECEIPT_REDEEMED"
RequestInv(q) ==
    /\ slot[q] > 0 => q \in Redeems /\ pc[q] \in {"reread", "log", "logLast", "done"}
    /\ pc[q] \in {"read", "update", "explain"} => q \in Redeems
    /\ pc[q] \in {"reread", "logLast"} => slot[q] > 0
    /\ pc[q] = "log" /\ q \in Redeems => slot[q] > 0
    /\ pc[q] # "done" => reply[q] = NoReply
    /\ pc[q] = "done" /\ slot[q] > 0 => reply[q].verdict \in {"GRANTED", "FAILED"}
    /\ REDEEMED \in logged[q] => slot[q] > 0
    /\ pc[q] = "logLast" => REDEEMED \in logged[q]
    /\ pc[q] \in {"log", "logLast"} => slot[q] <= seen[q].count
    /\ reply[q].verdict = "GRANTED" =>
        /\ REDEEMED \in logged[q]
        /\ slot[q] <= reply[q].row.count /\ reply[q].row.count <= row.count
    /\ seen[q].count <= row.count
    /\ slot[q] <= row.count

(* The row has room while it is ISSUED.                                    *)
RowInv ==
    /\ row.count <= Max
    /\ row.status = "ISSUED" => row.count < Max

(* The uses are numbered from 1 to the count, each by the one who took it. *)
SlotInv ==
    /\ IsFiniteSet(Took) /\ Cardinality(Took) = row.count
    /\ \A p, q \in Took : slot[p] = slot[q] => p = q
    /\ \A n \in 1 .. row.count : \E p \in Took : slot[p] = n
    /\ \A p \in Took : slot[p] \in 1 .. row.count

LInv ==
    /\ TypeOK /\ RowInv /\ SlotInv
    /\ \A q \in Requests : RequestInv(q)

-----------------------------------------------------------------------------
LEMMA AnswerTypes ==
    ASSUME TypeOK, NEW q \in Requests, NEW v \in Verdicts, NEW r \in Rows,
           Answer(q, v, r), UNCHANGED clock
    PROVE  /\ pc' \in [Requests -> Steps] /\ reply' \in [Requests -> Replies]
           /\ seen' \in [Requests -> Rows] /\ now' \in [Requests -> 0 .. Horizon]
  <1>1. Fresh \in Rows /\ 0 \in 0 .. Horizon /\ "done" \in Steps
    BY NumberAssumption DEF Fresh, Rows, Statuses, Steps
  <1>2. [verdict |-> v, row |-> r] \in Replies
    BY DEF Replies
  <1> QED BY <1>1, <1>2 DEF TypeOK, Answer, Goto

(* Every variable keeps its type.                                          *)
LEMMA TypeKept == TypeOK /\ [Next]_vars => TypeOK'
  <1> SUFFICES ASSUME TypeOK, [Next]_vars PROVE TypeOK'
    OBVIOUS
  <1>0. /\ Fresh \in Rows
        /\ {"VERIFIED", "GRANTED", "RECEIPT_EXPIRED", "RECEIPT_NOT_ACTIVE",
            "RECEIPT_CLAIMS_MISMATCH", "FAILED"} \subseteq Verdicts
        /\ \A s \in Statuses, r \in Rows : [r EXCEPT !.status = s] \in Rows
    BY DEF Fresh, Rows, Statuses, Verdicts
  <1>1. ASSUME NEW q \in Requests, Advance(q) \/ Fail(q) PROVE TypeOK'
    <2>0. seen[q] \in Rows /\ now[q] \in 0 .. Horizon
      BY DEF TypeOK
    <2>1. CASE Start(q)
      BY <2>1 DEF Start, Goto, Capture, TypeOK, Steps
    <2>2. CASE VerifyToken(q)
      BY <1>0, <2>2, AnswerTypes DEF VerifyToken, Goto, TypeOK, Steps
    <2>3. CASE Lookup(q) \/ ReadCount(q) \/ Reread(q)
      BY <2>3 DEF Lookup, ReadCount, Reread, Goto, Read, TypeOK, Steps
    <2>4. CASE CheckVerify(q)
      BY <1>0, <2>0, <2>4, AnswerTypes DEF CheckVerify, Goto, TypeOK, Steps
    <2>5. CASE CheckRedeem(q)
      <3>1. CASE Goto(q, "expire") /\ UNCHANGED <<reply, seen, now>>
        BY <2>5, <3>1 DEF CheckRedeem, Goto, TypeOK, Steps
      <3>2. CASE Answer(q, "RECEIPT_CLAIMS_MISMATCH", seen[q])
        <4>1. UNCHANGED <<row, clock, logged, slot>>
          BY <2>5 DEF CheckRedeem
        <4> QED BY <1>0, <2>0, <3>2, <4>1, AnswerTypes DEF TypeOK
      <3>3. CASE Goto(q, "read") /\ Capture(q) /\ UNCHANGED <<reply, seen>>
        <4>1. pc' \in [Requests -> Steps] /\ now' \in [Requests -> 0 .. Horizon]
          BY <3>3 DEF Goto, Capture, TypeOK, Steps
        <4>2. UNCHANGED <<row, clock, seen, reply, logged, slot>>
          BY <2>5, <3>3 DEF CheckRedeem
        <4> QED BY <4>1, <4>2 DEF TypeOK
      <3> QED BY <2>5, <3>1, <3>2, <3>3 DEF CheckRedeem
    <2>6. CASE SetReceiptExpired(q)
      <3>1. "EXPIRED" \in Statuses /\ [seen[q] EXCEPT !.status = "EXPIRED"] \in Rows
        BY <1>0, <2>0 DEF Statuses
      <3>2. row' \in Rows
        BY <2>6 DEF SetReceiptExpired, TypeOK, Rows, Statuses
      <3> QED BY <1>0, <2>6, <3>1, <3>2, AnswerTypes DEF SetReceiptExpired, TypeOK
    <2>7. CASE UpdateMany(q)
      <3>1. row.count + 1 \in Nat
        BY DEF TypeOK, Rows
      <3>2. row' \in Rows
        <4>1. CASE Redeemable(q)
          <5>1. CASE seen[q].count + 1 >= Max
            <6>1. row' = [status |-> "EXHAUSTED", active |-> FALSE, count |-> row.count + 1]
              BY <2>7, <4>1, <5>1 DEF UpdateMany
            <6> QED BY <3>1, <6>1 DEF Rows, Statuses
          <5>2. CASE ~(seen[q].count + 1 >= Max)
            <6>1. row' = [status |-> "ISSUED", active |-> TRUE, count |-> row.count + 1]
              BY <2>7, <4>1, <5>2 DEF UpdateMany
            <6> QED BY <3>1, <6>1 DEF Rows, Statuses
          <5> QED BY <5>1, <5>2
        <4>2. CASE ~Redeemable(q)
          BY <2>7, <4>2 DEF UpdateMany, TypeOK
        <4> QED BY <4>1, <4>2
      <3>3. slot' \in [Requests -> Nat]
        BY <2>7, <3>1 DEF UpdateMany, TypeOK
      <3> QED BY <2>7, <3>2, <3>3 DEF UpdateMany, Goto, TypeOK, Steps
    <2>8. CASE Explain(q)
      BY <1>0, <2>8, AnswerTypes DEF Explain, TypeOK
    <2>9. CASE LogVerified(q) \/ LogRedeemed(q) \/ LogLast(q)
      <3>1. logged' \in [Requests -> SUBSET Events]
        BY <2>9 DEF LogVerified, LogRedeemed, LogLast, Log, TypeOK, Events
      <3>2. \/ \E v \in {"VERIFIED", "GRANTED"} : Answer(q, v, seen[q])
            \/ Goto(q, "logLast") /\ UNCHANGED <<reply, seen, now>>
        BY <2>9 DEF LogVerified, LogRedeemed, LogLast
      <3>3. /\ pc' \in [Requests -> Steps] /\ reply' \in [Requests -> Replies]
            /\ seen' \in [Requests -> Rows] /\ now' \in [Requests -> 0 .. Horizon]
        <4>1. clock' = clock
          BY <2>9 DEF LogVerified, LogRedeemed, LogLast
        <4>2. CASE \E v \in {"VERIFIED", "GRANTED"} : Answer(q, v, seen[q])
          BY <1>0, <2>0, <4>1, <4>2, AnswerTypes
        <4>3. CASE Goto(q, "logLast") /\ UNCHANGED <<reply, seen, now>>
          BY <4>3 DEF Goto, TypeOK, Steps
        <4> QED BY <3>2, <4>2, <4>3
      <3> QED BY <2>9, <3>1, <3>3 DEF LogVerified, LogRedeemed, LogLast, TypeOK
    <2>10. CASE Fail(q)
      BY <1>0, <2>10, AnswerTypes DEF Fail, TypeOK
    <2> QED BY <1>1, <2>1, <2>2, <2>3, <2>4, <2>5, <2>6, <2>7, <2>8, <2>9, <2>10
            DEF Advance
  <1>2. CASE Tick
    BY <1>2, NumberAssumption DEF Tick, TypeOK
  <1>3. CASE UNCHANGED vars
    BY <1>3 DEF vars, TypeOK
  <1> QED BY <1>1, <1>2, <1>3 DEF Next

LEMMA TypeInitially == Init => TypeOK
  BY NumberAssumption DEF Init, TypeOK, Fresh, Rows, Statuses, Steps, Replies

(* Every variable keeps its type, for all requests and numbers.            *)
THEOREM TypeCorrect == Spec => []TypeOK
  BY TypeInitially, TypeKept, PTL DEF Spec

-----------------------------------------------------------------------------
(* The one step that changes the count or a slot.                          *)
Use(q) ==
    /\ q \in Redeems /\ pc[q] = "update" /\ slot[q] = 0
    /\ row.status = "ISSUED" /\ row.active
    /\ row' = [status |-> IF row.count + 1 >= Max THEN "EXHAUSTED" ELSE "ISSUED",
               active |-> row.count + 1 < Max, count |-> row.count + 1]
    /\ slot' = [slot EXCEPT ![q] = row.count + 1]
    /\ pc' = [pc EXCEPT ![q] = "reread"]
    /\ UNCHANGED <<clock, seen, now, reply, logged>>

(* A step of a request leaves the others alone.                            *)
LEMMA Frame ==
    ASSUME TypeOK, NEW q \in Requests, Advance(q) \/ Fail(q),
           NEW z \in Requests, z # q
    PROVE  /\ pc'[z] = pc[z] /\ seen'[z] = seen[z] /\ reply'[z] = reply[z]
           /\ logged'[z] = logged[z] /\ slot'[z] = slot[z]
  <1>1. \/ \E v \in Verdicts : \E r : Answer(q, v, r)
        \/ UNCHANGED <<reply, seen>> /\ \E s : Goto(q, s)
        \/ UNCHANGED reply /\ Read(q) /\ \E s : Goto(q, s)
    BY DEF Advance, Fail, Start, VerifyToken, Lookup, CheckVerify, CheckRedeem,
           SetReceiptExpired, ReadCount, UpdateMany, Reread, Explain, LogVerified,
           LogRedeemed, LogLast, Verdicts
  <1>2. pc'[z] = pc[z] /\ seen'[z] = seen[z] /\ reply'[z] = reply[z]
    BY <1>1 DEF Answer, Goto, Read, TypeOK
  <1>3. logged'[z] = logged[z]
    BY DEF Advance, Fail, Start, VerifyToken, Lookup, CheckVerify, CheckRedeem,
           SetReceiptExpired, ReadCount, UpdateMany, Reread, Explain, LogVerified,
           LogRedeemed, LogLast, Log, TypeOK
  <1>4. slot'[z] = slot[z]
    BY DEF Advance, Fail, Start, VerifyToken, Lookup, CheckVerify, CheckRedeem,
           SetReceiptExpired, ReadCount, UpdateMany, Reread, Explain, LogVerified,
           LogRedeemed, LogLast, TypeOK
  <1> QED BY <1>2, <1>3, <1>4

(* The update takes a use or misses.                                       *)
LEMMA UpdateCases ==
    ASSUME TypeOK, NEW q \in Requests, RequestInv(q), UpdateMany(q)
    PROVE  \/ Use(q)
           \/ Goto(q, "explain") /\ UNCHANGED <<row, clock, seen, now, reply, logged, slot>>
  <1>1. CASE Redeemable(q)
    <2>1. row.count = seen[q].count /\ row.count \in Nat
      BY <1>1 DEF Redeemable, TypeOK, Rows
    <2>2. q \in Redeems /\ slot[q] = 0
      BY DEF RequestInv, UpdateMany, TypeOK
    <2> QED BY <1>1, <2>1, <2>2, NumberAssumption DEF UpdateMany, Redeemable, Use, Goto
  <1>2. CASE ~Redeemable(q)
    BY <1>2 DEF UpdateMany
  <1> QED BY <1>1, <1>2

(* Every other step leaves slots and count alone, and never reopens.       *)
LEMMA UseIsTheOnlyChange ==
    ASSUME TypeOK, NEW q \in Requests, RequestInv(q), Advance(q) \/ Fail(q), ~Use(q)
    PROVE  /\ slot' = slot /\ row'.count = row.count
           /\ \/ row' = row
              \/ pc[q] = "expire" /\ row'.status = "EXPIRED"
  <1>1. CASE SetReceiptExpired(q)
    BY <1>1 DEF SetReceiptExpired, TypeOK, Rows
  <1>2. CASE UpdateMany(q)
    BY <1>2, UpdateCases
  <1>3. CASE ~SetReceiptExpired(q) /\ ~UpdateMany(q)
    BY <1>3 DEF Advance, Fail, Start, VerifyToken, Lookup, CheckVerify, CheckRedeem,
           ReadCount, Reread, Explain, LogVerified, LogRedeemed, LogLast
  <1> QED BY <1>1, <1>2, <1>3

LEMMA CountGrows ==
    ASSUME TypeOK, NEW q \in Requests, RequestInv(q), Advance(q) \/ Fail(q)
    PROVE  row'.count \in Nat /\ row'.count >= row.count
  <1>1. row.count \in Nat
    BY DEF TypeOK, Rows
  <1>2. CASE Use(q)
    BY <1>1, <1>2 DEF Use
  <1>3. CASE ~Use(q)
    BY <1>1, <1>3, UseIsTheOnlyChange
  <1> QED BY <1>2, <1>3

-----------------------------------------------------------------------------
LEMMA Frames ==
    ASSUME TypeOK, NEW q \in Requests, Advance(q) \/ Fail(q), RequestInv(q),
           NEW z \in Requests, z # q, RequestInv(z)
    PROVE  RequestInv(z)'
  <1>1. /\ pc'[z] = pc[z] /\ seen'[z] = seen[z] /\ reply'[z] = reply[z]
        /\ logged'[z] = logged[z] /\ slot'[z] = slot[z]
    BY Frame
  <1>2. row'.count \in Nat /\ row'.count >= row.count /\ row.count \in Nat
    BY CountGrows DEF TypeOK, Rows
  <1>3. slot[z] \in Nat /\ seen[z].count \in Nat
    BY DEF TypeOK, Rows
  <1>4. reply[z].verdict = "GRANTED" => reply[z].row.count \in Nat
    BY DEF TypeOK, Replies, NoReply, Rows
  <1> QED BY <1>1, <1>2, <1>3, <1>4 DEF RequestInv, REDEEMED

(* What the requests read, answered and logged agrees with their uses.     *)
LEMMA RequestStep ==
    ASSUME TypeOK, TypeOK', NEW q \in Requests, Advance(q) \/ Fail(q), RequestInv(q)
    PROVE  RequestInv(q)'
  <1>0. /\ pc[q] \in Steps /\ seen[q] \in Rows /\ slot[q] \in Nat /\ row \in Rows
        /\ row.count \in Nat /\ seen[q].count \in Nat /\ Fresh.count = 0
        /\ logged[q] \in SUBSET Events
    BY DEF TypeOK, Rows, Fresh
  <1>a. ASSUME NEW v, NEW r, Answer(q, v, r)
        PROVE  /\ pc'[q] = "done" /\ reply'[q] = [verdict |-> v, row |-> r]
               /\ seen'[q] = Fresh
    BY <1>a DEF Answer, Goto, TypeOK
  <1>g. ASSUME NEW s, Goto(q, s) PROVE pc'[q] = s
    BY <1>g DEF Goto, TypeOK
  <1>1. CASE Start(q)
    <2>1. pc[q] = "start" /\ UNCHANGED <<row, seen, reply, logged, slot>> /\ pc'[q] = "jwt"
      BY <1>1, <1>g DEF Start
    <2> QED BY <1>0, <2>1 DEF RequestInv
  <1>2. CASE VerifyToken(q)
    <2>1. pc[q] = "jwt" /\ UNCHANGED <<row, logged, slot>>
      BY <1>2 DEF VerifyToken
    <2>2. \/ /\ pc'[q] = "done" /\ seen'[q] = Fresh
             /\ reply'[q] = [verdict |-> "RECEIPT_EXPIRED", row |-> Fresh]
          \/ pc'[q] = "lookup" /\ UNCHANGED <<reply, seen>>
      BY <1>2, <1>a, <1>g DEF VerifyToken
    <2> QED BY <1>0, <2>1, <2>2 DEF RequestInv, REDEEMED
  <1>3. CASE Lookup(q)
    <2>1. /\ pc[q] = "lookup" /\ UNCHANGED <<row, reply, logged, slot>>
          /\ pc'[q] = "check" /\ seen'[q] = row
      BY <1>3, <1>g DEF Lookup, Read, TypeOK
    <2> QED BY <1>0, <2>1 DEF RequestInv, REDEEMED
  <1>4. CASE CheckVerify(q)
    <2>1. q \notin Redeems /\ pc[q] = "check" /\ UNCHANGED <<row, logged, slot>>
      BY <1>4, KindAssumption DEF CheckVerify
    <2>2. \/ /\ pc'[q] = "done" /\ seen'[q] = Fresh
             /\ \E v \in {"RECEIPT_NOT_ACTIVE", "RECEIPT_CLAIMS_MISMATCH"} :
                    reply'[q] = [verdict |-> v, row |-> seen[q]]
          \/ pc'[q] \in {"expire", "log"} /\ UNCHANGED <<reply, seen>>
      BY <1>4, <1>a, <1>g DEF CheckVerify
    <2> QED BY <1>0, <2>1, <2>2 DEF RequestInv, REDEEMED
  <1>5. CASE CheckRedeem(q)
    <2>1. q \in Redeems /\ pc[q] = "check" /\ UNCHANGED <<row, logged, slot>>
      BY <1>5 DEF CheckRedeem
    <2>2. \/ /\ pc'[q] = "done" /\ seen'[q] = Fresh
             /\ reply'[q] = [verdict |-> "RECEIPT_CLAIMS_MISMATCH", row |-> seen[q]]
          \/ pc'[q] \in {"expire", "read"} /\ UNCHANGED <<reply, seen>>
      BY <1>5, <1>a, <1>g DEF CheckRedeem
    <2> QED BY <1>0, <2>1, <2>2 DEF RequestInv, REDEEMED
  <1>6. CASE SetReceiptExpired(q)
    <2>1. pc[q] = "expire" /\ row'.count = row.count /\ UNCHANGED <<logged, slot>>
      BY <1>0, <1>6 DEF SetReceiptExpired, Rows
    <2>2. /\ pc'[q] = "done" /\ seen'[q] = Fresh
          /\ reply'[q] = [verdict |-> "RECEIPT_EXPIRED",
                          row |-> [seen[q] EXCEPT !.status = "EXPIRED"]]
      BY <1>6, <1>a DEF SetReceiptExpired
    <2> QED BY <1>0, <2>1, <2>2 DEF RequestInv, REDEEMED
  <1>7. CASE ReadCount(q)
    <2>1. /\ pc[q] = "read" /\ UNCHANGED <<row, reply, logged, slot>>
          /\ pc'[q] = "update" /\ seen'[q] = row
      BY <1>7, <1>g DEF ReadCount, Read, TypeOK
    <2> QED BY <1>0, <2>1 DEF RequestInv, REDEEMED
  <1>8. CASE UpdateMany(q)
    <2>1. CASE Use(q)
      <3>1. /\ pc'[q] = "reread" /\ slot'[q] = row.count + 1 /\ row'.count = row.count + 1
            /\ q \in Redeems /\ UNCHANGED <<seen, reply, logged>> /\ pc[q] = "update"
            /\ slot[q] = 0
        BY <2>1 DEF Use, TypeOK
      <3> QED BY <1>0, <3>1 DEF RequestInv, REDEEMED, NoReply
    <2>2. CASE Goto(q, "explain") /\ UNCHANGED <<row, clock, seen, now, reply, logged, slot>>
      <3>1. pc[q] = "update" /\ pc'[q] = "explain"
        BY <1>8, <1>g, <2>2 DEF UpdateMany
      <3> QED BY <1>0, <2>2, <3>1 DEF RequestInv, REDEEMED
    <2> QED BY <1>8, <2>1, <2>2, UpdateCases
  <1>9. CASE Reread(q)
    <2>1. /\ pc[q] = "reread" /\ UNCHANGED <<row, reply, logged, slot>>
          /\ pc'[q] = "log" /\ seen'[q] = row
      BY <1>9, <1>g DEF Reread, Read, TypeOK
    <2> QED BY <1>0, <2>1 DEF RequestInv, REDEEMED
  <1>10. CASE Explain(q)
    <2>1. /\ pc[q] = "explain" /\ UNCHANGED <<row, logged, slot>>
          /\ pc'[q] = "done" /\ seen'[q] = Fresh
          /\ reply'[q] = [verdict |-> "RECEIPT_NOT_ACTIVE", row |-> row]
      BY <1>10, <1>a DEF Explain
    <2> QED BY <1>0, <2>1 DEF RequestInv, REDEEMED
  <1>11. CASE LogVerified(q)
    <2>1. /\ pc[q] = "log" /\ q \notin Redeems /\ UNCHANGED <<row, slot>>
          /\ logged'[q] = logged[q] \cup {"ACCESS_RECEIPT_VERIFIED"}
          /\ pc'[q] = "done" /\ seen'[q] = Fresh
          /\ reply'[q] = [verdict |-> "VERIFIED", row |-> seen[q]]
      BY <1>11, <1>a, KindAssumption DEF LogVerified, Log, TypeOK
    <2> QED BY <1>0, <2>1 DEF RequestInv, REDEEMED
  <1>12. CASE LogRedeemed(q)
    <2>1. /\ pc[q] = "log" /\ q \in Redeems /\ UNCHANGED <<row, slot>>
          /\ logged'[q] = logged[q] \cup {REDEEMED}
      BY <1>12 DEF LogRedeemed, Log, TypeOK, REDEEMED
    <2>2. \/ /\ pc'[q] = "done" /\ seen'[q] = Fresh
             /\ reply'[q] = [verdict |-> "GRANTED", row |-> seen[q]]
          \/ pc'[q] = "logLast" /\ UNCHANGED <<reply, seen>>
      BY <1>12, <1>a, <1>g DEF LogRedeemed
    <2> QED BY <1>0, <2>1, <2>2 DEF RequestInv, REDEEMED
  <1>13. CASE LogLast(q)
    <2>1. /\ pc[q] = "logLast" /\ UNCHANGED <<row, slot>>
          /\ REDEEMED \in logged[q] => REDEEMED \in logged'[q]
          /\ REDEEMED \in logged'[q] => REDEEMED \in logged[q]
          /\ pc'[q] = "done" /\ seen'[q] = Fresh
          /\ reply'[q] = [verdict |-> "GRANTED", row |-> seen[q]]
      BY <1>13, <1>a DEF LogLast, Log, TypeOK, REDEEMED
    <2> QED BY <1>0, <2>1 DEF RequestInv
  <1>14. CASE Fail(q)
    <2>1. /\ pc[q] \notin {"start", "done"} /\ UNCHANGED <<row, logged, slot>>
          /\ pc'[q] = "done" /\ seen'[q] = Fresh
          /\ reply'[q] = [verdict |-> "FAILED", row |-> Fresh]
      BY <1>14, <1>a DEF Fail
    <2> QED BY <1>0, <2>1 DEF RequestInv, REDEEMED
  <1> QED BY <1>1, <1>2, <1>3, <1>4, <1>5, <1>6, <1>7, <1>8, <1>9, <1>10, <1>11,
             <1>12, <1>13, <1>14 DEF Advance

-----------------------------------------------------------------------------
(* A use fills the next free slot; nothing else moves the count.           *)
LEMMA SlotStep ==
    ASSUME TypeOK, TypeOK', RowInv, SlotInv, NEW q \in Requests, RequestInv(q),
           Advance(q) \/ Fail(q)
    PROVE  RowInv' /\ SlotInv'
  <1>0. row.count \in Nat /\ slot \in [Requests -> Nat] /\ row \in Rows /\ Max \in Nat
    BY NumberAssumption DEF TypeOK, Rows
  <1>1. CASE Use(q)
    <2>1. /\ slot[q] = 0 /\ row.count < Max
          /\ slot' = [slot EXCEPT ![q] = row.count + 1] /\ row'.count = row.count + 1
          /\ row'.status = IF row.count + 1 >= Max THEN "EXHAUSTED" ELSE "ISSUED"
      BY <1>1 DEF Use, RowInv
    <2>2. RowInv'
      BY <1>0, <2>1 DEF RowInv
    <2>3. \A p \in Requests : slot'[p] = IF p = q THEN row.count + 1 ELSE slot[p]
      BY <1>0, <2>1
    <2>4. Took' = Took \cup {q} /\ q \notin Took
      BY <1>0, <2>1, <2>3 DEF Took
    <2>5. IsFiniteSet(Took') /\ Cardinality(Took') = Cardinality(Took) + 1
      <3>1. IsFiniteSet(Took) /\ q \notin Took
        BY <2>4 DEF SlotInv
      <3>2. IsFiniteSet(Took \cup {q}) /\ Cardinality(Took \cup {q}) = Cardinality(Took) + 1
        BY <3>1, FS_AddElement
      <3> QED BY <2>4, <3>2
    <2>6. \A p \in Took : p \in Requests /\ p # q /\ slot'[p] = slot[p]
                        /\ slot[p] \in 1 .. row.count
      <3>1. \A p \in Took : p \in Requests /\ p # q
        BY <2>4 DEF Took
      <3> QED BY <1>0, <2>3, <3>1 DEF SlotInv
    <2>7. \A p, z \in Took' : slot'[p] = slot'[z] => p = z
      BY <1>0, <2>1, <2>3, <2>4, <2>6 DEF SlotInv
    <2>8. \A n \in 1 .. row'.count : \E p \in Took' : slot'[p] = n
      <3>1. SUFFICES ASSUME NEW n \in 1 .. row.count + 1
                     PROVE  \E p \in Took' : slot'[p] = n
        BY <2>1
      <3>2. CASE n = row.count + 1
        BY <2>3, <2>4, <3>2
      <3>3. CASE n # row.count + 1
        <4>1. n \in 1 .. row.count
          BY <1>0, <3>3
        <4>2. PICK p \in Took : slot[p] = n
          BY <4>1 DEF SlotInv
        <4> QED BY <2>4, <2>6, <4>2
      <3> QED BY <3>2, <3>3
    <2>9. \A p \in Took' : slot'[p] \in 1 .. row'.count
      BY <1>0, <2>1, <2>3, <2>4, <2>6
    <2> QED BY <2>1, <2>2, <2>5, <2>7, <2>8, <2>9 DEF SlotInv
  <1>2. CASE ~Use(q)
    <2>1. /\ slot' = slot /\ row'.count = row.count
          /\ row'.status = "ISSUED" => row.status = "ISSUED"
      BY <1>2, UseIsTheOnlyChange
    <2>2. Took' = Took
      BY <2>1 DEF Took
    <2> QED BY <2>1, <2>2 DEF RowInv, SlotInv
  <1> QED BY <1>1, <1>2

LEMMA LInvInitially == Init => LInv
  <1> SUFFICES ASSUME Init PROVE LInv
    OBVIOUS
  <1>1. Took = {}
    BY DEF Init, Took
  <1>2. IsFiniteSet(Took) /\ Cardinality(Took) = 0
    BY <1>1, FS_EmptySet
  <1>3. row.count = 0 /\ 1 .. row.count = {}
    BY DEF Init, Fresh
  <1>4. SlotInv
    BY <1>1, <1>2, <1>3 DEF SlotInv
  <1>5. RowInv
    BY <1>3, NumberAssumption DEF RowInv
  <1>6. \A q \in Requests : RequestInv(q)
    BY DEF Init, RequestInv, Fresh, NoReply, REDEEMED
  <1> QED BY <1>4, <1>5, <1>6, TypeInitially DEF LInv

LEMMA LInvKept == LInv /\ [Next]_vars => LInv'
  <1> SUFFICES ASSUME LInv, [Next]_vars PROVE LInv'
    OBVIOUS
  <1>0. TypeOK /\ TypeOK' /\ RowInv /\ SlotInv /\ \A q \in Requests : RequestInv(q)
    BY TypeKept DEF LInv
  <1>1. ASSUME NEW q \in Requests, Advance(q) \/ Fail(q) PROVE LInv'
    <2>1. RowInv' /\ SlotInv'
      BY <1>0, <1>1, SlotStep
    <2>2. ASSUME NEW z \in Requests PROVE RequestInv(z)'
      <3>1. CASE z = q
        BY <1>0, <1>1, <3>1, RequestStep
      <3>2. CASE z # q
        BY <1>0, <1>1, <3>2, Frames
      <3> QED BY <3>1, <3>2
    <2> QED BY <1>0, <2>1, <2>2 DEF LInv
  <1>2. CASE Tick \/ UNCHANGED vars
    <2>1. UNCHANGED <<row, pc, seen, now, reply, logged, slot>>
      BY <1>2 DEF Tick, vars
    <2>2. Took' = Took
      BY <2>1 DEF Took
    <2>3. RowInv' /\ SlotInv'
      BY <1>0, <2>1, <2>2 DEF RowInv, SlotInv
    <2>4. \A q \in Requests : RequestInv(q)'
      BY <1>0, <2>1 DEF RequestInv
    <2> QED BY <1>0, <2>3, <2>4 DEF LInv
  <1> QED BY <1>1, <1>2 DEF Next

(* The invariant holds in every reachable state.                           *)
THEOREM Invariance == Spec => []LInv
  BY LInvInitially, LInvKept, PTL DEF Spec

-----------------------------------------------------------------------------
(* No update is lost: the count is the number of uses taken, one slot      *)
(* each, and never passes the maximum.                                     *)
THEOREM NoLostUpdate == Spec => []CountIsUses
  <1>1. LInv => CountIsUses
    BY DEF LInv, SlotInv, RowInv, CountIsUses
  <1> QED BY <1>1, Invariance, PTL

(* A grant is answered only after the log shows it, and the log shows only *)
(* uses somebody took.                                                     *)
THEOREM GrantsLogged == Spec => []GrantsAreLogged
  <1>1. LInv => GrantsAreLogged
    BY DEF LInv, RequestInv, GrantsAreLogged, Granted, Took, REDEEMED
  <1> QED BY <1>1, Invariance, PTL

(* A caller who is denied has not been charged.                            *)
THEOREM DenialsFree == Spec => []DenialsAreFree
  <1>1. LInv => DenialsAreFree
    <2> SUFFICES ASSUME LInv, NEW q \in Redeems,
                        reply[q].verdict \notin {"none", "GRANTED", "FAILED"}
                 PROVE  q \notin Took
      BY DEF DenialsAreFree
    <2>1. q \in Requests /\ RequestInv(q)
      BY DEF LInv, Requests
    <2>2. reply[q] # NoReply
      BY DEF NoReply
    <2>3. pc[q] = "done"
      BY <2>1, <2>2 DEF RequestInv
    <2> QED BY <2>1, <2>3 DEF RequestInv, Took
  <1> QED BY <1>1, Invariance, PTL

(* The count answered covers the use it answers for, and every number      *)
(* between is another request's use.                                       *)
THEOREM AnswerCoversUse == Spec => []AnsweredCountCoversOwnUse
  <1>1. LInv => AnsweredCountCoversOwnUse
    <2> SUFFICES ASSUME LInv, NEW q \in Granted
                 PROVE  /\ slot[q] <= reply[q].row.count
                        /\ \A n \in slot[q] .. reply[q].row.count :
                               \E p \in Took : slot[p] = n
      BY DEF AnsweredCountCoversOwnUse
    <2>1. /\ q \in Requests /\ RequestInv(q) /\ reply[q].verdict = "GRANTED"
          /\ slot[q] \in Nat /\ row.count \in Nat /\ reply[q] \in Replies
      BY DEF Granted, LInv, TypeOK, Rows
    <2>2. reply[q].row.count \in Nat
      BY <2>1 DEF Replies, NoReply, Rows
    <2>3. /\ slot[q] > 0 /\ slot[q] <= reply[q].row.count
          /\ reply[q].row.count <= row.count
      BY <2>1 DEF RequestInv
    <2>4. \A n \in slot[q] .. reply[q].row.count : n \in 1 .. row.count
      BY <2>1, <2>2, <2>3
    <2> QED BY <2>3, <2>4 DEF LInv, SlotInv
  <1> QED BY <1>1, Invariance, PTL

(* No step redeems or reopens a receipt that left ISSUED.                  *)
LEMMA ClosedStep ==
    ASSUME LInv, [Next]_vars, row.status # "ISSUED"
    PROVE  row'.status # "ISSUED" /\ row'.count = row.count
  <1>1. ASSUME NEW q \in Requests, Advance(q) \/ Fail(q)
        PROVE  row'.status # "ISSUED" /\ row'.count = row.count
    <2>1. ~Use(q)
      BY DEF Use
    <2> QED BY <1>1, <2>1, UseIsTheOnlyChange DEF LInv
  <1>2. CASE Tick \/ UNCHANGED vars
    BY <1>2 DEF Tick, vars
  <1> QED BY <1>1, <1>2 DEF Next

(* Exhausted and expired receipts are closed for good.                     *)
THEOREM ClosedForGood == Spec => ClosedStaysClosed
  <1>1. LInv /\ [Next]_vars =>
            [row.status # "ISSUED" =>
                row'.status # "ISSUED" /\ row'.count = row.count]_vars
    BY ClosedStep
  <1> QED BY <1>1, Invariance, PTL DEF Spec, ClosedStaysClosed

-----------------------------------------------------------------------------
(* Every grant is backed by a use: the grants are no more than the count.  *)
GrantsBacked ==
    /\ IsFiniteSet(Granted) /\ Cardinality(Granted) \in Nat
    /\ Cardinality(Granted) <= row.count

LEMMA GrantsAreUses == LInv => GrantsBacked
  <1> SUFFICES ASSUME LInv PROVE GrantsBacked
    OBVIOUS
  <1>1. Granted \subseteq Took
    BY DEF LInv, RequestInv, Granted, Took
  <1>2. IsFiniteSet(Took) /\ Cardinality(Took) = row.count
    BY DEF LInv, SlotInv
  <1>3. IsFiniteSet(Granted) /\ Cardinality(Granted) <= Cardinality(Took)
    BY <1>1, <1>2, FS_Subset
  <1>4. Cardinality(Granted) \in Nat
    BY <1>3, FS_CardinalityType
  <1> QED BY <1>2, <1>3, <1>4 DEF GrantsBacked

(* An answer is given once: a grant stays a grant.                         *)
LEMMA GrantsStay ==
    ASSUME LInv, LInv', [Next]_vars
    PROVE  Cardinality(Granted) <= Cardinality(Granted')
  <1>0. GrantsBacked /\ GrantsBacked'
    BY GrantsAreUses, PTL
  <1>1. ASSUME NEW q \in Requests, Advance(q) \/ Fail(q), NEW z \in Granted
        PROVE  z \in Granted'
    <2>1. z \in Requests /\ reply[z].verdict = "GRANTED" /\ RequestInv(z) /\ TypeOK
      BY DEF Granted, LInv
    <2>2. pc[z] = "done"
      BY <2>1 DEF RequestInv, NoReply
    <2>3. pc[q] # "done"
      BY <1>1 DEF Advance, Fail, Start, VerifyToken, Lookup, CheckVerify, CheckRedeem,
         SetReceiptExpired, ReadCount, UpdateMany, Reread, Explain, LogVerified,
         LogRedeemed, LogLast
    <2>4. reply'[z] = reply[z]
      BY <1>1, <2>1, <2>2, <2>3, Frame
    <2> QED BY <2>1, <2>4 DEF Granted
  <1>2. CASE Tick \/ UNCHANGED vars
    <2>1. reply' = reply
      BY <1>2 DEF Tick, vars
    <2>2. Granted' = Granted
      BY <2>1 DEF Granted
    <2> QED BY <1>0, <2>2 DEF GrantsBacked
  <1>3. CASE \E q \in Requests : Advance(q) \/ Fail(q)
    <2>1. Granted \subseteq Granted'
      BY <1>1, <1>3
    <2>2. IsFiniteSet(Granted')
      BY <1>0 DEF GrantsBacked
    <2> QED BY <2>1, <2>2, FS_Subset
  <1> QED BY <1>2, <1>3 DEF Next

(* An expiry closes the receipt of the promise; any other step settles.    *)
LEMMA StepKeepsPromise ==
    ASSUME LInv, LInv', [Next]_vars
    PROVE  [Promise!Next]_(Promise!vars)
  <1>0. /\ row.count \in Nat /\ row'.count \in Nat /\ row'.count <= Max
        /\ TypeOK /\ \A q \in Requests : RequestInv(q)
    BY DEF LInv, TypeOK, Rows, RowInv
  <1>1. ASSUME NEW q \in Requests, SetReceiptExpired(q)
        PROVE  Promise!Close
    <2>1. row' = [row EXCEPT !.status = "EXPIRED", !.active = FALSE]
      BY <1>1 DEF SetReceiptExpired
    <2>2. row'.count = row.count /\ row'.status = "EXPIRED"
      BY <2>1 DEF LInv, TypeOK, Rows
    <2>3. Granted' = Granted
      <3>1. reply' = [reply EXCEPT ![q] = [verdict |-> "RECEIPT_EXPIRED",
                                   row |-> [seen[q] EXCEPT !.status = "EXPIRED"]]]
        BY <1>1 DEF SetReceiptExpired, Answer
      <3>2. reply[q].verdict # "GRANTED"
        BY <1>0, <1>1 DEF RequestInv, SetReceiptExpired, NoReply
      <3> QED BY <1>0, <3>1, <3>2 DEF Granted, TypeOK
    <2> QED BY <2>2, <2>3 DEF Promise!Close
  <1>2. ASSUME row'.status = "EXPIRED" <=> row.status = "EXPIRED",
               row.count <= row'.count,
               row.status = "EXPIRED" => row'.count = row.count
        PROVE  Promise!Settle
    <2>1. /\ Cardinality(Granted) \in Nat /\ Cardinality(Granted') \in Nat
          /\ Cardinality(Granted') <= row'.count
      <3>1. GrantsBacked /\ GrantsBacked'
        BY GrantsAreUses, PTL
      <3> QED BY <3>1 DEF GrantsBacked
    <2>2. Cardinality(Granted) <= Cardinality(Granted')
      BY GrantsStay
    <2> QED BY <1>0, <1>2, <2>1, <2>2 DEF Promise!Settle
  <1>3. ASSUME NEW q \in Requests, Advance(q) \/ Fail(q), ~SetReceiptExpired(q)
        PROVE  Promise!Settle
    <2>1. CASE Use(q)
      BY <1>0, <1>2, <2>1 DEF Use
    <2>2. CASE ~Use(q)
      <3>1. row'.count = row.count
        BY <1>0, <1>3, <2>2, UseIsTheOnlyChange
      <3>2. row' = row
        <4>1. CASE pc[q] = "expire"
          BY <1>3, <4>1 DEF Advance, Fail, Start, VerifyToken, Lookup, CheckVerify,
             CheckRedeem, ReadCount, UpdateMany, Reread, Explain, LogVerified,
             LogRedeemed, LogLast
        <4>2. CASE pc[q] # "expire"
          BY <1>0, <1>3, <2>2, <4>2, UseIsTheOnlyChange
        <4> QED BY <4>1, <4>2
      <3> QED BY <1>0, <1>2, <3>2
    <2> QED BY <2>1, <2>2
  <1>4. CASE Tick \/ UNCHANGED vars
    <2>1. row' = row
      BY <1>4 DEF Tick, vars
    <2> QED BY <1>0, <1>2, <2>1 DEF Promise!Next
  <1> QED BY <1>1, <1>3, <1>4 DEF Promise!Next, Next

(* The refinement: the service implements BoundedGrant in every instance.  *)
THEOREM PromiseIsKept == Spec => KeepsPromise
  <1>1. Init => Promise!Init
    <2> SUFFICES ASSUME Init PROVE Promise!Init
      OBVIOUS
    <2>1. row.count = 0 /\ row.status = "ISSUED"
      BY DEF Init, Fresh
    <2>2. Granted = {}
      BY DEF Init, Granted, NoReply
    <2>3. Cardinality(Granted) = 0
      BY <2>2, FS_EmptySet
    <2> QED BY <2>1, <2>3 DEF Promise!Init
  <1>2. LInv /\ LInv' /\ [Next]_vars => [Promise!Next]_(Promise!vars)
    BY StepKeepsPromise
  <1> QED BY <1>1, <1>2, Invariance, PTL DEF Spec, KeepsPromise, Promise!Spec

-----------------------------------------------------------------------------
(* Contention wastes nothing.  While the token is good and nobody has a    *)
(* use, the row is as it was issued, no request waits to close it or to    *)
(* explain a missed update, and a redemption can only have ended on a      *)
(* mismatch or a failure.                                                  *)
CapturedInThePast == \A q \in Requests : now[q] <= clock
Unspent ==
    ~TokenExpired(clock) /\ Took = {} =>
        /\ row = Fresh
        /\ \A q \in Requests :
            /\ pc[q] \notin {"expire", "explain"}
            /\ q \in Redeems /\ pc[q] = "done" =>
                    reply[q].verdict \in {"FAILED", "RECEIPT_CLAIMS_MISMATCH"}

(* Whole seconds keep the order of the milliseconds.                       *)
LEMMA SecondsGrow ==
    ASSUME NEW s \in Nat, NEW t \in Nat, s <= t
    PROVE  Seconds(s) <= Seconds(t)
  BY NumberAssumption DEF Seconds

LEMMA TokenOutlivesNothing ==
    ASSUME TypeOK, ~TokenExpired(clock)
    PROVE  clock < Exp
  <1>1. Exp \in Nat /\ clock \in Nat
    BY NumberAssumption DEF TypeOK
  <1>2. CASE Exp <= clock
    BY <1>1, <1>2, SecondsGrow DEF TokenExpired
  <1> QED BY <1>1, <1>2

(* A token that is good after a tick was good before it.                   *)
LEMMA TokenStaysExpired ==
    ASSUME TypeOK, TypeOK', clock <= clock', ~TokenExpired(clock')
    PROVE  ~TokenExpired(clock)
  <1>1. clock \in Nat /\ clock' \in Nat /\ Exp \in Nat
    BY NumberAssumption DEF TypeOK
  <1>2. Seconds(clock) <= Seconds(clock')
    BY <1>1, SecondsGrow
  <1>3. Seconds(clock) \in Int /\ Seconds(clock') \in Int /\ Seconds(Exp) \in Int
    BY <1>1, NumberAssumption DEF Seconds
  <1> QED BY <1>2, <1>3 DEF TokenExpired

LEMMA CapturedStep ==
    ASSUME TypeOK, TypeOK', CapturedInThePast, [Next]_vars
    PROVE  CapturedInThePast'
  <1>0. clock \in Nat /\ clock' \in Nat /\ \A q \in Requests : now[q] \in Nat
    BY NumberAssumption DEF TypeOK
  <1>1. ASSUME NEW q \in Requests, Advance(q) \/ Fail(q) PROVE CapturedInThePast'
    <2>1. clock' = clock
      BY <1>1 DEF Advance, Fail, Start, VerifyToken, Lookup, CheckVerify, CheckRedeem,
         SetReceiptExpired, ReadCount, UpdateMany, Reread, Explain, LogVerified,
         LogRedeemed, LogLast
    <2>2. \/ now' = now \/ now' = [now EXCEPT ![q] = clock]
          \/ now' = [now EXCEPT ![q] = 0]
      BY <1>1 DEF Advance, Fail, Start, VerifyToken, Lookup, CheckVerify, CheckRedeem,
         SetReceiptExpired, ReadCount, UpdateMany, Reread, Explain, LogVerified,
         LogRedeemed, LogLast, Answer, Capture
    <2> QED BY <1>0, <2>1, <2>2 DEF CapturedInThePast, TypeOK
  <1>2. CASE Tick \/ UNCHANGED vars
    <2>1. now' = now /\ clock <= clock'
      BY <1>0, <1>2 DEF Tick, vars
    <2> QED BY <1>0, <2>1 DEF CapturedInThePast
  <1> QED BY <1>1, <1>2 DEF Next

(* The step of one request that leaves everybody without a use.            *)
LEMMA UnspentStep ==
    ASSUME LInv, CapturedInThePast, Unspent, NEW q \in Requests, Advance(q) \/ Fail(q),
           ~TokenExpired(clock'), Took' = {}
    PROVE  /\ row' = Fresh
           /\ \A z \in Requests :
                /\ pc'[z] \notin {"expire", "explain"}
                /\ z \in Redeems /\ pc'[z] = "done" =>
                        reply'[z].verdict \in {"FAILED", "RECEIPT_CLAIMS_MISMATCH"}
  <1>0. /\ TypeOK /\ RequestInv(q) /\ row \in Rows /\ clock \in Nat /\ Exp \in Nat
        /\ now[q] \in Nat /\ seen[q] \in Rows /\ slot \in [Requests -> Nat]
    BY NumberAssumption DEF LInv, TypeOK
  <1>1. clock' = clock
    BY DEF Advance, Fail, Start, VerifyToken, Lookup, CheckVerify, CheckRedeem,
       SetReceiptExpired, ReadCount, UpdateMany, Reread, Explain, LogVerified,
       LogRedeemed, LogLast
  <1>2. ~Use(q)
    <2>1. ASSUME Use(q) PROVE FALSE
      <3>1. slot'[q] = row.count + 1 /\ row.count \in Nat
        BY <1>0, <2>1 DEF Use, Rows
      <3> QED BY <3>1 DEF Took
    <2> QED BY <2>1
  <1>3. Took = {}
    <2>1. slot' = slot
      BY <1>0, <1>2, UseIsTheOnlyChange
    <2> QED BY <2>1 DEF Took
  <1>4. /\ row = Fresh
        /\ \A z \in Requests :
            /\ pc[z] \notin {"expire", "explain"}
            /\ z \in Redeems /\ pc[z] = "done" =>
                    reply[z].verdict \in {"FAILED", "RECEIPT_CLAIMS_MISMATCH"}
    BY <1>1, <1>3 DEF Unspent
  <1>5. row' = row
    BY <1>0, <1>2, <1>4, UseIsTheOnlyChange
  <1>6. clock < Exp /\ now[q] <= clock
    BY <1>0, <1>1, TokenOutlivesNothing DEF CapturedInThePast
  <1>7. /\ pc'[q] \notin {"expire", "explain"}
        /\ q \in Redeems /\ pc'[q] = "done" =>
                reply'[q].verdict \in {"FAILED", "RECEIPT_CLAIMS_MISMATCH"}
    <2>a. ASSUME NEW v, NEW r, Answer(q, v, r)
          PROVE  pc'[q] = "done" /\ reply'[q].verdict = v
      BY <1>0, <2>a DEF Answer, Goto, TypeOK
    <2>g. ASSUME NEW s, Goto(q, s) PROVE pc'[q] = s
      BY <1>0, <2>g DEF Goto, TypeOK
    <2>1. CASE Start(q) \/ Lookup(q) \/ ReadCount(q) \/ Reread(q)
      <3>1. \E s \in {"jwt", "check", "update", "log"} : Goto(q, s)
        BY <2>1 DEF Start, Lookup, ReadCount, Reread
      <3> QED BY <2>g, <3>1
    <2>2. CASE VerifyToken(q)
      <3>1. Goto(q, "lookup")
        BY <1>1, <2>2 DEF VerifyToken
      <3> QED BY <2>g, <3>1
    <2>3. CASE CheckVerify(q)
      <3>1. q \notin Redeems
        BY <2>3, KindAssumption DEF CheckVerify
      <3>2. ~IsIsoDateExpired(clock)
        BY <1>0, <1>6 DEF IsIsoDateExpired
      <3>3. (\E v, r : Answer(q, v, r)) \/ Goto(q, "log")
        BY <2>3, <3>2 DEF CheckVerify
      <3> QED BY <2>a, <2>g, <3>1, <3>3
    <2>4. CASE CheckRedeem(q)
      <3>1. ~IsIsoDateExpired(now[q])
        BY <1>0, <1>6 DEF IsIsoDateExpired
      <3>2. Answer(q, "RECEIPT_CLAIMS_MISMATCH", seen[q]) \/ Goto(q, "read")
        BY <2>4, <3>1 DEF CheckRedeem
      <3> QED BY <2>a, <2>g, <3>2
    <2>5. CASE SetReceiptExpired(q) \/ Explain(q)
      BY <1>4, <2>5 DEF SetReceiptExpired, Explain
    <2>6. CASE UpdateMany(q)
      <3>1. /\ q \in Redeems /\ slot[q] = 0 /\ seen[q].count <= row.count
            /\ row.status = "ISSUED" /\ row.active /\ row.count = 0
        BY <1>0, <1>4, <2>6 DEF RequestInv, UpdateMany, Fresh
      <3>2. row.count = seen[q].count
        BY <1>0, <3>1 DEF Rows
      <3>3. Redeemable(q)
        BY <1>0, <1>6, <3>1, <3>2 DEF Redeemable
      <3>4. Use(q)
        BY <1>0, <2>6, <3>3, UpdateCases DEF UpdateMany, Goto, Use
      <3> QED BY <1>2, <3>4
    <2>7. CASE LogVerified(q)
      <3>1. q \notin Redeems /\ Answer(q, "VERIFIED", seen[q])
        BY <2>7, KindAssumption DEF LogVerified
      <3> QED BY <2>a, <3>1
    <2>8. CASE LogRedeemed(q) \/ LogLast(q)
      <3>1. slot[q] > 0
        BY <1>0, <2>8 DEF LogRedeemed, LogLast, RequestInv
      <3> QED BY <1>3, <3>1 DEF Took
    <2>9. CASE Fail(q)
      <3>1. Answer(q, "FAILED", Fresh)
        BY <2>9 DEF Fail
      <3> QED BY <2>a, <3>1
    <2> QED BY <2>1, <2>2, <2>3, <2>4, <2>5, <2>6, <2>7, <2>8, <2>9 DEF Advance
  <1>8. \A z \in Requests : z # q => pc'[z] = pc[z] /\ reply'[z] = reply[z]
    BY <1>0, Frame
  <1> QED BY <1>4, <1>5, <1>7, <1>8

LEMMA UnspentKept ==
    ASSUME LInv, LInv', CapturedInThePast, Unspent, [Next]_vars
    PROVE  Unspent'
  <1>0. TypeOK /\ TypeOK' /\ clock \in Nat /\ clock' \in Nat
    BY NumberAssumption DEF LInv, TypeOK
  <1>1. ASSUME NEW q \in Requests, Advance(q) \/ Fail(q) PROVE Unspent'
    BY <1>1, UnspentStep DEF Unspent
  <1>2. CASE Tick \/ UNCHANGED vars
    <2>1. UNCHANGED <<row, pc, reply, slot>> /\ clock <= clock'
      BY <1>0, <1>2 DEF Tick, vars
    <2>2. Took' = Took
      BY <2>1 DEF Took
    <2>3. ~TokenExpired(clock') => ~TokenExpired(clock)
      BY <1>0, <2>1, TokenStaysExpired
    <2> QED BY <2>1, <2>2, <2>3 DEF Unspent
  <1> QED BY <1>1, <1>2 DEF Next

(* Contention wastes nothing: if all requests have ended without a failure *)
(* and the token is good, a matching redemption got its use or lost it to  *)
(* another that did.                                                       *)
THEOREM ContenderWins == Spec => []SomeContenderWins
  <1>1. Init => CapturedInThePast /\ Unspent
    BY DEF Init, CapturedInThePast, Unspent
  <1>2. /\ LInv /\ LInv' /\ CapturedInThePast /\ Unspent /\ [Next]_vars
        => CapturedInThePast' /\ Unspent'
    BY CapturedStep, UnspentKept DEF LInv
  <1>3. Unspent => SomeContenderWins
    BY DEF Unspent, SomeContenderWins, Requests
  <1> QED BY <1>1, <1>2, <1>3, Invariance, PTL DEF Spec

=============================================================================
