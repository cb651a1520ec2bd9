------------------------- MODULE PostgresStoreProofs -------------------------
(***************************************************************************)
(* Safety of PostgresStore for every set of sessions, receipts, commands   *)
(* and clock readings, and every maximum: first the allowance and its      *)
(* report, from IInv; then that no host honours more uses than are         *)
(* committed, so that the store implements BoundedGrant; last, that        *)
(* nothing is admitted outside the window.                                 *)
(***************************************************************************)
EXTENDS PostgresStore, TLAPS, FiniteSetTheorems

(* The shapes of a call.                                                   *)
LEMMA CallShapes ==
    ASSUME NEW k \in Calls
    PROVE  /\ k.pc \in {"idle", "lock", "decide", "update", "answer"}
           /\ k.pc = "idle" <=> k = NoCall
           /\ k.pc \in {"lock", "decide", "update"} =>
                /\ k.cmd \in Commands
                /\ k.cmd.jti \in Receipts
                /\ k \in [pc : {"lock", "decide", "update"}, cmd : Commands]
           /\ k.pc = "answer" => k.jti \in Receipts /\ k.outcome \in Outcomes
  BY CommandsAssumption DEF Calls, NoCall

LEMMA CallsMade ==
    /\ NoCall \in Calls
    /\ \A p \in {"lock", "decide", "update"}, cmd \in Commands :
            [pc |-> p, cmd |-> cmd] \in Calls
    /\ \A r \in Receipts, o \in Outcomes :
            [pc |-> "answer", jti |-> r, outcome |-> o] \in Calls
  BY DEF Calls

LEMMA Advance ==
    ASSUME NEW k \in Calls, k.pc \in {"lock", "decide"},
           NEW p \in {"decide", "update"}
    PROVE  /\ [k EXCEPT !.pc = p] \in Calls
           /\ [k EXCEPT !.pc = p].pc = p
           /\ [k EXCEPT !.pc = p].cmd = k.cmd
  BY CallShapes DEF Calls

LEMMA FinishTypes ==
    ASSUME NEW s \in Sessions, call \in [Sessions -> Calls],
           call[s] # NoCall, NEW o \in Outcomes, Finish(s, o)
    PROVE  /\ Target(s) \in Receipts
           /\ call' \in [Sessions -> Calls]
  BY CallShapes, CallsMade DEF Finish, Target

LEMMA DiscardTypes ==
    ASSUME NEW s \in Sessions, TypeOK, Discard(s),
           tx' \in [Sessions -> TxStates], call' \in [Sessions -> Calls]
    PROVE  TypeOK'
  BY DEF TypeOK, Discard, Released, NoUses

LEMMA SettleTypes ==
    ASSUME NEW s \in Sessions, TypeOK, NEW ack \in BOOLEAN, Settle(s, ack),
           tx' \in [Sessions -> TxStates], call' = call
    PROVE  TypeOK'
  <1>1. count' \in [Receipts -> Nat] /\ honoured' \in [Receipts -> Nat]
        /\ lastCount' \in [Receipts -> Nat]
    BY DEF TypeOK, Settle, Current
  <1>2. missed' \in [Sessions -> SUBSET Receipts]
    BY DEF TypeOK, Settle, Noted
  <1>3. /\ uses' \in [Sessions -> [Receipts -> Nat]]
        /\ told' \in [Sessions -> [Receipts -> Nat]]
        /\ lastIn' \in [Sessions -> SUBSET Receipts]
        /\ lock' \in [Receipts -> Sessions \cup {NoSession}]
    BY DEF TypeOK, Settle, Released, NoUses
  <1> QED BY <1>1, <1>2, <1>3 DEF TypeOK, Settle

LEMMA VerdictTypes ==
    ASSUME NEW s \in Sessions
    PROVE  Verdict(s) \in Denials \cup {"admit"}
  BY DEF Verdict, Denials

LEMMA UpdateTypes ==
    ASSUME NEW s \in Sessions, TypeOK, Update(s)
    PROVE  TypeOK'
  <1>1. call[s] \in Calls /\ call[s].pc = "update" /\ call[s] # NoCall
    BY DEF TypeOK, Update, NoCall
  <1>2. Target(s) \in Receipts
    BY <1>1, CallShapes DEF Target
  <1>3. call' \in [Sessions -> Calls]
    BY <1>1, FinishTypes DEF Update, TypeOK, Outcomes, Denials, Grants
  <1>4. /\ count' \in [Receipts -> Nat] /\ lastCount' \in [Receipts -> Nat]
        /\ uses' \in [Sessions -> [Receipts -> Nat]]
        /\ lastIn' \in [Sessions -> SUBSET Receipts]
    <2> DEFINE r == Target(s)
               takes == Current(s, r) < Max[r]
               one == IF takes THEN 1 ELSE 0
               last == takes /\ Exhausts(s)
    <2>1. one \in Nat /\ r \in Receipts
      BY <1>2
    <2> HIDE DEF r, one, last
    <2>2. CASE tx[s] = "autocommit"
      <3>1. /\ count' = [count EXCEPT ![r] = @ + one]
            /\ lastCount' = [lastCount EXCEPT ![r] = IF last THEN @ + 1 ELSE @]
            /\ UNCHANGED <<uses, lastIn>>
        BY <2>2 DEF Update, r, one, last
      <3> QED BY <2>1, <3>1 DEF TypeOK
    <2>3. CASE tx[s] # "autocommit"
      <3>1. /\ uses' = [uses EXCEPT ![s][r] = @ + one]
            /\ lastIn' = [lastIn EXCEPT ![s] = IF last THEN @ \cup {r} ELSE @]
            /\ UNCHANGED <<count, lastCount>>
        BY <2>3 DEF Update, r, one, last
      <3> QED BY <2>1, <3>1 DEF TypeOK
    <2> QED BY <2>2, <2>3
  <1>5. /\ missed' \in [Sessions -> SUBSET Receipts]
        /\ lock' \in [Receipts -> Sessions \cup {NoSession}]
    <2>1. /\ missed' = missed \/ missed' = Noted(s, {Target(s)})
          /\ lock' = lock \/ lock' = Released(s)
      BY DEF Update
    <2>2. Noted(s, {Target(s)}) \in [Sessions -> SUBSET Receipts]
      BY <1>2 DEF Noted, TypeOK
    <2>3. Released(s) \in [Receipts -> Sessions \cup {NoSession}]
      BY DEF Released, TypeOK
    <2> QED BY <2>1, <2>2, <2>3 DEF TypeOK
  <1> QED BY <1>3, <1>4, <1>5 DEF Update, TypeOK

LEMMA DeliverTypes ==
    ASSUME NEW s \in Sessions, TypeOK, Deliver(s)
    PROVE  TypeOK'
  <1>1. call[s] \in Calls /\ call[s].pc = "answer"
    BY DEF TypeOK, Deliver
  <1>2. Target(s) \in Receipts
    BY <1>1, CallShapes DEF Target
  <1>3. honoured' \in [Receipts -> Nat] /\ told' \in [Sessions -> [Receipts -> Nat]]
    BY <1>2 DEF Deliver, TypeOK
  <1>4. call' \in [Sessions -> Calls] /\ tx' \in [Sessions -> TxStates]
    BY CallsMade DEF Deliver, TypeOK, TxStates
  <1> QED BY <1>3, <1>4 DEF Deliver, TypeOK

(* Type correctness is preserved by every step.                            *)
LEMMA TypePreserved == TypeOK /\ [Next]_vars => TypeOK'
  <1> SUFFICES ASSUME TypeOK, [Next]_vars PROVE TypeOK'
    OBVIOUS
  <1>0. "system_failure" \in Outcomes /\ Denials \subseteq Outcomes
        /\ "aborted" \in TxStates /\ "none" \in TxStates
        /\ "autocommit" \in TxStates /\ Isolation \subseteq TxStates
    BY DEF Outcomes, TxStates
  <1>1. ASSUME NEW s \in Sessions, NEW i \in Isolation, Begin(s, i)
        PROVE  TypeOK'
    BY <1>0, <1>1 DEF Begin, TypeOK
  <1>2. ASSUME NEW s \in Sessions, NEW cmd \in Commands, Submit(s, cmd)
        PROVE  TypeOK'
    BY <1>0, <1>2, CallsMade DEF Submit, TypeOK
  <1>3. ASSUME NEW s \in Sessions, NEW r \in Receipts, Refuse(s, r)
        PROVE  TypeOK'
    BY <1>0, <1>3, CallsMade DEF Refuse, TypeOK
  <1>4. ASSUME NEW s \in Sessions, Statement(s) PROVE TypeOK'
    <2>0. call[s] \in Calls
      BY DEF TypeOK
    <2>1. CASE FindNothing(s)
      <3>1. "receipt_missing" \in Outcomes /\ call[s] # NoCall
        BY <2>1 DEF FindNothing, NoCall, Outcomes, Denials
      <3> QED BY <2>1, <3>1, FinishTypes DEF FindNothing, TypeOK
    <2>2. CASE AcquireLock(s)
      <3>1. call[s].pc = "lock" /\ Target(s) \in Receipts
        BY <2>0, <2>2, CallShapes DEF AcquireLock, LockFree, Target
      <3>2. call' \in [Sessions -> Calls]
        BY <2>0, <2>2, <3>1, Advance DEF AcquireLock, TypeOK
      <3> QED BY <2>2, <3>1, <3>2 DEF AcquireLock, TypeOK
    <2>3. CASE FailToSerialize(s)
      <3>1. call[s] # NoCall
        BY <2>3 DEF FailToSerialize, LockFree, NoCall
      <3>2. call' \in [Sessions -> Calls]
        BY <1>0, <2>3, <3>1, FinishTypes DEF FailToSerialize, TypeOK
      <3>3. tx' \in [Sessions -> TxStates]
        BY <1>0, <2>3 DEF FailToSerialize, TypeOK
      <3> QED BY <2>3, <3>2, <3>3, DiscardTypes DEF FailToSerialize
    <2>4. CASE BreakDeadlock(s)
      <3>1. call[s] # NoCall
        BY <2>4 DEF BreakDeadlock, Deadlocked, NoCall
      <3>2. call' \in [Sessions -> Calls]
        BY <1>0, <2>4, <3>1, FinishTypes DEF BreakDeadlock, TypeOK
      <3>3. tx' \in [Sessions -> TxStates]
        BY <1>0, <2>4 DEF BreakDeadlock, TypeOK
      <3> QED BY <2>4, <3>2, <3>3, DiscardTypes DEF BreakDeadlock
    <2>5. CASE Deny(s)
      <3>1. Verdict(s) \in Outcomes /\ call[s] # NoCall
        BY <1>0, <2>5, VerdictTypes DEF Deny, NoCall
      <3>2. call' \in [Sessions -> Calls]
        BY <2>5, <3>1, FinishTypes DEF Deny, TypeOK
      <3> QED BY <2>5, <3>2 DEF Deny, TypeOK, Released
    <2>6. CASE Admit(s)
      <3>1. call' \in [Sessions -> Calls]
        BY <2>0, <2>6, Advance DEF Admit, TypeOK
      <3> QED BY <2>6, <3>1 DEF Admit, TypeOK
    <2>7. CASE Update(s)
      BY <2>7, UpdateTypes
    <2> QED BY <1>4, <2>1, <2>2, <2>3, <2>4, <2>5, <2>6, <2>7 DEF Statement
  <1>5. ASSUME NEW s \in Sessions, Deliver(s) PROVE TypeOK'
    BY <1>5, DeliverTypes
  <1>6. ASSUME NEW s \in Sessions, Garble(s) PROVE TypeOK'
    <2>1. call[s] # NoCall
      BY <1>6 DEF Garble, NoCall
    <2>2. call' \in [Sessions -> Calls]
      BY <1>0, <1>6, <2>1, FinishTypes DEF Garble, TypeOK
    <2> QED BY <1>6, <2>2 DEF Garble, TypeOK
  <1>7. ASSUME NEW s \in Sessions, Disconnect(s) PROVE TypeOK'
    <2>1. call' \in [Sessions -> Calls]
      BY <1>0, <1>7, FinishTypes DEF Disconnect, TypeOK
    <2>2. tx' \in [Sessions -> TxStates]
      BY <1>0, <1>7 DEF Disconnect, TypeOK
    <2> QED BY <1>7, <2>1, <2>2, DiscardTypes DEF Disconnect
  <1>8. ASSUME NEW s \in Sessions, EndTransaction(s) PROVE TypeOK'
    <2>1. tx' \in [Sessions -> TxStates] /\ call' = call
      BY <1>0, <1>8 DEF EndTransaction, Commit, Rollback, TypeOK
    <2>2. call' \in [Sessions -> Calls]
      BY <2>1 DEF TypeOK
    <2> QED BY <1>8, <2>1, <2>2, DiscardTypes, SettleTypes
            DEF EndTransaction, Commit, Rollback
  <1>9. ASSUME NEW r \in Receipts, Revoke(r) PROVE TypeOK'
    BY <1>9 DEF Revoke, Noted, TypeOK
  <1>10. CASE Tick
    BY <1>10 DEF Tick, TypeOK
  <1>11. CASE UNCHANGED vars
    BY <1>11 DEF vars, TypeOK
  <1> QED BY <1>1, <1>2, <1>3, <1>4, <1>5, <1>6, <1>7, <1>8, <1>9, <1>10,
             <1>11 DEF Next

(* Every variable keeps its type, whatever the instance.                   *)
THEOREM TypeCorrect == Spec => []TypeOK
  <1>1. Init => TypeOK
    BY CallsMade DEF Init, TypeOK, NoUses, TxStates
  <1> QED BY <1>1, TypePreserved, PTL DEF Spec

-----------------------------------------------------------------------------
(* The parts of the invariant that speak of rows only, those that speak of *)
(* calls, and how a step of one session leaves the calls of the others.    *)
RowParts ==
    /\ WorkIsLocked /\ OnlyTransactionsHoldUses /\ WithinMaximum
    /\ RevokedIsUnused /\ LastUseIsMarked /\ LastUseReportedOnce
CallParts ==
    /\ StatementIsLocked /\ StatementInTransaction /\ AdmittedHasRoom
    /\ ExhaustedIsFull /\ AdmittedNeverConflicts

LEMMA Parts == IInv <=> TypeOK /\ RowParts /\ CallParts
  BY DEF IInv, RowParts, CallParts

(* A step that changes no row and moves one call keeps the row parts.      *)
LEMMA QuietRows ==
    ASSUME RowParts, UNCHANGED <<count, revoked, lock, tx, uses, lastIn, lastCount>>
    PROVE  RowParts'
  BY DEF RowParts, WorkIsLocked, OnlyTransactionsHoldUses, WithinMaximum,
         RevokedIsUnused, LastUseIsMarked, LastUseReportedOnce

(* A row lock given up or taken over by nobody else disturbs no other      *)
(* call: what the call of z says of its row survives if the row, the       *)
(* uses of z and the transaction of z do.                                  *)
CallOf(z) ==
    /\ call[z].pc \in {"decide", "update"} => lock[call[z].cmd.jti] = z
    /\ call[z].pc \in {"lock", "decide", "update"} =>
            tx[z] \in Isolation \cup {"autocommit"}
    /\ call[z].pc = "update" =>
            LET r == call[z].cmd.jti
            IN  count[r] + uses[z][r] < Max[r] /\ r \notin revoked
    /\ call[z].pc = "answer" /\ call[z].outcome = "receipt_exhausted" =>
            LET r == call[z].jti
            IN  \/ count[r] = Max[r]
                \/ lock[r] = z /\ count[r] + uses[z][r] = Max[r]
    /\ call[z].pc = "answer" => call[z].outcome # "concurrency_conflict"

LEMMA CallPartsOf == CallParts <=> \A z \in Sessions : CallOf(z)
  BY DEF CallParts, CallOf, StatementIsLocked, StatementInTransaction,
         AdmittedHasRoom, ExhaustedIsFull, AdmittedNeverConflicts

LEMMA CallPartsNext == CallParts' <=> \A z \in Sessions : CallOf(z)'
  BY DEF CallParts, CallOf, StatementIsLocked, StatementInTransaction,
         AdmittedHasRoom, ExhaustedIsFull, AdmittedNeverConflicts

LEMMA Undisturbed ==
    ASSUME NEW z \in Sessions, TypeOK, CallOf(z),
           call'[z] = call[z], tx'[z] = tx[z], uses'[z] = uses[z],
           UNCHANGED <<count, revoked>>,
           \A r \in Receipts : lock[r] = z => lock'[r] = z
    PROVE  CallOf(z)'
  <1>1. call[z] \in Calls
    BY DEF TypeOK
  <1> QED BY <1>1, CallShapes DEF CallOf

(* A discarded transaction.                                                *)
LEMMA DiscardRows ==
    ASSUME NEW s \in Sessions, TypeOK, RowParts, Discard(s),
           \A z \in Sessions \ {s} : tx'[z] = tx[z]
    PROVE  RowParts'
  <1>1. \A r \in Receipts : uses'[s][r] = 0 /\ r \notin lastIn'[s]
    BY DEF Discard, TypeOK, NoUses
  <1>2. \A z \in Sessions \ {s} : uses'[z] = uses[z] /\ lastIn'[z] = lastIn[z]
    BY DEF Discard, TypeOK
  <1>3. \A r \in Receipts : lock[r] # s => lock'[r] = lock[r]
    BY DEF Discard, Released
  <1>4. \A r \in Receipts : count'[r] = count[r] /\ lastCount'[r] = lastCount[r]
    BY DEF Discard
  <1>5. revoked' = revoked
    BY DEF Discard
  <1>6. \A r \in Receipts : count[r] \in Nat /\ Max[r] \in Nat /\ count[r] <= Max[r]
    BY MaxAssumption DEF TypeOK, RowParts, WithinMaximum
  <1> QED BY <1>1, <1>2, <1>3, <1>4, <1>5, <1>6
          DEF RowParts, WorkIsLocked, OnlyTransactionsHoldUses, WithinMaximum,
              RevokedIsUnused, LastUseIsMarked, LastUseReportedOnce

LEMMA DiscardOthers ==
    ASSUME NEW s \in Sessions, TypeOK, CallParts, Discard(s),
           \A z \in Sessions \ {s} : tx'[z] = tx[z] /\ call'[z] = call[z]
    PROVE  \A z \in Sessions \ {s} : CallOf(z)'
  <1> SUFFICES ASSUME NEW z \in Sessions \ {s} PROVE CallOf(z)'
    OBVIOUS
  <1>1. uses'[z] = uses[z]
    BY DEF Discard, TypeOK
  <1>2. \A r \in Receipts : lock[r] = z => lock'[r] = z
    BY DEF Discard, Released
  <1>3. CallOf(z)
    BY CallPartsOf
  <1> QED BY <1>1, <1>2, <1>3, Undisturbed DEF Discard

(* A committed transaction: its uses move from the transaction to the row. *)
LEMMA SettleRows ==
    ASSUME NEW s \in Sessions, TypeOK, RowParts, NEW ack \in BOOLEAN,
           Settle(s, ack), \A z \in Sessions \ {s} : tx'[z] = tx[z]
    PROVE  RowParts'
  <1>1. \A r \in Receipts : uses'[s][r] = 0 /\ r \notin lastIn'[s]
    BY DEF Settle, TypeOK, NoUses
  <1>2. \A z \in Sessions \ {s} : uses'[z] = uses[z] /\ lastIn'[z] = lastIn[z]
    BY DEF Settle, TypeOK
  <1>3. \A r \in Receipts : lock[r] # s => lock'[r] = lock[r]
    BY DEF Settle, Released
  <1>4. \A r \in Receipts : count'[r] = count[r] + uses[s][r]
    BY DEF Settle, Current
  <1>5. \A r \in Receipts :
            lastCount'[r] = lastCount[r] + (IF r \in lastIn[s] THEN 1 ELSE 0)
    BY DEF Settle
  <1>6. revoked' = revoked
    BY DEF Settle
  <1>7. \A z \in Sessions, r \in Receipts :
            /\ count[r] \in Nat /\ Max[r] \in Nat \ {0} /\ uses[z][r] \in Nat
            /\ lastCount[r] \in Nat
    BY MaxAssumption DEF TypeOK
  <1>8. \A z \in Sessions \ {s}, r \in Receipts :
            uses[s][r] > 0 => uses[z][r] = 0
    BY <1>7 DEF RowParts, WorkIsLocked
  <1>9. WorkIsLocked' /\ OnlyTransactionsHoldUses' /\ RevokedIsUnused'
    BY <1>1, <1>2, <1>3, <1>6, <1>7
       DEF RowParts, WorkIsLocked, OnlyTransactionsHoldUses, RevokedIsUnused
  <1>10. WithinMaximum'
    BY <1>1, <1>2, <1>4, <1>7, <1>8 DEF RowParts, WithinMaximum
  <1>11. LastUseIsMarked'
    BY <1>1, <1>2, <1>4, <1>7, <1>8 DEF RowParts, LastUseIsMarked
  <1>12. LastUseReportedOnce'
    BY <1>4, <1>5, <1>7
       DEF RowParts, LastUseIsMarked, LastUseReportedOnce, WithinMaximum
  <1> QED BY <1>9, <1>10, <1>11, <1>12 DEF RowParts

LEMMA SettleOthers ==
    ASSUME NEW s \in Sessions, TypeOK, RowParts, CallParts,
           NEW ack \in BOOLEAN, Settle(s, ack), NEW z \in Sessions \ {s},
           tx'[z] = tx[z], call' = call
    PROVE  CallOf(z)'
  <1>1. uses'[z] = uses[z] /\ revoked' = revoked
    BY DEF Settle, TypeOK
  <1>2. \A r \in Receipts : lock[r] = z => lock'[r] = z
    BY DEF Settle, Released
  <1>3. \A r \in Receipts : count'[r] = count[r] + uses[s][r]
    BY DEF Settle, Current
  <1>4. \A r \in Receipts :
            /\ count[r] \in Nat /\ Max[r] \in Nat
            /\ uses[s][r] \in Nat /\ uses[z][r] \in Nat
            /\ count[r] + uses[s][r] <= Max[r]
            /\ lock[r] = z => uses[s][r] = 0
    BY MaxAssumption DEF TypeOK, RowParts, WorkIsLocked, WithinMaximum
  <1>5. CallOf(z) /\ call[z] \in Calls
    BY CallPartsOf DEF TypeOK
  <1>6. call[z].pc \in {"decide", "update"} => count'[call[z].cmd.jti] = count[call[z].cmd.jti]
    BY <1>3, <1>4, <1>5, CallShapes DEF CallOf
  <1>7. CASE call[z].pc \in {"idle", "lock", "decide", "update"}
    BY <1>1, <1>2, <1>5, <1>6, <1>7, CallShapes DEF CallOf
  <1>8. CASE call[z].pc = "answer"
    <2>1. call[z].jti \in Receipts
      BY <1>5, <1>8, CallShapes
    <2> QED BY <1>1, <1>2, <1>3, <1>4, <1>5, <1>8, <2>1 DEF CallOf
  <1> QED BY <1>5, <1>7, <1>8, CallShapes

(* The guarded update: one use more for the holder of the row lock, in its *)
(* transaction or, in autocommit, in the row itself.                       *)
LEMMA UpdateStep ==
    ASSUME NEW s \in Sessions, IInv, Update(s)
    PROVE  RowParts' /\ CallParts'
  <1> DEFINE r == call[s].cmd.jti
  <1>0. TypeOK /\ RowParts /\ CallParts
    BY Parts
  <1>1. /\ call[s] \in Calls /\ call[s].pc = "update" /\ Target(s) = r
        /\ r \in Receipts /\ lock[r] = s /\ count[r] + uses[s][r] < Max[r]
        /\ r \notin revoked /\ tx[s] \in Isolation \cup {"autocommit"}
    <2>1. call[s] \in Calls /\ call[s].pc = "update" /\ CallOf(s)
      BY <1>0, CallPartsOf DEF Update, TypeOK
    <2>2. r \in Receipts /\ Target(s) = r
      BY <2>1, CallShapes DEF Target
    <2> QED BY <2>1, <2>2 DEF CallOf
  <1>2. \A z \in Sessions, q \in Receipts :
            /\ count[q] \in Nat /\ Max[q] \in Nat \ {0} /\ uses[z][q] \in Nat
            /\ lastCount[q] \in Nat
    BY <1>0, MaxAssumption DEF TypeOK
  <1>3. /\ call'[s] = [pc |-> "answer", jti |-> r, outcome |->
                IF Exhausts(s) THEN "consumed_exhausted" ELSE "consumed"]
        /\ \A z \in Sessions \ {s} : call'[z] = call[z]
    BY <1>0, <1>1 DEF Update, Finish, TypeOK, Current
  <1>4. CallOf(s)'
    BY <1>3 DEF CallOf
  <1>5. Exhausts(s) <=> count[r] + uses[s][r] + 1 = Max[r]
    BY <1>1 DEF Exhausts, Current
  <1>6. \A z \in Sessions \ {s} : CallOf(z) /\ tx'[z] = tx[z] /\ uses[z][r] = 0
    <2>1. \A z \in Sessions : CallOf(z) /\ tx'[z] = tx[z]
      BY <1>0, CallPartsOf DEF Update
    <2>2. \A z \in Sessions \ {s} : ~(uses[z][r] > 0)
      BY <1>0, <1>1 DEF RowParts, WorkIsLocked
    <2> QED BY <1>1, <1>2, <2>1, <2>2
  <1>7. revoked' = revoked /\ tx' = tx
    BY DEF Update
  <1> HIDE DEF r
  <1>8. CASE tx[s] = "autocommit"
    <2>1. /\ count' = [count EXCEPT ![r] = @ + 1]
          /\ lastCount' = [lastCount EXCEPT ![r] = IF Exhausts(s) THEN @ + 1 ELSE @]
          /\ lock' = Released(s) /\ UNCHANGED <<uses, lastIn>>
      BY <1>1, <1>8 DEF Update, Current
    <2>2. \A q \in Receipts : uses[s][q] = 0
      BY <1>0, <1>8 DEF RowParts, OnlyTransactionsHoldUses, Isolation
    <2>3. \A q \in Receipts :
            /\ count'[q] = IF q = r THEN count[q] + 1 ELSE count[q]
            /\ lastCount'[q] = IF q = r /\ Exhausts(s) THEN lastCount[q] + 1
                                                       ELSE lastCount[q]
            /\ lock[q] # s => lock'[q] = lock[q]
      BY <1>0, <1>1, <2>1 DEF TypeOK, Released
    <2>4. \A z \in Sessions : uses[z][r] = 0
      BY <1>6, <2>2, <1>1
    <2>5. WorkIsLocked' /\ OnlyTransactionsHoldUses' /\ RevokedIsUnused'
      BY <1>0, <1>7, <2>1, <2>2, <2>3, <1>2
         DEF RowParts, WorkIsLocked, OnlyTransactionsHoldUses, RevokedIsUnused
    <2>6. WithinMaximum' /\ LastUseIsMarked'
      BY <1>0, <1>1, <1>2, <2>1, <2>3, <2>4
         DEF RowParts, WithinMaximum, LastUseIsMarked
    <2>7. LastUseReportedOnce'
      BY <1>0, <1>1, <1>2, <1>5, <2>2, <2>3 DEF RowParts, LastUseReportedOnce
    <2>8. ASSUME NEW z \in Sessions \ {s} PROVE CallOf(z)'
      <3>1. call[z] \in Calls /\ call'[z] = call[z] /\ uses'[z] = uses[z]
            /\ CallOf(z) /\ tx'[z] = tx[z]
        BY <1>0, <1>3, <1>6, <2>1 DEF TypeOK
      <3>2. CASE call[z].pc \in {"idle", "lock", "decide", "update"}
        BY <1>1, <1>7, <2>3, <3>1, <3>2, CallShapes DEF CallOf
      <3>3. CASE call[z].pc = "answer"
        <4>1. call[z].jti \in Receipts
          BY <3>1, <3>3, CallShapes
        <4>2. call[z].jti = r => count[r] # Max[r]
          BY <1>1, <1>2
        <4> QED BY <1>1, <1>7, <2>3, <3>1, <3>3, <4>1, <4>2 DEF CallOf
      <3> QED BY <3>1, <3>2, <3>3, CallShapes
    <2> QED BY <1>4, <2>5, <2>6, <2>7, <2>8, CallPartsNext DEF RowParts
  <1>9. CASE tx[s] \in Isolation
    <2>1. /\ uses' = [uses EXCEPT ![s][r] = @ + 1]
          /\ lastIn' = [lastIn EXCEPT ![s] = IF Exhausts(s) THEN @ \cup {r} ELSE @]
          /\ UNCHANGED <<count, lastCount, lock>>
      BY <1>1, <1>9 DEF Update, Current, Isolation
    <2>2. \A z \in Sessions, q \in Receipts :
            /\ uses'[z][q] = IF z = s /\ q = r THEN uses[z][q] + 1 ELSE uses[z][q]
            /\ q \in lastIn'[z] <=> q \in lastIn[z] \/ (z = s /\ q = r /\ Exhausts(s))
      BY <1>0, <1>1, <2>1 DEF TypeOK
    <2>3. WorkIsLocked' /\ OnlyTransactionsHoldUses' /\ RevokedIsUnused'
      BY <1>0, <1>1, <1>2, <1>7, <1>9, <2>1, <2>2
         DEF RowParts, WorkIsLocked, OnlyTransactionsHoldUses, RevokedIsUnused
    <2>4. WithinMaximum' /\ LastUseIsMarked' /\ LastUseReportedOnce'
      BY <1>0, <1>1, <1>2, <1>5, <2>1, <2>2
         DEF RowParts, WithinMaximum, LastUseIsMarked, LastUseReportedOnce
    <2>5. ASSUME NEW z \in Sessions \ {s} PROVE CallOf(z)'
      <3>1. uses'[z] = uses[z]
        BY <1>0, <2>1 DEF TypeOK
      <3> QED BY <1>0, <1>3, <1>6, <1>7, <2>1, <3>1, Undisturbed
    <2> QED BY <1>4, <2>3, <2>4, <2>5, CallPartsNext DEF RowParts
  <1> QED BY <1>1, <1>8, <1>9

(* A step of s that leaves rows, locks and transactions of the others be:  *)
(* only what the call of s says has to be shown.                           *)
LEMMA QuietStep ==
    ASSUME NEW s \in Sessions, TypeOK, RowParts, CallParts,
           UNCHANGED <<count, revoked, lock, tx, uses, lastIn, lastCount>>,
           \A z \in Sessions \ {s} : call'[z] = call[z], CallOf(s)'
    PROVE  RowParts' /\ CallParts'
  <1>1. RowParts'
    BY QuietRows
  <1>2. ASSUME NEW z \in Sessions \ {s} PROVE CallOf(z)'
    BY CallPartsOf, Undisturbed
  <1> QED BY <1>1, <1>2, CallPartsNext

(* The row lock goes to s, or from s to nobody.                            *)
LEMMA LockStep ==
    ASSUME NEW s \in Sessions, TypeOK, RowParts, CallParts,
           UNCHANGED <<count, revoked, tx, uses, lastIn, lastCount>>,
           \A z \in Sessions \ {s} : call'[z] = call[z],
           \A r \in Receipts : lock'[r] # lock[r] =>
                \/ lock[r] = NoSession
                \/ lock[r] = s /\ uses[s][r] = 0,
           CallOf(s)'
    PROVE  RowParts' /\ CallParts'
  <1>1. RowParts'
    <2>1. \A z \in Sessions, r \in Receipts : uses[z][r] > 0 => lock'[r] = z
      BY SessionAssumption DEF RowParts, WorkIsLocked, TypeOK
    <2> QED BY <2>1 DEF RowParts, WorkIsLocked, OnlyTransactionsHoldUses,
                WithinMaximum, RevokedIsUnused, LastUseIsMarked,
                LastUseReportedOnce
  <1>2. ASSUME NEW z \in Sessions \ {s} PROVE CallOf(z)'
    <2>1. \A r \in Receipts : lock[r] = z => lock'[r] = z
      BY SessionAssumption
    <2> QED BY <2>1, CallPartsOf, Undisturbed
  <1> QED BY <1>1, <1>2, CallPartsNext

LEMMA StatementStep ==
    ASSUME NEW s \in Sessions, IInv, Statement(s)
    PROVE  RowParts' /\ CallParts'
  <1>0. TypeOK /\ RowParts /\ CallParts /\ CallOf(s) /\ call[s] \in Calls
    BY Parts, CallPartsOf DEF TypeOK
  <1>1. CASE FindNothing(s)
    <2>1. /\ CallOf(s)'
          /\ \A z \in Sessions \ {s} : call'[z] = call[z]
      BY <1>0, <1>1 DEF FindNothing, Finish, TypeOK, CallOf
    <2> QED BY <1>0, <1>1, <2>1, QuietStep DEF FindNothing
  <1>2. CASE AcquireLock(s)
    <2>1. /\ call[s].pc = "lock" /\ Target(s) \in Receipts
          /\ lock[Target(s)] \in {NoSession, s} /\ Target(s) = call[s].cmd.jti
      BY <1>0, <1>2, CallShapes DEF AcquireLock, LockFree, Target
    <2>2. /\ call'[s] = [call[s] EXCEPT !.pc = "decide"]
          /\ \A z \in Sessions \ {s} : call'[z] = call[z]
      BY <1>0, <1>2 DEF AcquireLock, TypeOK
    <2>3. call'[s].pc = "decide" /\ call'[s].cmd = call[s].cmd
      BY <1>0, <2>1, <2>2, Advance
    <2>4. \A r \in Receipts : lock'[r] = IF r = Target(s) THEN s ELSE lock[r]
      BY <1>0, <1>2, <2>1 DEF AcquireLock, TypeOK
    <2>5. CallOf(s)'
      BY <1>0, <1>2, <2>1, <2>3, <2>4 DEF CallOf, AcquireLock
    <2>6. \A r \in Receipts : lock'[r] # lock[r] => lock[r] = NoSession
      BY <2>1, <2>4
    <2> QED BY <1>0, <1>2, <2>2, <2>5, <2>6, LockStep DEF AcquireLock
  <1>3. CASE FailToSerialize(s) \/ BreakDeadlock(s)
    <2>1. /\ CallOf(s)'
          /\ \A z \in Sessions \ {s} : call'[z] = call[z] /\ tx'[z] = tx[z]
      BY <1>0, <1>3 DEF FailToSerialize, BreakDeadlock, Finish, TypeOK, CallOf
    <2>2. Discard(s)
      BY <1>3 DEF FailToSerialize, BreakDeadlock
    <2> QED BY <1>0, <2>1, <2>2, DiscardRows, DiscardOthers, CallPartsNext
  <1>4. CASE Deny(s)
    <2>1. /\ call[s].pc = "decide" /\ Target(s) = call[s].cmd.jti
          /\ Target(s) \in Receipts /\ lock[Target(s)] = s
      BY <1>0, <1>4, CallShapes DEF Deny, Target, CallOf
    <2>2. /\ call'[s] = [pc |-> "answer", jti |-> Target(s), outcome |-> Verdict(s)]
          /\ \A z \in Sessions \ {s} : call'[z] = call[z]
      BY <1>0, <1>4 DEF Deny, Finish, TypeOK
    <2>3. tx[s] = "autocommit" => \A r \in Receipts : uses[s][r] = 0
      BY <1>0 DEF RowParts, OnlyTransactionsHoldUses, Isolation
    <2>4. \A r \in Receipts : lock'[r] # lock[r] => lock[r] = s /\ uses[s][r] = 0
      BY <1>0, <1>4, <2>3 DEF Deny, Released, TypeOK
    <2>5. Verdict(s) = "receipt_exhausted" =>
                count[Target(s)] + uses[s][Target(s)] = Max[Target(s)]
      <3>1. Verdict(s) = "receipt_exhausted" => Exhausted(s)
        BY DEF Verdict
      <3>2. Exhausted(s) <=>
                count[Target(s)] + uses[s][Target(s)] >= Max[Target(s)]
        BY DEF Exhausted, Current
      <3>3. /\ count[Target(s)] \in Nat /\ uses[s][Target(s)] \in Nat
            /\ Max[Target(s)] \in Nat
            /\ count[Target(s)] + uses[s][Target(s)] <= Max[Target(s)]
        BY <1>0, <2>1, MaxAssumption DEF RowParts, WithinMaximum, TypeOK
      <3> HIDE DEF Target
      <3> QED BY <3>1, <3>2, <3>3
    <2>6. Verdict(s) # "concurrency_conflict"
      BY DEF Verdict
    <2>7. CallOf(s)'
      <3>1. Verdict(s) = "receipt_exhausted" =>
                \/ count[Target(s)] = Max[Target(s)]
                \/ lock'[Target(s)] = s
        BY <1>0, <1>4, <2>1, <2>3, <2>5 DEF Deny, TypeOK
      <3> QED BY <1>4, <2>2, <2>5, <2>6, <3>1 DEF CallOf, Deny
    <2> QED BY <1>0, <1>4, <2>2, <2>4, <2>7, LockStep DEF Deny
  <1>5. CASE Admit(s)
    <2>1. /\ call[s].pc = "decide" /\ Target(s) = call[s].cmd.jti
          /\ Target(s) \in Receipts /\ lock[Target(s)] = s
      BY <1>0, <1>5, CallShapes DEF Admit, Target, CallOf
    <2>2. /\ call'[s] = [call[s] EXCEPT !.pc = "update"]
          /\ \A z \in Sessions \ {s} : call'[z] = call[z]
      BY <1>0, <1>5 DEF Admit, TypeOK
    <2>3. call'[s].pc = "update" /\ call'[s].cmd = call[s].cmd
      BY <1>0, <2>1, <2>2, Advance
    <2>4. Target(s) \notin revoked
          /\ count[Target(s)] + uses[s][Target(s)] < Max[Target(s)]
      <3>1. ~Revoked(s) /\ ~Exhausted(s)
        BY <1>5 DEF Admit, Verdict
      <3> QED BY <1>0, <2>1, <3>1, MaxAssumption
              DEF Revoked, Exhausted, Current, TypeOK
    <2>5. CallOf(s)'
      BY <1>0, <1>5, <2>1, <2>3, <2>4 DEF CallOf, Admit
    <2> QED BY <1>0, <1>5, <2>2, <2>5, QuietStep DEF Admit
  <1>6. CASE Update(s)
    BY <1>6, UpdateStep
  <1> QED BY <1>1, <1>2, <1>3, <1>4, <1>5, <1>6 DEF Statement

(* The invariant is preserved by every step.                               *)
LEMMA InvariantPreserved == IInv /\ [Next]_vars => IInv'
  <1> SUFFICES ASSUME IInv, [Next]_vars PROVE RowParts' /\ CallParts'
    BY TypePreserved DEF IInv, RowParts, CallParts
  <1>0. TypeOK /\ RowParts /\ CallParts
    BY Parts
  <1>1. ASSUME NEW s \in Sessions, NEW i \in Isolation, Begin(s, i)
        PROVE  RowParts' /\ CallParts'
    <2>1. RowParts'
      <3>1. \A z \in Sessions \ {s} : tx'[z] = tx[z]
        BY <1>0, <1>1 DEF Begin, TypeOK
      <3>2. tx[s] \notin Isolation
        BY <1>1 DEF Begin, Isolation
      <3>3. \A r \in Receipts : uses[s][r] = 0
        BY <1>0, <3>2 DEF RowParts, OnlyTransactionsHoldUses
      <3> QED BY <1>0, <1>1, <3>1, <3>3 DEF Begin, RowParts, WorkIsLocked,
                 OnlyTransactionsHoldUses, WithinMaximum, RevokedIsUnused,
                 LastUseIsMarked, LastUseReportedOnce
    <2>2. \A z \in Sessions \ {s} : CallOf(z)'
      <3> SUFFICES ASSUME NEW z \in Sessions \ {s} PROVE CallOf(z)'
        OBVIOUS
      <3>1. tx'[z] = tx[z] /\ call'[z] = call[z] /\ CallOf(z)
        BY <1>0, <1>1, CallPartsOf DEF Begin, TypeOK
      <3> QED BY <1>0, <1>1, <3>1, Undisturbed DEF Begin
    <2>3. CallOf(s)'
      BY <1>1 DEF Begin, CallOf, NoCall
    <2> QED BY <2>1, <2>2, <2>3, CallPartsNext
  <1>2. ASSUME NEW s \in Sessions, NEW cmd \in Commands, Submit(s, cmd)
        PROVE  RowParts' /\ CallParts'
    <2>1. RowParts'
      <3>1. \A z \in Sessions : tx'[z] \notin Isolation => tx[z] \notin Isolation
        BY <1>0, <1>2 DEF Submit, TypeOK, Isolation
      <3> QED BY <1>0, <1>2, <3>1 DEF Submit, RowParts, WorkIsLocked,
                 OnlyTransactionsHoldUses, WithinMaximum, RevokedIsUnused,
                 LastUseIsMarked, LastUseReportedOnce
    <2>2. \A z \in Sessions \ {s} : CallOf(z)'
      <3> SUFFICES ASSUME NEW z \in Sessions \ {s} PROVE CallOf(z)'
        OBVIOUS
      <3>1. tx'[z] = tx[z] /\ call'[z] = call[z] /\ CallOf(z)
        BY <1>0, <1>2, CallPartsOf DEF Submit, TypeOK
      <3> QED BY <1>0, <1>2, <3>1, Undisturbed DEF Submit
    <2>3. CallOf(s)'
      <3>1. call'[s] = [pc |-> "lock", cmd |-> cmd]
        BY <1>0, <1>2 DEF Submit, TypeOK
      <3>2. tx'[s] \in Isolation \cup {"autocommit"}
        BY <1>0, <1>2 DEF Submit, TypeOK, TxStates
      <3> QED BY <3>1, <3>2 DEF CallOf
    <2> QED BY <2>1, <2>2, <2>3, CallPartsNext
  <1>3. ASSUME NEW s \in Sessions, NEW r \in Receipts, Refuse(s, r)
        PROVE  RowParts' /\ CallParts'
    <2>1. /\ CallOf(s)'
          /\ \A z \in Sessions \ {s} : call'[z] = call[z]
      BY <1>0, <1>3 DEF Refuse, TypeOK, CallOf
    <2> QED BY <1>0, <1>3, <2>1, QuietStep DEF Refuse
  <1>4. ASSUME NEW s \in Sessions, Statement(s) PROVE RowParts' /\ CallParts'
    BY <1>4, StatementStep
  <1>5. ASSUME NEW s \in Sessions, Deliver(s) PROVE RowParts' /\ CallParts'
    <2>1. /\ \A z \in Sessions \ {s} : call'[z] = call[z] /\ tx'[z] = tx[z]
          /\ call'[s] = NoCall
      BY <1>0, <1>5 DEF Deliver, TypeOK
    <2>2. tx'[s] \notin Isolation => tx[s] \notin Isolation
      BY <1>0, <1>5 DEF Deliver, TypeOK, Isolation
    <2>3. RowParts'
      BY <1>0, <1>5, <2>1, <2>2 DEF Deliver, RowParts, WorkIsLocked,
         OnlyTransactionsHoldUses, WithinMaximum, RevokedIsUnused,
         LastUseIsMarked, LastUseReportedOnce
    <2>4. \A z \in Sessions \ {s} : CallOf(z)'
      <3> SUFFICES ASSUME NEW z \in Sessions \ {s} PROVE CallOf(z)'
        OBVIOUS
      <3> QED BY <1>0, <1>5, <2>1, CallPartsOf, Undisturbed DEF Deliver
    <2>5. CallOf(s)'
      BY <2>1 DEF CallOf, NoCall
    <2> QED BY <2>3, <2>4, <2>5, CallPartsNext
  <1>6. ASSUME NEW s \in Sessions, Garble(s) PROVE RowParts' /\ CallParts'
    <2>1. /\ CallOf(s)'
          /\ \A z \in Sessions \ {s} : call'[z] = call[z]
      BY <1>0, <1>6 DEF Garble, Finish, TypeOK, CallOf
    <2> QED BY <1>0, <1>6, <2>1, QuietStep DEF Garble
  <1>7. ASSUME NEW s \in Sessions, Disconnect(s) PROVE RowParts' /\ CallParts'
    <2>1. /\ CallOf(s)'
          /\ \A z \in Sessions \ {s} : call'[z] = call[z] /\ tx'[z] = tx[z]
      BY <1>0, <1>7 DEF Disconnect, Finish, TypeOK, CallOf, NoCall
    <2>2. Discard(s)
      BY <1>7 DEF Disconnect
    <2> QED BY <1>0, <2>1, <2>2, DiscardRows, DiscardOthers, CallPartsNext
  <1>8. ASSUME NEW s \in Sessions, EndTransaction(s) PROVE RowParts' /\ CallParts'
    <2>1. /\ CallOf(s)' /\ call' = call
          /\ \A z \in Sessions \ {s} : call'[z] = call[z] /\ tx'[z] = tx[z]
      BY <1>0, <1>8 DEF EndTransaction, Commit, Rollback, TypeOK, CallOf, NoCall
    <2>2. CASE Rollback(s)
      <3>1. Discard(s)
        BY <2>2 DEF Rollback
      <3> QED BY <1>0, <2>1, <3>1, DiscardRows, DiscardOthers, CallPartsNext
    <2>3. CASE Commit(s)
      <3>1. PICK ack \in BOOLEAN : Settle(s, ack)
        BY <2>3 DEF Commit
      <3> QED BY <1>0, <2>1, <3>1, SettleRows, SettleOthers, CallPartsNext
    <2> QED BY <1>8, <2>2, <2>3 DEF EndTransaction
  <1>9. ASSUME NEW r \in Receipts, Revoke(r) PROVE RowParts' /\ CallParts'
    <2>1. \A z \in Sessions : uses[z][r] = 0
      <3>1. \A z \in Sessions : uses[z][r] \in Nat /\ ~(uses[z][r] > 0)
        BY <1>0, <1>9, SessionAssumption
           DEF Revoke, RowParts, WorkIsLocked, TypeOK
      <3> QED BY <3>1
    <2>2. RowParts'
      BY <1>0, <1>9, <2>1 DEF Revoke, RowParts, WorkIsLocked,
         OnlyTransactionsHoldUses, WithinMaximum, RevokedIsUnused,
         LastUseIsMarked, LastUseReportedOnce
    <2>3. ASSUME NEW z \in Sessions PROVE CallOf(z)'
      <3>1. CallOf(z)
        BY <1>0, CallPartsOf
      <3> QED BY <1>9, <3>1, SessionAssumption DEF Revoke, CallOf
    <2> QED BY <2>2, <2>3, CallPartsNext
  <1>10. CASE Tick \/ UNCHANGED vars
    <2>1. RowParts'
      BY <1>0, <1>10, QuietRows DEF Tick, vars
    <2>2. ASSUME NEW z \in Sessions PROVE CallOf(z)'
      BY <1>0, <1>10, CallPartsOf, Undisturbed DEF Tick, vars
    <2> QED BY <2>1, <2>2, CallPartsNext
  <1> QED BY <1>1, <1>2, <1>3, <1>4, <1>5, <1>6, <1>7, <1>8, <1>9, <1>10 DEF Next

LEMMA InvariantInitially == Init => IInv
  <1> SUFFICES ASSUME Init PROVE IInv
    OBVIOUS
  <1>1. TypeOK
    BY CallsMade DEF Init, TypeOK, NoUses, TxStates
  <1>2. RowParts
    BY MaxAssumption DEF Init, NoUses, RowParts, WorkIsLocked,
       OnlyTransactionsHoldUses, WithinMaximum, RevokedIsUnused,
       LastUseIsMarked, LastUseReportedOnce
  <1>3. CallParts
    BY CallPartsOf DEF Init, NoCall, CallOf
  <1> QED BY <1>1, <1>2, <1>3, Parts

THEOREM Invariance == Spec => []IInv
  BY InvariantInitially, InvariantPreserved, PTL DEF Spec

-----------------------------------------------------------------------------
(* No over-grant, for any number of connections contending for the last    *)
(* use, in autocommit or in transactions of either isolation.              *)
THEOREM NoOverGrant == Spec => []NeverOverGranted
  <1>1. IInv => NeverOverGranted
    BY DEF IInv, NeverOverGranted, WorkIsLocked, WithinMaximum
  <1> QED BY <1>1, Invariance, PTL

(* Exactly the use that fills the allowance is reported as exhausting it.  *)
THEOREM ExhaustionReport == Spec => []LastUseReportedOnce
  <1>1. IInv => LastUseReportedOnce
    BY DEF IInv
  <1> QED BY <1>1, Invariance, PTL

(* An admitted statement finds its use: concurrency_conflict is dead code. *)
THEOREM NoConflict == Spec => []AdmittedNeverConflicts
  <1>1. IInv => AdmittedNeverConflicts
    BY DEF IInv
  <1> QED BY <1>1, Invariance, PTL

(* No contender is refused as exhausted while a use is left.               *)
THEOREM ExhaustionIsReal == Spec => []ExhaustedMeansNoUseLeft
  <1>1. IInv => ExhaustedMeansNoUseLeft
    <2> SUFFICES ASSUME IInv, NEW s \in Sessions, call[s].pc = "answer",
                        call[s].outcome = "receipt_exhausted"
                 PROVE  Taken(call[s].jti) = Max[call[s].jti]
      BY DEF ExhaustedMeansNoUseLeft
    <2> DEFINE r == call[s].jti
    <2>1. r \in Receipts
      BY CallShapes DEF IInv, TypeOK
    <2>2. \A z \in Sessions : uses[z][r] \in Nat /\ count[r] + uses[z][r] <= Max[r]
      BY <2>1 DEF IInv, TypeOK, WithinMaximum
    <2>3. count[r] \in Nat /\ Max[r] \in Nat /\ lock[r] \in Sessions \cup {NoSession}
      BY <2>1, MaxAssumption DEF IInv, TypeOK
    <2>4. \/ count[r] = Max[r]
          \/ lock[r] = s /\ count[r] + uses[s][r] = Max[r]
      BY DEF IInv, ExhaustedIsFull
    <2> QED BY <2>2, <2>3, <2>4, SessionAssumption DEF Taken
  <1> QED BY <1>1, Invariance, PTL

(* No step undoes a revocation or adds a use to a revoked receipt.         *)
LEMMA RevocationStep ==
    ASSUME IInv, Next, NEW r \in revoked
    PROVE  r \in revoked' /\ count'[r] = count[r]
  <1>0. r \in Receipts /\ count[r] \in Nat
    BY DEF IInv, TypeOK
  <1>1. ASSUME NEW s \in Sessions, Update(s)
        PROVE  r \in revoked' /\ count'[r] = count[r]
    <2>1. Target(s) # r
      BY <1>1 DEF IInv, AdmittedHasRoom, Update, Target
    <2> QED BY <1>0, <1>1, <2>1 DEF Update, IInv, TypeOK
  <1>2. ASSUME NEW s \in Sessions, EndTransaction(s)
        PROVE  r \in revoked' /\ count'[r] = count[r]
    <2>1. uses[s][r] = 0
      BY <1>0 DEF IInv, RevokedIsUnused
    <2>2. revoked' = revoked /\ (count' = count \/ count'[r] = count[r] + uses[s][r])
      BY <1>0, <1>2 DEF EndTransaction, Commit, Rollback, Settle, Discard,
         Current
    <2> QED BY <1>0, <2>1, <2>2
  <1>3. ASSUME NEW s \in Sessions, Statement(s)
        PROVE  r \in revoked' /\ count'[r] = count[r]
    BY <1>1, <1>3 DEF Statement, FindNothing, AcquireLock, FailToSerialize,
       BreakDeadlock, Deny, Admit, Discard
  <1> QED BY <1>2, <1>3 DEF Next, Begin, Submit, Refuse, Deliver, Garble,
          Disconnect, Discard, Revoke, Tick

(* A committed revocation is final, for statements already waiting too.    *)
THEOREM RevocationFinal == Spec => RevocationIsFinal
  <1>1. IInv /\ [Next]_vars =>
            [\A r \in revoked : r \in revoked' /\ count'[r] = count[r]]_vars
    BY RevocationStep
  <1> QED BY <1>1, Invariance, PTL DEF Spec, RevocationIsFinal

-----------------------------------------------------------------------------
(* What hosts were told.  The second invariant, HInv, is shown inductive   *)
(* relative to IInv.                                                       *)

(* The steps of one session.                                               *)
Step(s) ==
    \/ \E isolation \in Isolation : Begin(s, isolation)
    \/ \E cmd \in Commands : Submit(s, cmd)
    \/ \E r \in Receipts : Refuse(s, r)
    \/ Statement(s) \/ Deliver(s) \/ Garble(s) \/ Disconnect(s)
    \/ EndTransaction(s)

LEMMA StepsOfNext ==
    Next <=> (\E s \in Sessions : Step(s)) \/ (\E r \in Receipts : Revoke(r)) \/ Tick
  BY DEF Next, Step

(* A step of one session leaves the calls, transactions and uncommitted    *)
(* work of the others alone.                                               *)
LEMMA OthersStay ==
    ASSUME TypeOK, NEW s \in Sessions, Step(s), NEW z \in Sessions \ {s}
    PROVE  /\ call'[z] = call[z] /\ tx'[z] = tx[z]
           /\ uses'[z] = uses[z] /\ told'[z] = told[z]
  <1>1. CASE \/ \E isolation \in Isolation : Begin(s, isolation)
             \/ \E cmd \in Commands : Submit(s, cmd)
             \/ \E r \in Receipts : Refuse(s, r)
    BY <1>1 DEF Begin, Submit, Refuse, TypeOK
  <1>2. CASE FindNothing(s) \/ AcquireLock(s) \/ Deny(s) \/ Admit(s) \/ Garble(s)
    BY <1>2 DEF FindNothing, AcquireLock, Deny, Admit, Garble, Finish, TypeOK
  <1>3. CASE FailToSerialize(s) \/ BreakDeadlock(s) \/ Disconnect(s) \/ Rollback(s)
    BY <1>3 DEF FailToSerialize, BreakDeadlock, Disconnect, Rollback, Discard,
       Finish, TypeOK
  <1>4. CASE Update(s)
    BY <1>4 DEF Update, Finish, TypeOK
  <1>5. CASE Deliver(s)
    BY <1>5 DEF Deliver, TypeOK
  <1>6. CASE Commit(s)
    BY <1>6 DEF Commit, Settle, TypeOK
  <1> QED BY <1>1, <1>2, <1>3, <1>4, <1>5, <1>6 DEF Step, Statement, EndTransaction

-----------------------------------------------------------------------------
(* Locks.  A lock of another session is neither taken nor given up.        *)
LEMMA LocksOfOthersStay ==
    ASSUME TypeOK, NEW s \in Sessions, Step(s), NEW z \in Sessions \ {s},
           NEW r \in Receipts
    PROVE  lock'[r] = z <=> lock[r] = z
  <1>1. CASE lock' = lock
    BY <1>1
  <1>2. CASE lock' = Released(s)
    BY <1>2, SessionAssumption DEF Released
  <1>3. CASE AcquireLock(s)
    <2>1. lock' = [lock EXCEPT ![Target(s)] = s] /\ lock[Target(s)] \in {NoSession, s}
      BY <1>3 DEF AcquireLock, LockFree
    <2> QED BY <2>1, SessionAssumption DEF TypeOK
  <1>4. AcquireLock(s) \/ lock' = lock \/ lock' = Released(s)
    BY DEF Step, Begin, Submit, Refuse, Statement, FindNothing, FailToSerialize,
       BreakDeadlock, Deny, Admit, Update, Deliver, Garble, Disconnect, Discard,
       EndTransaction, Commit, Rollback, Settle
  <1> QED BY <1>1, <1>2, <1>3, <1>4

(* A session that ends its transaction or leaves autocommit holds no lock, *)
(* and one in autocommit holds only that of its statement.                 *)
LEMMA OwnLocks ==
    ASSUME IInv, LockInTransaction, NEW s \in Sessions, Step(s),
           NEW r \in Receipts, lock'[r] = s
    PROVE  \/ tx'[s] \in Isolation
           \/ /\ tx'[s] = "autocommit" /\ call'[s].pc \in {"decide", "update"}
              /\ call'[s].cmd.jti = r
  <1> DEFINE Kept == \/ tx[s] \in Isolation
                     \/ /\ tx[s] = "autocommit" /\ call[s].pc \in {"decide", "update"}
                        /\ call[s].cmd.jti = r
  <1>0. TypeOK /\ call[s] \in Calls /\ (lock[r] = s => Kept)
    BY DEF IInv, TypeOK, LockInTransaction
  <1>1. lock' = Released(s) => FALSE
    BY SessionAssumption DEF Released
  <1>2. CASE \/ \E isolation \in Isolation : Begin(s, isolation)
             \/ \E cmd \in Commands : Submit(s, cmd)
             \/ \E q \in Receipts : Refuse(s, q)
    <2>1. lock[r] = s /\ call[s].pc = "idle"
      BY <1>2 DEF Begin, Submit, Refuse, NoCall
    <2>2. tx[s] \in Isolation
      BY <1>0, <2>1
    <2> QED BY <1>0, <1>2, <2>2 DEF Begin, Submit, Refuse, TypeOK, Isolation
  <1>3. CASE FindNothing(s) \/ Deliver(s) \/ Garble(s)
    <2>1. lock[r] = s /\ call[s].pc \in {"lock", "answer"}
      BY <1>3 DEF FindNothing, Deliver, Garble
    <2>2. tx[s] \in Isolation
      BY <1>0, <2>1
    <2> QED BY <1>0, <1>3, <2>2 DEF FindNothing, Deliver, Garble, TypeOK, Isolation
  <1>4. CASE AcquireLock(s)
    <2>1. call[s].pc = "lock" /\ Target(s) = call[s].cmd.jti
      BY <1>4 DEF AcquireLock, LockFree, Target
    <2>2. call'[s] = [call[s] EXCEPT !.pc = "decide"] /\ tx'[s] = tx[s]
      BY <1>0, <1>4 DEF AcquireLock, TypeOK
    <2>3. call'[s].pc = "decide" /\ call'[s].cmd = call[s].cmd
      BY <1>0, <2>1, <2>2, Advance
    <2>4. tx[s] \in Isolation \cup {"autocommit"}
      BY <2>1 DEF IInv, StatementInTransaction
    <2>5. CASE lock[r] = s
      BY <1>0, <2>1, <2>2, <2>5
    <2>6. CASE r = Target(s)
      BY <2>1, <2>2, <2>3, <2>4, <2>6
    <2> QED BY <1>0, <1>4, <2>5, <2>6 DEF AcquireLock, TypeOK
  <1>5. CASE Deny(s)
    <2>1. tx'[s] = tx[s] /\ tx[s] # "autocommit" /\ lock[r] = s
      BY <1>1, <1>5 DEF Deny
    <2> QED BY <1>0, <2>1
  <1>6. CASE Admit(s)
    <2>1. call[s].pc = "decide" /\ tx' = tx /\ lock[r] = s
      BY <1>6 DEF Admit
    <2>2. call'[s] = [call[s] EXCEPT !.pc = "update"]
      BY <1>0, <1>6 DEF Admit, TypeOK
    <2>3. call'[s].pc = "update" /\ call'[s].cmd = call[s].cmd
      BY <1>0, <2>1, <2>2, Advance
    <2> QED BY <1>0, <2>1, <2>3
  <1>7. CASE Update(s)
    <2>1. tx'[s] = tx[s] /\ tx[s] # "autocommit" /\ lock[r] = s
      BY <1>1, <1>7 DEF Update
    <2> QED BY <1>0, <2>1
  <1>8. CASE \/ FailToSerialize(s) \/ BreakDeadlock(s) \/ Disconnect(s)
             \/ EndTransaction(s)
    <2>1. lock' = Released(s)
      BY <1>8 DEF FailToSerialize, BreakDeadlock, Disconnect, EndTransaction,
         Commit, Rollback, Settle, Discard
    <2> QED BY <1>1, <2>1
  <1> QED BY <1>2, <1>3, <1>4, <1>5, <1>6, <1>7, <1>8 DEF Step, Statement

LEMMA LockInTransactionKept ==
    IInv /\ LockInTransaction /\ [Next]_vars => LockInTransaction'
  <1> SUFFICES ASSUME IInv, LockInTransaction, [Next]_vars
               PROVE  LockInTransaction'
    OBVIOUS
  <1>1. ASSUME NEW s \in Sessions, Step(s) PROVE LockInTransaction'
    <2>1. ASSUME NEW z \in Sessions \ {s}, NEW r \in Receipts, lock'[r] = z
          PROVE  lock[r] = z /\ call'[z] = call[z] /\ tx'[z] = tx[z]
      BY <1>1, <2>1, OthersStay, LocksOfOthersStay DEF IInv
    <2> QED BY <1>1, <2>1, OwnLocks DEF LockInTransaction
  <1>2. CASE (\E r \in Receipts : Revoke(r)) \/ Tick \/ UNCHANGED vars
    <2>1. UNCHANGED <<lock, tx, call>>
      BY <1>2 DEF Revoke, Tick, vars
    <2> QED BY <2>1 DEF LockInTransaction
  <1> QED BY <1>1, <1>2, StepsOfNext

(* No snapshot misses a change of a row its transaction has locked: rows   *)
(* are changed under their lock, or when nobody holds it.                  *)
LEMMA LockedRowsKept ==
    IInv /\ LockedRowsAreCurrent /\ [Next]_vars => LockedRowsAreCurrent'
  <1> SUFFICES ASSUME IInv, LockedRowsAreCurrent, [Next]_vars,
                      NEW z \in Sessions, NEW r \in Receipts, lock'[r] = z
               PROVE  r \notin missed'[z]
    BY DEF LockedRowsAreCurrent
  <1>0. TypeOK /\ (lock[r] = z => r \notin missed[z])
    BY DEF IInv, LockedRowsAreCurrent
  <1>1. ASSUME NEW s \in Sessions, Step(s) PROVE r \notin missed'[z]
    <2>1. z # s => lock[r] = z
      BY <1>0, <1>1, LocksOfOthersStay
    <2>2. CASE Update(s) /\ tx[s] = "autocommit"
      <3>1. /\ call[s].pc = "update" /\ Target(s) = call[s].cmd.jti
            /\ lock[Target(s)] = s
        BY <2>2 DEF Update, Target, IInv, StatementIsLocked
      <3>2. missed' = Noted(s, {Target(s)}) /\ lock' = Released(s)
        BY <2>2 DEF Update
      <3>3. z # s
        BY <3>2, SessionAssumption DEF Released
      <3> QED BY <1>0, <2>1, <3>1, <3>2, <3>3 DEF Noted
    <2>3. CASE Commit(s)
      <3>1. /\ missed' = [Noted(s, {q \in Receipts : uses[s][q] > 0}) EXCEPT ![s] = {}]
            /\ lock' = Released(s)
        BY <2>3 DEF Commit, Settle
      <3>2. z # s
        BY <3>1, SessionAssumption DEF Released
      <3>3. ~(uses[s][r] > 0)
        BY <2>1, <3>2 DEF IInv, WorkIsLocked
      <3> QED BY <1>0, <2>1, <3>1, <3>2, <3>3 DEF Noted
    <2>4. CASE \/ FailToSerialize(s) \/ BreakDeadlock(s) \/ Disconnect(s)
               \/ Rollback(s)
      <3>1. lock' = Released(s) /\ missed' = [missed EXCEPT ![s] = {}]
        BY <2>4 DEF FailToSerialize, BreakDeadlock, Disconnect, Rollback, Discard
      <3>2. z # s
        BY <3>1, SessionAssumption DEF Released
      <3> QED BY <1>0, <2>1, <3>1, <3>2 DEF TypeOK
    <2>5. CASE AcquireLock(s)
      <3>1. /\ missed' = missed /\ Target(s) \notin missed[s]
            /\ lock' = [lock EXCEPT ![Target(s)] = s]
        BY <2>5 DEF AcquireLock
      <3> HIDE DEF Target
      <3> QED BY <1>0, <2>1, <3>1 DEF TypeOK
    <2>6. CASE missed' = missed /\ \A q \in Receipts : lock'[q] = s => lock[q] = s
      BY <1>0, <2>1, <2>6
    <2>7. ASSUME lock' = Released(s) PROVE \A q \in Receipts : lock'[q] = s => lock[q] = s
      BY <2>7, SessionAssumption DEF Released
    <2>8. CASE \/ \E isolation \in Isolation : Begin(s, isolation)
               \/ \E cmd \in Commands : Submit(s, cmd)
               \/ \E q \in Receipts : Refuse(s, q)
               \/ FindNothing(s) \/ Deny(s) \/ Admit(s) \/ Deliver(s) \/ Garble(s)
               \/ Update(s) /\ tx[s] # "autocommit"
      <3>1. missed' = missed /\ (lock' = lock \/ lock' = Released(s))
        BY <2>8 DEF Begin, Submit, Refuse, FindNothing, Deny, Admit, Deliver,
           Garble, Update
      <3> QED BY <2>6, <2>7, <3>1
    <2> QED BY <1>1, <2>2, <2>3, <2>4, <2>5, <2>8
            DEF Step, Statement, EndTransaction
  <1>2. ASSUME NEW q \in Receipts, Revoke(q) PROVE r \notin missed'[z]
    <2>1. q # r /\ lock[r] = z
      BY <1>2, SessionAssumption DEF Revoke
    <2> QED BY <1>0, <1>2, <2>1 DEF Revoke, Noted
  <1>3. CASE Tick \/ UNCHANGED vars
    BY <1>0, <1>3 DEF Tick, vars
  <1> QED BY <1>1, <1>2, <1>3, StepsOfNext

-----------------------------------------------------------------------------
(* What is honoured and told.  A session that has no granted answer on its *)
(* way after a step, and neither counts nor honours a use in it, or has    *)
(* lost all its uncommitted work, keeps both parts.                        *)
LEMMA OwedShrinks ==
    ASSUME NEW r \in Receipts, HonourIsBacked, TypeOK,
           count'[r] \in Nat, count'[r] >= count[r], honoured'[r] = honoured[r],
           Owed(r)' \subseteq Owed(r)
    PROVE  /\ IsFiniteSet(Owed(r)')
           /\ honoured'[r] + Cardinality(Owed(r)') <= count'[r]
  <1>1. /\ IsFiniteSet(Owed(r)) /\ honoured[r] + Cardinality(Owed(r)) <= count[r]
        /\ honoured[r] \in Nat /\ count[r] \in Nat
    BY DEF HonourIsBacked, TypeOK
  <1>2. /\ IsFiniteSet(Owed(r)') /\ Cardinality(Owed(r)') <= Cardinality(Owed(r))
        /\ Cardinality(Owed(r)') \in Nat /\ Cardinality(Owed(r)) \in Nat
    BY <1>1, FS_Subset, FS_CardinalityType
  <1> QED BY <1>1, <1>2

LEMMA QuietHonour ==
    ASSUME IInv, HonourIsBacked, ToldIsBacked, NEW s \in Sessions,
           \A z \in Sessions \ {s} :
                /\ call'[z] = call[z] /\ tx'[z] = tx[z]
                /\ uses'[z] = uses[z] /\ told'[z] = told[z],
           UNCHANGED <<count, honoured>>,
           call'[s].pc = "answer" => call'[s].outcome \notin Grants,
           \/ uses'[s] = uses[s] /\ told'[s] = told[s]
           \/ uses'[s] = NoUses /\ told'[s] = NoUses
    PROVE  HonourIsBacked' /\ ToldIsBacked'
  <1>0. TypeOK
    BY DEF IInv
  <1>1. ASSUME NEW r \in Receipts
        PROVE  /\ IsFiniteSet(Owed(r)')
               /\ honoured'[r] + Cardinality(Owed(r)') <= count'[r]
    <2>1. Owed(r)' \subseteq Owed(r)
      BY DEF Owed, GrantOnItsWay
    <2>2. count'[r] \in Nat /\ count'[r] >= count[r] /\ honoured'[r] = honoured[r]
      BY <1>0 DEF TypeOK
    <2> QED BY <1>0, <2>1, <2>2, OwedShrinks
  <1>2. ASSUME NEW z \in Sessions, NEW r \in Receipts
        PROVE  told'[z][r] + Pending(z, r)' <= uses'[z][r]
    <2>1. /\ told[z][r] + Pending(z, r) <= uses[z][r] /\ Pending(z, r) \in {0, 1}
          /\ told[z][r] \in Nat /\ uses[z][r] \in Nat
      BY <1>0 DEF ToldIsBacked, Pending, TypeOK
    <2>2. CASE z = s
      <3>1. Pending(z, r)' = 0
        BY <2>2 DEF Pending, GrantOnItsWay
      <3>2. \/ uses'[z][r] = uses[z][r] /\ told'[z][r] = told[z][r]
            \/ uses'[z][r] = 0 /\ told'[z][r] = 0
        BY <2>2 DEF NoUses
      <3> QED BY <2>1, <3>1, <3>2
    <2>3. CASE z # s
      BY <2>1, <2>3 DEF Pending, GrantOnItsWay
    <2> QED BY <2>2, <2>3
  <1> QED BY <1>1, <1>2 DEF HonourIsBacked, ToldIsBacked

(* The steps this covers: all but an update, a delivery and a commit.      *)
LEMMA QuietSteps ==
    ASSUME IInv, HonourIsBacked, ToldIsBacked, NEW s \in Sessions, Step(s),
           ~Update(s), ~Deliver(s), ~Commit(s)
    PROVE  HonourIsBacked' /\ ToldIsBacked'
  <1>0. TypeOK /\ call[s] \in Calls
    BY DEF IInv, TypeOK
  <1>1. UNCHANGED <<count, honoured>>
    BY DEF Step, Begin, Submit, Refuse, Statement, FindNothing, AcquireLock,
       FailToSerialize, BreakDeadlock, Deny, Admit, Garble, Disconnect,
       EndTransaction, Rollback, Discard
  <1>2. \/ uses'[s] = uses[s] /\ told'[s] = told[s]
        \/ uses'[s] = NoUses /\ told'[s] = NoUses
    <2>1. UNCHANGED <<uses, told>> \/ Discard(s)
      BY DEF Step, Begin, Submit, Refuse, Statement, FindNothing, AcquireLock,
         FailToSerialize, BreakDeadlock, Deny, Admit, Garble, Disconnect,
         EndTransaction, Rollback
    <2> QED BY <1>0, <2>1 DEF Discard, TypeOK
  <1>3. call'[s].pc = "answer" => call'[s].outcome \notin Grants
    <2>1. CASE \/ \E isolation \in Isolation : Begin(s, isolation)
               \/ \E cmd \in Commands : Submit(s, cmd)
               \/ \E q \in Receipts : Refuse(s, q)
               \/ Rollback(s)
      BY <1>0, <2>1 DEF Begin, Submit, Refuse, Rollback, TypeOK, NoCall, Grants
    <2>2. CASE \/ FindNothing(s) \/ FailToSerialize(s) \/ BreakDeadlock(s)
               \/ Garble(s) \/ Disconnect(s)
      BY <1>0, <2>2 DEF FindNothing, FailToSerialize, BreakDeadlock, Garble,
         Disconnect, Finish, TypeOK, NoCall, Grants
    <2>3. CASE Deny(s)
      <3>1. call'[s].outcome = Verdict(s) /\ Verdict(s) # "admit"
        BY <1>0, <2>3 DEF Deny, Finish, TypeOK
      <3> QED BY <3>1, VerdictTypes DEF Grants, Denials
    <2>4. CASE AcquireLock(s) \/ Admit(s)
      <3>1. \E p \in {"decide", "update"} :
                call'[s] = [call[s] EXCEPT !.pc = p] /\ call[s].pc \in {"lock", "decide"}
        BY <1>0, <2>4 DEF AcquireLock, LockFree, Admit, TypeOK
      <3>2. call'[s].pc # "answer"
        BY <1>0, <3>1, Advance
      <3> QED BY <3>2
    <2> QED BY <2>1, <2>2, <2>3, <2>4 DEF Step, Statement, EndTransaction
  <1>4. \A z \in Sessions \ {s} :
            /\ call'[z] = call[z] /\ tx'[z] = tx[z]
            /\ uses'[z] = uses[z] /\ told'[z] = told[z]
    BY <1>0, OthersStay
  <1> QED BY <1>1, <1>2, <1>3, <1>4, QuietHonour

(* The update takes its use: committed and owed in autocommit, uncommitted *)
(* and pending in a transaction.                                           *)
LEMMA UpdateHonour ==
    ASSUME IInv, HonourIsBacked, ToldIsBacked, NEW s \in Sessions, Update(s)
    PROVE  HonourIsBacked' /\ ToldIsBacked'
  <1>0. TypeOK /\ call[s] \in Calls /\ call[s].pc = "update"
    BY DEF IInv, TypeOK, Update
  <1> PICK r \in Receipts : r = call[s].cmd.jti
    BY <1>0, CallShapes
  <1>1. /\ Target(s) = r /\ r \in Receipts /\ count[r] + uses[s][r] < Max[r]
        /\ tx[s] \in Isolation \cup {"autocommit"}
    BY <1>0, CallShapes DEF Target, IInv, AdmittedHasRoom, StatementInTransaction
  <1>2. /\ call'[s].pc = "answer" /\ call'[s].jti = r /\ call'[s].outcome \in Grants
        /\ \A z \in Sessions \ {s} : call'[z] = call[z]
    BY <1>0, <1>1 DEF Update, Finish, TypeOK, Current, Grants
  <1>3. UNCHANGED <<tx, told, honoured>>
    BY DEF Update
  <1>4. \A q \in Receipts : q # r => Owed(q)' \subseteq Owed(q)
    BY <1>2, <1>3 DEF Owed, GrantOnItsWay
  <1>5. \A z \in Sessions \ {s}, q \in Receipts : Pending(z, q)' = Pending(z, q)
    BY <1>2, <1>3 DEF Pending, GrantOnItsWay
  <1>6. \A z \in Sessions, q \in Receipts :
            /\ told[z][q] + Pending(z, q) <= uses[z][q] /\ Pending(z, q) \in {0, 1}
            /\ told[z][q] \in Nat /\ uses[z][q] \in Nat
            /\ count[q] \in Nat /\ honoured[q] \in Nat
    BY <1>0 DEF ToldIsBacked, Pending, TypeOK
  <1>7. CASE tx[s] = "autocommit"
    <2>1. count' = [count EXCEPT ![r] = @ + 1] /\ uses' = uses
      BY <1>1, <1>7 DEF Update, Current
    <2>2. \A q \in Receipts : Pending(s, q)' = 0
      BY <1>3, <1>7 DEF Pending
    <2>3. ToldIsBacked'
      BY <1>3, <1>5, <1>6, <2>1, <2>2 DEF ToldIsBacked
    <2>4. \A q \in Receipts : count'[q] = IF q = r THEN count[q] + 1 ELSE count[q]
      BY <1>0, <1>1, <2>1 DEF TypeOK
    <2>5. ASSUME NEW q \in Receipts, q # r
          PROVE  /\ IsFiniteSet(Owed(q)')
                 /\ honoured'[q] + Cardinality(Owed(q)') <= count'[q]
      BY <1>0, <1>3, <1>4, <1>6, <2>4, <2>5, OwedShrinks
    <2>6. /\ IsFiniteSet(Owed(r)')
          /\ honoured'[r] + Cardinality(Owed(r)') <= count'[r]
      <3>1. Owed(r)' \subseteq Owed(r) \cup {s}
        BY <1>2, <1>3 DEF Owed, GrantOnItsWay
      <3>2. /\ IsFiniteSet(Owed(r)) /\ Cardinality(Owed(r)) \in Nat
            /\ honoured[r] + Cardinality(Owed(r)) <= count[r]
        BY <1>1, FS_CardinalityType DEF HonourIsBacked
      <3>3. /\ IsFiniteSet(Owed(r) \cup {s})
            /\ Cardinality(Owed(r) \cup {s}) \in Nat
            /\ Cardinality(Owed(r) \cup {s}) <= Cardinality(Owed(r)) + 1
        <4>1. /\ IsFiniteSet(Owed(r) \cup {s})
              /\ Cardinality(Owed(r) \cup {s}) =
                    IF s \in Owed(r) THEN Cardinality(Owed(r))
                    ELSE Cardinality(Owed(r)) + 1
          BY <3>2, FS_AddElement
        <4> QED BY <3>2, <4>1
      <3>4. /\ IsFiniteSet(Owed(r)') /\ Cardinality(Owed(r)') \in Nat
            /\ Cardinality(Owed(r)') <= Cardinality(Owed(r) \cup {s})
        BY <3>1, <3>3, FS_Subset, FS_CardinalityType
      <3> QED BY <1>1, <1>3, <1>6, <2>4, <3>2, <3>3, <3>4
    <2> QED BY <2>3, <2>5, <2>6 DEF HonourIsBacked
  <1>8. CASE tx[s] \in Isolation
    <2>1. /\ uses' = [uses EXCEPT ![s][r] = @ + 1] /\ count' = count
          /\ tx[s] # "autocommit"
      BY <1>1, <1>8 DEF Update, Current, Isolation
    <2>2. \A z \in Sessions, q \in Receipts :
            uses'[z][q] = IF z = s /\ q = r THEN uses[z][q] + 1 ELSE uses[z][q]
      BY <1>0, <1>1, <2>1 DEF TypeOK
    <2>3. \A q \in Receipts : Pending(s, q)' = IF q = r THEN 1 ELSE 0
      BY <1>2, <1>3, <2>1 DEF Pending, GrantOnItsWay
    <2>4. \A q \in Receipts : Pending(s, q) = 0
      BY <1>0 DEF Pending, GrantOnItsWay
    <2>5. ToldIsBacked'
      BY <1>3, <1>5, <1>6, <2>2, <2>3, <2>4 DEF ToldIsBacked
    <2>6. ASSUME NEW q \in Receipts PROVE Owed(q)' \subseteq Owed(q)
      BY <1>2, <1>3, <2>1 DEF Owed, GrantOnItsWay
    <2>7. ASSUME NEW q \in Receipts
          PROVE  /\ IsFiniteSet(Owed(q)')
                 /\ honoured'[q] + Cardinality(Owed(q)') <= count'[q]
      BY <1>0, <1>3, <1>6, <2>1, <2>6, OwedShrinks
    <2> QED BY <2>5, <2>7 DEF HonourIsBacked
  <1> QED BY <1>1, <1>7, <1>8

(* A delivered grant is honoured, and no longer owed, or told.             *)
LEMMA DeliverHonour ==
    ASSUME IInv, HonourIsBacked, ToldIsBacked, NEW s \in Sessions, Deliver(s)
    PROVE  HonourIsBacked' /\ ToldIsBacked'
  <1> DEFINE r == call[s].jti
  <1>0. TypeOK /\ call[s] \in Calls /\ call[s].pc = "answer"
    BY DEF IInv, TypeOK, Deliver
  <1>1. Target(s) = r /\ r \in Receipts
    BY <1>0, CallShapes DEF Target
  <1>2. /\ call'[s] = NoCall /\ UNCHANGED <<count, uses>>
        /\ \A z \in Sessions \ {s} : call'[z] = call[z] /\ tx'[z] = tx[z]
    BY <1>0 DEF Deliver, TypeOK
  <1>3. \A z \in Sessions, q \in Receipts :
            /\ told[z][q] + Pending(z, q) <= uses[z][q] /\ Pending(z, q) \in {0, 1}
            /\ told[z][q] \in Nat /\ uses[z][q] \in Nat
            /\ count[q] \in Nat /\ honoured[q] \in Nat
    BY <1>0 DEF ToldIsBacked, Pending, TypeOK
  <1>4. \A q \in Receipts : Pending(s, q)' = 0 /\ Owed(q)' \subseteq Owed(q) \ {s}
    BY <1>2 DEF Pending, Owed, GrantOnItsWay, NoCall
  <1>5. \A z \in Sessions \ {s}, q \in Receipts : Pending(z, q)' = Pending(z, q)
    BY <1>2 DEF Pending, GrantOnItsWay
  <1> DEFINE granted == call[s].outcome \in Grants
             now == tx[s] = "autocommit"
  <1>6. /\ honoured' = IF granted /\ now THEN [honoured EXCEPT ![r] = @ + 1]
                       ELSE honoured
        /\ told' = IF granted /\ ~now THEN [told EXCEPT ![s][r] = @ + 1] ELSE told
    BY <1>1 DEF Deliver
  <1>7. granted /\ ~now => Pending(s, r) = 1
    BY <1>0 DEF Pending, GrantOnItsWay
  <1>8. granted /\ now => s \in Owed(r)
    BY <1>0 DEF Owed, GrantOnItsWay
  <1> HIDE DEF r, granted, now
  <1>9. ToldIsBacked'
    <2>1. \A z \in Sessions, q \in Receipts :
            told'[z][q] = IF granted /\ ~now /\ z = s /\ q = r THEN told[z][q] + 1
                          ELSE told[z][q]
      BY <1>0, <1>1, <1>6 DEF TypeOK
    <2> QED BY <1>2, <1>3, <1>4, <1>5, <1>7, <2>1 DEF ToldIsBacked
  <1>10. ASSUME NEW q \in Receipts
         PROVE  /\ IsFiniteSet(Owed(q)')
                /\ honoured'[q] + Cardinality(Owed(q)') <= count'[q]
    <2>1. CASE granted /\ now /\ q = r
      <3>1. honoured'[q] = honoured[q] + 1
        BY <1>0, <1>1, <1>6, <2>1 DEF TypeOK
      <3>2. /\ IsFiniteSet(Owed(q)) /\ Cardinality(Owed(q)) \in Nat
            /\ honoured[q] + Cardinality(Owed(q)) <= count[q]
        BY FS_CardinalityType DEF HonourIsBacked
      <3>3. /\ IsFiniteSet(Owed(q) \ {s}) /\ Cardinality(Owed(q) \ {s}) \in Nat
            /\ Cardinality(Owed(q) \ {s}) = Cardinality(Owed(q)) - 1
        BY <1>8, <2>1, <3>2, FS_RemoveElement, FS_CardinalityType
      <3>4. /\ IsFiniteSet(Owed(q)') /\ Cardinality(Owed(q)') \in Nat
            /\ Cardinality(Owed(q)') <= Cardinality(Owed(q) \ {s})
        BY <1>4, <3>3, FS_Subset, FS_CardinalityType
      <3> QED BY <1>2, <1>3, <3>1, <3>2, <3>3, <3>4
    <2>2. CASE ~(granted /\ now /\ q = r)
      <3>1. honoured'[q] = honoured[q]
        BY <1>0, <1>1, <1>6, <2>2 DEF TypeOK
      <3>2. Owed(q)' \subseteq Owed(q)
        BY <1>4
      <3> QED BY <1>0, <1>2, <1>3, <3>1, <3>2, OwedShrinks
    <2> QED BY <2>1, <2>2
  <1> QED BY <1>9, <1>10 DEF HonourIsBacked

(* A commit makes uses permanent, and at most those honoured were told.    *)
LEMMA CommitHonour ==
    ASSUME IInv, HonourIsBacked, ToldIsBacked, NEW s \in Sessions, Commit(s)
    PROVE  HonourIsBacked' /\ ToldIsBacked'
  <1>0. TypeOK /\ call' = call /\ call[s] = NoCall
    BY DEF IInv, Commit
  <1>1. PICK ack \in BOOLEAN : Settle(s, ack)
    BY DEF Commit
  <1>2. \A z \in Sessions, q \in Receipts :
            /\ told[z][q] + Pending(z, q) <= uses[z][q] /\ Pending(z, q) \in {0, 1}
            /\ told[z][q] \in Nat /\ uses[z][q] \in Nat
            /\ count[q] \in Nat /\ honoured[q] \in Nat
    BY <1>0 DEF ToldIsBacked, Pending, TypeOK
  <1>3. \A z \in Sessions \ {s} : tx'[z] = tx[z] /\ uses'[z] = uses[z] /\ told'[z] = told[z]
    BY <1>0, <1>1 DEF Commit, Settle, TypeOK
  <1>4. \A q \in Receipts : uses'[s][q] = 0 /\ told'[s][q] = 0 /\ Pending(s, q)' = 0
    BY <1>0, <1>1 DEF Settle, TypeOK, NoUses, Pending, GrantOnItsWay, NoCall
  <1>5. \A z \in Sessions \ {s}, q \in Receipts : Pending(z, q)' = Pending(z, q)
    BY <1>0, <1>3 DEF Pending, GrantOnItsWay
  <1>6. ToldIsBacked'
    BY <1>2, <1>3, <1>4, <1>5 DEF ToldIsBacked
  <1>7. ASSUME NEW q \in Receipts
        PROVE  /\ IsFiniteSet(Owed(q)')
               /\ honoured'[q] + Cardinality(Owed(q)') <= count'[q]
    <2>1. Owed(q)' \subseteq Owed(q)
      BY <1>0, <1>3 DEF Owed, GrantOnItsWay, NoCall
    <2>2. /\ IsFiniteSet(Owed(q)) /\ Cardinality(Owed(q)) \in Nat
          /\ honoured[q] + Cardinality(Owed(q)) <= count[q]
      BY FS_CardinalityType DEF HonourIsBacked
    <2>3. /\ IsFiniteSet(Owed(q)') /\ Cardinality(Owed(q)') \in Nat
          /\ Cardinality(Owed(q)') <= Cardinality(Owed(q))
      BY <2>1, <2>2, FS_Subset, FS_CardinalityType
    <2>4. /\ count'[q] = count[q] + uses[s][q]
          /\ honoured'[q] = honoured[q] + (IF ack THEN told[s][q] ELSE 0)
      BY <1>1 DEF Settle, Current
    <2>5. told[s][q] <= uses[s][q]
      BY <1>2
    <2> QED BY <1>2, <2>2, <2>3, <2>4, <2>5
  <1> QED BY <1>6, <1>7 DEF HonourIsBacked

LEMMA HonourKept ==
    IInv /\ HonourIsBacked /\ ToldIsBacked /\ [Next]_vars =>
        HonourIsBacked' /\ ToldIsBacked'
  <1> SUFFICES ASSUME IInv, HonourIsBacked, ToldIsBacked, [Next]_vars
               PROVE  HonourIsBacked' /\ ToldIsBacked'
    OBVIOUS
  <1>1. ASSUME NEW s \in Sessions, Step(s) PROVE HonourIsBacked' /\ ToldIsBacked'
    BY <1>1, QuietSteps, UpdateHonour, DeliverHonour, CommitHonour
  <1>2. CASE (\E r \in Receipts : Revoke(r)) \/ Tick \/ UNCHANGED vars
    <2>1. UNCHANGED <<count, honoured, call, tx, told, uses>>
      BY <1>2 DEF Revoke, Tick, vars
    <2>2. \A r \in Receipts : Owed(r)' = Owed(r)
      BY <2>1 DEF Owed, GrantOnItsWay
    <2>3. \A s \in Sessions, r \in Receipts : Pending(s, r)' = Pending(s, r)
      BY <2>1 DEF Pending, GrantOnItsWay
    <2> QED BY <2>1, <2>2, <2>3 DEF HonourIsBacked, ToldIsBacked
  <1> QED BY <1>1, <1>2, StepsOfNext

-----------------------------------------------------------------------------
LEMMA SecondInvariantInitially == Init => HInv
  <1> SUFFICES ASSUME Init PROVE HInv
    OBVIOUS
  <1>1. HonourIsBacked
    <2>1. \A r \in Receipts : Owed(r) = {} /\ count[r] = 0 /\ honoured[r] = 0
      BY DEF Init, Owed, GrantOnItsWay, NoCall, NoUses
    <2> QED BY <2>1, FS_EmptySet DEF HonourIsBacked
  <1>2. ToldIsBacked
    BY DEF Init, ToldIsBacked, Pending, GrantOnItsWay, NoCall, NoUses
  <1>3. LockInTransaction /\ LockedRowsAreCurrent
    BY SessionAssumption DEF Init, LockInTransaction, LockedRowsAreCurrent
  <1> QED BY <1>1, <1>2, <1>3 DEF HInv

(* Both invariants hold in every instance.                                 *)
THEOREM SecondInvariance == Spec => [](IInv /\ HInv)
  <1>1. IInv /\ HInv /\ [Next]_vars => HInv'
    BY HonourKept, LockInTransactionKept, LockedRowsKept DEF HInv
  <1> QED BY <1>1, SecondInvariantInitially, Invariance, PTL DEF Spec

(* No snapshot misses a change of a row it has locked: counts are never    *)
(* incremented from a stale reading.                                       *)
THEOREM LockedRows == Spec => []LockedRowsAreCurrent
  <1>1. HInv => LockedRowsAreCurrent
    BY DEF HInv
  <1> QED BY <1>1, SecondInvariance, PTL

(* Access that was answered is backed by a committed use, whatever is      *)
(* lost, rolled back or left unacknowledged.                               *)
THEOREM HonouredCommitted == Spec => []HonouredAreCommitted
  <1>1. IInv /\ HInv => HonouredAreCommitted
    <2> SUFFICES ASSUME IInv, HInv, NEW r \in Receipts
                 PROVE  honoured[r] <= count[r]
      BY DEF HonouredAreCommitted
    <2>1. /\ Cardinality(Owed(r)) \in Nat /\ honoured[r] \in Nat /\ count[r] \in Nat
          /\ honoured[r] + Cardinality(Owed(r)) <= count[r]
      BY FS_CardinalityType DEF HInv, HonourIsBacked, IInv, TypeOK
    <2> QED BY <2>1
  <1> QED BY <1>1, SecondInvariance, PTL

(* A transaction that failed or ended keeps no use, no promise to its host *)
(* and no lock.                                                            *)
THEOREM FailureKeepsNothing == Spec => []FailedTransactionKeepsNothing
  <1>1. IInv /\ HInv => FailedTransactionKeepsNothing
    <2> SUFFICES ASSUME IInv, HInv, NEW s \in Sessions, tx[s] \in {"none", "aborted"}
                 PROVE  /\ uses[s] = NoUses /\ told[s] = NoUses
                        /\ \A r \in Receipts : lock[r] # s
      BY DEF FailedTransactionKeepsNothing
    <2>1. tx[s] \notin Isolation /\ tx[s] # "autocommit"
      BY DEF Isolation
    <2>2. \A r \in Receipts : uses[s][r] = 0
      BY <2>1 DEF IInv, OnlyTransactionsHoldUses
    <2>3. \A r \in Receipts : told[s][r] = 0
      <3>1. \A r \in Receipts :
                /\ told[s][r] \in Nat /\ Pending(s, r) \in {0, 1}
                /\ told[s][r] + Pending(s, r) <= uses[s][r]
        BY DEF HInv, ToldIsBacked, Pending, IInv, TypeOK
      <3> QED BY <2>2, <3>1
    <2>4. uses[s] \in [Receipts -> Nat] /\ told[s] \in [Receipts -> Nat]
      BY DEF IInv, TypeOK
    <2>5. \A r \in Receipts : lock[r] # s
      BY <2>1 DEF HInv, LockInTransaction
    <2> QED BY <2>2, <2>3, <2>4, <2>5 DEF NoUses
  <1> QED BY <1>1, SecondInvariance, PTL

-----------------------------------------------------------------------------
(* Committed and honoured uses only grow.                                  *)
LEMMA OnlyGrow ==
    ASSUME TypeOK, NEW s \in Sessions, Step(s), NEW r \in Receipts
    PROVE  /\ count[r] <= count'[r] /\ honoured[r] <= honoured'[r]
           /\ revoked' = revoked
  <1>0. /\ count[r] \in Nat /\ honoured[r] \in Nat
        /\ uses[s][r] \in Nat /\ told[s][r] \in Nat
    BY DEF TypeOK
  <1>1. CASE Update(s)
    <2>1. honoured' = honoured /\ revoked' = revoked
      BY <1>1 DEF Update
    <2>2. CASE tx[s] = "autocommit"
      <3>1. count' = [count EXCEPT ![Target(s)] =
                @ + (IF Current(s, Target(s)) < Max[Target(s)] THEN 1 ELSE 0)]
        BY <1>1, <2>2 DEF Update
      <3> QED BY <1>0, <2>1, <3>1 DEF TypeOK
    <2>3. CASE tx[s] # "autocommit"
      BY <1>0, <1>1, <2>1, <2>3 DEF Update
    <2> QED BY <2>2, <2>3
  <1>2. CASE Deliver(s)
    <2>1. /\ count' = count /\ revoked' = revoked
          /\ \/ honoured' = honoured
             \/ honoured' = [honoured EXCEPT ![Target(s)] = @ + 1]
      BY <1>2 DEF Deliver
    <2>2. honoured[r] <= honoured'[r]
      <3>1. CASE honoured' = honoured
        BY <1>0, <3>1
      <3>2. CASE honoured' = [honoured EXCEPT ![Target(s)] = @ + 1]
        <4>1. honoured \in [Receipts -> Nat]
          BY DEF TypeOK
        <4> HIDE DEF Target
        <4> QED BY <1>0, <3>2, <4>1
      <3> QED BY <2>1, <3>1, <3>2
    <2> QED BY <1>0, <2>1, <2>2
  <1>3. CASE Commit(s)
    <2>1. PICK ack \in BOOLEAN : Settle(s, ack)
      BY <1>3 DEF Commit
    <2> QED BY <1>0, <2>1 DEF Settle, Current
  <1>4. CASE ~Update(s) /\ ~Deliver(s) /\ ~Commit(s)
    <2>1. UNCHANGED <<count, honoured, revoked>>
      BY <1>4 DEF Step, Begin, Submit, Refuse, Statement, FindNothing, AcquireLock,
         FailToSerialize, BreakDeadlock, Deny, Admit, Garble, Disconnect,
         EndTransaction, Rollback, Discard
    <2> QED BY <1>0, <2>1
  <1> QED BY <1>1, <1>2, <1>3, <1>4

(* Every step of a session settles uses or none; a revocation closes.      *)
LEMMA StepKeepsPromise ==
    ASSUME IInv, HInv, IInv', HInv', [Next]_vars
    PROVE  [Promise!Next]_(Promise!vars)
  <1>0. /\ TypeOK /\ TypeOK'
        /\ \A r \in Receipts : honoured'[r] <= count'[r]
    <2>1. \A r \in Receipts :
            /\ IsFiniteSet(Owed(r)') /\ honoured'[r] + Cardinality(Owed(r)') <= count'[r]
            /\ honoured'[r] \in Nat /\ count'[r] \in Nat
      BY DEF HInv, HonourIsBacked, IInv, TypeOK
    <2>2. \A r \in Receipts : Cardinality(Owed(r)') \in Nat
      BY <2>1, FS_CardinalityType
    <2> QED BY <2>1, <2>2 DEF IInv
  <1>1. ASSUME NEW s \in Sessions, Step(s) PROVE Promise!Settle
    <2>1. count' \in [Receipts -> Nat] /\ honoured' \in [Receipts -> Nat]
      BY <1>0 DEF TypeOK
    <2>2. \A r \in Receipts : count'[r] <= Max[r]
      <3>1. \A r \in Receipts : /\ count'[r] + uses'[s][r] <= Max[r]
                                /\ uses'[s][r] \in Nat /\ Max[r] \in Nat
        BY <1>0, MaxAssumption DEF IInv, WithinMaximum, TypeOK
      <3> QED BY <2>1, <3>1
    <2>3. \A r \in Receipts : r \in revoked => count'[r] = count[r]
      BY <1>1, RevocationStep, StepsOfNext
    <2>4. \A r \in Receipts : count[r] <= count'[r] /\ honoured[r] <= honoured'[r]
      BY <1>0, <1>1, OnlyGrow
    <2>5. revoked' = revoked
      BY <1>1 DEF Step, Begin, Submit, Refuse, Statement, FindNothing, AcquireLock,
         FailToSerialize, BreakDeadlock, Deny, Admit, Update, Deliver, Garble,
         Disconnect, EndTransaction, Commit, Rollback, Settle, Discard
    <2> QED BY <1>0, <2>1, <2>2, <2>3, <2>4, <2>5 DEF Promise!Settle
  <1>2. ASSUME NEW r \in Receipts, Revoke(r) PROVE Promise!Close
    BY <1>0, <1>2 DEF Revoke, Promise!Close, TypeOK
  <1>3. CASE Tick \/ UNCHANGED vars
    BY <1>3 DEF Tick, vars, Promise!vars
  <1> QED BY <1>1, <1>2, <1>3, StepsOfNext DEF Promise!Next

(* The refinement: the store implements BoundedGrant in every instance.    *)
THEOREM PromiseIsKept == Spec => KeepsPromise
  <1>1. Init => Promise!Init
    BY DEF Init, NoUses, Promise!Init
  <1>2. IInv /\ HInv /\ IInv' /\ HInv' /\ [Next]_vars =>
            [Promise!Next]_(Promise!vars)
    BY StepKeepsPromise
  <1> QED BY <1>1, <1>2, SecondInvariance, PTL DEF Spec, KeepsPromise, Promise!Spec

-----------------------------------------------------------------------------
(* The uses claimed of a row, counted without sets: only the holder of its *)
(* lock has uncommitted uses or an admitted statement.                     *)
Admitted(s, r) == call[s].pc = "update" /\ call[s].cmd.jti = r
AdmittedTo(r) == {s \in Sessions : call[s].pc = "update" /\ call[s].cmd.jti = r}
Held(r) ==
    count[r] + (IF lock[r] = NoSession THEN 0
                ELSE uses[lock[r]][r] + (IF Admitted(lock[r], r) THEN 1 ELSE 0))

(* A set that can only contain x has as many elements as x says.           *)
LEMMA AtMostOne ==
    ASSUME NEW x, NEW S, S \subseteq {x}
    PROVE  Cardinality(S) = IF x \in S THEN 1 ELSE 0
  <1>1. S = IF x \in S THEN {x} ELSE {}
    OBVIOUS
  <1> QED BY <1>1, FS_Singleton, FS_EmptySet

LEMMA ClaimedIsHeld ==
    ASSUME IInv, NEW r \in Receipts
    PROVE  Claimed(r) = Held(r) /\ Held(r) \in Nat
  <1>0. /\ AdmittedTo(r) \subseteq {lock[r]}
        /\ lock[r] \in AdmittedTo(r) <=> lock[r] \in Sessions /\ Admitted(lock[r], r)
    BY DEF IInv, StatementIsLocked, AdmittedTo, Admitted
  <1>1. Cardinality(AdmittedTo(r)) = IF lock[r] \in AdmittedTo(r) THEN 1 ELSE 0
    BY <1>0, AtMostOne
  <1>2. Claimed(r) = Taken(r) + Cardinality(AdmittedTo(r))
    BY DEF Claimed, AdmittedTo
  <1>3. /\ count[r] \in Nat /\ lock[r] \in Sessions \cup {NoSession}
        /\ \A s \in Sessions : uses[s][r] \in Nat
    BY DEF IInv, TypeOK
  <1> QED BY <1>0, <1>1, <1>2, <1>3, SessionAssumption DEF Taken, Held

LEMMA ClaimedIsHeldNext ==
    ASSUME IInv', NEW r \in Receipts
    PROVE  Claimed(r)' = Held(r)' /\ Held(r)' \in Nat
  <1>0. /\ AdmittedTo(r)' \subseteq {lock'[r]}
        /\ lock'[r] \in AdmittedTo(r)' <=> lock'[r] \in Sessions /\ Admitted(lock[r], r)'
    BY DEF IInv, StatementIsLocked, AdmittedTo, Admitted
  <1>1. Cardinality(AdmittedTo(r)') = IF lock'[r] \in AdmittedTo(r)' THEN 1 ELSE 0
    BY <1>0, AtMostOne
  <1>2. Claimed(r)' = Taken(r)' + Cardinality(AdmittedTo(r)')
    BY DEF Claimed, AdmittedTo
  <1>3. /\ count'[r] \in Nat /\ lock'[r] \in Sessions \cup {NoSession}
        /\ \A s \in Sessions : uses'[s][r] \in Nat
    BY DEF IInv, TypeOK
  <1> QED BY <1>0, <1>1, <1>2, <1>3, SessionAssumption DEF Taken, Held

(* A step of another session than the holder claims nothing more.          *)
LEMMA HolderStays ==
    ASSUME IInv, NEW s \in Sessions, Step(s), NEW r \in Receipts,
           lock[r] \in Sessions \ {s}
    PROVE  Held(r)' = Held(r)
  <1>1. TypeOK /\ uses[s][r] = 0 /\ count[r] \in Nat
    <2>1. ~(uses[s][r] > 0) /\ uses[s][r] \in Nat /\ count[r] \in Nat
      BY DEF IInv, WorkIsLocked, TypeOK
    <2> QED BY <2>1 DEF IInv
  <1>2. lock'[r] = lock[r]
    BY <1>1, LocksOfOthersStay
  <1>3. call'[lock[r]] = call[lock[r]] /\ uses'[lock[r]] = uses[lock[r]]
    BY <1>1, OthersStay
  <1>4. count'[r] = count[r]
    <2>1. CASE Update(s)
      <3>1. /\ call[s].pc = "update" /\ Target(s) = call[s].cmd.jti
            /\ lock[Target(s)] = s
        BY <2>1 DEF Update, Target, IInv, StatementIsLocked
      <3>2. \/ count' = count
            \/ count' = [count EXCEPT ![Target(s)] =
                    @ + (IF Current(s, Target(s)) < Max[Target(s)] THEN 1 ELSE 0)]
        BY <2>1 DEF Update
      <3>3. Target(s) # r
        BY <3>1
      <3> HIDE DEF Target
      <3> QED BY <1>1, <3>2, <3>3 DEF TypeOK
    <2>2. CASE Commit(s)
      BY <1>1, <2>2 DEF Commit, Settle, Current
    <2>3. CASE ~Update(s) /\ ~Commit(s)
      BY <2>3 DEF Step, Begin, Submit, Refuse, Statement, FindNothing, AcquireLock,
         FailToSerialize, BreakDeadlock, Deny, Admit, Deliver, Garble, Disconnect,
         EndTransaction, Rollback, Discard
    <2> QED BY <2>1, <2>2, <2>3
  <1> QED BY <1>2, <1>3, <1>4, SessionAssumption DEF Held, Admitted

(* On a row that is free or its own, a session claims one use more only by *)
(* Admit, which reads the database's clock under the lock.                 *)
LEMMA OwnClaims ==
    ASSUME IInv, IInv', NEW s \in Sessions, Step(s), NEW r \in Receipts,
           lock[r] \in {NoSession, s}, dbClock \notin Nbf[r] .. (Exp[r] - 1)
    PROVE  Held(r)' <= Held(r)
  <1> DEFINE one == IF Admitted(s, r) THEN 1 ELSE 0
             next == IF Admitted(s, r)' THEN 1 ELSE 0
  <1>0. /\ TypeOK /\ call[s] \in Calls
        /\ count[r] \in Nat /\ uses[s][r] \in Nat
        /\ count'[r] \in Nat /\ uses'[s][r] \in Nat
    BY DEF IInv, TypeOK
  <1>1. Held(r) = count[r] + uses[s][r] + one
    <2>1. lock[r] # s => ~(uses[s][r] > 0) /\ ~Admitted(s, r)
      BY DEF IInv, WorkIsLocked, StatementIsLocked, Admitted
    <2> QED BY <1>0, <2>1, SessionAssumption DEF Held
  <1>2. Held(r)' = count'[r] + uses'[s][r] + next
    <2>1. lock'[r] \in {NoSession, s}
      <3>1. lock'[r] \in Sessions \cup {NoSession}
        BY DEF IInv, TypeOK
      <3> QED BY <1>0, <3>1, LocksOfOthersStay, SessionAssumption
    <2>2. lock'[r] # s => ~(uses'[s][r] > 0) /\ ~Admitted(s, r)'
      BY DEF IInv, WorkIsLocked, StatementIsLocked, Admitted
    <2> QED BY <1>0, <2>1, <2>2, SessionAssumption DEF Held
  <1>3. one \in {0, 1} /\ next \in {0, 1}
    OBVIOUS
  <1>4. CASE \/ \E isolation \in Isolation : Begin(s, isolation)
             \/ \E cmd \in Commands : Submit(s, cmd)
             \/ \E q \in Receipts : Refuse(s, q)
             \/ FindNothing(s) \/ Deny(s) \/ Deliver(s) \/ Garble(s)
    <2>1. UNCHANGED <<count, uses>> /\ call'[s].pc # "update"
      BY <1>0, <1>4 DEF Begin, Submit, Refuse, FindNothing, Deny, Deliver, Garble,
         Finish, TypeOK, NoCall
    <2> QED BY <1>0, <1>1, <1>2, <1>3, <2>1 DEF Admitted
  <1>5. CASE \/ FailToSerialize(s) \/ BreakDeadlock(s) \/ Disconnect(s)
             \/ Rollback(s)
    <2>1. Discard(s) /\ call'[s].pc # "update"
      BY <1>0, <1>5 DEF FailToSerialize, BreakDeadlock, Disconnect, Rollback,
         Finish, TypeOK, NoCall
    <2>2. count' = count /\ uses'[s][r] = 0
      BY <1>0, <2>1 DEF Discard, NoUses, TypeOK
    <2> QED BY <1>0, <1>1, <1>2, <1>3, <2>1, <2>2 DEF Admitted
  <1>6. CASE AcquireLock(s)
    <2>1. UNCHANGED <<count, uses>> /\ call'[s] = [call[s] EXCEPT !.pc = "decide"]
          /\ call[s].pc = "lock"
      BY <1>0, <1>6 DEF AcquireLock, LockFree, TypeOK
    <2>2. call'[s].pc = "decide"
      BY <1>0, <2>1, Advance
    <2> QED BY <1>0, <1>1, <1>2, <1>3, <2>1, <2>2 DEF Admitted
  <1>7. CASE Admit(s)
    <2>1. /\ call[s].pc = "decide" /\ Verdict(s) = "admit" /\ UNCHANGED <<count, uses>>
          /\ call'[s] = [call[s] EXCEPT !.pc = "update"]
      BY <1>0, <1>7 DEF Admit, TypeOK
    <2>2. call'[s].cmd = call[s].cmd /\ Target(s) = call[s].cmd.jti
      BY <1>0, <2>1, Advance DEF Target
    <2>3. ~(Exp[Target(s)] <= dbClock) /\ ~(Nbf[Target(s)] > dbClock)
      BY <2>1 DEF Verdict, Expired, NotYetValid
    <2>4. Target(s) # r
      <3>1. dbClock \in Int /\ Nbf[r] \in Int /\ Exp[r] \in Int
        BY <1>0, TimesAssumption, WindowAssumption DEF TypeOK
      <3>2. Exp[r] <= dbClock \/ Nbf[r] > dbClock
        BY <3>1
      <3> QED BY <2>3, <3>2
    <2>5. ~Admitted(s, r)'
      BY <2>2, <2>4 DEF Admitted
    <2> QED BY <1>0, <1>1, <1>2, <1>3, <2>1, <2>5
  <1>8. CASE Update(s)
    <2>1. /\ call[s].pc = "update" /\ Target(s) = call[s].cmd.jti
          /\ Target(s) \in Receipts /\ call'[s].pc = "answer"
      BY <1>0, <1>8, CallShapes DEF Update, Finish, Target, TypeOK
    <2>2. Current(s, Target(s)) < Max[Target(s)]
      BY <2>1 DEF IInv, AdmittedHasRoom, Current
    <2>3. one = IF r = Target(s) THEN 1 ELSE 0
      BY <2>1 DEF Admitted
    <2>4. next = 0
      BY <2>1 DEF Admitted
    <2>5. \/ count' = [count EXCEPT ![Target(s)] = @ + 1] /\ uses' = uses
          \/ uses' = [uses EXCEPT ![s][Target(s)] = @ + 1] /\ count' = count
      BY <1>8, <2>2 DEF Update
    <2> HIDE DEF Target, one, next
    <2>6. count'[r] + uses'[s][r] =
                count[r] + uses[s][r] + (IF r = Target(s) THEN 1 ELSE 0)
      <3>1. CASE count' = [count EXCEPT ![Target(s)] = @ + 1] /\ uses' = uses
        BY <1>0, <3>1 DEF TypeOK
      <3>2. CASE uses' = [uses EXCEPT ![s][Target(s)] = @ + 1] /\ count' = count
        <4>1. uses'[s][r] = uses[s][r] + (IF r = Target(s) THEN 1 ELSE 0)
          BY <1>0, <2>1, <3>2 DEF TypeOK
        <4> QED BY <1>0, <3>2, <4>1
      <3> QED BY <2>5, <3>1, <3>2
    <2> QED BY <1>0, <1>1, <1>2, <2>3, <2>4, <2>6
  <1>9. CASE Commit(s)
    <2>1. /\ count'[r] = count[r] + uses[s][r] /\ uses'[s][r] = 0
          /\ call'[s].pc # "update"
      BY <1>0, <1>9 DEF Commit, Settle, Current, NoUses, TypeOK, NoCall
    <2> QED BY <1>0, <1>1, <1>2, <1>3, <2>1 DEF Admitted
  <1> QED BY <1>4, <1>5, <1>6, <1>7, <1>8, <1>9 DEF Step, Statement, EndTransaction

(* A row whose window is not open on the database's clock gains no claim.  *)
LEMMA ClaimStep ==
    ASSUME IInv, IInv', [Next]_vars, NEW r \in Receipts,
           dbClock \notin Nbf[r] .. (Exp[r] - 1)
    PROVE  Claimed(r)' <= Claimed(r)
  <1>1. /\ Claimed(r) = Held(r) /\ Held(r) \in Nat
        /\ Claimed(r)' = Held(r)' /\ Held(r)' \in Nat
    BY ClaimedIsHeld, ClaimedIsHeldNext
  <1>2. ASSUME NEW s \in Sessions, Step(s) PROVE Held(r)' <= Held(r)
    <2>1. lock[r] \in Sessions \cup {NoSession}
      BY DEF IInv, TypeOK
    <2> QED BY <1>1, <1>2, <2>1, HolderStays, OwnClaims
  <1>3. CASE (\E q \in Receipts : Revoke(q)) \/ Tick \/ UNCHANGED vars
    <2>1. UNCHANGED <<count, lock, uses, call>>
      BY <1>3 DEF Revoke, Tick, vars
    <2> QED BY <1>1, <2>1 DEF Held, Admitted
  <1> QED BY <1>1, <1>2, <1>3, StepsOfNext

(* Outside the window on the database's clock nothing more is admitted,    *)
(* whatever time the host had captured before it waited for the lock.      *)
THEOREM WindowEnforced == Spec => WindowIsEnforcedUnderLock
  <1>1. IInv /\ IInv' /\ [Next]_vars =>
            [\A r \in Receipts : dbClock \notin Nbf[r] .. (Exp[r] - 1) =>
                Claimed(r)' <= Claimed(r)]_vars
    BY ClaimStep
  <1> QED BY <1>1, Invariance, PTL DEF Spec, WindowIsEnforcedUnderLock

=============================================================================
