---------------------------- MODULE PostgresStore ----------------------------
(***************************************************************************)
(* packages/postgres-store: consuming one use of a receipt with a single   *)
(* SQL statement, run by a host on an autocommit connection or inside a    *)
(* transaction of its own.                                                 *)
(*                                                                         *)
(* The statement is cut where another connection can come between its      *)
(* parts: it is sent (Submit), it obtains the row lock of FOR UPDATE       *)
(* (AcquireLock), and under that lock it decides (Deny, Admit), updates    *)
(* and, in autocommit, commits (Update).  Its answer then travels to the   *)
(* host (Deliver) and may be lost on the way.  PostgreSQL and the host are *)
(* modelled from how the statement and the tests use them.                 *)
(***************************************************************************)
EXTENDS Integers, FiniteSets

CONSTANTS
    Sessions,   \* the host's database connections
    NoSession,  \* nobody
    Receipts,   \* the receipt identifiers (jti) that commands may name
    Persisted,  \* those that have a row in public.access_receipts
    Max,        \* Max[r]: max_redemptions of the row
    Nbf, Exp,   \* Nbf[r], Exp[r]: its validity window, in seconds
    Times,      \* the readings of a clock, in whole seconds
    Commands    \* the well-formed commands that hosts send

ASSUME SessionAssumption == NoSession \notin Sessions
ASSUME PersistedAssumption == Persisted \subseteq Receipts
ASSUME MaxAssumption == Max \in [Receipts -> Nat \ {0}]
ASSUME TimesAssumption == Times \subseteq Int
ASSUME CommandsAssumption ==
    Commands \subseteq [jti : Receipts, genuine : BOOLEAN, time : Times]
ASSUME WindowAssumption ==
    /\ Nbf \in [Receipts -> Int] /\ Exp \in [Receipts -> Int]
    /\ \A r \in Receipts : Nbf[r] < Exp[r]

VARIABLES
    count,      \* count[r]: the committed redemption_count
    revoked,    \* the receipts whose committed revoked_at is not null
    lock,       \* lock[r]: the session holding the row lock of r
    tx,         \* tx[s]: the transaction the session is in
    missed,     \* missed[s]: rows changed since s took its snapshot
    uses,       \* uses[s][r]: uncommitted increments of r by s
    call,       \* call[s]: the consume call of s in progress
    dbClock,    \* floor(extract(epoch FROM clock_timestamp()))
    \* What hosts and the database have said so far:
    told,       \* told[s][r]: uses s was told of in its open transaction
    honoured,   \* honoured[r]: uses a host has answered with access
    lastIn,     \* lastIn[s]: uncommitted uses of s reported as exhausting
    lastCount   \* lastCount[r]: committed uses reported as exhausting

vars == <<count, revoked, lock, tx, missed, uses, call, dbClock,
          told, honoured, lastIn, lastCount>>

-----------------------------------------------------------------------------
Denials == {"receipt_missing", "authority_mismatch", "receipt_revoked",
            "receipt_expired", "receipt_exhausted", "concurrency_conflict"}
Grants == {"consumed", "consumed_exhausted"}
Outcomes == Denials \cup Grants \cup {"system_failure"}

Isolation == {"read_committed", "repeatable_read"}
TxStates == Isolation \cup {"none", "autocommit", "aborted"}

(* A call: sent and not yet holding the row lock, holding it, admitted by  *)
(* the decision, or answered.  "genuine" says that every authority field   *)
(* of the command, and its optional expected maximum, equal the row's;     *)
(* "time" is the host's reading of its own clock.                          *)
NoCall == [pc |-> "idle"]
Calls == {NoCall}
    \cup [pc : {"lock", "decide", "update"}, cmd : Commands]
    \cup [pc : {"answer"}, jti : Receipts, outcome : Outcomes]

NoUses == [r \in Receipts |-> 0]

TypeOK ==
    /\ count \in [Receipts -> Nat]
    /\ revoked \subseteq Receipts
    /\ lock \in [Receipts -> Sessions \cup {NoSession}]
    /\ tx \in [Sessions -> TxStates]
    /\ missed \in [Sessions -> SUBSET Receipts]
    /\ uses \in [Sessions -> [Receipts -> Nat]]
    /\ call \in [Sessions -> Calls]
    /\ dbClock \in Times
    /\ told \in [Sessions -> [Receipts -> Nat]]
    /\ honoured \in [Receipts -> Nat]
    /\ lastIn \in [Sessions -> SUBSET Receipts]
    /\ lastCount \in [Receipts -> Nat]

Init ==
    /\ count = NoUses
    /\ revoked = {}
    /\ lock = [r \in Receipts |-> NoSession]
    /\ tx = [s \in Sessions |-> "none"]
    /\ missed = [s \in Sessions |-> {}]
    /\ uses = [s \in Sessions |-> NoUses]
    /\ call = [s \in Sessions |-> NoCall]
    /\ dbClock \in Times
    /\ told = [s \in Sessions |-> NoUses]
    /\ honoured = NoUses
    /\ lastIn = [s \in Sessions |-> {}]
    /\ lastCount = NoUses

-----------------------------------------------------------------------------
(* The row as session s reads it under the lock: its committed count and   *)
(* the increments of its own transaction.                                  *)
Current(s, r) == count[r] + uses[s][r]

Target(s) == IF call[s].pc = "answer" THEN call[s].jti ELSE call[s].cmd.jti

Finish(s, outcome) ==
    call' = [call EXCEPT ![s] =
                [pc |-> "answer", jti |-> Target(s), outcome |-> outcome]]

Released(s) == [r \in Receipts |-> IF lock[r] = s THEN NoSession ELSE lock[r]]

(* Rows changed by a commit, noted for the other open snapshots.           *)
Noted(s, rows) ==
    [z \in Sessions |-> IF z # s /\ tx[z] = "repeatable_read"
                        THEN missed[z] \cup rows ELSE missed[z]]

(* The uncommitted work of s is gone and its locks are free.               *)
Discard(s) ==
    /\ lock' = Released(s)
    /\ uses' = [uses EXCEPT ![s] = NoUses]
    /\ told' = [told EXCEPT ![s] = NoUses]
    /\ lastIn' = [lastIn EXCEPT ![s] = {}]
    /\ missed' = [missed EXCEPT ![s] = {}]
    /\ UNCHANGED <<count, revoked, dbClock, honoured, lastCount>>

(* The work of s becomes permanent; with "acknowledged", the host learns   *)
(* of it and answers the uses it was told of with access.                  *)
Settle(s, acknowledged) ==
    /\ count' = [r \in Receipts |-> Current(s, r)]
    /\ lastCount' = [r \in Receipts |->
            lastCount[r] + (IF r \in lastIn[s] THEN 1 ELSE 0)]
    /\ honoured' = [r \in Receipts |->
            honoured[r] + (IF acknowledged THEN told[s][r] ELSE 0)]
    /\ missed' = [Noted(s, {r \in Receipts : uses[s][r] > 0})
                    EXCEPT ![s] = {}]
    /\ lock' = Released(s)
    /\ uses' = [uses EXCEPT ![s] = NoUses]
    /\ told' = [told EXCEPT ![s] = NoUses]
    /\ lastIn' = [lastIn EXCEPT ![s] = {}]
    /\ UNCHANGED <<revoked, dbClock>>

-----------------------------------------------------------------------------
(* The host opens a transaction; its snapshot, if it keeps one, is taken   *)
(* by its first statement.                                                 *)
Begin(s, isolation) ==
    /\ call[s] = NoCall /\ tx[s] = "none"
    /\ tx' = [tx EXCEPT ![s] = isolation]
    /\ UNCHANGED <<count, revoked, lock, missed, uses, call, dbClock,
                   told, honoured, lastIn, lastCount>>

(* consume: a well-formed command is sent as one statement.                *)
Submit(s, cmd) ==
    /\ call[s] = NoCall /\ tx[s] # "aborted"
    /\ call' = [call EXCEPT ![s] = [pc |-> "lock", cmd |-> cmd]]
    /\ tx' = [tx EXCEPT ![s] = IF @ = "none" THEN "autocommit" ELSE @]
    /\ UNCHANGED <<count, revoked, lock, missed, uses, dbClock,
                   told, honoured, lastIn, lastCount>>

(* consume: a malformed command never reaches the database; in an aborted  *)
(* transaction the database refuses the statement.                         *)
Refuse(s, r) ==
    /\ call[s] = NoCall
    /\ call' = [call EXCEPT ![s] =
            [pc |-> "answer", jti |-> r, outcome |-> "system_failure"]]
    /\ UNCHANGED <<count, revoked, lock, tx, missed, uses, dbClock,
                   told, honoured, lastIn, lastCount>>

(* No row carries the identifier: nothing to lock.                         *)
FindNothing(s) ==
    /\ call[s].pc = "lock" /\ Target(s) \notin Persisted
    /\ Finish(s, "receipt_missing")
    /\ UNCHANGED <<count, revoked, lock, tx, missed, uses, dbClock,
                   told, honoured, lastIn, lastCount>>

(* Mutation of LockFree: a plain SELECT, which waits for nobody.           *)
NoLockWait(s) == call[s].pc = "lock" /\ Target(s) \in Persisted

LockFree(s) ==
    /\ call[s].pc = "lock" /\ Target(s) \in Persisted
    /\ lock[Target(s)] \in {NoSession, s}

(* Mutations of AcquireLock: the row is read and not locked, or read in    *)
(* its latest version although the snapshot is older.                      *)
ReadWithoutLocking(s) ==
    /\ LockFree(s) /\ Target(s) \notin missed[s]
    /\ call' = [call EXCEPT ![s].pc = "decide"]
    /\ UNCHANGED <<count, revoked, lock, tx, missed, uses, dbClock,
                   told, honoured, lastIn, lastCount>>
LockStaleRow(s) ==
    /\ LockFree(s)
    /\ lock' = [lock EXCEPT ![Target(s)] = s]
    /\ call' = [call EXCEPT ![s].pc = "decide"]
    /\ UNCHANGED <<count, revoked, tx, missed, uses, dbClock,
                   told, honoured, lastIn, lastCount>>

(* FOR UPDATE returns the row, in its latest committed version.            *)
AcquireLock(s) ==
    /\ LockFree(s) /\ Target(s) \notin missed[s]
    /\ lock' = [lock EXCEPT ![Target(s)] = s]
    /\ call' = [call EXCEPT ![s].pc = "decide"]
    /\ UNCHANGED <<count, revoked, tx, missed, uses, dbClock,
                   told, honoured, lastIn, lastCount>>

(* The row changed after the snapshot: could not serialize access.         *)
FailToSerialize(s) ==
    /\ LockFree(s) /\ Target(s) \in missed[s]
    /\ Finish(s, "system_failure")
    /\ tx' = [tx EXCEPT ![s] = "aborted"]
    /\ Discard(s)

(* Sessions waiting for each other's locks in a ring.                      *)
Deadlocked(s) ==
    \E ring \in SUBSET Sessions :
        /\ s \in ring
        /\ \A z \in ring :
            /\ call[z].pc = "lock" /\ lock[Target(z)] \in ring \ {z}
            /\ \E y \in ring : call[y].pc = "lock" /\ lock[Target(y)] = z

(* The deadlock detector cancels one statement of a ring.                  *)
BreakDeadlock(s) ==
    /\ Deadlocked(s)
    /\ Finish(s, "system_failure")
    /\ tx' = [tx EXCEPT ![s] = "aborted"]
    /\ Discard(s)

(* Mutations of Expired and Exhausted.                                     *)
ExpiredForHostOnly(s) == Exp[Target(s)] <= call[s].cmd.time
OneUseReserved(s) == Current(s, Target(s)) + 1 >= Max[Target(s)]

(* The conditions of the statement's CASE, read once the lock is held: on  *)
(* the latest row, the host's time and the database's clock at that moment.*)
Revoked(s) == Target(s) \in revoked
Expired(s) ==
    LET e == Exp[Target(s)] IN e <= call[s].cmd.time \/ e <= dbClock
NotYetValid(s) ==
    LET n == Nbf[Target(s)] IN n > call[s].cmd.time \/ n > dbClock
Exhausted(s) == Current(s, Target(s)) >= Max[Target(s)]

Verdict(s) ==
    IF ~call[s].cmd.genuine THEN "authority_mismatch"
    ELSE IF Revoked(s) THEN "receipt_revoked"
    ELSE IF Expired(s) THEN "receipt_expired"
    ELSE IF NotYetValid(s) THEN "authority_mismatch"
    ELSE IF Exhausted(s) THEN "receipt_exhausted"
    ELSE "admit"

(* Mutation of Deny: a denied row stays locked in autocommit.              *)
DenyStillLocked(s) ==
    /\ call[s].pc = "decide" /\ Verdict(s) # "admit"
    /\ Finish(s, Verdict(s))
    /\ UNCHANGED <<count, revoked, lock, tx, missed, uses, dbClock,
                   told, honoured, lastIn, lastCount>>

(* A denial ends the statement; in autocommit the row is unlocked.         *)
Deny(s) ==
    /\ call[s].pc = "decide" /\ Verdict(s) # "admit"
    /\ Finish(s, Verdict(s))
    /\ lock' = IF tx[s] = "autocommit" THEN Released(s) ELSE lock
    /\ UNCHANGED <<count, revoked, tx, missed, uses, dbClock,
                   told, honoured, lastIn, lastCount>>

Admit(s) ==
    /\ call[s].pc = "decide" /\ Verdict(s) = "admit"
    /\ call' = [call EXCEPT ![s].pc = "update"]
    /\ UNCHANGED <<count, revoked, lock, tx, missed, uses, dbClock,
                   told, honoured, lastIn, lastCount>>

(* Mutation of Exhausts: the count is compared before the increment of the *)
(* transaction's own earlier uses.                                         *)
ExhaustsCommitted(s) == count[Target(s)] + 1 = Max[Target(s)]

(* What the UPDATE returns: whether this use was the last.                 *)
Exhausts(s) == Current(s, Target(s)) + 1 = Max[Target(s)]

(* Mutation of Update: the adapter opens a transaction of its own and does *)
(* not commit it.                                                          *)
UpdateUncommitted(s) ==
    /\ call[s].pc = "update"
    /\ Finish(s, IF Exhausts(s) THEN "consumed_exhausted" ELSE "consumed")
    /\ uses' = [uses EXCEPT ![s][Target(s)] = @ + 1]
    /\ lastIn' = [lastIn EXCEPT ![s] =
                        IF Exhausts(s) THEN @ \cup {Target(s)} ELSE @]
    /\ UNCHANGED <<count, revoked, lock, tx, missed, dbClock, told,
                   honoured, lastCount>>

(* The UPDATE, guarded by the maximum once more, takes one use; in         *)
(* autocommit it is permanent at once and the row is unlocked.             *)
Update(s) ==
    LET r == Target(s)
        takes == Current(s, r) < Max[r]
        one == IF takes THEN 1 ELSE 0
        last == takes /\ Exhausts(s)
        auto == tx[s] = "autocommit"
    IN  /\ call[s].pc = "update"
        /\ Finish(s, IF ~takes THEN "concurrency_conflict"
                     ELSE IF last THEN "consumed_exhausted" ELSE "consumed")
        /\ IF auto
           THEN /\ count' = [count EXCEPT ![r] = @ + one]
                /\ lastCount' = [lastCount EXCEPT ![r] =
                                    IF last THEN @ + 1 ELSE @]
                /\ missed' = Noted(s, {r})
                /\ lock' = Released(s)
                /\ UNCHANGED <<uses, lastIn>>
           ELSE /\ uses' = [uses EXCEPT ![s][r] = @ + one]
                /\ lastIn' = [lastIn EXCEPT ![s] =
                                    IF last THEN @ \cup {r} ELSE @]
                /\ UNCHANGED <<count, lastCount, missed, lock>>
        /\ UNCHANGED <<revoked, tx, dbClock, told, honoured>>

(* Mutation of Deliver: access is answered before the transaction ends.    *)
DeliverEagerly(s) ==
    /\ call[s].pc = "answer"
    /\ call' = [call EXCEPT ![s] = NoCall]
    /\ tx' = [tx EXCEPT ![s] = IF @ = "autocommit" THEN "none" ELSE @]
    /\ honoured' = IF call[s].outcome \in Grants
                   THEN [honoured EXCEPT ![Target(s)] = @ + 1]
                   ELSE honoured
    /\ UNCHANGED <<count, revoked, lock, missed, uses, dbClock, told,
                   lastIn, lastCount>>

(* The store returns.  A use consumed in autocommit is honoured at once,   *)
(* one consumed in a transaction when the host's commit succeeds.          *)
Deliver(s) ==
    /\ call[s].pc = "answer"
    /\ call' = [call EXCEPT ![s] = NoCall]
    /\ tx' = [tx EXCEPT ![s] = IF @ = "autocommit" THEN "none" ELSE @]
    /\ LET granted == call[s].outcome \in Grants
           now == tx[s] = "autocommit"
       IN  /\ honoured' = IF granted /\ now
                          THEN [honoured EXCEPT ![Target(s)] = @ + 1]
                          ELSE honoured
           /\ told' = IF granted /\ ~now
                      THEN [told EXCEPT ![s][Target(s)] = @ + 1]
                      ELSE told
    /\ UNCHANGED <<count, revoked, lock, missed, uses, dbClock,
                   lastIn, lastCount>>

(* An answer that is lost, malformed or not exactly one row: the statement *)
(* took effect and the host is told of a failure.                          *)
Garble(s) ==
    /\ call[s].pc = "answer"
    /\ Finish(s, "system_failure")
    /\ UNCHANGED <<count, revoked, lock, tx, missed, uses, dbClock,
                   told, honoured, lastIn, lastCount>>

(* The connection breaks: what is not committed is undone.                 *)
Disconnect(s) ==
    /\ tx[s] # "none"
    /\ tx' = [tx EXCEPT ![s] = "none"]
    /\ IF call[s] = NoCall THEN UNCHANGED call ELSE Finish(s, "system_failure")
    /\ Discard(s)

Commit(s) ==
    /\ call[s] = NoCall /\ tx[s] \in Isolation
    /\ \E acknowledged \in BOOLEAN : Settle(s, acknowledged)
    /\ tx' = [tx EXCEPT ![s] = "none"]
    /\ UNCHANGED call

Rollback(s) ==
    /\ call[s] = NoCall /\ tx[s] \in Isolation \cup {"aborted"}
    /\ Discard(s)
    /\ tx' = [tx EXCEPT ![s] = "none"]
    /\ UNCHANGED call

(* An authorized host revokes the receipt, in a statement of its own.      *)
Revoke(r) ==
    /\ r \in Persisted \ revoked /\ lock[r] = NoSession
    /\ revoked' = revoked \cup {r}
    /\ missed' = Noted(NoSession, {r})
    /\ UNCHANGED <<count, lock, tx, uses, call, dbClock,
                   told, honoured, lastIn, lastCount>>

Tick ==
    /\ dbClock + 1 \in Times
    /\ dbClock' = dbClock + 1
    /\ UNCHANGED <<count, revoked, lock, tx, missed, uses, call,
                   told, honoured, lastIn, lastCount>>

-----------------------------------------------------------------------------
Statement(s) ==
    \/ FindNothing(s) \/ AcquireLock(s) \/ FailToSerialize(s)
    \/ BreakDeadlock(s) \/ Deny(s) \/ Admit(s) \/ Update(s)

EndTransaction(s) == Commit(s) \/ Rollback(s)

Next ==
    \/ \E s \in Sessions :
        \/ \E isolation \in Isolation : Begin(s, isolation)
        \/ \E cmd \in Commands : Submit(s, cmd)
        \/ \E r \in Receipts : Refuse(s, r)
        \/ Statement(s) \/ Deliver(s) \/ Garble(s) \/ Disconnect(s)
        \/ EndTransaction(s)
    \/ \E r \in Receipts : Revoke(r)
    \/ Tick

Spec == Init /\ [][Next]_vars

(* The database gives a row lock to each of its waiters in turn, so one    *)
(* that keeps becoming free is obtained; the host keeps its transactions   *)
(* short: it does not call for ever without ending one.                    *)
Fairness ==
    \A s \in Sessions :
        /\ SF_vars(Statement(s))
        /\ WF_vars(Deliver(s))
        /\ SF_vars(EndTransaction(s))

FairSpec == Spec /\ Fairness

-----------------------------------------------------------------------------
(* Uses of r taken so far, committed or not, and those already admitted.   *)
Taken(r) ==
    count[r] + (IF lock[r] = NoSession THEN 0 ELSE uses[lock[r]][r])
Claimed(r) ==
    Taken(r) + Cardinality({s \in Sessions :
                    call[s].pc = "update" /\ call[s].cmd.jti = r})

(* No over-grant: the committed uses and those of any open transaction     *)
(* stay within the maximum, whoever contends for the last one, and only    *)
(* the holder of the row lock has uncommitted uses (the count CHECK of the *)
(* schema is never what stops a consume).                                  *)
NeverOverGranted ==
    \A r \in Receipts : \A s \in Sessions :
        /\ count[r] + uses[s][r] <= Max[r]
        /\ uses[s][r] > 0 => lock[r] = s

(* Access that a host has answered is backed by a committed use, through   *)
(* lost answers, rollbacks, broken connections and unacknowledged commits. *)
HonouredAreCommitted == \A r \in Receipts : honoured[r] <= count[r]

(* The use that fills the allowance, and no other committed use, was       *)
(* reported with exhausted = true.                                         *)
LastUseReportedOnce ==
    \A r \in Receipts : lastCount[r] = IF count[r] = Max[r] THEN 1 ELSE 0

(* The lock is held from the decision to the guarded update, so an         *)
(* admitted statement always finds its use: concurrency_conflict, which    *)
(* the statement provides for, is never answered.                          *)
AdmittedNeverConflicts ==
    \A s \in Sessions : call[s].pc = "answer" =>
        call[s].outcome # "concurrency_conflict"

(* A contender is refused as exhausted only when every use is taken, even  *)
(* if it waited behind transactions that rolled their uses back.           *)
ExhaustedMeansNoUseLeft ==
    \A s \in Sessions :
        call[s].pc = "answer" /\ call[s].outcome = "receipt_exhausted" =>
            Taken(call[s].jti) = Max[call[s].jti]

(* A transaction that locked a row under a snapshot has seen its latest    *)
(* commit: a count is never incremented from a stale reading.              *)
LockedRowsAreCurrent ==
    \A s \in Sessions, r \in Receipts : lock[r] = s => r \notin missed[s]

(* A transaction that failed or ended keeps no use and no lock, so one that*)
(* consumed several receipts loses all of them together.                   *)
FailedTransactionKeepsNothing ==
    \A s \in Sessions : tx[s] \in {"none", "aborted"} =>
        /\ uses[s] = NoUses /\ told[s] = NoUses
        /\ \A r \in Receipts : lock[r] # s

(* A committed revocation is final: it is never undone and no later commit *)
(* adds a use, not even of a statement that was waiting for the lock.      *)
RevocationIsFinal ==
    [][\A r \in revoked : r \in revoked' /\ count'[r] = count[r]]_vars

(* Outside the validity window on the database's clock no further use is   *)
(* admitted, whatever time the host captured before it waited for the lock *)
(* (a transaction may still commit uses admitted inside the window).       *)
WindowIsEnforcedUnderLock ==
    [][\A r \in Receipts : dbClock \notin Nbf[r] .. (Exp[r] - 1) =>
            Claimed(r)' <= Claimed(r)]_vars

(* Every consume call returns: no lock wait, deadlock, serialization       *)
(* failure or lost connection leaves it pending.                           *)
EveryCallReturns ==
    \A s \in Sessions : call[s] # NoCall ~> call[s] = NoCall

-----------------------------------------------------------------------------
(* The inductive invariant: who may work on a row, and what is true of the *)
(* row while a session does.                                               *)
WorkIsLocked ==
    \A s \in Sessions, r \in Receipts :
        uses[s][r] > 0 => lock[r] = s
StatementIsLocked ==
    \A s \in Sessions : call[s].pc \in {"decide", "update"} =>
        lock[call[s].cmd.jti] = s
StatementInTransaction ==
    \A s \in Sessions : call[s].pc \in {"lock", "decide", "update"} =>
        tx[s] \in Isolation \cup {"autocommit"}
OnlyTransactionsHoldUses ==
    \A s \in Sessions, r \in Receipts :
        tx[s] \notin Isolation => uses[s][r] = 0
WithinMaximum ==
    \A s \in Sessions, r \in Receipts : count[r] + uses[s][r] <= Max[r]
AdmittedHasRoom ==
    \A s \in Sessions : call[s].pc = "update" =>
        LET r == call[s].cmd.jti
        IN  count[r] + uses[s][r] < Max[r] /\ r \notin revoked
RevokedIsUnused ==
    \A s \in Sessions, r \in Receipts : r \in revoked => uses[s][r] = 0
LastUseIsMarked ==
    \A s \in Sessions, r \in Receipts :
        r \in lastIn[s] <=> uses[s][r] > 0 /\ count[r] + uses[s][r] = Max[r]
ExhaustedIsFull ==
    \A s \in Sessions :
        call[s].pc = "answer" /\ call[s].outcome = "receipt_exhausted" =>
            LET r == call[s].jti
            IN  \/ count[r] = Max[r]
                \/ lock[r] = s /\ count[r] + uses[s][r] = Max[r]

IInv ==
    /\ TypeOK
    /\ WorkIsLocked /\ StatementIsLocked /\ StatementInTransaction
    /\ OnlyTransactionsHoldUses /\ WithinMaximum /\ AdmittedHasRoom
    /\ RevokedIsUnused /\ LastUseIsMarked /\ LastUseReportedOnce
    /\ ExhaustedIsFull /\ AdmittedNeverConflicts

(* What hosts are owed: the uses committed in autocommit whose answers are *)
(* on their way, and the use of an open transaction whose answer is.       *)
GrantOnItsWay(s, r) ==
    call[s].pc = "answer" /\ call[s].jti = r /\ call[s].outcome \in Grants
Owed(r) == {s \in Sessions : GrantOnItsWay(s, r) /\ tx[s] = "autocommit"}
Pending(s, r) == IF GrantOnItsWay(s, r) /\ tx[s] # "autocommit" THEN 1 ELSE 0

(* The second invariant, over the first: what is honoured, owed and told   *)
(* is backed by uses, and locks live only while their transaction does.    *)
HonourIsBacked ==
    \A r \in Receipts :
        /\ IsFiniteSet(Owed(r))
        /\ honoured[r] + Cardinality(Owed(r)) <= count[r]
ToldIsBacked ==
    \A s \in Sessions, r \in Receipts : told[s][r] + Pending(s, r) <= uses[s][r]
LockInTransaction ==
    \A s \in Sessions, r \in Receipts : lock[r] = s =>
        \/ tx[s] \in Isolation
        \/ /\ tx[s] = "autocommit" /\ call[s].pc \in {"decide", "update"}
           /\ call[s].cmd.jti = r

HInv ==
    /\ HonourIsBacked /\ ToldIsBacked /\ LockInTransaction
    /\ LockedRowsAreCurrent

(* The store keeps the promise of BoundedGrant.                            *)
Promise == INSTANCE BoundedGrant WITH
    used <- count, honoured <- honoured, closed <- revoked
KeepsPromise == Promise!Spec

=============================================================================
