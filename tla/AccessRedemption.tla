-------------------------- MODULE AccessRedemption --------------------------
(***************************************************************************)
(* Package access: redeemAccessReceipt, from the host's call to its        *)
(* result, over the in-memory store of examples/paid-resource.  A call     *)
(* captures the host's time, awaits the verifier, which reads a clock of   *)
(* its own, then in one go compares the bindings and runs the store's      *)
(* consume, and awaits its outcome.  Tokens are issued, revoked and        *)
(* expired meanwhile.  Times are in seconds.                               *)
(***************************************************************************)
EXTENDS Integers, FiniteSets

CONSTANTS
    Calls,      \* calls of redeemAccessReceipt
    Receipts,   \* the receipts issueReceipt may issue, by jti
    Max,        \* max_redemptions of every receipt
    Life,       \* RECEIPT_LIFETIME_SECONDS
    Tolerance,  \* the verifier's clockTolerance
    Horizon     \* bound: the clock stops here

ASSUME NumberAssumption ==
    /\ Max \in Nat \ {0} /\ Life \in Nat \ {0}
    /\ Tolerance \in Nat /\ Horizon \in Nat

VARIABLES
    clock,      \* the time
    issue,      \* issue[r]: where issueReceipt is with the receipt r
    iat,        \* iat[r]: its iat and nbf; exp is Life later
    record,     \* record[r]: the store's record, once registered
    call,       \* call[c]: where the call is, its token, time and outcome
    reply,      \* reply[c]: its result, or NoReply
    took        \* the uses taken: by which call, begun when (ghost)

vars == <<clock, issue, iat, record, call, reply, took>>

-----------------------------------------------------------------------------
(* A token: the receipt it names, whether header, signature, issuer and    *)
(* audience stand up to the verifier, and whether its claims match the     *)
(* bindings the host expects of this call (nobody asks of a forged one).   *)
Tokens == {t \in [receipt : Receipts, genuine : BOOLEAN, bound : BOOLEAN] :
              t.bound => t.genuine}

Denials == {"receipt_missing", "receipt_revoked", "receipt_exhausted",
            "receipt_expired", "authority_mismatch", "concurrency_conflict"}
Outcomes == [outcome : Denials] \cup [outcome : {"consumed"}, exhausted : BOOLEAN]
NoReply == [status |-> "none"]
Results ==
    [status : {"none", "verification_denied", "binding_denied", "system_failure"}]
    \cup [status : {"success"}, exhausted : BOOLEAN]
    \cup [status : {"consumption_denied"}, reason : Denials]

Idle == [at |-> "idle"]
CallStates ==
    {Idle} \cup [at : {"verify", "consume"}, token : Tokens, time : 0 .. Horizon]
           \cup [at : {"map"}, token : Tokens, time : 0 .. Horizon, outcome : Outcomes]

Records == [registered : BOOLEAN, altered : BOOLEAN, revoked : BOOLEAN,
            expired : BOOLEAN, count : Nat]
Unregistered == [registered |-> FALSE, altered |-> FALSE, revoked |-> FALSE,
                 expired |-> FALSE, count |-> 0]

TypeOK ==
    /\ clock \in 0 .. Horizon
    /\ issue \in [Receipts -> {"no", "signing", "issued"}]
    /\ iat \in [Receipts -> 0 .. Horizon]
    /\ record \in [Receipts -> Records]
    /\ call \in [Calls -> CallStates]
    /\ reply \in [Calls -> Results]
    /\ took \subseteq [call : Calls, receipt : Receipts, begun : 0 .. Horizon]

Init ==
    /\ clock = 0
    /\ issue = [r \in Receipts |-> "no"]
    /\ iat = [r \in Receipts |-> 0]
    /\ record = [r \in Receipts |-> Unregistered]
    /\ call = [c \in Calls |-> Idle]
    /\ reply = [c \in Calls |-> NoReply]
    /\ took = {}

-----------------------------------------------------------------------------
(* issueReceipt: a fresh jti for every call, dated before it is signed;    *)
(* the token is returned only once the store knows the receipt.            *)
SignReceiptAndReturn(r) ==
    /\ issue[r] = "no"
    /\ issue' = [issue EXCEPT ![r] = "issued"]
    /\ iat' = [iat EXCEPT ![r] = clock]
    /\ UNCHANGED <<clock, record, call, reply, took>>

SignReceipt(r) ==
    /\ issue[r] = "no"
    /\ issue' = [issue EXCEPT ![r] = "signing"]
    /\ iat' = [iat EXCEPT ![r] = clock]
    /\ UNCHANGED <<clock, record, call, reply, took>>

RegisterIssuedReceipt(r) ==
    /\ issue[r] = "signing"
    /\ issue' = [issue EXCEPT ![r] = "issued"]
    /\ record' = [record EXCEPT ![r].registered = TRUE]
    /\ UNCHANGED <<clock, iat, call, reply, took>>

(* The store's revoke and expire, and a change of the persisted authority. *)
Change(r, field) ==
    /\ field \in {"revoked", "expired", "altered"}
    /\ record[r].registered /\ ~record[r][field]
    /\ record' = [record EXCEPT ![r][field] = TRUE]
    /\ UNCHANGED <<clock, issue, iat, call, reply, took>>

-----------------------------------------------------------------------------
Exp(r) == iat[r] + Life
Finish(c, result) ==
    /\ call' = [call EXCEPT ![c] = Idle]
    /\ reply' = [reply EXCEPT ![c] = result]

(* The host calls with a token it was shown and with its current time.     *)
Start(c, token) ==
    /\ call[c] = Idle /\ reply[c] = NoReply
    /\ token.genuine => issue[token.receipt] = "issued"
    /\ call' = [call EXCEPT ![c] = [at |-> "verify", token |-> token, time |-> clock]]
    /\ UNCHANGED <<clock, issue, iat, record, reply, took>>

(* verifyToken: header, key, signature, issuer and audience, then the time *)
(* window with its tolerance; every failure is the same denial.            *)
Verified(token) ==
    /\ token.genuine
    /\ iat[token.receipt] <= clock + Tolerance
    /\ clock - Tolerance < Exp(token.receipt)

Verify(c) ==
    /\ call[c].at = "verify"
    /\ IF Verified(call[c].token)
       THEN call' = [call EXCEPT ![c].at = "consume"] /\ UNCHANGED reply
       ELSE Finish(c, [status |-> "verification_denied"])
    /\ UNCHANGED <<clock, issue, iat, record, took>>

ExpiredWithTolerance(r, time) == record[r].expired \/ time - Tolerance >= Exp(r)

(* The store compares with the time of the command; expire sets its own    *)
(* expiry to zero and leaves the authority alone.                          *)
Expired(r, time) == record[r].expired \/ time >= Exp(r)

(* DemoAccessReceiptStore.consume: what it answers, in its order.          *)
VerdictWithoutRevocation(r, time) ==
    IF ~record[r].registered THEN [outcome |-> "receipt_missing"]
    ELSE IF record[r].altered THEN [outcome |-> "authority_mismatch"]
    ELSE IF Expired(r, time) THEN [outcome |-> "receipt_expired"]
    ELSE IF record[r].count >= Max THEN [outcome |-> "receipt_exhausted"]
    ELSE [outcome |-> "consumed", exhausted |-> record[r].count + 1 >= Max]

VerdictEarlyExhaustion(r, time) ==
    IF ~record[r].registered THEN [outcome |-> "receipt_missing"]
    ELSE IF record[r].altered THEN [outcome |-> "authority_mismatch"]
    ELSE IF record[r].revoked THEN [outcome |-> "receipt_revoked"]
    ELSE IF Expired(r, time) THEN [outcome |-> "receipt_expired"]
    ELSE IF record[r].count >= Max THEN [outcome |-> "receipt_exhausted"]
    ELSE [outcome |-> "consumed", exhausted |-> record[r].count >= Max]

Verdict(r, time) ==
    IF ~record[r].registered THEN [outcome |-> "receipt_missing"]
    ELSE IF record[r].altered THEN [outcome |-> "authority_mismatch"]
    ELSE IF record[r].revoked THEN [outcome |-> "receipt_revoked"]
    ELSE IF Expired(r, time) THEN [outcome |-> "receipt_expired"]
    ELSE IF record[r].count >= Max THEN [outcome |-> "receipt_exhausted"]
    ELSE [outcome |-> "consumed", exhausted |-> record[r].count + 1 >= Max]

(* evaluateAccessReceiptBindings: the claims, validated once more, carry   *)
(* the subject, resource, policy, intent and maximum the host expects.     *)
Matched(token) == token.bound

(* The bindings, the command and the store's transition, without an await  *)
(* between them.                                                           *)
Consume(c) ==
    /\ call[c].at = "consume"
    /\ LET r == call[c].token.receipt
           verdict == Verdict(r, call[c].time)
           consumed == verdict.outcome = "consumed"
       IN  IF ~Matched(call[c].token)
           THEN Finish(c, [status |-> "binding_denied"]) /\ UNCHANGED <<record, took>>
           ELSE /\ call' = [call EXCEPT ![c] =
                     [at |-> "map", token |-> @.token, time |-> @.time,
                      outcome |-> verdict]]
                /\ record' = IF consumed THEN [record EXCEPT ![r].count = @ + 1]
                             ELSE record
                /\ took' = IF consumed
                            THEN took \cup {[call |-> c, receipt |-> r,
                                             begun |-> call[c].time]}
                            ELSE took
                /\ UNCHANGED reply
    /\ UNCHANGED <<clock, issue, iat>>

(* mapConsumeResult.                                                       *)
MapConsumeResult(c) ==
    /\ call[c].at = "map"
    /\ LET o == call[c].outcome
       IN  Finish(c, IF o.outcome = "consumed"
                     THEN [status |-> "success", exhausted |-> o.exhausted]
                     ELSE [status |-> "consumption_denied", reason |-> o.outcome])
    /\ UNCHANGED <<clock, issue, iat, record, took>>

(* The verifier fails other than by denying, or the answer of the store is *)
(* an exception, a system failure or no outcome of the contract, before or *)
(* after its transition.                                                   *)
Fail(c) ==
    /\ call[c].at \in {"verify", "map"}
    /\ Finish(c, [status |-> "system_failure"])
    /\ UNCHANGED <<clock, issue, iat, record, took>>

Tick ==
    /\ clock < Horizon
    /\ clock' = clock + 1
    /\ UNCHANGED <<issue, iat, record, call, reply, took>>

Next ==
    \/ Tick
    \/ \E r \in Receipts :
        \/ SignReceipt(r) \/ RegisterIssuedReceipt(r)
        \/ \E field \in DOMAIN Unregistered : Change(r, field)
    \/ \E c \in Calls :
        \/ \E token \in Tokens : Start(c, token)
        \/ Verify(c) \/ Consume(c) \/ MapConsumeResult(c) \/ Fail(c)

Spec == Init /\ [][Next]_vars

-----------------------------------------------------------------------------
Charged(c) == \E u \in took : u.call = c

(* The result never lies about a use: success is answered for a use this   *)
(* very call took, and after a denial of any kind it took none; only a     *)
(* system failure leaves the caller in doubt.                              *)
ResultIsHonest ==
    \A c \in Calls :
        /\ reply[c].status = "success" => Charged(c)
        /\ reply[c].status \in {"verification_denied", "binding_denied",
                                "consumption_denied"} => ~Charged(c)

(* At most one use of a receipt is answered as the exhausting one; when    *)
(* every use was answered with success, one is exactly if none is left.    *)
Uses(r) == {u \in took : u.receipt = r}
LastUseReportedOnce ==
    \A r \in Receipts :
        LET told == {u \in Uses(r) : reply[u.call].status = "success"}
            last == {u \in told : reply[u.call].exhausted}
        IN  /\ Cardinality(last) <= 1
            /\ told = Uses(r) => (last # {} <=> Cardinality(told) >= Max)

(* The verifier's tolerance never lengthens a receipt: every use was begun *)
(* by its host before the receipt's expiry.                                *)
ToleranceBuysNoUse == \A u \in took : u.begun < Exp(u.receipt)

(* A token somebody holds always finds its record.                         *)
HeldReceiptsAreKnown ==
    \A c \in Calls :
        reply[c] # [status |-> "consumption_denied", reason |-> "receipt_missing"]

(* The pipeline over this store keeps the promise of BoundedGrant.         *)
Promise == INSTANCE BoundedGrant WITH
    Max <- [r \in Receipts |-> Max],
    used <- [r \in Receipts |-> record[r].count],
    honoured <- [r \in Receipts |->
                    Cardinality({u \in Uses(r) : reply[u.call].status = "success"})],
    closed <- {r \in Receipts : record[r].revoked \/ record[r].expired}
KeepsPromise == Promise!Spec

=============================================================================
