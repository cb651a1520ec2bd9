---------------------------- MODULE LegacyIntents ----------------------------
(***************************************************************************)
(* The historical service: createAccessIntent and reconcileOpenAccess-     *)
(* Intents of src/services/fiber-latch-service.ts, and the worker that     *)
(* starts a reconciliation pass at every interval without waiting for the  *)
(* one before it.  Each create, and each candidate of a pass, is one       *)
(* transaction that asks the payment node in its middle: it reads, waits   *)
(* for the node, then writes and commits, or is rolled back.               *)
(***************************************************************************)
EXTENDS Integers, Sequences

CONSTANTS
    Creates,    \* calls of createAccessIntent; each stores at most one intent,
                \* which is named after it
    Key,        \* Key[c]: its idempotencyKey, NoKey, or Blank (only spaces)
    Ref,        \* Ref[c]: its paymentRef, NoRef, or Blank
    NoKey, Blank, NoRef,
    Passes,     \* the passes that may overlap
    Modes,      \* what fiberClient.mode may be configured to
    Retries,    \* whether a payer may pay again after a payment failed
    Mute        \* the payments of whose lookups nothing is assumed: each may
                \* throw, or outlast the transaction

ASSUME KindAssumption == Creates \cap Passes = {} /\ "nobody" \notin Creates \cup Passes
ASSUME ModeAssumption == Modes \subseteq {"fake", "real"} /\ Retries \in BOOLEAN

VARIABLES
    mode,       \* fiberClient.mode, fixed when the service is built
    status,     \* status[i]: the stored intent's, or "ABSENT"
    receipt,    \* receipt[i]: who issued its receipt (the jti), or Nobody
    order,      \* the stored intents by createdAt
    events,     \* events[i]: the event types logged for the intent, in order
    lapsed,     \* the intents whose expiresAt has passed
    node,       \* node[r]: what the payment node knows of a reference
    call,       \* call[c]: where the create is, and what the node told it
    reply,      \* reply[c]: its answer, or NoReply
    repeats,    \* the creates whose key was stored before they began (ghost)
    pass        \* pass[p]: where the pass is, its candidates, what it read

vars == <<mode, status, receipt, events, order, lapsed, node, call, reply, repeats, pass>>

-----------------------------------------------------------------------------
(* A blank reference, trimmed to "", is falsy: it is stored, and its unique *)
(* index sees it, but there is no payment to ask about.                    *)
HasRef(i) == Ref[i] \notin {NoRef, Blank}
Refs == {Ref[c] : c \in Creates} \ {NoRef, Blank}
Nobody == "nobody"
Issuers == Creates \cup Passes

Statuses == {"PENDING_VERIFICATION", "VERIFIED", "RECEIPT_ISSUED", "REJECTED",
             "EXPIRED"}
Events == {"ACCESS_INTENT_CREATED", "ACCESS_INTENT_PAYMENT_PENDING",
           "ACCESS_INTENT_VERIFIED", "ACCESS_INTENT_REJECTED",
           "ACCESS_INTENT_EXPIRED", "ACCESS_RECEIPT_ISSUED"}
States == {"waiting", "payment_pending", "paid_verified", "expired", "failed",
           "unknown"}

NoReply == [outcome |-> "none"]
Replies == {NoReply} \cup
    [outcome : {"created", "existing"}, intent : Creates,
     token : Issuers \cup {Nobody}] \cup
    [outcome : {"conflict", "failed"}]

Idle == [at |-> "idle", todo |-> <<>>, base |-> "ABSENT", told |-> "waiting"]

TypeOK ==
    /\ mode \in Modes
    /\ status \in [Creates -> Statuses \cup {"ABSENT"}]
    /\ receipt \in [Creates -> Issuers \cup {Nobody}]
    /\ events \in [Creates -> Seq(Events)]
    /\ order \in Seq(Creates)
    /\ lapsed \subseteq Creates
    /\ node \in [Refs -> {"payment_pending", "paid_verified", "expired", "failed"}]
    /\ call \in [Creates -> [at : {"start", "ask", "insert", "done"}, told : States]]
    /\ reply \in [Creates -> Replies]
    /\ repeats \subseteq Creates
    /\ \A p \in Passes :
        /\ pass[p].at \in {"idle", "next", "ask", "write"}
        /\ pass[p].todo \in Seq(Creates)
        /\ pass[p].base \in Statuses \cup {"ABSENT"}
        /\ pass[p].told \in States

Init ==
    /\ mode \in Modes
    /\ status = [i \in Creates |-> "ABSENT"]
    /\ receipt = [i \in Creates |-> Nobody]
    /\ events = [i \in Creates |-> <<>>]
    /\ order = <<>>
    /\ lapsed = {}
    /\ node \in [Refs -> {"payment_pending", "paid_verified"}]
    /\ call = [c \in Creates |-> [at |-> "start", told |-> "waiting"]]
    /\ reply = [c \in Creates |-> NoReply]
    /\ repeats = {}
    /\ pass = [p \in Passes |-> Idle]

-----------------------------------------------------------------------------

(* mapFiberRawStatus: what a state of the payment makes of an intent.      *)
IntentStatus(told) ==
    CASE told = "paid_verified" -> "VERIFIED"
      [] told = "expired" -> "EXPIRED"
      [] told = "failed" -> "REJECTED"
      [] OTHER -> "PENDING_VERIFICATION"

(* The payment node.  Whether it answers with the payment's state or with  *)
(* a status the service does not know is its choice ("unknown" stands for  *)
(* no status too: "waiting" is treated alike).  The fake client calls a    *)
(* reference paid, unpaid or unknown by its spelling, once and for all.    *)
MayTell(r) == {node[r]} \cup
    IF mode = "fake" /\ node[r] = "paid_verified" THEN {} ELSE {"unknown"}

(* The node's own steps: a pending payment is settled, and a payer may try *)
(* again after a failure.                                                  *)
Resolve(r, s) ==
    /\ mode = "real"
    /\ \/ node[r] = "payment_pending" /\ s \in {"paid_verified", "expired", "failed"}
       \/ Retries /\ node[r] = "failed" /\ s = "payment_pending"
    /\ node' = [node EXCEPT ![r] = s]
    /\ UNCHANGED <<mode, status, receipt, events, order, lapsed, call, reply, repeats, pass>>

(* expiresAt passes; only the deadline of an intent without a payment      *)
(* reference is ever looked at.                                            *)
Lapse(i) ==
    /\ status[i] # "ABSENT" /\ ~HasRef(i) /\ i \notin lapsed
    /\ lapsed' = lapsed \cup {i}
    /\ UNCHANGED <<mode, status, receipt, events, order, node, call, reply, repeats, pass>>

-----------------------------------------------------------------------------
(* createAccessIntent.  A blank key is trimmed to "", which is falsy: it   *)
(* is stored, and the unique index sees it, but it is not looked up.       *)
Stored(i) == status[i] # "ABSENT"
WithKey(k) == {i \in Creates : Stored(i) /\ Key[i] = k}
LookedUp(c) == IF Key[c] \in {NoKey, Blank} THEN {} ELSE WithKey(Key[c])

Answer(c, r) ==
    /\ call' = [call EXCEPT ![c] = [at |-> "done", told |-> "waiting"]]
    /\ reply' = [reply EXCEPT ![c] = r]

LookUp(c) ==
    /\ call[c].at = "start"
    /\ repeats' = IF Key[c] # NoKey /\ WithKey(Key[c]) # {}
                  THEN repeats \cup {c} ELSE repeats
    /\ IF LookedUp(c) # {}
       THEN \E i \in LookedUp(c) :
               Answer(c, [outcome |-> "existing", intent |-> i, token |-> Nobody])
       ELSE /\ call' = [call EXCEPT ![c].at = IF HasRef(c) THEN "ask"
                                              ELSE "insert"]
            /\ UNCHANGED reply
    /\ UNCHANGED <<mode, status, receipt, events, order, lapsed, node, pass>>

VerifyPayment(c) ==
    /\ call[c].at = "ask"
    /\ \E told \in MayTell(Ref[c]) :
          call' = [call EXCEPT ![c] = [at |-> "insert", told |-> told]]
    /\ UNCHANGED <<mode, status, receipt, events, order, lapsed, node, reply, repeats, pass>>

(* Mutation of Taken: only the index on paymentRef is there.               *)
TakenByPayment(c) == Ref[c] # NoRef /\ \E i \in Creates : Stored(i) /\ Ref[i] = Ref[c]

(* Mutation of Taken: only the index on idempotencyKey is there.           *)
TakenByKey(c) == Key[c] # NoKey /\ WithKey(Key[c]) # {}

(* The unique indexes on idempotencyKey and paymentRef, null excepted.     *)
Taken(c) ==
    \/ TakenByPayment(c)
    \/ Key[c] # NoKey /\ WithKey(Key[c]) # {}

ShouldIssueImmediately(c) ==
    mode = "fake" /\ HasRef(c) /\ call[c].told = "paid_verified"

(* The events of the transaction that creates, closes or issues.           *)
ClosingEventAsExpired(told) == <<"ACCESS_INTENT_EXPIRED">>
ClosingEvent(told) == IF told = "expired" THEN <<"ACCESS_INTENT_EXPIRED">>
                      ELSE <<"ACCESS_INTENT_REJECTED">>
IssueEvents == <<"ACCESS_INTENT_VERIFIED", "ACCESS_RECEIPT_ISSUED">>
CreateEvents(told) ==
    CASE told \in {"waiting", "payment_pending"} -> <<"ACCESS_INTENT_PAYMENT_PENDING">>
      [] told \in {"expired", "failed"} -> ClosingEvent(told)
      [] told = "paid_verified" -> <<"ACCESS_INTENT_VERIFIED">>
      [] told = "unknown" -> <<>>

(* The row, its receipt in fake mode, and the commit; the answer of a      *)
(* committed create may still be lost.                                     *)
Insert(c) ==
    /\ call[c].at = "insert"
    /\ IF Taken(c)
       THEN /\ Answer(c, [outcome |-> "conflict"])
            /\ UNCHANGED <<status, receipt, events, order>>
       ELSE LET issued == ShouldIssueImmediately(c)
                token == IF issued THEN c ELSE Nobody
            IN  /\ status' = [status EXCEPT ![c] =
                      IF issued THEN "RECEIPT_ISSUED" ELSE IntentStatus(call[c].told)]
                /\ receipt' = [receipt EXCEPT ![c] = token]
                /\ events' = [events EXCEPT ![c] =
                      <<"ACCESS_INTENT_CREATED">> \o
                      (IF issued THEN IssueEvents ELSE CreateEvents(call[c].told))]
                /\ order' = Append(order, c)
                /\ \/ Answer(c, [outcome |-> "created", intent |-> c,
                                 token |-> token])
                   \/ Answer(c, [outcome |-> "failed"])
    /\ UNCHANGED <<mode, lapsed, node, repeats, pass>>

(* The node or the database throws, or the transaction runs out of time.   *)
FailCreate(c) ==
    /\ call[c].at \notin {"start", "done"}
    /\ Answer(c, [outcome |-> "failed"])
    /\ UNCHANGED <<mode, status, receipt, events, order, lapsed, node, repeats, pass>>

-----------------------------------------------------------------------------
ReconcilableIfPending(i) == status[i] = "PENDING_VERIFICATION"

(* reconcileOpenAccessIntents: one list, read once, worked off in order.   *)
Reconcilable(i) ==
    \/ status[i] = "PENDING_VERIFICATION"
    \/ status[i] = "VERIFIED" /\ receipt[i] = Nobody

StartPass(p) ==
    /\ pass[p].at = "idle"
    /\ pass' = [pass EXCEPT ![p].at = "next",
                            ![p].todo = SelectSeq(order, Reconcilable)]
    /\ UNCHANGED <<mode, status, receipt, events, order, lapsed, node, call, reply, repeats>>

Candidate(p) == Head(pass[p].todo)
Onward(p) == pass' = [pass EXCEPT ![p] = [Idle EXCEPT !.at = "next",
                                                      !.todo = Tail(pass[p].todo)]]

Log(i, new) == events' = [events EXCEPT ![i] = @ \o new]

(* Closing an intent again with the same status leaves no second event.    *)
Close(i, told) ==
    /\ status' = [status EXCEPT ![i] = IntentStatus(told)]
    /\ Log(i, IF status[i] = IntentStatus(told) THEN <<>> ELSE ClosingEvent(told))

(* reconcileSingleAccessIntent reads the candidate again and passes over   *)
(* one that is gone.  It does not ask whether its status still makes it    *)
(* one.                                                                    *)
Reread(p) ==
    /\ pass[p].at = "next" /\ pass[p].todo # <<>>
    /\ LET i == Candidate(p)
           done == ~Stored(i) \/ (receipt[i] # Nobody /\ status[i] = "RECEIPT_ISSUED")
       IN  IF ~done /\ HasRef(i)
           THEN /\ pass' = [pass EXCEPT ![p].at = "ask", ![p].base = status[i]]
                /\ UNCHANGED <<status, events>>
           ELSE /\ Onward(p)
                /\ IF ~done /\ i \in lapsed THEN Close(i, "expired")
                   ELSE UNCHANGED <<status, events>>
    /\ UNCHANGED <<mode, receipt, order, lapsed, node, call, reply, repeats>>

AskNode(p, told) ==
    /\ pass[p].at = "ask"
    /\ told \in MayTell(Ref[Candidate(p)])
    /\ pass' = [pass EXCEPT ![p].at = "write", ![p].told = told]
    /\ UNCHANGED <<mode, status, receipt, events, order, lapsed, node, call, reply, repeats>>

(* SQLite is serializable: a transaction whose reads are out of date does  *)
(* not commit.                                                             *)
Undisturbed(p) == pass[p].at = "write" => status[Candidate(p)] = pass[p].base

IssueReceiptUndated(p, i) ==
    /\ receipt' = [receipt EXCEPT ![i] = IF @ = Nobody THEN p ELSE @]
    /\ Log(i, IF receipt[i] = Nobody THEN IssueEvents ELSE <<>>)
    /\ status' = [status EXCEPT ![i] = "VERIFIED"]

(* issueReceiptForIntent: an existing receipt is kept; either way the      *)
(* intent is marked RECEIPT_ISSUED.  The token signed here goes nowhere.   *)
IssueReceipt(p, i) ==
    /\ receipt' = [receipt EXCEPT ![i] = IF @ = Nobody THEN p ELSE @]
    /\ Log(i, IF receipt[i] = Nobody THEN IssueEvents ELSE <<>>)
    /\ status' = [status EXCEPT ![i] = "RECEIPT_ISSUED"]

WriteOutcome(p) ==
    /\ pass[p].at = "write" /\ Undisturbed(p)
    /\ LET i == Candidate(p)
           told == pass[p].told
       IN  IF told = "paid_verified" THEN IssueReceipt(p, i)
           ELSE /\ IF told \in {"expired", "failed"} THEN Close(i, told)
                   ELSE UNCHANGED <<status, events>>
                /\ UNCHANGED receipt
    /\ Onward(p)
    /\ UNCHANGED <<mode, order, lapsed, node, call, reply, repeats>>

FinishPass(p) ==
    /\ pass[p].at = "next" /\ pass[p].todo = <<>>
    /\ pass' = [pass EXCEPT ![p] = Idle]
    /\ UNCHANGED <<mode, status, receipt, events, order, lapsed, node, call, reply, repeats>>

(* An exception in one candidate's transaction abandons the whole pass,    *)
(* and the worker swallows it; so does a crash.                            *)
AbandonPass(p) ==
    /\ pass[p].at # "idle"
    /\ pass' = [pass EXCEPT ![p] = Idle]
    /\ UNCHANGED <<mode, status, receipt, events, order, lapsed, node, call, reply, repeats>>

Next ==
    \/ \E r \in Refs, s \in States : Resolve(r, s)
    \/ \E i \in Creates : Lapse(i)
    \/ \E c \in Creates : LookUp(c) \/ VerifyPayment(c) \/ Insert(c) \/ FailCreate(c)
    \/ \E p \in Passes :
        \/ StartPass(p) \/ Reread(p) \/ WriteOutcome(p) \/ FinishPass(p)
        \/ AbandonPass(p) \/ \E told \in States : AskNode(p, told)

Spec == Init /\ [][Next]_vars

(* The worker's timer starts passes again and again and the event loop     *)
(* runs them.  A lookup ends: the node answers, or it throws or its        *)
(* transaction runs out of time and the pass is abandoned.  A payment that *)
(* is not mute and is asked about again and again is told in the end; the  *)
(* database lets a step through that it is asked for again and again.      *)
At(p, i, place) ==
    pass[p].at = place /\ pass[p].todo # <<>> /\ Candidate(p) = i
Answers(i) == HasRef(i) /\ Ref[i] \notin Mute
EndLookup(p) ==
    /\ pass[p].at = "ask"
    /\ AbandonPass(p) \/ \E told \in States : AskNode(p, told)
FairSpec ==
    /\ Spec
    /\ \A p \in Passes :
        /\ WF_vars(StartPass(p)) /\ WF_vars(FinishPass(p)) /\ WF_vars(EndLookup(p))
        /\ WF_vars(WriteOutcome(p)) /\ WF_vars(~Undisturbed(p) /\ AbandonPass(p))
        /\ \A i \in Creates :
            /\ SF_vars(At(p, i, "next") /\ Reread(p))
            /\ SF_vars(At(p, i, "ask") /\ Answers(i) /\ AskNode(p, node[Ref[i]]))
            /\ SF_vars(At(p, i, "write") /\ pass[p].told # "unknown" /\ WriteOutcome(p))

-----------------------------------------------------------------------------
(* An intent is RECEIPT_ISSUED exactly when its receipt is stored, however *)
(* creates and overlapping passes interleave.                              *)
StatusMatchesReceipt ==
    \A i \in Creates : status[i] = "RECEIPT_ISSUED" <=> receipt[i] # Nobody

(* Every receipt is for a payment the node has settled as paid.  This, the *)
(* next property and TokensAreBacked are what KeepsSale says of a moment.  *)
ReceiptMeansPaid ==
    \A i \in Creates :
        receipt[i] # Nobody => HasRef(i) /\ node[Ref[i]] = "paid_verified"

(* One payment buys one receipt: the unique index on payments.             *)
PaymentBuysOneReceipt ==
    \A i, j \in Creates :
        i # j /\ receipt[i] # Nobody /\ receipt[j] # Nobody => Ref[i] # Ref[j]

(* The event log tells the intent's status: its last event is the one the  *)
(* status stands for, and a receipt is logged once, with the commit that   *)
(* stored it.                                                              *)
Announces(s) ==
    CASE s = "PENDING_VERIFICATION" ->
            {"ACCESS_INTENT_CREATED", "ACCESS_INTENT_PAYMENT_PENDING"}
      [] s = "VERIFIED" -> {"ACCESS_INTENT_VERIFIED"}
      [] s = "RECEIPT_ISSUED" -> {"ACCESS_RECEIPT_ISSUED"}
      [] s = "REJECTED" -> {"ACCESS_INTENT_REJECTED"}
      [] s = "EXPIRED" -> {"ACCESS_INTENT_EXPIRED"}

LogTellsStatus ==
    \A i \in Creates : Stored(i) =>
        LET log == events[i]
            issues == {n \in 1 .. Len(log) : log[n] = "ACCESS_RECEIPT_ISSUED"}
        IN  /\ log[Len(log)] \in Announces(status[i])
            /\ \A m, n \in issues : m = n

(* All answers to creates with one idempotency key name the same intent.   *)
Answered == {c \in Creates : reply[c].outcome \in {"created", "existing"}}
KeyNamesOneIntent ==
    \A c, d \in Answered :
        Key[c] = Key[d] /\ Key[c] # NoKey => reply[c].intent = reply[d].intent

(* A token is handed to a caller only for the receipt that is stored.      *)
TokensAreBacked ==
    \A c \in Answered :
        reply[c].token # Nobody => receipt[reply[c].intent] = reply[c].token

(* docs/api-contract.md: "If `idempotencyKey` already exists, the existing *)
(* intent is returned": no such create is refused as a duplicate.          *)
RepeatFindsTheIntent ==
    \A c \in repeats : reply[c].outcome # "conflict"

(* docs/state-machine.md: "`REJECTED` and `EXPIRED` are terminal".         *)
TerminalIntentsAreFinal ==
    [][\A i \in Creates :
        status[i] \in {"REJECTED", "EXPIRED"} => status'[i] = status[i]]_vars

(* Every open intent whose payment is settled as paid gets its receipt,    *)
(* whatever passes are abandoned on the way, with two exceptions.  A pass  *)
(* that was told of a failure and has yet to write may still reject it,    *)
(* though the payer has paid since: no pass looks at it again.  And every  *)
(* pass ends at a candidate whose lookup throws, so a mute payment starves *)
(* those created after it, and only those, while it is a candidate.        *)
RefusalUnderway(i) ==
    \E p \in Passes : At(p, i, "write") /\ pass[p].told = "failed"
IsReached(i) ==
    \E n \in DOMAIN order :
        /\ order[n] = i /\ Answers(i)
        /\ \A m \in 1 .. n - 1 : Reconcilable(order[m]) => ~HasRef(order[m]) \/ Answers(order[m])
PaidIntentsGetReceipts ==
    \A i \in Creates :
        (status[i] \in {"PENDING_VERIFICATION", "VERIFIED"} /\ IsReached(i)
            /\ node[Ref[i]] = "paid_verified" /\ ~RefusalUnderway(i))
            ~> receipt[i] # Nobody

(* The service keeps the promise of PaidReceipts: creates and overlapping  *)
(* passes sell one receipt for each settled payment, none is withdrawn or  *)
(* replaced, and no answer carries another token.                          *)
Sold == {[payment |-> Ref[i], intent |-> i, issuer |-> receipt[i]] :
            i \in {j \in Creates : receipt[j] # Nobody}}
Shown == {[payment |-> Ref[reply[c].intent], intent |-> reply[c].intent,
           issuer |-> reply[c].token] : c \in {d \in Answered : reply[d].token # Nobody}}
Sale == INSTANCE PaidReceipts WITH
    Payments <- Refs,
    Intents <- Creates,
    paid <- {r \in Refs : node[r] = "paid_verified"},
    sold <- Sold,
    shown <- Shown
KeepsSale == Sale!Spec

=============================================================================
