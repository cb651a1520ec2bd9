-------------------------- MODULE LegacyIntentsProofs --------------------------
(***************************************************************************)
(* Safety of LegacyIntents for every set of creates and passes: an         *)
(* intent's status, its receipt, its payment and its log agree however     *)
(* creates, passes and the payment node interleave.                        *)
(***************************************************************************)
EXTENDS LegacyIntents, TLAPS

USE DEF HasRef

(* The types the proofs use.  What a pass has yet to do is not among them: *)
(* no step of a pass needs it to consist of stored intents.                *)
PassStates(Any) == [at : {"idle", "next", "ask", "write"}, todo : Any, base : Any,
                    told : States]
NodeStates == {"payment_pending", "paid_verified", "expired", "failed"}
Types ==
    /\ status \in [Creates -> Statuses \cup {"ABSENT"}]
    /\ receipt \in [Creates -> Issuers \cup {Nobody}]
    /\ events \in [Creates -> Seq(Events)]
    /\ node \in [Refs -> NodeStates]
    /\ call \in [Creates -> [at : {"start", "ask", "insert", "done"}, told : States]]
    /\ reply \in [Creates -> Replies]
    /\ \E Any : pass \in [Passes -> PassStates(Any)]

Paid(i) == HasRef(i) /\ node[Ref[i]] = "paid_verified"
Issued == "ACCESS_RECEIPT_ISSUED"

(* What a create was told of a payment that is paid stays true, and the    *)
(* only token it hands out is the one of the receipt it issued.            *)
CreateInv(c) ==
    /\ call[c].at = "start" => call[c].told = "waiting"
    /\ call[c].at = "ask" => HasRef(c)
    /\ call[c].at = "insert" /\ call[c].told = "paid_verified" => Paid(c)
    /\ call[c].at # "done" => reply[c] = NoReply
    /\ c \in Answered /\ reply[c].token # Nobody =>
            reply[c].intent = c /\ receipt[c] = reply[c].token

(* A pass asks and writes about stored intents it read without a receipt.  *)
PassInv(p) ==
    /\ pass[p].at \in {"ask", "write"} => HasRef(Candidate(p))
    /\ pass[p].at \in {"ask", "write"} /\ Candidate(p) \in Creates =>
            pass[p].base \notin {"RECEIPT_ISSUED", "ABSENT"}
    /\ pass[p].at = "write" /\ pass[p].told = "paid_verified"
            /\ Candidate(p) \in Creates => Paid(Candidate(p))

(* Status, receipt, payment and log of an intent agree.                    *)
IntentInv(i) ==
    /\ status[i] = "RECEIPT_ISSUED" <=> receipt[i] # Nobody
    /\ receipt[i] # Nobody => Paid(i)
    /\ Stored(i) => /\ Len(events[i]) > 0
                    /\ events[i][Len(events[i])] \in Announces(status[i])
    /\ \A m, n \in 1 .. Len(events[i]) :
            events[i][m] = Issued /\ events[i][n] = Issued => m = n
    /\ receipt[i] = Nobody => \A n \in 1 .. Len(events[i]) : events[i][n] # Issued

NInv ==
    /\ Types
    /\ \A i \in Creates : IntentInv(i) /\ CreateInv(i)
    /\ \A p \in Passes : PassInv(p)

-----------------------------------------------------------------------------
(* Appending to a log.                                                     *)
LEMMA Appending ==
    ASSUME NEW s \in Seq(Events), NEW t \in Seq(Events)
    PROVE  /\ s \o t \in Seq(Events) /\ Len(s \o t) = Len(s) + Len(t)
           /\ Len(s) \in Nat /\ Len(t) \in Nat
           /\ \A n \in 1 .. Len(s) + Len(t) :
                  (s \o t)[n] = IF n <= Len(s) THEN s[n] ELSE t[n - Len(s)]
  OBVIOUS

LEMMA NewEvents ==
    /\ \A told \in States : /\ ClosingEvent(told) \in Seq(Events)
                            /\ CreateEvents(told) \in Seq(Events)
    /\ IssueEvents \in Seq(Events) /\ <<>> \in Seq(Events)
    /\ <<"ACCESS_INTENT_CREATED">> \in Seq(Events)
  BY DEF ClosingEvent, CreateEvents, IssueEvents, Events, States

LEMMA NobodyIssues == Nobody \notin Issuers
  BY KindAssumption DEF Nobody, Issuers

(* The steps of a create, and those of a pass.                             *)
CreateStep(c) == LookUp(c) \/ VerifyPayment(c) \/ Insert(c) \/ FailCreate(c)
PassStep(p) ==
    \/ StartPass(p) \/ Reread(p) \/ WriteOutcome(p) \/ FinishPass(p) \/ AbandonPass(p)
    \/ \E told \in States : AskNode(p, told)

LEMMA StepsOfNext ==
    ASSUME [Next]_vars
    PROVE  \/ \E r \in Refs, s \in States : Resolve(r, s)
           \/ \E i \in Creates : Lapse(i)
           \/ \E c \in Creates : CreateStep(c)
           \/ \E p \in Passes : PassStep(p)
           \/ UNCHANGED vars
  BY DEF Next, CreateStep, PassStep

(* What the node may tell is a state, and it says paid only when it is so. *)
LEMMA Telling ==
    ASSUME Types, NEW r \in Refs, NEW told \in MayTell(r)
    PROVE  told \in States /\ (told = "paid_verified" => node[r] = "paid_verified")
  BY DEF Types, MayTell, States, NodeStates

(* A create changes its own intent at most; this is how it inserts it.     *)
Inserts(c) ==
    \E issued \in BOOLEAN :
        /\ call[c].at = "insert"
        /\ issued => HasRef(c) /\ call[c].told = "paid_verified"
        /\ status' = [status EXCEPT ![c] =
                         IF issued THEN "RECEIPT_ISSUED" ELSE IntentStatus(call[c].told)]
        /\ receipt' = [receipt EXCEPT ![c] = IF issued THEN c ELSE Nobody]
        /\ events' = [events EXCEPT ![c] =
                <<"ACCESS_INTENT_CREATED">> \o
                (IF issued THEN IssueEvents ELSE CreateEvents(call[c].told))]
        /\ reply' \in {[reply EXCEPT ![c] = r] : r \in
                {[outcome |-> "created", intent |-> c, token |-> IF issued THEN c ELSE Nobody],
                 [outcome |-> "failed"]}}

LEMMA InsertCases ==
    ASSUME NEW c \in Creates, Insert(c)
    PROVE  \/ Inserts(c)
           \/ /\ UNCHANGED <<status, receipt, events>>
              /\ reply' = [reply EXCEPT ![c] = [outcome |-> "conflict"]]
  <1>1. CASE Taken(c)
    BY <1>1 DEF Insert, Answer
  <1>2. CASE ~Taken(c)
    <2>1. CASE ShouldIssueImmediately(c)
      BY <1>2, <2>1 DEF Insert, Answer, Inserts, ShouldIssueImmediately
    <2>2. CASE ~ShouldIssueImmediately(c)
      BY <1>2, <2>2 DEF Insert, Answer, Inserts
    <2> QED BY <2>1, <2>2
  <1> QED BY <1>1, <1>2

(* A pass changes its candidate at most: closes it, or issues its receipt. *)
Closes(i) ==
    \E told \in {"expired", "failed"} :
        Close(i, told) /\ UNCHANGED receipt /\ (i \in Creates => receipt[i] = Nobody /\ Stored(i))
Issues(p, i) == IssueReceipt(p, i) /\ (i \in Creates => Paid(i) /\ Stored(i))

LEMMA PassCases ==
    ASSUME NInv, NEW p \in Passes, PassStep(p)
    PROVE  /\ UNCHANGED <<node, call, reply, mode>>
           /\ \/ UNCHANGED <<status, receipt, events>>
              \/ Closes(Candidate(p))
              \/ Issues(p, Candidate(p))
  <1>0. /\ PassInv(p) /\ \A i \in Creates : IntentInv(i)
    BY DEF NInv
  <1>1. UNCHANGED <<node, call, reply, mode>>
    BY DEF PassStep, StartPass, Reread, WriteOutcome, FinishPass, AbandonPass, AskNode
  <1>2. CASE Reread(p)
    <2> DEFINE i == Candidate(p)
               done == ~Stored(i) \/ (receipt[i] # Nobody /\ status[i] = "RECEIPT_ISSUED")
    <2>1. UNCHANGED receipt /\ (UNCHANGED <<status, events>> \/ (~done /\ Close(i, "expired")))
      BY <1>2 DEF Reread
    <2>2. i \in Creates /\ ~done => receipt[i] = Nobody /\ Stored(i)
      BY <1>0 DEF IntentInv
    <2> QED BY <1>1, <2>1, <2>2 DEF Closes
  <1>3. CASE WriteOutcome(p)
    <2>1. /\ pass[p].at = "write" /\ status[Candidate(p)] = pass[p].base
          /\ Candidate(p) \in Creates => pass[p].base \notin {"RECEIPT_ISSUED", "ABSENT"}
      BY <1>0, <1>3 DEF WriteOutcome, Undisturbed, PassInv
    <2>2. Candidate(p) \in Creates => receipt[Candidate(p)] = Nobody /\ Stored(Candidate(p))
      BY <1>0, <2>1 DEF IntentInv, Stored
    <2>3. CASE pass[p].told = "paid_verified"
      BY <1>0, <1>1, <1>3, <2>1, <2>2, <2>3 DEF WriteOutcome, Issues, PassInv
    <2>4. CASE pass[p].told # "paid_verified"
      BY <1>1, <1>3, <2>2, <2>4 DEF WriteOutcome, Closes
    <2> QED BY <2>3, <2>4
  <1>4. CASE ~Reread(p) /\ ~WriteOutcome(p)
    BY <1>1, <1>4 DEF PassStep, StartPass, FinishPass, AbandonPass, AskNode
  <1> QED BY <1>2, <1>3, <1>4

-----------------------------------------------------------------------------
(* The types of a log, a status and a receipt after a step.                *)
LEMMA IntentTypes ==
    ASSUME Types, NEW i, NEW s \in Statuses, NEW t \in Seq(Events),
           NEW r \in Issuers \cup {Nobody}
    PROVE  /\ [status EXCEPT ![i] = s] \in [Creates -> Statuses \cup {"ABSENT"}]
           /\ [receipt EXCEPT ![i] = r] \in [Creates -> Issuers \cup {Nobody}]
           /\ [events EXCEPT ![i] = t] \in [Creates -> Seq(Events)]
           /\ [events EXCEPT ![i] = @ \o t] \in [Creates -> Seq(Events)]
  <1>1. \A c \in Creates : events[c] \in Seq(Events) /\ events[c] \o t \in Seq(Events)
    BY DEF Types
  <1>2. [events EXCEPT ![i] = @ \o t] = [c \in Creates |-> IF c = i THEN events[c] \o t ELSE events[c]]
    BY DEF Types
  <1>3. [events EXCEPT ![i] = @ \o t] \in [Creates -> Seq(Events)]
    BY <1>1, <1>2
  <1> QED BY <1>3 DEF Types

LEMMA StatusTypes == \A told \in States : IntentStatus(told) \in Statuses
  BY DEF IntentStatus, Statuses, States

LEMMA CreateTypes ==
    ASSUME NInv, NEW c \in Creates, CreateStep(c)
    PROVE  Types'
  <1> Types /\ CreateInv(c)
    BY DEF NInv
  <1>0. /\ call[c] \in [at : {"start", "ask", "insert", "done"}, told : States]
        /\ call \in [Creates -> [at : {"start", "ask", "insert", "done"}, told : States]]
        /\ reply \in [Creates -> Replies] /\ "waiting" \in States
    BY DEF Types, States
  <1>1. UNCHANGED <<node, pass>>
    BY DEF CreateStep, LookUp, VerifyPayment, Insert, FailCreate
  <1>2. call' \in [Creates -> [at : {"start", "ask", "insert", "done"}, told : States]]
    <2>1. CASE VerifyPayment(c)
      <3>1. PICK told \in MayTell(Ref[c]) :
                call' = [call EXCEPT ![c] = [at |-> "insert", told |-> told]]
        BY <2>1 DEF VerifyPayment
      <3>2. told \in States
        <4>1. Ref[c] \in Refs
          BY <2>1 DEF VerifyPayment, CreateInv, Refs
        <4> QED BY <4>1, Telling
      <3> QED BY <1>0, <3>1, <3>2
    <2>2. CASE LookUp(c) \/ Insert(c) \/ FailCreate(c)
      <3>1. \/ call' = [call EXCEPT ![c] = [at |-> "done", told |-> "waiting"]]
            \/ call' = [call EXCEPT ![c].at = "insert"]
            \/ call' = [call EXCEPT ![c].at = "ask"]
        BY <2>2 DEF LookUp, Insert, FailCreate, Answer
      <3> QED BY <1>0, <3>1
    <2> QED BY <2>1, <2>2 DEF CreateStep
  <1>3. reply' \in [Creates -> Replies] /\ status' \in [Creates -> Statuses \cup {"ABSENT"}]
        /\ receipt' \in [Creates -> Issuers \cup {Nobody}] /\ events' \in [Creates -> Seq(Events)]
    <2>1. CASE Insert(c)
      <3>1. CASE Inserts(c)
        <4>1. PICK issued \in BOOLEAN :
                /\ status' = [status EXCEPT ![c] =
                         IF issued THEN "RECEIPT_ISSUED" ELSE IntentStatus(call[c].told)]
                /\ receipt' = [receipt EXCEPT ![c] = IF issued THEN c ELSE Nobody]
                /\ events' = [events EXCEPT ![c] =
                      <<"ACCESS_INTENT_CREATED">> \o
                      (IF issued THEN IssueEvents ELSE CreateEvents(call[c].told))]
                /\ reply' \in {[reply EXCEPT ![c] = r] : r \in
                      {[outcome |-> "created", intent |-> c,
                        token |-> IF issued THEN c ELSE Nobody],
                       [outcome |-> "failed"]}}
          BY <3>1 DEF Inserts
        <4>2. /\ (IF issued THEN "RECEIPT_ISSUED" ELSE IntentStatus(call[c].told)) \in Statuses
              /\ (IF issued THEN c ELSE Nobody) \in Issuers \cup {Nobody}
          BY <1>0, StatusTypes DEF Statuses, Issuers
        <4>3. <<"ACCESS_INTENT_CREATED">> \o
                (IF issued THEN IssueEvents ELSE CreateEvents(call[c].told)) \in Seq(Events)
          BY <1>0, NewEvents, Appending
        <4>4. reply' \in [Creates -> Replies]
          <5>1. [outcome |-> "failed"] \in Replies
            BY DEF Replies
          <5>2. [outcome |-> "created", intent |-> c, token |-> IF issued THEN c ELSE Nobody] \in Replies
            BY <4>2 DEF Replies
          <5> QED BY <1>0, <4>1, <5>1, <5>2
        <4> QED BY <4>1, <4>2, <4>3, <4>4, IntentTypes
      <3>2. CASE ~Inserts(c)
        <4>1. [outcome |-> "conflict"] \in Replies
          BY DEF Replies
        <4>2. UNCHANGED <<status, receipt, events>> /\ reply' = [reply EXCEPT ![c] = [outcome |-> "conflict"]]
          BY <2>1, <3>2, InsertCases
        <4>3. reply' \in [Creates -> Replies]
          BY <1>0, <4>1, <4>2
        <4> QED BY <4>2, <4>3 DEF Types
      <3> QED BY <3>1, <3>2
    <2>2. CASE LookUp(c) \/ VerifyPayment(c) \/ FailCreate(c)
      <3>1. UNCHANGED <<status, receipt, events>>
        BY <2>2 DEF LookUp, VerifyPayment, FailCreate
      <3>2. \/ reply' = reply
            \/ \E i \in Creates : reply' = [reply EXCEPT ![c] =
                   [outcome |-> "existing", intent |-> i, token |-> Nobody]]
            \/ reply' = [reply EXCEPT ![c] = [outcome |-> "failed"]]
        BY <2>2 DEF LookUp, VerifyPayment, FailCreate, Answer, LookedUp, WithKey
      <3>3. /\ [outcome |-> "failed"] \in Replies
            /\ \A i \in Creates : [outcome |-> "existing", intent |-> i, token |-> Nobody] \in Replies
        BY DEF Replies
      <3>4. reply' \in [Creates -> Replies]
        BY <1>0, <3>2, <3>3
      <3> QED BY <3>1, <3>4 DEF Types
    <2> QED BY <2>1, <2>2 DEF CreateStep
  <1> QED BY <1>1, <1>2, <1>3 DEF Types

LEMMA PassTypes ==
    ASSUME NInv, NEW p \in Passes, PassStep(p)
    PROVE  Types'
  <1>0. Types /\ UNCHANGED <<node, call, reply>>
    BY PassCases DEF NInv
  <1>1. \E Any : pass' \in [Passes -> PassStates(Any)]
    <2>0. PICK Old : pass \in [Passes -> PassStates(Old)]
      BY <1>0 DEF Types
    <2> DEFINE New == Old \cup {SelectSeq(order, Reconcilable), status[Candidate(p)],
                               Tail(pass[p].todo), <<>>, "ABSENT"}
    <2>1. /\ pass[p] \in PassStates(New) /\ pass \in [Passes -> PassStates(New)]
          /\ SelectSeq(order, Reconcilable) \in New /\ status[Candidate(p)] \in New
          /\ Tail(pass[p].todo) \in New /\ <<>> \in New /\ "ABSENT" \in New
          /\ "waiting" \in States
      BY <2>0 DEF PassStates, States
    <2> HIDE DEF New
    <2>2. \E r \in PassStates(New) : pass' = [pass EXCEPT ![p] = r]
      <3>1. CASE StartPass(p)
        <4>1. [pass[p] EXCEPT !.at = "next", !.todo = SelectSeq(order, Reconcilable)]
                \in PassStates(New)
          BY <2>1 DEF PassStates
        <4>2. pass' = [pass EXCEPT ![p] =
                [pass[p] EXCEPT !.at = "next", !.todo = SelectSeq(order, Reconcilable)]]
          BY <2>1, <3>1 DEF StartPass
        <4> QED BY <4>1, <4>2
      <3>2. CASE Onward(p)
        <4>1. [Idle EXCEPT !.at = "next", !.todo = Tail(pass[p].todo)] \in PassStates(New)
          BY <2>1 DEF Idle, PassStates
        <4> QED BY <3>2, <4>1 DEF Onward
      <3>3. CASE pass' = [pass EXCEPT ![p].at = "ask", ![p].base = status[Candidate(p)]]
        <4>1. [pass[p] EXCEPT !.at = "ask", !.base = status[Candidate(p)]] \in PassStates(New)
          BY <2>1 DEF PassStates
        <4>2. pass' = [pass EXCEPT ![p] =
                [pass[p] EXCEPT !.at = "ask", !.base = status[Candidate(p)]]]
          BY <2>1, <3>3
        <4> QED BY <4>1, <4>2
      <3>4. CASE FinishPass(p) \/ AbandonPass(p)
        <4>1. Idle \in PassStates(New)
          BY <2>1 DEF Idle, PassStates
        <4> QED BY <3>4, <4>1 DEF FinishPass, AbandonPass
      <3>5. ASSUME NEW told \in States, AskNode(p, told)
            PROVE  \E r \in PassStates(New) : pass' = [pass EXCEPT ![p] = r]
        <4>1. [pass[p] EXCEPT !.at = "write", !.told = told] \in PassStates(New)
          BY <2>1 DEF PassStates
        <4>2. pass' = [pass EXCEPT ![p] = [pass[p] EXCEPT !.at = "write", !.told = told]]
          BY <2>1, <3>5 DEF AskNode
        <4> QED BY <4>1, <4>2
      <3> QED BY <3>1, <3>2, <3>3, <3>4, <3>5 DEF PassStep, Reread, WriteOutcome
    <2> QED BY <2>1, <2>2
  <1>2. /\ status' \in [Creates -> Statuses \cup {"ABSENT"}]
        /\ receipt' \in [Creates -> Issuers \cup {Nobody}] /\ events' \in [Creates -> Seq(Events)]
    <2> DEFINE i == Candidate(p)
    <2>1. CASE UNCHANGED <<status, receipt, events>>
      BY <1>0, <2>1 DEF Types
    <2>2. CASE Closes(i)
      <3>1. PICK told \in {"expired", "failed"} : Close(i, told) /\ UNCHANGED receipt
        BY <2>2 DEF Closes
      <3>2. IntentStatus(told) \in Statuses /\ told \in States
        BY StatusTypes DEF States
      <3>3. (IF status[i] = IntentStatus(told) THEN <<>> ELSE ClosingEvent(told)) \in Seq(Events)
        BY <3>2, NewEvents
      <3> HIDE DEF i
      <3> QED BY <1>0, <3>1, <3>2, <3>3, IntentTypes DEF Close, Log, Types
    <2>3. CASE Issues(p, i)
      <3>1. (IF receipt[i] = Nobody THEN IssueEvents ELSE <<>>) \in Seq(Events)
        BY NewEvents
      <3>2. receipt' \in [Creates -> Issuers \cup {Nobody}]
        BY <1>0, <2>3 DEF Issues, IssueReceipt, Types, Issuers
      <3>3. "RECEIPT_ISSUED" \in Statuses /\ Nobody \in Issuers \cup {Nobody}
        BY DEF Statuses
      <3> HIDE DEF i
      <3> QED BY <1>0, <2>3, <3>1, <3>2, <3>3, IntentTypes DEF Issues, IssueReceipt, Log
    <2> QED BY <2>1, <2>2, <2>3, PassCases
  <1> QED BY <1>0, <1>1, <1>2 DEF Types

LEMMA TypesKept == NInv /\ [Next]_vars => Types'
  <1> SUFFICES ASSUME NInv, [Next]_vars PROVE Types'
    OBVIOUS
  <1>0. Types
    BY DEF NInv
  <1>1. ASSUME NEW r \in Refs, NEW s \in States, Resolve(r, s) PROVE Types'
    <2>1. s \in NodeStates
      BY <1>1 DEF Resolve, NodeStates
    <2> QED BY <1>0, <1>1, <2>1 DEF Resolve, Types
  <1>2. ASSUME NEW i \in Creates, Lapse(i) PROVE Types'
    BY <1>0, <1>2 DEF Lapse, Types
  <1>3. CASE UNCHANGED vars
    BY <1>0, <1>3 DEF vars, Types
  <1> QED BY <1>0, <1>1, <1>2, <1>3, CreateTypes, PassTypes, StepsOfNext

-----------------------------------------------------------------------------
(* A payment the node has settled as paid stays so.                        *)
LEMMA PaidStays ==
    ASSUME NInv, [Next]_vars, NEW i \in Creates, Paid(i)
    PROVE  Paid(i)'
  <1>1. CASE node' = node
    BY <1>1 DEF Paid
  <1>2. ASSUME NEW r \in Refs, NEW s \in States, Resolve(r, s) PROVE Paid(i)'
    <2>1. Ref[i] \in Refs /\ node[Ref[i]] = "paid_verified" /\ node \in [Refs -> NodeStates]
      BY DEF Paid, Refs, NInv, Types
    <2>2. node[r] # "paid_verified" /\ node' = [node EXCEPT ![r] = s]
      BY <1>2 DEF Resolve
    <2> QED BY <2>1, <2>2 DEF Paid
  <1>3. CASE UNCHANGED vars
    BY <1>1, <1>3 DEF vars
  <1>4. ASSUME NEW p \in Passes, PassStep(p) PROVE node' = node
    BY <1>4, PassCases
  <1> QED BY <1>1, <1>2, <1>3, <1>4, StepsOfNext
          DEF Lapse, CreateStep, LookUp, VerifyPayment, Insert, FailCreate

(* What is appended when an intent is closed or its receipt issued.        *)
LEMMA CloseStep ==
    ASSUME Types, NEW i \in Creates, IntentInv(i), Closes(i)
    PROVE  /\ IntentInv(i)'
           /\ \A j \in Creates : j # i => /\ status'[j] = status[j] /\ receipt'[j] = receipt[j]
                                          /\ events'[j] = events[j]
  <1>1. PICK told \in {"expired", "failed"} :
            Close(i, told) /\ UNCHANGED receipt /\ receipt[i] = Nobody
    BY DEF Closes
  <1>2. /\ status'[i] = IntentStatus(told)
        /\ events'[i] = events[i] \o (IF status[i] = IntentStatus(told) THEN <<>>
                                       ELSE ClosingEvent(told))
        /\ \A j \in Creates : j # i => status'[j] = status[j] /\ events'[j] = events[j]
    BY <1>1 DEF Close, Log, Types
  <1>3. /\ IntentStatus(told) \in {"EXPIRED", "REJECTED"}
        /\ ClosingEvent(told) = <<IF told = "expired" THEN "ACCESS_INTENT_EXPIRED"
                                 ELSE "ACCESS_INTENT_REJECTED">>
        /\ (IF told = "expired" THEN "ACCESS_INTENT_EXPIRED" ELSE "ACCESS_INTENT_REJECTED")
                \in Announces(IntentStatus(told))
    BY DEF IntentStatus, ClosingEvent, Announces
  <1>4. events[i] \in Seq(Events) /\ ClosingEvent(told) \in Seq(Events)
    BY NewEvents DEF Types, States
  <1>5. CASE status[i] = IntentStatus(told)
    <2>1. events'[i] = events[i]
      BY <1>2, <1>4, <1>5
    <2> QED BY <1>1, <1>2, <1>3, <1>5, <2>1 DEF IntentInv, Stored
  <1>6. CASE status[i] # IntentStatus(told)
    <2> DEFINE e == IF told = "expired" THEN "ACCESS_INTENT_EXPIRED"
                    ELSE "ACCESS_INTENT_REJECTED"
               n == Len(events[i])
    <2>1. /\ Len(events'[i]) = n + 1 /\ n \in Nat
          /\ \A m \in 1 .. n + 1 : events'[i][m] = IF m <= n THEN events[i][m] ELSE e
      BY <1>2, <1>3, <1>4, <1>6
    <2>2. e # Issued
      BY DEF Issued
    <2>3. \A m \in 1 .. Len(events[i])' : events'[i][m] # Issued
      BY <1>1, <2>1, <2>2 DEF IntentInv
    <2>4. events'[i][Len(events'[i])] = e /\ Len(events'[i]) > 0
      BY <2>1
    <2>5. e \in Announces(status'[i])
      BY <1>2, <1>3
    <2> HIDE DEF e, n
    <2>6. e \in Announces(status[i])'
      BY <2>5 DEF Announces
    <2> QED BY <1>1, <1>2, <1>3, <2>3, <2>4, <2>6 DEF IntentInv
  <1> QED BY <1>1, <1>2, <1>5, <1>6

LEMMA IssueStep ==
    ASSUME Types, NEW p \in Passes, NEW i \in Creates, IntentInv(i), Issues(p, i), Paid(i)'
    PROVE  /\ IntentInv(i)' /\ (receipt[i] # Nobody => receipt'[i] = receipt[i])
           /\ \A j \in Creates : j # i => /\ status'[j] = status[j] /\ receipt'[j] = receipt[j]
                                          /\ events'[j] = events[j]
  <1>1. /\ status'[i] = "RECEIPT_ISSUED"
        /\ receipt'[i] = IF receipt[i] = Nobody THEN p ELSE receipt[i]
        /\ events'[i] = events[i] \o (IF receipt[i] = Nobody THEN IssueEvents ELSE <<>>)
        /\ \A j \in Creates : j # i => /\ status'[j] = status[j] /\ receipt'[j] = receipt[j]
                                       /\ events'[j] = events[j]
    BY DEF Issues, IssueReceipt, Log, Types
  <1>2. receipt'[i] # Nobody /\ events[i] \in Seq(Events)
    BY <1>1, NobodyIssues DEF Issuers, Types
  <1>3. CASE receipt[i] # Nobody
    <2>1. events'[i] = events[i] /\ status'[i] = status[i]
      BY <1>1, <1>2, <1>3 DEF IntentInv
    <2> QED BY <1>1, <1>2, <1>3, <2>1 DEF IntentInv, Stored, Announces
  <1>4. CASE receipt[i] = Nobody
    <2> DEFINE n == Len(events[i])
    <2>1. /\ Len(events'[i]) = n + 2 /\ n \in Nat
          /\ \A m \in 1 .. n + 2 : events'[i][m] =
                IF m <= n THEN events[i][m]
                ELSE IF m = n + 1 THEN "ACCESS_INTENT_VERIFIED" ELSE Issued
      BY <1>1, <1>2, <1>4 DEF IssueEvents, Issued
    <2>2. \A m \in 1 .. n : events[i][m] # Issued
      BY <1>4 DEF IntentInv
    <2>3. \A m \in 1 .. n + 2 : events'[i][m] = Issued => m = n + 2
      <3> SUFFICES ASSUME NEW m \in 1 .. n + 2, events'[i][m] = Issued
                   PROVE  m = n + 2
        OBVIOUS
      <3>1. ~(m <= n)
        BY <2>1, <2>2
      <3>2. m # n + 1
        BY <2>1 DEF Issued
      <3> QED BY <2>1, <3>1, <3>2
    <2>4. events'[i][Len(events'[i])] = Issued /\ Len(events'[i]) > 0
      BY <2>1
    <2>5. Issued \in Announces(status[i])'
      BY <1>1 DEF Announces, Issued
    <2>6. \A l, m \in 1 .. Len(events'[i]) :
            events'[i][l] = Issued /\ events'[i][m] = Issued => l = m
      BY <2>1, <2>3
    <2> QED BY <1>1, <1>2, <2>4, <2>5, <2>6 DEF IntentInv
  <1> QED BY <1>1, <1>3, <1>4

(* A log begins with the creation and tells what the node told.            *)
LEMMA InsertStep ==
    ASSUME NInv, NEW c \in Creates, Inserts(c), Paid(c) => Paid(c)'
    PROVE  /\ IntentInv(c)'
           /\ \A j \in Creates : j # c => /\ status'[j] = status[j] /\ receipt'[j] = receipt[j]
                                          /\ events'[j] = events[j]
  <1>0. Types /\ CreateInv(c) /\ call[c].told \in States
    BY DEF NInv, Types
  <1>1. PICK issued \in BOOLEAN :
            /\ call[c].at = "insert"
            /\ issued => HasRef(c) /\ call[c].told = "paid_verified"
            /\ status' = [status EXCEPT ![c] =
                         IF issued THEN "RECEIPT_ISSUED" ELSE IntentStatus(call[c].told)]
            /\ receipt' = [receipt EXCEPT ![c] = IF issued THEN c ELSE Nobody]
            /\ events' = [events EXCEPT ![c] =
                  <<"ACCESS_INTENT_CREATED">> \o
                  (IF issued THEN IssueEvents ELSE CreateEvents(call[c].told))]
    BY DEF Inserts
  <1>2. \A j \in Creates : j # c => /\ status'[j] = status[j] /\ receipt'[j] = receipt[j]
                                    /\ events'[j] = events[j]
    BY <1>0, <1>1 DEF Types
  <1>3. CASE issued
    <2>1. /\ status'[c] = "RECEIPT_ISSUED" /\ receipt'[c] = c /\ Paid(c)'
          /\ events'[c] = <<"ACCESS_INTENT_CREATED">> \o IssueEvents
      BY <1>0, <1>1, <1>3 DEF CreateInv, Types
    <2>2. /\ Len(events'[c]) = 3
          /\ events'[c][1] # Issued /\ events'[c][2] # Issued /\ events'[c][3] = Issued
      BY <2>1 DEF IssueEvents, Issued
    <2>3. \A m \in 1 .. 3 : events'[c][m] = Issued => m = 3
      <3>1. \A m \in 1 .. 3 : m \in {1, 2, 3}
        OBVIOUS
      <3> QED BY <2>2, <3>1
    <2>4. c # Nobody
      BY NobodyIssues DEF Issuers
    <2>5. Issued \in Announces(status[c])'
      BY <2>1 DEF Announces, Issued
    <2> QED BY <1>2, <2>1, <2>2, <2>3, <2>4, <2>5 DEF IntentInv
  <1>4. CASE ~issued
    <2> DEFINE told == call[c].told
    <2>1. /\ status'[c] = IntentStatus(told) /\ receipt'[c] = Nobody
          /\ events'[c] = <<"ACCESS_INTENT_CREATED">> \o CreateEvents(told)
      BY <1>0, <1>1, <1>4 DEF Types
    <2>2. CASE told = "unknown"
      <3>1. /\ Len(events'[c]) = 1 /\ events'[c][1] = "ACCESS_INTENT_CREATED"
            /\ status'[c] = "PENDING_VERIFICATION"
        BY <2>1, <2>2 DEF CreateEvents, IntentStatus
      <3>2. \A m \in 1 .. 1 : m = 1
        OBVIOUS
      <3> QED BY <1>2, <2>1, <3>1, <3>2 DEF IntentInv, Announces, Issued
    <2>3. CASE told # "unknown"
      <3>1. PICK e : /\ CreateEvents(told) = <<e>> /\ e # Issued
                     /\ e \in Announces(IntentStatus(told))
        BY <1>0, <2>3 DEF CreateEvents, ClosingEvent, IntentStatus, Announces, States, Issued
      <3>2. /\ Len(events'[c]) = 2 /\ events'[c][1] = "ACCESS_INTENT_CREATED"
            /\ events'[c][2] = e
        BY <2>1, <3>1
      <3>3. IntentStatus(told) # "RECEIPT_ISSUED"
        BY DEF IntentStatus
      <3>4. \A m \in 1 .. 2 : m = 1 \/ m = 2
        OBVIOUS
      <3>5. e \in Announces(status[c])'
        BY <2>1, <3>1 DEF Announces
      <3>6. \A m \in 1 .. Len(events'[c]) : events'[c][m] # Issued
        BY <3>1, <3>2, <3>4 DEF Issued
      <3> QED BY <1>2, <2>1, <3>2, <3>3, <3>5, <3>6 DEF IntentInv
    <2> QED BY <2>2, <2>3
  <1> QED BY <1>2, <1>3, <1>4

-----------------------------------------------------------------------------
LEMMA IntentsKept ==
    ASSUME NInv, [Next]_vars, NEW i \in Creates
    PROVE  IntentInv(i)'
  <1>0. Types /\ IntentInv(i) /\ (Paid(i) => Paid(i)')
    BY PaidStays DEF NInv
  <1>1. ASSUME status'[i] = status[i], receipt'[i] = receipt[i], events'[i] = events[i]
        PROVE  IntentInv(i)'
    BY <1>0, <1>1 DEF IntentInv, Stored, Announces
  <1>2. ASSUME NEW c \in Creates, CreateStep(c) PROVE IntentInv(i)'
    <2>1. CASE Inserts(c)
      <3>1. Paid(c) => Paid(c)'
        BY PaidStays
      <3> QED BY <1>1, <2>1, <3>1, InsertStep
    <2>2. CASE ~Inserts(c)
      <3>1. UNCHANGED <<status, receipt, events>>
        BY <1>2, <2>2, InsertCases DEF CreateStep, LookUp, VerifyPayment, FailCreate
      <3> QED BY <1>1, <3>1
    <2> QED BY <2>1, <2>2
  <1>3. ASSUME NEW p \in Passes, PassStep(p) PROVE IntentInv(i)'
    <2>0. PICK j : j = Candidate(p)
      OBVIOUS
    <2>1. CASE j \in Creates
      <3>1. IntentInv(j) /\ (Paid(j) => Paid(j)')
        BY <2>1, PaidStays DEF NInv
      <3>2. CASE UNCHANGED <<status, receipt, events>>
        BY <1>1, <3>2
      <3>3. CASE Closes(j)
        <4>1. CASE j = i
          BY <1>0, <3>1, <3>3, <4>1, CloseStep
        <4>2. CASE j # i
          BY <1>0, <1>1, <2>1, <3>1, <3>3, <4>2, CloseStep
        <4> QED BY <4>1, <4>2
      <3>4. CASE Issues(p, j)
        <4>1. Paid(j)'
          BY <2>1, <3>1, <3>4 DEF Issues
        <4>2. CASE j = i
          BY <1>0, <3>1, <3>4, <4>1, <4>2, IssueStep
        <4>3. CASE j # i
          BY <1>0, <1>1, <2>1, <3>1, <3>4, <4>1, <4>3, IssueStep
        <4> QED BY <4>2, <4>3
      <3> QED BY <1>3, <2>0, <3>2, <3>3, <3>4, PassCases
    <2>2. CASE j \notin Creates
      <3>1. i # j
        BY <2>2
      <3>2. CASE UNCHANGED <<status, receipt, events>>
        BY <1>1, <3>2
      <3>3. CASE Closes(j)
        <4>1. /\ \E s : status' = [status EXCEPT ![j] = s]
              /\ \E t : events' = [events EXCEPT ![j] = @ \o t]
              /\ receipt' = receipt
          BY <3>3 DEF Closes, Close, Log
        <4> QED BY <1>0, <1>1, <3>1, <4>1 DEF Types
      <3>4. CASE Issues(p, j)
        <4>1. /\ \E s : status' = [status EXCEPT ![j] = s]
              /\ \E t : events' = [events EXCEPT ![j] = @ \o t]
              /\ \E r : receipt' = [receipt EXCEPT ![j] = r]
          BY <3>4 DEF Issues, IssueReceipt, Log
        <4> QED BY <1>0, <1>1, <3>1, <4>1 DEF Types
      <3> QED BY <1>3, <2>0, <3>2, <3>3, <3>4, PassCases
    <2> QED BY <2>1, <2>2
  <1>4. CASE UNCHANGED <<status, receipt, events>>
    BY <1>1, <1>4
  <1> QED BY <1>2, <1>3, <1>4, StepsOfNext DEF Resolve, Lapse, vars

(* A receipt, once stored, is never replaced.                              *)
LEMMA ReceiptsStay ==
    ASSUME NInv, [Next]_vars, NEW i \in Creates, receipt[i] # Nobody, call[i].at = "done"
    PROVE  receipt'[i] = receipt[i]
  <1>0. Types /\ IntentInv(i)
    BY DEF NInv
  <1>1. ASSUME NEW c \in Creates, CreateStep(c) PROVE receipt'[i] = receipt[i]
    <2>1. CASE Inserts(c)
      <3>1. c # i
        BY <2>1 DEF Inserts
      <3> QED BY <1>0, <2>1, <3>1 DEF Inserts, Types
    <2>2. CASE ~Inserts(c)
      BY <1>1, <2>2, InsertCases DEF CreateStep, LookUp, VerifyPayment, FailCreate
    <2> QED BY <2>1, <2>2
  <1>2. ASSUME NEW p \in Passes, PassStep(p) PROVE receipt'[i] = receipt[i]
    BY <1>0, <1>2, PassCases DEF Closes, Issues, IssueReceipt, Types
  <1> QED BY <1>1, <1>2, StepsOfNext DEF Resolve, Lapse, vars

LEMMA CreatesKept ==
    ASSUME NInv, [Next]_vars, NEW z \in Creates
    PROVE  CreateInv(z)'
  <1>0. /\ Types /\ CreateInv(z) /\ (Paid(z) => Paid(z)')
        /\ call[z] \in [at : {"start", "ask", "insert", "done"}, told : States]
    BY PaidStays DEF NInv, Types
  <1>1. ASSUME call'[z] = call[z], reply'[z] = reply[z]
        PROVE  CreateInv(z)'
    <2>1. z \in Answered' <=> z \in Answered
      BY <1>1 DEF Answered
    <2>2. z \in Answered /\ reply[z].token # Nobody => receipt'[z] = receipt[z]
      <3>1. ASSUME z \in Answered, reply[z].token # Nobody
            PROVE  receipt[z] # Nobody /\ call[z].at = "done"
        BY <1>0, <3>1 DEF CreateInv, Answered, NoReply
      <3> QED BY <3>1, ReceiptsStay
    <2> QED BY <1>0, <1>1, <2>1, <2>2 DEF CreateInv
  <1>2. ASSUME NEW c \in Creates, CreateStep(c), c # z PROVE CreateInv(z)'
    <2>1. call'[z] = call[z]
      BY <1>0, <1>2 DEF CreateStep, LookUp, VerifyPayment, Insert, FailCreate, Answer, Types
    <2>2. reply'[z] = reply[z]
      BY <1>0, <1>2 DEF CreateStep, LookUp, VerifyPayment, Insert, FailCreate, Answer, Types
    <2> QED BY <1>1, <2>1, <2>2
  <1>3. CASE LookUp(z)
    <2>1. CASE \E i \in LookedUp(z) :
                 Answer(z, [outcome |-> "existing", intent |-> i, token |-> Nobody])
      <3>0. PICK i : Answer(z, [outcome |-> "existing", intent |-> i, token |-> Nobody])
        BY <2>1
      <3>1. /\ call'[z].at = "done"
            /\ reply'[z] = [outcome |-> "existing", intent |-> i, token |-> Nobody]
        BY <1>0, <3>0 DEF Answer, Types
      <3> QED BY <3>1 DEF CreateInv
    <2>2. CASE /\ call' = [call EXCEPT ![z].at = IF HasRef(z) THEN "ask" ELSE "insert"]
               /\ UNCHANGED reply
      <3>1. call[z].at = "start" /\ call[z].told = "waiting" /\ reply[z] = NoReply
        BY <1>0, <1>3 DEF LookUp, CreateInv
      <3>2. /\ call'[z].at = IF HasRef(z) THEN "ask" ELSE "insert"
            /\ call'[z].told = "waiting" /\ reply'[z] = NoReply
        BY <1>0, <2>2, <3>1 DEF Types
      <3> QED BY <3>2 DEF CreateInv, Answered, NoReply
    <2> QED BY <1>3, <2>1, <2>2 DEF LookUp
  <1>4. CASE VerifyPayment(z)
    <2>1. PICK told \in MayTell(Ref[z]) :
            call' = [call EXCEPT ![z] = [at |-> "insert", told |-> told]]
      BY <1>4 DEF VerifyPayment
    <2>2. HasRef(z) /\ reply[z] = NoReply
      BY <1>0, <1>4 DEF VerifyPayment, CreateInv
    <2>3. told = "paid_verified" => Paid(z)
      BY <1>0, <2>2, Telling DEF Paid, Refs
    <2>4. call'[z] = [at |-> "insert", told |-> told] /\ reply'[z] = NoReply
      BY <1>0, <1>4, <2>1, <2>2 DEF VerifyPayment, Types
    <2> QED BY <1>0, <2>3, <2>4 DEF CreateInv, Answered, NoReply
  <1>5. CASE Insert(z)
    <2>1. call'[z] = [at |-> "done", told |-> "waiting"]
      BY <1>0, <1>5 DEF Insert, Answer, Types
    <2>2. CASE Inserts(z)
      <3>1. PICK issued \in BOOLEAN :
              /\ receipt' = [receipt EXCEPT ![z] = IF issued THEN z ELSE Nobody]
              /\ reply' \in {[reply EXCEPT ![z] = r] : r \in
                    {[outcome |-> "created", intent |-> z,
                      token |-> IF issued THEN z ELSE Nobody],
                     [outcome |-> "failed"]}}
        BY <2>2 DEF Inserts
      <3>2. /\ receipt'[z] = IF issued THEN z ELSE Nobody
            /\ \/ reply'[z] = [outcome |-> "created", intent |-> z,
                               token |-> IF issued THEN z ELSE Nobody]
               \/ reply'[z] = [outcome |-> "failed"]
        BY <1>0, <3>1 DEF Types
      <3>3. CASE reply'[z] = [outcome |-> "failed"]
        BY <2>1, <3>3 DEF CreateInv, Answered
      <3>4. CASE reply'[z] # [outcome |-> "failed"]
        BY <2>1, <3>2, <3>4 DEF CreateInv
      <3> QED BY <3>3, <3>4
    <2>3. CASE ~Inserts(z)
      <3>1. reply'[z] = [outcome |-> "conflict"]
        BY <1>0, <1>5, <2>3, InsertCases DEF Types
      <3> QED BY <2>1, <3>1 DEF CreateInv, Answered
    <2> QED BY <2>2, <2>3
  <1>6. CASE FailCreate(z)
    <2>1. call'[z].at = "done" /\ reply'[z] = [outcome |-> "failed"]
      BY <1>0, <1>6 DEF FailCreate, Answer, Types
    <2> QED BY <2>1 DEF CreateInv, Answered
  <1>7. ASSUME NEW p \in Passes, PassStep(p) PROVE CreateInv(z)'
    BY <1>1, <1>7, PassCases
  <1>8. CASE UNCHANGED <<call, reply>>
    BY <1>1, <1>8
  <1> QED BY <1>2, <1>3, <1>4, <1>5, <1>6, <1>7, <1>8, StepsOfNext
          DEF CreateStep, Resolve, Lapse, vars

LEMMA PassesKept ==
    ASSUME NInv, [Next]_vars, NEW z \in Passes
    PROVE  PassInv(z)'
  <1>0. Types /\ PassInv(z) /\ \A i \in Creates : IntentInv(i) /\ (Paid(i) => Paid(i)')
    BY PaidStays DEF NInv
  <1>1. ASSUME pass'[z] = pass[z] PROVE PassInv(z)'
    <2>1. Candidate(z)' = Candidate(z)
      BY <1>1 DEF Candidate
    <2> QED BY <1>0, <1>1, <2>1 DEF PassInv
  <1>2. PICK Any : pass \in [Passes -> PassStates(Any)]
    BY <1>0 DEF Types
  <1>3. ASSUME NEW p \in Passes, PassStep(p), p # z PROVE PassInv(z)'
    <2>1. pass'[z] = pass[z]
      BY <1>2, <1>3 DEF PassStep, StartPass, Reread, WriteOutcome, FinishPass, AbandonPass,
         AskNode, Onward
    <2> QED BY <1>1, <2>1
  <1>4. ASSUME pass'[z].at \notin {"ask", "write"} PROVE PassInv(z)'
    BY <1>4 DEF PassInv
  <1>5. CASE Onward(z)
    BY <1>2, <1>4, <1>5 DEF Onward, Idle
  <1>6. CASE StartPass(z) \/ FinishPass(z) \/ AbandonPass(z)
    BY <1>2, <1>4, <1>6 DEF StartPass, FinishPass, AbandonPass, Idle, PassStates
  <1>7. CASE Reread(z) /\ ~Onward(z)
    <2> DEFINE i == Candidate(z)
    <2>1. /\ ~(receipt[i] # Nobody /\ status[i] = "RECEIPT_ISSUED") /\ Stored(i)
          /\ HasRef(i)
          /\ pass' = [pass EXCEPT ![z].at = "ask", ![z].base = status[i]]
      BY <1>7 DEF Reread
    <2>2. /\ pass'[z].at = "ask" /\ pass'[z].base = status[i] /\ pass'[z].todo = pass[z].todo
      BY <1>2, <2>1 DEF PassStates
    <2>3. Candidate(z)' = i
      BY <2>2 DEF Candidate
    <2>4. i \in Creates => status[i] \notin {"RECEIPT_ISSUED", "ABSENT"}
      BY <1>0, <2>1 DEF IntentInv, Stored
    <2> HIDE DEF i
    <2> QED BY <2>1, <2>2, <2>3, <2>4 DEF PassInv
  <1>8. ASSUME NEW told \in States, AskNode(z, told) PROVE PassInv(z)'
    <2>1. /\ pass[z].at = "ask" /\ told \in MayTell(Ref[Candidate(z)])
          /\ pass' = [pass EXCEPT ![z].at = "write", ![z].told = told]
      BY <1>8 DEF AskNode
    <2>2. /\ pass'[z].at = "write" /\ pass'[z].told = told
          /\ pass'[z].base = pass[z].base /\ pass'[z].todo = pass[z].todo
      BY <1>2, <2>1 DEF PassStates
    <2>3. Candidate(z)' = Candidate(z)
      BY <2>2 DEF Candidate
    <2>4. Candidate(z) \in Creates /\ told = "paid_verified" => Paid(Candidate(z))
      <3>1. SUFFICES ASSUME Candidate(z) \in Creates, told = "paid_verified"
                     PROVE  Paid(Candidate(z))
        OBVIOUS
      <3>2. Ref[Candidate(z)] \in Refs
        BY <1>0, <2>1, <3>1 DEF PassInv, Refs
      <3> QED BY <1>0, <2>1, <3>1, <3>2, Telling DEF Paid, Refs
    <2>5. PICK i : i = Candidate(z)
      OBVIOUS
    <2>6. /\ i \in Creates /\ told = "paid_verified" => Paid(i)'
          /\ HasRef(i) /\ (i \in Creates => pass[z].base \notin {"RECEIPT_ISSUED", "ABSENT"})
      BY <1>0, <2>1, <2>4, <2>5 DEF PassInv
    <2> QED BY <2>2, <2>3, <2>5, <2>6 DEF PassInv
  <1>9. CASE pass' = pass
    BY <1>1, <1>9
  <1> QED BY <1>3, <1>5, <1>6, <1>7, <1>8, <1>9, StepsOfNext
          DEF PassStep, WriteOutcome, CreateStep, LookUp, VerifyPayment, Insert, FailCreate,
              Resolve, Lapse, vars

LEMMA NInvInitially == Init => NInv
  <1> SUFFICES ASSUME Init PROVE NInv
    OBVIOUS
  <1>1. Types
    <2>1. pass \in [Passes -> PassStates({<<>>, "ABSENT"})]
      BY DEF Init, Idle, PassStates, States
    <2>2. node \in [Refs -> NodeStates]
      BY DEF Init, NodeStates
    <2>3. events \in [Creates -> Seq(Events)]
      BY NewEvents DEF Init
    <2> QED BY <2>1, <2>2, <2>3 DEF Init, Types, Replies, NoReply, States
  <1>2. \A i \in Creates : IntentInv(i) /\ CreateInv(i)
    <2> SUFFICES ASSUME NEW i \in Creates PROVE IntentInv(i) /\ CreateInv(i)
      OBVIOUS
    <2>1. /\ status[i] = "ABSENT" /\ receipt[i] = Nobody /\ events[i] = <<>>
          /\ call[i] = [at |-> "start", told |-> "waiting"] /\ reply[i] = NoReply
      BY DEF Init
    <2>2. IntentInv(i)
      BY <2>1 DEF IntentInv, Stored
    <2>3. CreateInv(i)
      BY <2>1 DEF CreateInv, Answered, NoReply
    <2> QED BY <2>2, <2>3
  <1>3. \A p \in Passes : PassInv(p)
    BY DEF Init, PassInv, Idle
  <1> QED BY <1>1, <1>2, <1>3 DEF NInv

LEMMA NInvKept == NInv /\ [Next]_vars => NInv'
  BY TypesKept, IntentsKept, CreatesKept, PassesKept DEF NInv

(* The invariant holds in every reachable state.                           *)
THEOREM Invariance == Spec => []NInv
  BY NInvInitially, NInvKept, PTL DEF Spec

-----------------------------------------------------------------------------
(* An intent is RECEIPT_ISSUED exactly when its receipt is stored.         *)
THEOREM StatusIsReceipt == Spec => []StatusMatchesReceipt
  <1>1. NInv => StatusMatchesReceipt
    BY DEF NInv, IntentInv, StatusMatchesReceipt
  <1> QED BY <1>1, Invariance, PTL

(* Every receipt is for a payment the node has settled as paid.            *)
THEOREM ReceiptsArePaid == Spec => []ReceiptMeansPaid
  <1>1. NInv => ReceiptMeansPaid
    BY DEF NInv, IntentInv, Paid, ReceiptMeansPaid
  <1> QED BY <1>1, Invariance, PTL

(* A token is handed out only for the receipt that is stored.              *)
THEOREM TokensBacked == Spec => []TokensAreBacked
  <1>1. NInv => TokensAreBacked
    <2> SUFFICES ASSUME NInv, NEW c \in Answered, reply[c].token # Nobody
                 PROVE  receipt[reply[c].intent] = reply[c].token
      BY DEF TokensAreBacked
    <2>1. CreateInv(c)
      BY DEF NInv, Answered
    <2> QED BY <2>1 DEF CreateInv
  <1> QED BY <1>1, Invariance, PTL

(* The event log tells the status, and shows a receipt once.               *)
THEOREM LogTells == Spec => []LogTellsStatus
  <1>1. NInv => LogTellsStatus
    BY DEF NInv, IntentInv, LogTellsStatus, Issued
  <1> QED BY <1>1, Invariance, PTL

-----------------------------------------------------------------------------
(* Two stored intents have different keys and different payments, and an   *)
(* answer names a stored intent with the caller's key.                     *)
Shares(i, j) ==
    \/ Key[i] # NoKey /\ Key[i] = Key[j]
    \/ HasRef(i) /\ Ref[i] = Ref[j]
UniqueInv ==
    /\ \A i, j \in Creates : Stored(i) /\ Stored(j) /\ Shares(i, j) => i = j
    /\ \A c \in Answered :
        /\ reply[c].intent \in Creates /\ Stored(reply[c].intent)
        /\ Key[reply[c].intent] = Key[c]

(* A create stores its own intent, once its indexes are free; nothing else *)
(* stores one, and none is ever deleted.                                   *)
LEMMA StoredStep ==
    ASSUME NInv, [Next]_vars, NEW i \in Creates
    PROVE  /\ Stored(i) => Stored(i)'
           /\ ~Stored(i) /\ Stored(i)' =>
                ~Taken(i) /\ \A j \in Creates \ {i} : Stored(j)' => Stored(j)
  <1>0. Types
    BY DEF NInv
  <1>1. CASE UNCHANGED status
    BY <1>1 DEF Stored
  <1>2. ASSUME NEW c \in Creates, Insert(c), ~UNCHANGED status
        PROVE  /\ ~Taken(c)
               /\ \E s \in Statuses : status' = [status EXCEPT ![c] = s]
    <2>1. call[c].told \in States
      BY <1>0 DEF Types
    <2> QED BY <1>2, <2>1, StatusTypes DEF Insert, Statuses
  <1>3. ASSUME NEW c \in Creates, CreateStep(c), ~UNCHANGED status
        PROVE  Insert(c)
    BY <1>3 DEF CreateStep, LookUp, VerifyPayment, FailCreate
  <1>4. ASSUME NEW c \in Creates, CreateStep(c), ~UNCHANGED status
        PROVE  /\ Stored(i) => Stored(i)'
               /\ ~Stored(i) /\ Stored(i)' =>
                    ~Taken(i) /\ \A j \in Creates \ {i} : Stored(j)' => Stored(j)
    <2>1. ~Taken(c)
      BY <1>2, <1>3, <1>4
    <2>2. PICK s \in Statuses : status' = [status EXCEPT ![c] = s]
      BY <1>2, <1>3, <1>4
    <2>3. /\ status'[c] # "ABSENT"
          /\ \A j \in Creates : j # c => status'[j] = status[j]
      BY <1>0, <2>2 DEF Types, Statuses
    <2> QED BY <2>1, <2>3 DEF Stored
  <1>5. ASSUME NEW p \in Passes, PassStep(p), ~UNCHANGED status
        PROVE  \A j \in Creates : Stored(j)' <=> Stored(j)
    <2>1. PICK k : k = Candidate(p)
      OBVIOUS
    <2>2. /\ k \in Creates => Stored(k)
          /\ \E s \in Statuses : status' = [status EXCEPT ![k] = s]
      <3>1. CASE Closes(k)
        BY <3>1, StatusTypes DEF Closes, Close, States
      <3>2. CASE Issues(p, k)
        BY <3>2 DEF Issues, IssueReceipt, Statuses
      <3> QED BY <1>5, <2>1, <3>1, <3>2, PassCases
    <2>3. PICK s \in Statuses : status' = [status EXCEPT ![k] = s]
      BY <2>2
    <2>4. \A j \in Creates : status'[j] = IF j = k THEN s ELSE status[j]
      BY <1>0, <2>3 DEF Types
    <2> QED BY <2>2, <2>4 DEF Stored, Statuses
  <1> QED BY <1>1, <1>4, <1>5, StepsOfNext DEF Resolve, Lapse, vars

LEMMA UniqueKept == NInv /\ UniqueInv /\ [Next]_vars => UniqueInv'
  <1> SUFFICES ASSUME NInv, UniqueInv, [Next]_vars PROVE UniqueInv'
    OBVIOUS
  <1>0. Types
    BY DEF NInv
  <1>1. ASSUME NEW i \in Creates, NEW j \in Creates, Stored(i)', Stored(j)', Shares(i, j)
        PROVE  i = j
    <2>1. CASE Stored(i) /\ Stored(j)
      BY <1>1, <2>1 DEF UniqueInv
    <2>2. CASE ~Stored(i)
      <3>1. ~Taken(i) /\ \A k \in Creates \ {i} : Stored(k)' => Stored(k)
        BY <1>1, <2>2, StoredStep
      <3> QED BY <1>1, <3>1 DEF Taken, TakenByPayment, WithKey, Shares
    <2>3. CASE ~Stored(j)
      <3>1. ~Taken(j) /\ \A k \in Creates \ {j} : Stored(k)' => Stored(k)
        BY <1>1, <2>3, StoredStep
      <3> QED BY <1>1, <3>1 DEF Taken, TakenByPayment, WithKey, Shares
    <2> QED BY <2>1, <2>2, <2>3
  <1>2. ASSUME NEW c \in Creates, c \in Answered'
        PROVE  /\ reply'[c].intent \in Creates /\ status'[reply'[c].intent] # "ABSENT"
               /\ Key[reply'[c].intent] = Key[c]
    <2>1. CASE reply'[c] = reply[c]
      <3>1. c \in Answered
        BY <1>2, <2>1 DEF Answered
      <3>2. PICK i \in Creates : i = reply[c].intent /\ Stored(i) /\ Key[i] = Key[c]
        BY <3>1 DEF UniqueInv
      <3>3. Stored(i)'
        BY <3>2, StoredStep
      <3> QED BY <2>1, <3>2, <3>3 DEF Stored
    <2>2. CASE reply'[c] # reply[c]
      <3>1. CreateStep(c)
        <4>1. ASSUME NEW d \in Creates, CreateStep(d), d # c PROVE FALSE
          BY <1>0, <2>2, <4>1 DEF CreateStep, LookUp, VerifyPayment, Insert, FailCreate,
             Answer, Types
        <4>2. ASSUME NEW p \in Passes, PassStep(p) PROVE FALSE
          BY <2>2, <4>2, PassCases
        <4> QED BY <2>2, <4>1, <4>2, StepsOfNext DEF Resolve, Lapse, vars
      <3>2. CASE LookUp(c)
        <4>1. PICK i \in LookedUp(c) :
                Answer(c, [outcome |-> "existing", intent |-> i, token |-> Nobody])
          BY <2>2, <3>2 DEF LookUp
        <4>2. reply'[c].intent = i
          BY <1>0, <4>1 DEF Answer, Types
        <4>3. i \in Creates /\ Stored(i) /\ Key[i] = Key[c]
          BY <4>1 DEF LookedUp, WithKey
        <4>4. Stored(i)'
          BY <4>3, StoredStep
        <4> QED BY <4>2, <4>3, <4>4 DEF Stored
      <3>3. CASE Insert(c)
        <4>1. CASE Inserts(c)
          <5>1. \/ reply' = [reply EXCEPT ![c] = [outcome |-> "failed"]]
                \/ \E t : reply' = [reply EXCEPT ![c] =
                        [outcome |-> "created", intent |-> c, token |-> t]]
            BY <4>1 DEF Inserts
          <5>2. reply'[c].intent = c
            BY <1>0, <1>2, <5>1 DEF Answered, Types
          <5>3. Stored(c)'
            <6>1. PICK s \in Statuses : status' = [status EXCEPT ![c] = s]
              <7>1. call[c].told \in States
                BY <1>0 DEF Types
              <7> QED BY <4>1, <7>1, StatusTypes DEF Inserts, Statuses
            <6> QED BY <1>0, <6>1 DEF Types, Stored, Statuses
          <5> QED BY <5>2, <5>3 DEF Stored
        <4>2. CASE ~Inserts(c)
          <5>1. reply'[c] = [outcome |-> "conflict"]
            BY <1>0, <3>3, <4>2, InsertCases DEF Types
          <5> QED BY <1>2, <5>1 DEF Answered
        <4> QED BY <4>1, <4>2
      <3>4. CASE VerifyPayment(c) \/ FailCreate(c)
        <4>1. reply'[c] = reply[c] \/ reply'[c] = [outcome |-> "failed"]
          BY <1>0, <3>4 DEF VerifyPayment, FailCreate, Answer, Types
        <4> QED BY <1>2, <2>2, <4>1 DEF Answered
      <3> QED BY <3>1, <3>2, <3>3, <3>4 DEF CreateStep
    <2> QED BY <2>1, <2>2
  <1>3. \A c \in Answered' : c \in Creates
    BY DEF Answered
  <1> QED BY <1>1, <1>2, <1>3 DEF UniqueInv, Shares, Stored

(* The indexes keep intents apart in every reachable state.                *)
THEOREM Uniqueness == Spec => []UniqueInv
  <1>1. Init => UniqueInv
    BY DEF Init, UniqueInv, Stored, Answered, NoReply
  <1> QED BY <1>1, UniqueKept, Invariance, PTL DEF Spec

(* All answers to creates with one idempotency key name the same intent.   *)
THEOREM KeyNamesIntent == Spec => []KeyNamesOneIntent
  <1>1. UniqueInv => KeyNamesOneIntent
    BY DEF UniqueInv, KeyNamesOneIntent, Shares, Answered
  <1> QED BY <1>1, Uniqueness, PTL

(* One payment buys one receipt, however many creates and passes see it.   *)
THEOREM PaymentBuysOne == Spec => []PaymentBuysOneReceipt
  <1>1. NInv /\ UniqueInv => PaymentBuysOneReceipt
    <2> SUFFICES ASSUME NInv, UniqueInv, NEW i \in Creates, NEW j \in Creates, i # j,
                        receipt[i] # Nobody, receipt[j] # Nobody
                 PROVE  Ref[i] # Ref[j]
      BY DEF PaymentBuysOneReceipt
    <2>1. Stored(i) /\ Stored(j) /\ HasRef(i)
      BY DEF NInv, IntentInv, Stored, Paid
    <2> QED BY <2>1 DEF UniqueInv, Shares
  <1> QED BY <1>1, Uniqueness, Invariance, PTL

-----------------------------------------------------------------------------
(* The refinement.  The receipts sold and the tokens shown, by the intent  *)
(* they are for: only the tokens of stored receipts are handed out.        *)
Ticket(i) == [payment |-> Ref[i], intent |-> i, issuer |-> receipt[i]]
Bought == {i \in Creates : receipt[i] # Nobody}
Handed == {c \in Answered : reply[c].token # Nobody}
PaidRefs == {r \in Refs : node[r] = "paid_verified"}

LEMMA SoldAndShown ==
    ASSUME NInv
    PROVE  /\ Sold = {Ticket(i) : i \in Bought} /\ Shown = {Ticket(c) : c \in Handed}
           /\ Handed \subseteq Bought
  <1>1. \A c \in Handed : c \in Creates /\ reply[c].intent = c /\ receipt[c] = reply[c].token
    BY DEF NInv, CreateInv, Handed, Answered
  <1>2. \A c \in Handed :
            [payment |-> Ref[reply[c].intent], intent |-> reply[c].intent,
             issuer |-> reply[c].token] = Ticket(c)
    BY <1>1 DEF Ticket
  <1>3. Shown = {Ticket(c) : c \in Handed}
    BY <1>2 DEF Shown, Handed
  <1>4. Handed \subseteq Bought
    BY <1>1 DEF Handed, Bought
  <1> QED BY <1>3, <1>4 DEF Sold, Ticket, Bought

(* A create finds its indexes taken when its intent is stored, so that a   *)
(* receipt is stored for an intent without one, and stays; the step that   *)
(* stores it leaves the payments and the other intents alone.              *)
LEMMA InsertIsFirst ==
    ASSUME NInv, NEW c \in Creates, Insert(c), receipt[c] # Nobody
    PROVE  UNCHANGED <<status, receipt, events>> /\ reply'[c] = [outcome |-> "conflict"]
  <1>1. Taken(c)
    BY DEF NInv, IntentInv, Paid, Stored, Taken, TakenByPayment
  <1> QED BY <1>1 DEF Insert, Answer, NInv, Types

LEMMA ReceiptStep ==
    ASSUME NInv, [Next]_vars
    PROVE  /\ \A i \in Creates : receipt[i] # Nobody => receipt'[i] = receipt[i]
           /\ \/ receipt' = receipt
              \/ node' = node /\ \E k : \A i \in Creates : i # k => receipt'[i] = receipt[i]
  <1>0. Types
    BY DEF NInv
  <1>1. CASE receipt' = receipt
    BY <1>1
  <1>2. ASSUME NEW c \in Creates, CreateStep(c), receipt' # receipt
        PROVE  /\ receipt[c] = Nobody /\ node' = node
               /\ \A i \in Creates : i # c => receipt'[i] = receipt[i]
    <2>1. Insert(c)
      BY <1>2 DEF CreateStep, LookUp, VerifyPayment, FailCreate
    <2>2. receipt[c] = Nobody
      BY <1>2, <2>1, InsertIsFirst
    <2>3. PICK t : receipt' = [receipt EXCEPT ![c] = t]
      BY <1>2, <2>1 DEF Insert
    <2> QED BY <1>0, <2>1, <2>2, <2>3 DEF Insert, Types
  <1>3. ASSUME NEW p \in Passes, PassStep(p), receipt' # receipt
        PROVE  /\ node' = node
               /\ \E k : /\ k \in Creates /\ receipt[k] # Nobody => receipt'[k] = receipt[k]
                         /\ \A i \in Creates : i # k => receipt'[i] = receipt[i]
    <2>1. PICK k : Issues(p, k)
      BY <1>3, PassCases DEF Closes
    <2>2. receipt' = [receipt EXCEPT ![k] = IF receipt[k] = Nobody THEN p ELSE receipt[k]]
      BY <2>1 DEF Issues, IssueReceipt
    <2>3. /\ k \in Creates /\ receipt[k] # Nobody => receipt'[k] = receipt[k]
          /\ \A i \in Creates : i # k => receipt'[i] = receipt[i]
      BY <1>0, <2>2 DEF Types
    <2> QED BY <1>3, <2>3, PassCases
  <1> QED BY <1>1, <1>2, <1>3, StepsOfNext DEF Resolve, Lapse, vars

(* A token handed out stays so, and is handed out by the create that       *)
(* stores its receipt.                                                     *)
LEMMA HandedStep ==
    ASSUME NInv, NInv', [Next]_vars
    PROVE  /\ Handed \subseteq Handed'
           /\ \A c \in Handed' \ Handed : receipt[c] = Nobody /\ receipt'[c] # Nobody
  <1>0. Types
    BY DEF NInv
  <1>1. ASSUME NEW c \in Creates, reply'[c] # reply[c]
        PROVE  CreateStep(c)
    <2>1. ASSUME NEW d \in Creates, CreateStep(d), d # c PROVE FALSE
      BY <1>0, <1>1, <2>1 DEF CreateStep, LookUp, VerifyPayment, Insert, FailCreate,
         Answer, Types
    <2>2. ASSUME NEW p \in Passes, PassStep(p) PROVE FALSE
      BY <1>1, <2>2, PassCases
    <2> QED BY <1>1, <2>1, <2>2, StepsOfNext DEF Resolve, Lapse, vars
  <1>2. ASSUME NEW c \in Handed PROVE c \in Handed'
    <2>1. c \in Creates /\ call[c].at = "done"
      BY DEF NInv, CreateInv, Handed, Answered, NoReply
    <2>2. ~CreateStep(c)
      BY <2>1 DEF CreateStep, LookUp, VerifyPayment, Insert, FailCreate
    <2> QED BY <1>1, <2>1, <2>2 DEF Handed, Answered
  <1>3. ASSUME NEW c \in Handed', c \notin Handed
        PROVE  receipt[c] = Nobody /\ receipt'[c] # Nobody
    <2>1. c \in Creates /\ reply'[c] # reply[c] /\ reply'[c].token # Nobody
          /\ reply'[c].outcome \in {"created", "existing"}
      BY <1>3 DEF Handed, Answered
    <2>2. receipt'[c] = reply'[c].token
      <3>1. CreateInv(c)' /\ c \in Answered'
        BY <1>3, <2>1 DEF NInv, Handed
      <3> QED BY <2>1, <3>1 DEF CreateInv
    <2>3. Insert(c)
      <3>1. CASE LookUp(c)
        <4>1. PICK i : Answer(c, [outcome |-> "existing", intent |-> i, token |-> Nobody])
          BY <2>1, <3>1 DEF LookUp
        <4> QED BY <1>0, <2>1, <4>1 DEF Answer, Types
      <3>2. CASE VerifyPayment(c) \/ FailCreate(c)
        <4>1. reply'[c] = reply[c] \/ reply'[c] = [outcome |-> "failed"]
          BY <1>0, <2>1, <3>2 DEF VerifyPayment, FailCreate, Answer, Types
        <4> QED BY <2>1, <4>1
      <3> QED BY <1>1, <2>1, <3>1, <3>2 DEF CreateStep
    <2>4. receipt[c] = Nobody
      <3>1. reply'[c] # [outcome |-> "conflict"]
        BY <2>1
      <3> QED BY <2>1, <2>3, <3>1, InsertIsFirst
    <2> QED BY <2>1, <2>2, <2>4
  <1> QED BY <1>2, <1>3

(* Every step sells one receipt, settles a payment, or changes nothing of  *)
(* either.                                                                 *)
LEMMA SaleStep ==
    ASSUME NInv, NInv', UniqueInv', [Next]_vars
    PROVE  Sale!Next
  <1>0. /\ Sold = {Ticket(i) : i \in Bought} /\ Shown = {Ticket(c) : c \in Handed}
        /\ Sold' = {Ticket(i)' : i \in Bought'} /\ Shown' = {Ticket(c)' : c \in Handed'}
        /\ Handed \subseteq Bought /\ Handed' \subseteq Bought'
    <2>1. (Sold = {Ticket(i) : i \in Bought} /\ Shown = {Ticket(c) : c \in Handed}
            /\ Handed \subseteq Bought)'
      BY SoldAndShown, PTL
    <2> QED BY <2>1, SoldAndShown
  <1>1. /\ Bought \subseteq Bought' /\ \A i \in Bought : Ticket(i)' = Ticket(i)
    BY ReceiptStep DEF Bought, Ticket
  <1>2. CASE Bought' = Bought
    <2>1. Sold' = Sold
      BY <1>0, <1>1, <1>2
    <2>2. Handed' = Handed
      BY <1>0, <1>2, HandedStep DEF Bought
    <2>3. Shown' = Shown
      BY <1>0, <1>1, <2>2
    <2>4. PaidRefs \subseteq PaidRefs'
      <3>1. ASSUME NEW r \in PaidRefs PROVE r \in PaidRefs'
        <4>1. PICK i \in Creates : Ref[i] = r /\ Paid(i)
          BY <3>1 DEF PaidRefs, Refs, Paid
        <4>2. Paid(i)'
          BY <4>1, PaidStays
        <4> QED BY <4>1, <4>2, <3>1 DEF PaidRefs, Paid
      <3> QED BY <3>1
    <2> QED BY <2>1, <2>3, <2>4 DEF Sale!Next, Sale!SettlePayment, PaidRefs
  <1>3. CASE Bought' # Bought
    <2>1. PICK k \in Creates : k \in Bought' /\ k \notin Bought
      BY <1>1, <1>3 DEF Bought
    <2>2. node' = node /\ \A i \in Creates : i # k => receipt'[i] = receipt[i]
      <3>1. receipt' # receipt
        BY <2>1 DEF Bought
      <3> QED BY <2>1, <3>1, ReceiptStep DEF Bought
    <2>3. Bought' = Bought \cup {k}
      BY <1>1, <2>1, <2>2 DEF Bought
    <2>4. Sold' = Sold \cup {Ticket(k)'}
      BY <1>0, <1>1, <2>3
    <2>5. Handed' \in {Handed, Handed \cup {k}}
      <3>1. \A c \in Handed' : c \in Handed \/ c = k
        BY <1>0, <2>3, HandedStep DEF Bought
      <3> QED BY <3>1, HandedStep
    <2>6. Shown' \in {Shown, Shown \cup {Ticket(k)'}}
      BY <1>0, <1>1, <2>5
    <2>7. Ref[k] \in PaidRefs /\ receipt'[k] \in Issuers
      <3>1. Paid(k)' /\ receipt'[k] \in Issuers \cup {Nobody} /\ receipt'[k] # Nobody
        BY <2>1 DEF NInv, IntentInv, Types, Bought
      <3> QED BY <2>2, <3>1 DEF Paid, PaidRefs, Refs
    <2>8. ASSUME NEW s \in Sold PROVE s.payment # Ref[k] /\ s.intent # k
      <3>1. PICK i \in Bought : s = Ticket(i)
        BY <1>0
      <3>2. i # k /\ i \in Creates /\ receipt'[i] # Nobody /\ receipt'[k] # Nobody
        BY <1>1, <2>1, <3>1 DEF Bought
      <3>3. Stored(i)' /\ Stored(k)' /\ HasRef(i)
        BY <2>1, <3>2 DEF NInv, IntentInv, Stored, Paid
      <3>4. Ref[i] # Ref[k]
        BY <2>1, <3>2, <3>3 DEF UniqueInv, Shares
      <3> QED BY <3>1, <3>2, <3>4 DEF Ticket
    <2>9. PICK t : t = Ticket(k)'
      OBVIOUS
    <2>10. t.payment = Ref[k] /\ t.intent = k /\ t \in Sale!Receipts
      BY <2>7, <2>9 DEF Ticket, Sale!Receipts, PaidRefs
    <2>11. Sale!Sell(t)
      BY <2>2, <2>4, <2>6, <2>7, <2>8, <2>9, <2>10 DEF Sale!Sell, PaidRefs
    <2> QED BY <2>10, <2>11 DEF Sale!Next
  <1> QED BY <1>2, <1>3

(* The refinement: the service implements PaidReceipts in every instance.  *)
THEOREM SaleIsKept == Spec => KeepsSale
  <1>1. Init => Sale!Init
    <2> SUFFICES ASSUME Init PROVE Sale!Init
      OBVIOUS
    <2>1. Sold = {} /\ Shown = {}
      BY DEF Init, Sold, Shown, Answered, NoReply
    <2> QED BY <2>1 DEF Sale!Init
  <1>2. NInv /\ NInv' /\ UniqueInv' /\ [Next]_vars => [Sale!Next]_(Sale!vars)
    BY SaleStep
  <1> QED BY <1>1, <1>2, Invariance, Uniqueness, PTL DEF Spec, KeepsSale, Sale!Spec

=============================================================================
