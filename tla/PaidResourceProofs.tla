-------------------------- MODULE PaidResourceProofs --------------------------
(***************************************************************************)
(* Safety of PaidResourceServer for every set of clients and signals: the  *)
(* server only runs the redemption it wraps, the status it writes tells    *)
(* the truth about the use, and stopping loses no answer.                  *)
(***************************************************************************)
EXTENDS PaidResourceServer, AccessRedemptionProofs

(* What was written for a GET is what its redemption returned, or 401.     *)
GetInv(c) ==
    /\ http[c] \in {"none", "serving", "answered"}
    /\ call[c] # Idle => http[c] = "serving"
    /\ http[c] = "none" => reply[c] = NoReply
    /\ reply[c] # NoReply => http[c] = "answered" /\ code[c] = CodeOf(reply[c])
    /\ reply[c] = NoReply => code[c] \in {0, 401}
    /\ code[c] = 401 => http[c] = "answered"

(* A receipt registered by a POST was returned by it in the same step.     *)
PostInv(r) ==
    /\ http[r] \in {"none", "body"} => issue[r] = "no"
    /\ issue[r] = "issued" => http[r] = "answered" /\ code[r] = 201
    /\ record[r].registered => issue[r] = "issued"

(* The process exits only after the requests of the clients that stayed.   *)
ExitInv ==
    /\ process # "crashed"
    /\ process = "exited" => \A q \in Requests : InFlight(q) => q \in gone

SInv ==
    /\ AInv /\ ServerTypeOK /\ ExitInv
    /\ \A c \in Calls : GetInv(c)
    /\ \A r \in Receipts : PostInv(r)

-----------------------------------------------------------------------------
(* The server takes no step of its own in the redemption or the store.     *)
LEMMA ServerStep == [ServerNext]_allVars => [Next]_vars
  <1> SUFFICES ASSUME ServerNext PROVE [Next]_vars
    BY DEF allVars, vars
  <1>1. ASSUME NEW c \in Calls, NEW token \in Tokens, GetResource(c, token) PROVE Next
    BY <1>1 DEF GetResource, Next
  <1>2. ASSUME NEW r \in Receipts, PostReceipt(r) \/ \E status \in Codes : RejectBody(r, status)
        PROVE  UNCHANGED vars
    BY <1>2 DEF PostReceipt, RejectBody
  <1>3. ASSUME NEW r \in Receipts, IssueReceipt(r) PROVE Next
    BY <1>3 DEF IssueReceipt, Next
  <1>4. ASSUME NEW q \in Requests, TurnAway(q) \/ HangUp(q) PROVE UNCHANGED vars
    BY <1>4 DEF TurnAway, HangUp
  <1>5. ASSUME NEW q \in Requests, Handler(q) PROVE [Next]_vars
    BY <1>5 DEF Handler, Redeem, ReturnReceipt, FailToIssue, Next
  <1>6. ASSUME NEW sig \in Signals, Signal(sig) PROVE UNCHANGED vars
    BY <1>6 DEF Signal
  <1>7. CASE CloseIdle \/ Exit
    BY <1>7 DEF CloseIdle, Exit
  <1>8. CASE Tick \/ \E r \in Receipts, field \in DOMAIN Unregistered : Change(r, field)
    BY <1>8 DEF Next
  <1> QED BY <1>1, <1>2, <1>3, <1>4, <1>5, <1>6, <1>7, <1>8 DEF ServerNext

(* The refinement: the server implements the redemption it wraps.          *)
THEOREM ServerRedeems == ServerSpec => Spec
  <1>1. ServerInit => Init
    BY DEF ServerInit
  <1> QED BY <1>1, ServerStep, PTL DEF ServerSpec, Spec

(* So what the redemption promises holds behind the server.                *)
THEOREM ServerExhaustionReport == ServerSpec => []LastUseReportedOnce
  BY ServerRedeems, ExhaustionReport

THEOREM ServerToleranceIsFree == ServerSpec => []ToleranceBuysNoUse
  BY ServerRedeems, ToleranceIsFree

THEOREM ServerRecordsAreFound == ServerSpec => []HeldReceiptsAreKnown
  BY ServerRedeems, RecordsAreFound

THEOREM ServerKeepsPromise == ServerSpec => KeepsPromise
  BY ServerRedeems, PromiseIsKept

-----------------------------------------------------------------------------
LEMMA ServerTypeInitially == ServerInit => ServerTypeOK
  BY TypeInitially DEF ServerInit, ServerTypeOK, Places, Codes

LEMMA CodesWritten ==
    ASSUME ServerTypeOK, NEW q \in Requests, NEW status \in Codes, Write(q, status)
    PROVE  http' \in [Requests -> Places] /\ code' \in [Requests -> Codes]
  BY DEF ServerTypeOK, Write, Places

LEMMA IdleCounted ==
    ASSUME ServerTypeOK, NEW q, Arrive \/ LeaveOpen(q)
    PROVE  idle' \in Nat
  BY DEF ServerTypeOK, Arrive, LeaveOpen

LEMMA ServerTypeKept == ServerTypeOK /\ [ServerNext]_allVars => ServerTypeOK'
  <1> SUFFICES ASSUME ServerTypeOK, [ServerNext]_allVars PROVE ServerTypeOK'
    OBVIOUS
  <1>0. TypeOK' /\ {200, 201, 400, 401, 403, 404, 500, 503} \subseteq Codes
    BY ServerStep, TypeKept DEF ServerTypeOK, Codes
  <1>1. ASSUME NEW c \in Calls, NEW token \in Tokens, GetResource(c, token)
        PROVE  ServerTypeOK'
    <2>1. http' = [http EXCEPT ![c] = "serving"] /\ UNCHANGED <<code, gone, process, signalled>>
      BY <1>1 DEF GetResource, Quiet
    <2>2. http' \in [Requests -> Places]
      BY <2>1 DEF ServerTypeOK, Places
    <2> QED BY <1>0, <1>1, <2>1, <2>2, IdleCounted DEF GetResource, ServerTypeOK
  <1>2. ASSUME NEW r \in Receipts, PostReceipt(r) \/ IssueReceipt(r) PROVE ServerTypeOK'
    <2>1. idle' \in Nat
      BY <1>2, IdleCounted DEF PostReceipt, IssueReceipt, ServerTypeOK
    <2> QED BY <1>0, <1>2, <2>1 DEF PostReceipt, IssueReceipt, Quiet, ServerTypeOK, Places
  <1>3. ASSUME NEW r \in Receipts, NEW status \in Codes, RejectBody(r, status)
        PROVE  ServerTypeOK'
    BY <1>0, <1>3, CodesWritten, IdleCounted DEF RejectBody, Quiet, ServerTypeOK, Requests
  <1>4. ASSUME NEW q \in Requests, TurnAway(q) PROVE ServerTypeOK'
    BY <1>0, <1>4, CodesWritten DEF TurnAway, Quiet, ServerTypeOK
  <1>5. ASSUME NEW q \in Requests, HangUp(q) PROVE ServerTypeOK'
    BY <1>0, <1>5 DEF HangUp, ServerTypeOK
  <1>6. ASSUME NEW c \in Calls, Redeem(c) PROVE ServerTypeOK'
    <2>1. CodeOf(reply'[c]) \in Codes
      BY <1>0 DEF CodeOf
    <2>2. http' \in [Requests -> Places] /\ code' \in [Requests -> Codes]
      <3>1. CASE UNCHANGED <<http, code>>
        BY <3>1 DEF ServerTypeOK
      <3>2. CASE ~UNCHANGED <<http, code>>
        BY <1>6, <2>1, <3>2, CodesWritten DEF Redeem, Requests
      <3> QED BY <3>1, <3>2
    <2>3. idle' \in Nat
      BY <1>6, IdleCounted DEF Redeem, ServerTypeOK
    <2> QED BY <1>0, <1>6, <2>2, <2>3 DEF Redeem, Quiet, ServerTypeOK
  <1>7. ASSUME NEW r \in Receipts, ReturnReceipt(r) \/ FailToIssue(r) PROVE ServerTypeOK'
    BY <1>0, <1>7, CodesWritten, IdleCounted DEF ReturnReceipt, FailToIssue, Quiet, ServerTypeOK, Requests
  <1>8. ASSUME NEW sig \in Signals, Signal(sig) PROVE ServerTypeOK'
    BY <1>0, <1>8 DEF Signal, Stop, ServerTypeOK
  <1>9. CASE CloseIdle \/ Exit
    BY <1>0, <1>9 DEF CloseIdle, Exit, ServerTypeOK
  <1>10. CASE UNCHANGED server
    BY <1>0, <1>10 DEF server, ServerTypeOK
  <1> QED BY <1>1, <1>2, <1>3, <1>4, <1>5, <1>6, <1>7, <1>8, <1>9, <1>10
          DEF ServerNext, Handler, allVars

(* Every variable of the server keeps its type.                            *)
THEOREM ServerTypeCorrect == ServerSpec => []ServerTypeOK
  BY ServerTypeInitially, ServerTypeKept, PTL DEF ServerSpec

-----------------------------------------------------------------------------
LEMMA SInvInitially == ServerInit => SInv
  <1> SUFFICES ASSUME ServerInit PROVE SInv
    OBVIOUS
  <1>1. AInv /\ ServerTypeOK
    BY AInvInitially, ServerTypeInitially DEF ServerInit
  <1>2. ExitInv
    BY DEF ServerInit, ExitInv
  <1>3. \A c \in Calls : GetInv(c)
    BY DEF ServerInit, Init, GetInv, Requests
  <1>4. \A r \in Receipts : PostInv(r)
    BY DEF ServerInit, Init, PostInv, Requests, Unregistered
  <1> QED BY <1>1, <1>2, <1>3, <1>4 DEF SInv

(* A step of one request leaves what is said of another alone.             *)
LEMMA GetFrame ==
    ASSUME NEW c \in Calls, GetInv(c), call'[c] = call[c], reply'[c] = reply[c],
           http'[c] = http[c], code'[c] = code[c]
    PROVE  GetInv(c)'
  BY DEF GetInv, CodeOf

LEMMA PostFrame ==
    ASSUME NEW r \in Receipts, PostInv(r), issue'[r] = issue[r],
           record'[r].registered = record[r].registered,
           http'[r] = http[r], code'[r] = code[r]
    PROVE  PostInv(r)'
  BY DEF PostInv

(* The redemption's step leaves other calls and every receipt's issue be.  *)
LEMMA RedeemFrame ==
    ASSUME TypeOK, NEW c \in Calls, Quietly(c) \/ Consume(c)
    PROVE  /\ issue' = issue
           /\ \A r \in Receipts : record'[r].registered = record[r].registered
           /\ \A z \in Calls : z # c => call'[z] = call[z] /\ reply'[z] = reply[z]
  <1>1. issue' = issue
    BY DEF Quietly, Start, Verify, MapConsumeResult, Fail, Consume
  <1>2. \A z \in Calls : z # c => call'[z] = call[z] /\ reply'[z] = reply[z]
    BY DEF TypeOK, Quietly, Start, Verify, MapConsumeResult, Fail, Consume, Finish
  <1>3. ASSUME NEW r \in Receipts PROVE record'[r].registered = record[r].registered
    <2>1. CASE UNCHANGED record
      BY <2>1
    <2>2. CASE ~UNCHANGED record
      <3>1. PICK v : Use(c, call[c].token.receipt, v)
        BY <2>2, ConsumeCases DEF Quietly, Start, Verify, MapConsumeResult, Fail, End, Deny
      <3>2. record' = [record EXCEPT ![call[c].token.receipt].count = @ + 1]
        BY <3>1 DEF Use
      <3>3. record \in [Receipts -> Records] /\ record[r] \in Records
        BY DEF TypeOK
      <3> QED BY <3>2, <3>3 DEF Records
    <2> QED BY <2>1, <2>2
  <1> QED BY <1>1, <1>2, <1>3

LEMMA RequestsKept ==
    ASSUME SInv, AInv', ServerTypeOK', ServerNext
    PROVE  (\A c \in Calls : GetInv(c)') /\ (\A r \in Receipts : PostInv(r)')
  <1>0. /\ AInv /\ TypeOK /\ http \in [Requests -> Places] /\ code \in [Requests -> Codes]
        /\ \A c \in Calls : GetInv(c) /\ c \in Requests /\ c \notin Receipts
                          /\ CallInv(c) /\ CallInv(c)'
        /\ \A r \in Receipts : PostInv(r) /\ r \in Requests /\ r \notin Calls
    BY RouteAssumption DEF SInv, AInv, ServerTypeOK, Requests
  <1>w. ASSUME NEW q \in Requests, NEW status, Write(q, status)
        PROVE  /\ http'[q] = "answered" /\ code'[q] = status
               /\ \A z \in Requests : z # q => http'[z] = http[z] /\ code'[z] = code[z]
    BY <1>0, <1>w DEF Write
  <1>1. ASSUME NEW c \in Calls, NEW token \in Tokens, GetResource(c, token)
        PROVE  (\A z \in Calls : GetInv(z)') /\ (\A r \in Receipts : PostInv(r)')
    <2>1. /\ http[c] = "none" /\ http'[c] = "serving" /\ code' = code
          /\ \A z \in Requests : z # c => http'[z] = http[z]
          /\ reply' = reply /\ reply[c] = NoReply
      BY <1>0, <1>1 DEF GetResource, Start
    <2>2. /\ issue' = issue
          /\ \A r \in Receipts : record'[r].registered = record[r].registered
          /\ \A z \in Calls : z # c => call'[z] = call[z] /\ reply'[z] = reply[z]
      BY <1>0, <1>1, RedeemFrame DEF GetResource, Quietly
    <2>3. GetInv(c)'
      BY <1>0, <2>1 DEF GetInv
    <2>4. \A z \in Calls : z # c => GetInv(z)'
      BY <1>0, <2>1, <2>2, GetFrame
    <2>5. \A r \in Receipts : PostInv(r)'
      BY <1>0, <2>1, <2>2, PostFrame
    <2> QED BY <2>3, <2>4, <2>5
  <1>2. ASSUME NEW r \in Receipts,
               \/ PostReceipt(r) \/ IssueReceipt(r) \/ ReturnReceipt(r) \/ FailToIssue(r)
               \/ \E status \in Codes : RejectBody(r, status)
        PROVE  (\A z \in Calls : GetInv(z)') /\ (\A x \in Receipts : PostInv(x)')
    <2>1. UNCHANGED <<call, reply>>
      BY <1>2 DEF PostReceipt, IssueReceipt, ReturnReceipt, FailToIssue, RejectBody,
         SignReceipt, RegisterIssuedReceipt, vars
    <2>2. \A z \in Requests : z # r => http'[z] = http[z] /\ code'[z] = code[z]
      BY <1>0, <1>2, <1>w DEF PostReceipt, IssueReceipt, ReturnReceipt, FailToIssue, RejectBody
    <2>3. \A x \in Receipts : x # r =>
            issue'[x] = issue[x] /\ record'[x].registered = record[x].registered
      BY <1>0, <1>2 DEF PostReceipt, IssueReceipt, ReturnReceipt, FailToIssue, RejectBody,
         SignReceipt, RegisterIssuedReceipt, vars, TypeOK
    <2>4. \A z \in Calls : GetInv(z)'
      BY <1>0, <2>1, <2>2, GetFrame
    <2>5. \A x \in Receipts : x # r => PostInv(x)'
      BY <1>0, <2>2, <2>3, PostFrame
    <2>6. PostInv(r)'
      <3>0. /\ PostInv(r) /\ issue[r] \in {"no", "signing", "issued"}
            /\ issue \in [Receipts -> {"no", "signing", "issued"}]
            /\ record \in [Receipts -> Records] /\ r \in Requests
        BY <1>0 DEF TypeOK
      <3>1. CASE PostReceipt(r)
        <4>1. http[r] = "none" /\ http'[r] = "body" /\ UNCHANGED <<issue, record>>
          BY <1>0, <3>0, <3>1 DEF PostReceipt, vars
        <4> QED BY <3>0, <4>1 DEF PostInv
      <3>2. CASE IssueReceipt(r)
        <4>1. http'[r] = "serving" /\ issue[r] = "no" /\ issue'[r] = "signing" /\ record' = record
          BY <1>0, <3>0, <3>2 DEF IssueReceipt, SignReceipt
        <4> QED BY <3>0, <4>1 DEF PostInv
      <3>3. CASE ReturnReceipt(r)
        <4>1. http'[r] = "answered" /\ code'[r] = 201 /\ issue'[r] = "issued"
          BY <1>w, <3>0, <3>3 DEF ReturnReceipt, RegisterIssuedReceipt
        <4> QED BY <4>1 DEF PostInv
      <3>4. CASE FailToIssue(r)
        <4>1. http'[r] = "answered" /\ issue[r] = "signing" /\ UNCHANGED <<issue, record>>
          BY <1>w, <3>0, <3>4 DEF FailToIssue, vars
        <4> QED BY <3>0, <4>1 DEF PostInv
      <3>5. CASE \E status \in Codes : RejectBody(r, status)
        <4>1. http[r] = "body" /\ http'[r] = "answered" /\ UNCHANGED <<issue, record>>
          BY <1>w, <3>0, <3>5 DEF RejectBody, vars
        <4> QED BY <3>0, <4>1 DEF PostInv
      <3> QED BY <1>2, <3>1, <3>2, <3>3, <3>4, <3>5
    <2> QED BY <2>4, <2>5, <2>6
  <1>3. ASSUME NEW c \in Calls, Redeem(c)
        PROVE  (\A z \in Calls : GetInv(z)') /\ (\A r \in Receipts : PostInv(r)')
    <2>1. /\ call[c] # Idle /\ http[c] = "serving" /\ reply[c] = NoReply
      <3>1. call[c] # Idle
        <4>1. call[c].at \in {"verify", "consume", "map"}
          BY <1>3 DEF Redeem, Verify, Consume, MapConsumeResult, Fail
        <4> QED BY <4>1 DEF Idle
      <3> QED BY <1>0, <3>1 DEF GetInv, CallInv
    <2>2. /\ issue' = issue
          /\ \A r \in Receipts : record'[r].registered = record[r].registered
          /\ \A z \in Calls : z # c => call'[z] = call[z] /\ reply'[z] = reply[z]
      BY <1>0, <1>3, RedeemFrame DEF Redeem, Quietly
    <2>3. CodeOf(reply'[c]) \in {200, 403, 503}
      BY DEF CodeOf
    <2>4. \/ /\ reply'[c] = NoReply /\ UNCHANGED <<http, code>>
          \/ /\ reply'[c] # NoReply /\ Write(c, CodeOf(reply'[c]))
      BY <1>3, <2>3 DEF Redeem
    <2>5. GetInv(c)'
      <3>1. CASE reply'[c] = NoReply /\ UNCHANGED <<http, code>>
        BY <1>0, <2>1, <3>1 DEF GetInv
      <3>2. CASE reply'[c] # NoReply /\ Write(c, CodeOf(reply'[c]))
        <4>1. http'[c] = "answered" /\ code'[c] = CodeOf(reply'[c])
          BY <1>0, <1>w, <3>2
        <4>2. call'[c] = Idle
          BY <1>0, <3>2 DEF CallInv
        <4>3. code'[c] = CodeOf(reply[c])'
          BY <4>1 DEF CodeOf
        <4> QED BY <2>3, <3>2, <4>1, <4>2, <4>3 DEF GetInv
      <3> QED BY <2>4, <3>1, <3>2
    <2>6. \A z \in Requests : z # c => http'[z] = http[z] /\ code'[z] = code[z]
      BY <1>0, <1>w, <2>4
    <2>7. \A z \in Calls : z # c => GetInv(z)'
      BY <1>0, <2>2, <2>6, GetFrame
    <2>8. \A r \in Receipts : PostInv(r)'
      BY <1>0, <2>2, <2>6, PostFrame
    <2> QED BY <2>5, <2>7, <2>8
  <1>4. ASSUME NEW q \in Requests, TurnAway(q)
        PROVE  (\A z \in Calls : GetInv(z)') /\ (\A r \in Receipts : PostInv(r)')
    <2>1. /\ UNCHANGED <<call, reply, issue, record>> /\ http[q] = "none"
          /\ http'[q] = "answered"
          /\ q \in Calls => code'[q] = 401
          /\ \A z \in Requests : z # q => http'[z] = http[z] /\ code'[z] = code[z]
      <3>1. Write(q, IF q \in Calls THEN 401 ELSE 404)
        BY <1>4 DEF TurnAway
      <3> QED BY <1>4, <1>w, <3>1 DEF TurnAway, vars
    <2>2. \A z \in Calls : z # q => GetInv(z)'
      BY <1>0, <2>1, GetFrame
    <2>3. \A r \in Receipts : r # q => PostInv(r)'
      BY <1>0, <2>1, PostFrame
    <2>4. q \in Calls => GetInv(q)'
      BY <1>0, <2>1 DEF GetInv
    <2>5. q \in Receipts => PostInv(q)'
      BY <1>0, <2>1 DEF PostInv
    <2> QED BY <2>2, <2>3, <2>4, <2>5
  <1>5. ASSUME UNCHANGED <<call, reply, issue, http, code>>,
               \A r \in Receipts : record'[r].registered = record[r].registered
        PROVE  (\A z \in Calls : GetInv(z)') /\ (\A r \in Receipts : PostInv(r)')
    BY <1>0, <1>5, GetFrame, PostFrame
  <1>6. ASSUME NEW q \in Requests, HangUp(q)
        PROVE  (\A z \in Calls : GetInv(z)') /\ (\A r \in Receipts : PostInv(r)')
    BY <1>5, <1>6 DEF HangUp, vars
  <1>7. ASSUME NEW sig \in Signals, Signal(sig)
        PROVE  (\A z \in Calls : GetInv(z)') /\ (\A r \in Receipts : PostInv(r)')
    BY <1>5, <1>7 DEF Signal, vars
  <1>8. CASE CloseIdle \/ Exit
    BY <1>5, <1>8 DEF CloseIdle, Exit, vars
  <1>9. CASE UNCHANGED server /\ Tick
    BY <1>5, <1>9 DEF Tick, server
  <1>10. ASSUME NEW r \in Receipts, NEW field, Change(r, field), UNCHANGED server
         PROVE  (\A z \in Calls : GetInv(z)') /\ (\A x \in Receipts : PostInv(x)')
    <2>1. \A x \in Receipts : record'[x].registered = record[x].registered
      BY <1>0, <1>10, ChangeCases
    <2>2. UNCHANGED <<call, reply, issue, http, code>>
      BY <1>10 DEF Change, server
    <2> QED BY <1>5, <2>1, <2>2
  <1> QED BY <1>1, <1>2, <1>3, <1>4, <1>6, <1>7, <1>8, <1>9, <1>10
          DEF ServerNext, Handler

LEMMA ExitKept ==
    ASSUME SInv, ServerNext
    PROVE  ExitInv'
  <1>1. process \in {"up", "stopping"}
    BY DEF ServerNext, Running
  <1>2. CASE Exit
    BY <1>1, <1>2 DEF Exit, ExitInv, InFlight
  <1>3. ASSUME NEW sig \in Signals, Signal(sig) PROVE ExitInv'
    BY <1>1, <1>3 DEF Signal, Stop, ExitInv
  <1>4. CASE process' = process
    BY <1>1, <1>4 DEF ExitInv
  <1> QED BY <1>2, <1>3, <1>4
          DEF ServerNext, Handler, GetResource, PostReceipt, IssueReceipt, RejectBody,
              TurnAway, HangUp, CloseIdle, Redeem, ReturnReceipt, FailToIssue, Quiet, server

LEMMA SInvKept == SInv /\ [ServerNext]_allVars => SInv'
  <1> SUFFICES ASSUME SInv, [ServerNext]_allVars PROVE SInv'
    OBVIOUS
  <1>1. AInv'
    BY ServerStep, AInvKept DEF SInv
  <1>2. ServerTypeOK'
    BY ServerTypeKept DEF SInv
  <1>3. CASE ServerNext
    BY <1>1, <1>2, <1>3, RequestsKept, ExitKept DEF SInv
  <1>4. CASE UNCHANGED allVars
    <2>1. UNCHANGED <<call, reply, issue, record, http, code, gone, process>>
      BY <1>4 DEF allVars, vars, server
    <2>2. \A c \in Calls : GetInv(c)'
      BY <2>1, GetFrame DEF SInv
    <2>3. \A r \in Receipts : PostInv(r)'
      BY <2>1, PostFrame DEF SInv
    <2>4. ExitInv'
      BY <2>1 DEF SInv, ExitInv, InFlight
    <2> QED BY <1>1, <1>2, <2>2, <2>3, <2>4 DEF SInv
  <1> QED BY <1>3, <1>4

(* The server's invariant holds in every reachable state.                  *)
THEOREM ServerInvariance == ServerSpec => []SInv
  BY SInvInitially, SInvKept, PTL DEF ServerSpec

-----------------------------------------------------------------------------
(* The status written tells the client the truth about its receipt.        *)
THEOREM HonestStatus == ServerSpec => []StatusIsHonest
  <1>1. SInv => StatusIsHonest
    <2> SUFFICES ASSUME SInv, NEW c \in Calls
                 PROVE  /\ code[c] = 200 => Charged(c)
                        /\ code[c] \in {401, 403} => ~Charged(c)
      BY DEF StatusIsHonest
    <2>1. GetInv(c) /\ CallInv(c) /\ reply[c] \in Results
      BY DEF SInv, AInv, TypeOK
    <2>2. CASE reply[c] = NoReply
      BY <2>1, <2>2 DEF GetInv, CallInv, NoReply
    <2>3. CASE reply[c] # NoReply
      <3>1. call[c] = Idle /\ code[c] = CodeOf(reply[c]) /\ reply[c].status # "none"
        BY <2>1, <2>3 DEF GetInv, CallInv, Results, NoReply
      <3>2. code[c] = 200 <=> reply[c].status = "success"
        BY <3>1 DEF CodeOf
      <3>3. code[c] \in {401, 403} =>
                reply[c].status # "success" /\ reply[c].status # "system_failure"
        BY <3>1 DEF CodeOf
      <3> QED BY <2>1, <3>1, <3>2, <3>3 DEF CallInv
    <2> QED BY <2>2, <2>3
  <1> QED BY <1>1, ServerInvariance, PTL

(* When the server has stopped, clients that stayed were answered for what *)
(* they were charged and for what was registered.                          *)
THEOREM NoAnswerLost == ServerSpec => []StopLosesNoAnswer
  <1>1. SInv => StopLosesNoAnswer
    <2> SUFFICES ASSUME SInv, process \in {"exited", "crashed"}
                 PROVE  /\ \A c \in Calls \ gone : Charged(c) => code[c] \in {200, 503}
                        /\ \A r \in Receipts \ gone : record[r].registered => code[r] = 201
      BY DEF StopLosesNoAnswer
    <2>1. \A q \in Requests \ gone : http[q] \notin {"body", "serving"}
      BY DEF SInv, ExitInv, InFlight
    <2>2. ASSUME NEW c \in Calls \ gone, Charged(c) PROVE code[c] \in {200, 503}
      <3>1. GetInv(c) /\ CallInv(c) /\ http[c] # "serving"
        BY <2>1 DEF SInv, AInv, Requests
      <3>2. call[c] = Idle /\ reply[c].status \in {"success", "system_failure"}
        BY <2>2, <3>1 DEF GetInv, CallInv
      <3>3. code[c] = CodeOf(reply[c])
        BY <3>1, <3>2 DEF GetInv, NoReply
      <3> QED BY <3>2, <3>3 DEF CodeOf
    <2>3. ASSUME NEW r \in Receipts \ gone, record[r].registered PROVE code[r] = 201
      BY <2>3 DEF SInv, PostInv
    <2> QED BY <2>2, <2>3
  <1> QED BY <1>1, ServerInvariance, PTL

=============================================================================
