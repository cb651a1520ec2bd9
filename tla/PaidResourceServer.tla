------------------------- MODULE PaidResourceServer -------------------------
(***************************************************************************)
(* examples/paid-resource/src/server.mjs: the HTTP server around the       *)
(* redemption of AccessRedemption, during one life of its process (keys    *)
(* and store live in memory, so a restart begins anew).  Every call is     *)
(* made by one GET /resource and every receipt issued by one POST          *)
(* /receipt, over a new connection or one that was kept alive.  Clients go *)
(* away in the middle, and signals stop the process while requests are in  *)
(* flight.                                                                 *)
(***************************************************************************)
EXTENDS AccessRedemption

CONSTANT Signals    \* those the process listens to, each once

ASSUME RouteAssumption == Calls \cap Receipts = {}

VARIABLES
    http,       \* http[q]: where the request is
    code,       \* code[q]: the status written for it, or 0
    gone,       \* the requests whose client closed the connection
    idle,       \* connections left open to a stopping server, without request
    process,    \* up, stopping, or ended in one of three ways
    signalled   \* the signals received so far

server == <<http, code, gone, idle, process, signalled>>
allVars == <<vars, server>>

-----------------------------------------------------------------------------
Requests == Calls \cup Receipts
Places == {"none", "body", "serving", "answered"}
Codes == {0, 200, 201, 400, 401, 403, 404, 500, 503}

ServerTypeOK ==
    /\ TypeOK
    /\ http \in [Requests -> Places]
    /\ code \in [Requests -> Codes]
    /\ gone \subseteq Requests /\ idle \in Nat
    /\ process \in {"up", "stopping", "exited", "crashed", "killed"}
    /\ signalled \subseteq Signals

ServerInit ==
    /\ Init
    /\ http = [q \in Requests |-> "none"]
    /\ code = [q \in Requests |-> 0]
    /\ gone = {} /\ idle = 0
    /\ process = "up"
    /\ signalled = {}

Running == process \in {"up", "stopping"}
InFlight(q) == http[q] \in {"body", "serving"}

Write(q, status) ==
    /\ http' = [http EXCEPT ![q] = "answered"]
    /\ code' = [code EXCEPT ![q] = status]

(* A request comes over a new connection, or one that is kept alive: the   *)
(* close only ends those that are idle when it begins.                     *)
Arrive ==
    \/ process = "up" /\ UNCHANGED idle
    \/ idle > 0 /\ idle' = idle - 1

(* Answered, the connection of a client that stayed is kept alive.         *)
LeaveOpen(q) ==
    idle' = IF process = "stopping" /\ q \notin gone THEN idle + 1 ELSE idle

Quiet == UNCHANGED <<gone, process, signalled>>

-----------------------------------------------------------------------------
(* handleRequest.  Without a bearer token, or for another route, or a URL  *)
(* that does not parse (an exception), the answer comes at once; one       *)
(* status stands for all three.                                            *)
TurnAway(q) ==
    /\ process = "up" \/ idle > 0
    /\ http[q] = "none"
    /\ Write(q, IF q \in Calls THEN 401 ELSE 404)
    /\ Quiet /\ UNCHANGED <<vars, idle>>

(* GET /resource: redeemReceipt reads the clock and calls the pipeline.    *)
GetResource(c, token) ==
    /\ Arrive /\ http[c] = "none"
    /\ Start(c, token)
    /\ http' = [http EXCEPT ![c] = "serving"]
    /\ Quiet /\ UNCHANGED code

(* Mutations of CodeOf: the 503 branch is missing, or writes nothing.      *)
CodeOfDenial(result) == IF result.status = "success" THEN 200 ELSE 403
CodeOfAnswer(result) ==
    CASE result.status = "success" -> 200
      [] result.status = "system_failure" -> 0
      [] OTHER -> 403

CodeOf(result) ==
    CASE result.status = "success" -> 200
      [] result.status = "system_failure" -> 503
      [] OTHER -> 403

(* The pipeline runs on, whether or not the client is still there, and its *)
(* result is written in the step that returns it.                          *)
Redeem(c) ==
    /\ Verify(c) \/ Consume(c) \/ MapConsumeResult(c) \/ Fail(c)
    /\ IF reply'[c] # NoReply /\ CodeOf(reply'[c]) # 0
       THEN Write(c, CodeOf(reply'[c])) /\ LeaveOpen(c)
       ELSE UNCHANGED <<http, code, idle>>
    /\ Quiet

(* POST /receipt: the body is read to its end first.                       *)
PostReceipt(r) ==
    /\ Arrive /\ http[r] = "none"
    /\ http' = [http EXCEPT ![r] = "body"]
    /\ Quiet /\ UNCHANGED <<vars, code>>

(* It is cut off, too large or no JSON; or names no verified payment.      *)
RejectBody(r, status) ==
    /\ http[r] = "body" /\ status \in {400, 403}
    /\ r \in gone => status = 400
    /\ Write(r, status) /\ LeaveOpen(r)
    /\ Quiet /\ UNCHANGED vars

IssueReceipt(r) ==
    /\ http[r] = "body" /\ r \notin gone
    /\ SignReceipt(r)
    /\ http' = [http EXCEPT ![r] = "serving"]
    /\ Quiet /\ UNCHANGED <<code, idle>>

ReturnReceipt(r) ==
    /\ http[r] = "serving"
    /\ RegisterIssuedReceipt(r)
    /\ Write(r, 201) /\ LeaveOpen(r)
    /\ Quiet

(* The signer throws.                                                      *)
FailToIssue(r) ==
    /\ http[r] = "serving" /\ issue[r] = "signing"
    /\ Write(r, 500) /\ LeaveOpen(r)
    /\ Quiet /\ UNCHANGED vars

HangUp(q) ==
    /\ InFlight(q) /\ q \notin gone
    /\ gone' = gone \cup {q}
    /\ UNCHANGED <<vars, http, code, idle, process, signalled>>

(* The client closes a kept connection, or the server after 5 seconds.     *)
CloseIdle ==
    /\ idle > 0 /\ idle' = idle - 1
    /\ UNCHANGED <<vars, http, code, gone, process, signalled>>

-----------------------------------------------------------------------------
(* Mutation of Stop: without the flag a second signal closes the server    *)
(* again; close() rejects and nobody handles the rejection.                *)
StopUnguarded == process' = IF process = "up" THEN "stopping" ELSE "crashed"

(* stop(): the first signal closes the server to new connections.          *)
Stop == process' = IF process = "up" THEN "stopping" ELSE process

(* Each signal has its listener once: a repeated one kills the process.    *)
Signal(sig) ==
    /\ IF sig \in signalled THEN process' = "killed" ELSE Stop
    /\ signalled' = signalled \cup {sig}
    /\ UNCHANGED <<vars, http, code, gone, idle>>

(* The close completes when no connection is left, and the process exits.  *)
Exit ==
    /\ process = "stopping" /\ idle = 0
    /\ \A q \in Requests : InFlight(q) => q \in gone
    /\ process' = "exited"
    /\ UNCHANGED <<vars, http, code, gone, idle, signalled>>

-----------------------------------------------------------------------------
Handler(q) ==
    \/ q \in Calls /\ Redeem(q)
    \/ q \in Receipts /\ (ReturnReceipt(q) \/ FailToIssue(q))

ServerNext ==
    /\ Running
    /\ \/ \E c \in Calls, token \in Tokens : GetResource(c, token)
       \/ \E r \in Receipts :
            \/ PostReceipt(r) \/ IssueReceipt(r)
            \/ \E status \in Codes : RejectBody(r, status)
       \/ \E q \in Requests :
            \/ TurnAway(q) \/ Handler(q) \/ HangUp(q)
       \/ \E sig \in Signals : Signal(sig)
       \/ CloseIdle \/ Exit
       \/ /\ Tick \/ \E r \in Receipts, field \in DOMAIN Unregistered : Change(r, field)
          /\ UNCHANGED server

(* The event loop runs every handler on, ends a kept connection that       *)
(* nobody uses, and completes the close.                                   *)
ServerSpec ==
    /\ ServerInit /\ [][ServerNext]_allVars
    /\ \A q \in Requests : WF_allVars(Running /\ Handler(q))
    /\ WF_allVars(Running /\ CloseIdle) /\ WF_allVars(Exit)

-----------------------------------------------------------------------------
(* The status tells the client the truth about its receipt: content is     *)
(* sent for a use this request took, a refusal means that it took none;    *)
(* only 503 leaves the client in doubt.                                    *)
StatusIsHonest ==
    \A c \in Calls :
        /\ code[c] = 200 => Charged(c)
        /\ code[c] \in {401, 403} => ~Charged(c)

(* Stopping by one signal, or by both, loses no answer: when the process   *)
(* has ended and no signal was repeated, every client that stayed has been *)
(* answered for the use it was charged or the receipt that was registered. *)
StopLosesNoAnswer ==
    process \in {"exited", "crashed"} =>
        /\ \A c \in Calls \ gone : Charged(c) => code[c] \in {200, 503}
        /\ \A r \in Receipts \ gone : record[r].registered => code[r] = 201

(* A stopping server ends, unless a client holds it by never finishing     *)
(* the body of its request (or sends one after the other over a connection *)
(* it has kept, for ever: here there are finitely many).                   *)
StopCompletes ==
    process = "stopping" ~>
        \/ ~Running
        \/ \E r \in Receipts \ gone : http[r] = "body"

=============================================================================
