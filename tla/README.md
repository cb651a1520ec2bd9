# FiberLatch: specifications

FiberLatch turns a trusted payment decision into a signed access receipt and
lets a host honour a receipt only as often as it was issued for. This directory
holds TLA+ models of the repository's parts, the TLC configurations that check
them on small instances, and TLAPS proofs of what holds in every instance.
Everything is translated from the source; paths below are relative to the
repository.

    tlc -config PostgresContention.cfg MCPostgresStore     # any run of PROJECT.json
    tlapm PostgresStoreProofs.tla                          # any of the eight *Proofs modules

## 1. The system

The repository has four groups of code. The maintained packages
`packages/access` and `packages/postgres-store` verify a receipt and record its
use in PostgreSQL. `examples/paid-resource` runs the first over a store in
memory, behind an HTTP server. `src/` is the historical Fastify/Prisma service,
retired from the network but kept and tested: it creates *intents*, asks a Fiber
node whether they are paid, issues the receipts and redeems them. `scripts/`
drives that service end to end, and probes the network with real payments.

| Component | State it keeps | Operations | What is hard |
| --- | --- | --- | --- |
| postgres-store `consume` (`packages/postgres-store/src/index.ts`, `sql/001`) | one row per receipt: `redemption_count`, `revoked_at`, window, authority | one statement: lock, decide, update, answer; the host may wrap it in a transaction and may revoke | lock waits across expiry and revocation, stale snapshots, the last use, answers lost after a commit, transactions rolled back after a success, deadlock |
| access `redeemAccessReceipt` (`packages/access/src/redeem-access-receipt.ts`) | none of its own | verify, compare bindings, `store.consume`, map the outcome | two awaits with time passing; two clocks, one tolerant; a store that fails after it consumed |
| access verifier, signer, keys (`receipt-verifier.ts`, `receipt-signer.ts`, `jwk.ts`) | the trusted keys, copied at creation | create, sign, verify | an await per key while the host may change its array; two keys under one kid |
| paid-resource service and `DemoAccessReceiptStore` | a map of records in memory | issue, register, consume, revoke, expire | the token exists before its record does |
| paid-resource server (`server.mjs`) | requests in flight, a stopping flag | two routes, two signals, a graceful stop | clients that leave, a second signal, a use taken whose answer is not written yet |
| historical verify/redeem (`src/services/fiber-latch-service.ts`, `src/repositories/access-receipt-repository.ts`) | receipt row, event log | verify, redeem (read, conditional update, read back, log), expire | every await is a race and no transaction spans them |
| historical intents (`createAccessIntent`, `reconcileOpenAccessIntents`, the worker) | intent rows, receipts, event log | create with idempotency, pass over open intents | a remote call inside a transaction, overlapping passes on stale lists, one exception ends a pass, retries |
| Fiber client and status mapper (`real-fiber-client.ts`, `fiber-status-mapper.ts`) | none | look a payment up by two calls, normalise its status, date its settlement | the node goes on between the calls; answers without a status or a date; two clocks |
| historical signing key (`signing-key.ts`) | a configured or a fresh key | load, publish | a restart makes a new key |
| end-to-end scripts | where they are; the captured token | create, reconcile, capture, verify, redeem twice | the token can only be caught in passing, before its receipt is committed |
| routing diagnostics (`scripts/phase3-routing-diagnostics.mjs`) | its report | invoice, dry run, real send, one look at the result | it spends money over calls whose answers may be lost or late |

They meet in few places. A host, the server for one, calls `redeemAccessReceipt`,
which calls the verifier and then the host's store: postgres-store or the one in
memory. In the service, creates and passes write the intent rows, both issue
receipts, and verify and redeem requests read and write the receipt rows. Two
abstract specifications say what the parts owe their users: **BoundedGrant**, how
often a receipt is honoured, and **PaidReceipts**, which receipts are sold.

What makes each part correct: a receipt is never used more often than its
maximum; a success is answered only for a use that is recorded (and, after the
host's commit, stays recorded); nothing is used after a revocation or outside
the window; the last use is reported once; a denial is free; an HTTP status
tells the truth about the use and a stop loses no answer. For intents: a receipt
exists exactly when the intent says so, only for a payment that is settled and
once per payment; one key names one intent; a paid intent gets its receipt; the
log tells the status. For keys: a verifier trusts exactly what it was shown. For
the diagnostics: no payment is made in silence, and what is reported paid has
arrived.

## 2. The modules

| Module | Models | Checked by | Proved in |
| --- | --- | --- | --- |
| `BoundedGrant` | the store contract of `access-receipt-store.ts`: uses recorded only grow, stay within the maximum, stop once the receipt is closed, and bound the uses honoured | refined by `PostgresStore`, `AccessRedemption` (and the server around it) and `LegacyRedemption` | the refinements |
| `PaidReceipts` | what the service promises of the receipts it sells: a settled payment stays settled, buys one receipt for one intent, a stored receipt is not withdrawn, and no answer carries or honours a token but a stored receipt's | refined by `LegacyIntents` and `LiveIssuance` | the refinements |
| `PostgresStore` | the consuming statement and the host's transactions | `MCPostgresStore`: 2 runs | `PostgresStoreProofs` |
| `AccessRedemption` | `redeemAccessReceipt` over `DemoAccessReceiptStore`, with issuance | through the server | `AccessRedemptionProofs` |
| `PaidResourceServer` | the HTTP server around it: composed by EXTENDS | `MCPaidResource`: 1 run | `PaidResourceProofs` |
| `LegacyRedemption` | `verifyAccessReceipt` and `redeemAccessReceipt` of the service on one receipt | `MCLegacyRedemption`: 1 run, 1 finding | `LegacyRedemptionProofs` |
| `LegacyIntents` | creates, overlapping reconciliation passes, the payment node, the event log | `MCLegacyIntents`: 2 runs, 2 findings | `LegacyIntentsProofs` |
| `FiberClient` | `verifyPayment` of the real client call by call, the status words, and the node it asks | through LiveIssuance | `LiveIssuanceProofs` |
| `LiveIssuance` | the service from the intent to the second redemption, as the four scripts drive it: composed with FiberClient by EXTENDS | `MCLiveIssuance`: 1 run | `LiveIssuanceProofs` |
| `ReceiptTrust` | building a verifier over an array that changes; the service's key across restarts | `MCReceiptTrust`: 1 run | `ReceiptTrustProofs` |
| `RoutingDiagnostics` | the script that spends, and three nodes | `MCRoutingDiagnostics`: 1 run | `RoutingDiagnosticsProofs` |

Definitions whose names end in a deviation (`NoLockWait`, `RereadSkipped`, ...)
stand just before the definition they deform. No specification uses them: each
is a plausible bug that a property named in `PROJECT.json` must catch.

### PostgresStore

The state is the committed row (`count`, `revoked`), who holds its row lock
(`lock`), each connection's open transaction (`tx`), its uncommitted increments
(`uses`), the rows that changed behind its snapshot (`missed`) and the consume
call it is making (`call`). The statement is cut exactly where PostgreSQL lets
another connection in: `Submit` sends it, `AcquireLock` obtains the row lock of
`FOR UPDATE` and reads the row, `Deny` or `Admit` evaluates the decision CTE with
`clock_timestamp()` as of then, `Update` is the guarded update and, in
autocommit, the commit; `Deliver` reads the answer and `Garble` is an answer the
adapter cannot read or that never arrives. `Begin`, `Commit`, `Rollback`,
`Disconnect`, `FailToSerialize` and `BreakDeadlock` are the host and PostgreSQL,
modelled from how the code and its README use them. A command has a receipt, the
host's `current_time` and one bit saying whether its authority equals the row's.
`told`, `honoured`, `lastIn` and `lastCount` record what callers were told and
are read by no guard.

### AccessRedemption and PaidResourceServer

A call goes through `Start` (the host captures its time), `Verify` (the
verifier, on a clock of its own and with its tolerance), `Consume` (bindings,
command and the in-memory store's transition: no await lies between them) and
`MapConsumeResult`. `Fail` is every way into `system_failure`, before or after the
store's transition: the store may be any host's. A token is a receipt and two bits:
whether it stands up to the verifier, and whether it matches the host's expected
bindings. `SignReceipt` and `RegisterIssuedReceipt` are `issueReceipt`, whose
await is the signature. The store is in memory and its keys are made with it, so a
restart is a fresh instance and is not an action.

The server adds a connection to each call and each issuance: `GetResource` and
`Redeem` run the pipeline and write the status in the step that returns its
result; `PostReceipt`, `RejectBody`, `IssueReceipt`, `ReturnReceipt` and
`FailToIssue` are the other route, whose body is read to its end first; `TurnAway`
is every answer given at once. `HangUp` is a client that leaves: its handler runs
on, because nothing aborts it. `Signal` and `Exit` are the stop: the first signal
closes the server to new connections, the close waits for open ones, and a
signal sent twice finds its listener gone and kills the process. Connections are
kept alive: the close ends those idle when it begins, but one that is busy then may
bring further requests into the stopping server. `idle` counts the connections that
fell idle since (`LeaveOpen`); a request arrives over one of them or, before the
stop, over a new one (`Arrive`), and `CloseIdle` ends one nobody uses. `Exit` waits
for all of them.

### LegacyRedemption

One receipt, any number of verify and redeem requests, one action per await. `seen`
is the row a request last read and `now` the time it last captured: both go
stale, which is the point. The token's `exp` is cut to whole seconds and the
row's is not, hence `Second`. A request's context and claims match its row or
not, which is chosen where they are compared, once. `Fail` may end a request at
any await and undoes nothing.

### LegacyIntents

Each create, and each candidate of a pass, is a database transaction with the
payment lookup in its middle. SQLite transactions are serializable, so a
transaction is three steps, read, ask, write, and the last one commits only if
what was read still stands (`Undisturbed`, and the unique indexes in `Taken`);
otherwise, or whenever the node or the database throws, it ends without a trace
(`FailCreate`, `AbandonPass`). A blank key or payment reference is stored as the
empty string, which its unique index sees (`Taken`) and which no lookup and no
question to the node does (`HasRef`). `Insert` may commit and lose its answer. The worker
is `StartPass` of any idle pass: the interval does not wait. `mode` is fixed when
the service is built: in fake mode a create whose payment counts as paid issues
its receipt at once. `events` is the log each transaction appends to. The node
settles a pending payment for good, except that with `Retries` a payer may pay
again after a failure, which `verifyPayment` can see because it falls back to
`get_payment`. As a shop (`KeepsSale`), it sells the receipt of an intent when a
transaction stores it, to whoever issued it, create or pass; its token gets out
with the answer of a fake-mode create, and no other way. `Mute` names payments of
whose lookups nothing is assumed; only the fair specification looks at it.

### FiberClient and LiveIssuance

`FiberClient` takes `verifyPayment` apart: `BeginLookup` reads the clock,
`AnswerInvoice` and `AnswerPayment` are the answers to `get_invoice` and
`get_payment` (a status, none, or an exception), and `NodeStep` is the node going
on in between. `Result` dates a paid answer by the node's `last_updated_at`, on a
clock that differs by `skew`, or else by the start of the lookup. `LiveIssuance`
runs the scripts' requests one after the other over it: create, one pass, the
token caught from the signer before `Commit` stores its receipt, verify, redeem
twice. Any call may fail and end the script (`Fail`); a redemption may fail with or
without having recorded its use, and the script may go on to its second one
(`FailRedemption`): the live script reads only the first answer's status, the local
one ends in an error when it reads the answers. Here each handler is a step, because
one client calls them in a row; LegacyIntents and LegacyRedemption take them apart. The module
implements PaidReceipts: the sale is `Commit`, and a token counts as shown when a use
is answered for it. The script itself holds the token from `Sign` on, before its
receipt is stored; what that must not lead to is `CapturedTokenIsStored`.

Reading these paths brought up facts worth knowing. A node that does not know a
hash answers `get_invoice` with a JSON-RPC error, which `rpcCall` throws: the
fallback to `get_payment` is reached only by an answer without a status. A payment
settled longer ago than the receipt's lifetime gives a receipt that is expired
when it is issued. A timestamp that is a number but no date makes the lookup throw.

### ReceiptTrust

`createAccessReceiptVerifier` walks over the host's own array and awaits an import
per key. `LookAt` is what the iterator finds when it gets there, validated and
copied with its kid; `Import` completes the import and refuses a second key under
one kid; `HostEdits` changes the array in between. One of the JWKs a host may show is
the historical service's, which signs under a key that is configured, or made anew by
`ServiceRestarts`. No property is about the restart itself: that it invalidates the
receipts of the last life unless a key is configured is accepted by
`docs/fiberlatch-access-package-design.md:591` and listed as a hazard.

### RoutingDiagnostics

One action per call that creates or spends: `NewInvoice`, `DryRun`, `RealSend`, `Wait`,
`FinalInvoice`, for each of the amounts in `TestAmounts`, and `Summarise`. `RealSend`
is the call going out and `SendAnswered` what the script learns of it: a send without an
answer may have been lost, done, or queued to start later (`queued`). A test's report is
on the console only when the test is over (`printed`), and `Kill` may end the process
anywhere before. The script pays whatever `invoice_address` node 2 returned (lines
272-273, 329) and never looks at the amount in it, so the header's "tiny-amount payment
attempts only" is a statement about the amounts asked for; the amount of an address is
node 2's, is not modelled, and no property speaks of it. The script's comment
at line 320 asks for a dry run with "status Created", while line 322 accepts any
answer without an error; the summary's `dryRunTrampolineOk` is also true when no dry
run was made; the loop announces the "next smaller amount" while amounts grow; and
the report is written to a path of one machine, so elsewhere (`unsaved`) only what
was printed remains.

## 3. The runs

| Run | Instance | Shows |
| --- | --- | --- |
| `postgres_contention` | 3 connections, 1 receipt with 2 uses and an identifier without a row, clock 0..2 over the window [1,2), host times 0..2, forged and genuine commands | `NeverOverGranted`, `LastUseReportedOnce`, `AdmittedNeverConflicts`, `ExhaustedMeansNoUseLeft`, `WindowIsEnforcedUnderLock`; implements BoundedGrant |
| `postgres_liveness` | 2 connections, 2 receipts with 1 use, fair | `LockedRowsAreCurrent` and `FailedTransactionKeepsNothing` through deadlocks and serialization failures; `EveryCallReturns` |
| `paid_resource` | 2 requests for the resource, 1 for a receipt with 1 use, life 1, tolerance 1, clock 0..2, connections kept alive, both signals, fair | `StatusIsHonest`, `StopLosesNoAnswer`, `StopCompletes`; `LastUseReportedOnce`, `ToleranceBuysNoUse`, `HeldReceiptsAreKnown`; implements BoundedGrant |
| `legacy_redemption` | 1 verify, 3 redeems, 2 uses, exp 3 ms, 2 ms to the second, clock 0..3 | `CountIsUses`, `GrantsAreLogged`, `AnsweredCountCoversOwnUse`, `DenialsAreFree`, `SomeContenderWins`, `ClosedStaysClosed`; implements BoundedGrant |
| `legacy_intents` | 3 creates (one with a key and a payment, its retry with a blank payment reference, one for the same payment), 2 passes, both modes, retrying payers | `StatusMatchesReceipt`, `KeyNamesOneIntent`, `LogTellsStatus`; implements PaidReceipts |
| `legacy_intents_liveness` | 2 intents with a payment each, one of them mute, 1 pass, retrying payers, fair | `PaidIntentsGetReceipts` |
| `live_issuance` | 4 scripts, clocks a unit apart either way or in step, clock 0..4, life 2, 1 use | `PaidMeansSettled`, `OpenInvoiceStaysOpen`, `CapturedTokenIsStored`, `GrantsFollowSettlement`; implements PaidReceipts |
| `receipt_trust` | 2 names, 3 key pairs, arrays of up to 3 JWKs, 2 edits | `ShownKeysAreTrusted`, `AcceptedWereShown` |
| `routing_diagnostics` | the script's three amounts, everything the nodes may do, the process killed anywhere | `SpendingIsReported`, `PaidReachedIsPaid` |
| `legacy_terminal_receipts` | 1 verify, 2 redeems, 1 use | finding 1 |
| `legacy_terminal_intents` | 2 intents, 2 passes, retrying payers | finding 2 |
| `legacy_blank_key` | 2 creates with a key of spaces | finding 3 |

**Why the bounds are enough.** Two contenders make every race on one row and a
third lets one lose to each of two others and still meet a use left; two uses
separate "a use" from "the last use"; two rows are what a deadlock and a snapshot
need; three or four clock readings give before, at and after each edge. Three JWKs
and two edits let the array change before, at and behind the key under import.
Counters are bounded by the maximum, so only clocks (`Times`, `Horizon`) and the
host's edits (`MaxEdits`, `MaxKeys`) are cut off, the clocks past the last time
anything compares with. Ended requests are not reused, except that connections
and passes are. Symmetry is used only where properties do not name individuals,
and never for liveness. Deadlock is checked for the PostgreSQL runs, where a host
can always go on; the others consist of requests or scripts that end, and stop.
What these bounds leave open for safety, the proofs close (section 5).

**Fairness.** `PostgresStore!FairSpec`: PostgreSQL runs a statement that can
run and grants a free lock to a waiter, breaks deadlocks, an answer or an error
arrives, and hosts end the transactions they begin ("Keep the transaction short",
`packages/postgres-store/README.md:185`). Strong fairness is needed only for the
lock, which others may take in between. `PaidResourceServer!ServerSpec`: the event
loop runs every handler that has what it waits for, ends a kept connection that nobody
uses (Node's `keepAliveTimeout`, 5 seconds) and completes the close; no client is assumed
to finish its body or to stay, which is why `StopCompletes` excepts the one that never
does. The number of requests is finite: a client that sends one after another over the
same connection may hold the stop up for as long as it does.

`LegacyIntents!FairSpec`: the interval fires for ever, the event loop runs a pass's next
step, and a lookup ends, be it by an answer or by an exception that abandons the pass
(weak); what the database could let through again and again it lets through in the end,
and a payment that is not mute and is asked about again and again is told in the end
(strong). Nothing of the kind is assumed of a mute payment: each of its lookups may
throw. `PaidIntentsGetReceipts` then has two exceptions, both of the code's making. A
pass that was told `failed` and has yet to write may still refuse an intent whose payer
has paid since (`RefusalUnderway`), and no pass looks at it again. And as a throwing
lookup ends its pass, a mute payment starves the candidates created after it, and only
those (`IsReached`). Passes of the liveness run do not overlap, since two of them or a
third intent make that run too large; the safety runs' do.
`LiveIssuance` and `RoutingDiagnostics` are checked for safety: their scripts
promise no end that does not rest on the node.

## 4. Findings

1. `TerminalStatusesAreFinal`: `setReceiptExpired` writes by id alone, so a verify
   that read `ISSUED` turns `EXHAUSTED` into `EXPIRED`
   (`access-receipt-repository.ts:151`; `docs/state-machine.md:55` calls both
   terminal). No use is gained: `ClosedStaysClosed` holds.
2. `TerminalIntentsAreFinal`: a pass does not ask whether the intent it re-read is
   still open, so a `REJECTED` intent can become `RECEIPT_ISSUED`
   (`fiber-latch-service.ts:672`; `docs/state-machine.md:37`). It takes two
   overlapping passes and a payer whose second attempt succeeds; the receipt is for
   a payment that was made (`KeepsSale` holds, and with it `ReceiptMeansPaid`).
3. `RepeatFindsTheIntent`: an idempotency key of spaces is stored as the empty
   string and never looked up (`fiber-latch-service.ts:184`;
   `docs/api-contract.md:49`).

## 5. What is proved

Eight modules hold theorems, checked by TLAPS for every value of the constants
that meets the named assumptions beside them. All but the refinement between the
two specifications of the server follow one pattern: an inductive invariant, shown
initially and for each action, and the properties as its consequences. Where TLC
checks the same property on an instance, `PROJECT.json` pairs the two.

| Module | Invariant | Theorems beyond it |
| --- | --- | --- |
| `PostgresStoreProofs` | `IInv` (in `PostgresStore`) | `TypeCorrect`, `NoOverGrant`, `ExhaustionReport`, `NoConflict`, `ExhaustionIsReal`, `RevocationFinal`, `WindowEnforced` |
| | then `HInv` | `LockedRows`, `HonouredCommitted`, `FailureKeepsNothing`, `PromiseIsKept` (implements BoundedGrant) |
| `AccessRedemptionProofs` | `AInv` | `TypeCorrect`, `HonestResults`, `ToleranceIsFree`, `RecordsAreFound`, `ExhaustionReport`, `PromiseIsKept` |
| `PaidResourceProofs` | `SInv` | `ServerRedeems` (`ServerSpec => Spec`), and through it the results above for the server; `HonestStatus`, `NoAnswerLost` |
| `LegacyRedemptionProofs` | `LInv` | `TypeCorrect`, `NoLostUpdate`, `GrantsLogged`, `DenialsFree`, `AnswerCoversUse`, `ClosedForGood`, `PromiseIsKept` |
| | then `Unspent` | `ContenderWins` |
| `LegacyIntentsProofs` | `NInv`, then `UniqueInv` | `StatusIsReceipt`, `ReceiptsArePaid`, `TokensBacked`, `LogTells`, `KeyNamesIntent`, `PaymentBuysOne`, `SaleIsKept` (implements PaidReceipts) |
| `ReceiptTrustProofs` | `TInv` | `TypeCorrect`, `KeysWhole`, `ShownTrusted`, `AcceptedShown` |
| `LiveIssuanceProofs` | `FInv` | `PaidIsSettled`, `OpenStaysOpen`, `TokenIsStored`, `GrantsFollow`, `SaleIsKept` |
| `RoutingDiagnosticsProofs` | `RInv` | `NoSilentSpending`, `ReportedPaidIsPaid` |

None of the properties is inductive as it stands; what each invariant adds is the
reason why the code is right.

- `IInv`: that a count stays within its maximum needs that uncommitted uses belong
  to the holder of the row's lock (`WorkIsLocked`), that a statement which has
  decided still holds it (`StatementIsLocked`), and that an admitted one still finds
  room (`AdmittedHasRoom`). A rollback or a commit keeps these only because the lock
  goes with the work. The proof splits it into facts about rows and facts about calls
  (`RowParts`, `CallParts`), so that an action of one session need show only what it
  changes (`QuietStep`). `HInv` adds what hosts were told: each success they may
  honour is a use, in their own transaction or committed. `WindowEnforced` needs only
  `IInv`: at most the lock's holder is admitted, so what a row has claimed is a sum
  over one session (`Held`), which `Admit` alone raises, after reading the clock.
- `AInv`: a call has at most one use, taken between its `Consume` and its result, and
  the use that filled the allowance is the one marked. `SInv` adds that a status is
  written with the result it stands for, and that the process ends only when every
  request in flight has lost its client.
- `LInv`: the uses are numbered from 1 to the count (`SlotInv`). This is what the
  conditional update on the count read gives; from it follow both that no update
  is lost and that an answered count covers the caller's own use. A closed
  receipt stays closed because only an `ISSUED` row is updated to a use. `Unspent`
  answers who wins: while the token is good and nobody has a use, the row is as it
  was issued, nobody has seen it otherwise, and no request waits to close it or to
  explain a lost race; the times requests captured are past (`CapturedInThePast`), so
  they were good too. When all have ended in that state, none was a contender.
- `NInv`: status, receipt, payment and log of an intent agree, a create that was told
  "paid" is about a payment that is still paid, and a pass that asks or writes read its
  intent without a receipt; the serializable transaction carries that to the write.
  `UniqueInv` says that stored intents differ in their keys and payments, which the
  unique indexes give at each insert. The refinement of PaidReceipts needs both: a
  step stores at most one receipt (`Undisturbed`), for an intent that has none, and
  no other intent has its payment.
- `TInv`: the key under import was read whole from the array, and, while the array is
  left alone, all keys before it are trusted.
- `FInv`: what a finished lookup said is still true of the node, because settled
  payments and closed invoices do not change; token, receipt and grants descend from it. The
  refinement follows: the sale finds the payment settled.
- `RInv`: what is ahead of the script is untouched, and the report of each test
  agrees with the nodes, which go on: what may have been sent is reported as
  attempted, and printed once its test is over, so that a kill hides at most the test under
  way; and what the one look found for good is still so. That the
  summary names the first test found paid needs a least one to exist, from the
  library's theorem on well-founded orders.

**Only model-checked.** Liveness (`EveryCallReturns`, `StopCompletes`,
`PaidIntentsGetReceipts`), which is out of the prover's reach. Every invariant,
action property and refinement of a passing run is proved. Each module's type
invariant is proved, and so are a few invariants that are parts of what a run checks
(`ReceiptMeansPaid`, `PaymentBuysOneReceipt`, `TokensAreBacked`,
`HonouredAreCommitted`, `KeysAreWhole`, `RevocationIsFinal`). Of the type of
`LegacyIntents` the proofs leave open what `order` and the lists of candidates
consist of, because `SelectSeq` is recursive and a fact about it for every list is
induction over data; nothing proved needs it.

## 6. What is not modelled

- Cryptography, JSON, header parsing and the field checks of claims and requests are
  a bit of a token or left out: they are stateless, and their outcome is what the
  models range over. Spellings of one status are one word.
- `ensureResourcePolicy`: a lookup and an insert under a unique index, which can only
  abort a create; the policy's two numbers are constants.
- A duplicate lookup of one key by requests to *different* databases, or a database
  other than SQLite, whose transactions need not be serializable.
- The application shell (`app.ts`, routes, schemas, configuration, `server.ts` that
  refuses to listen), error classes and re-exports: no state of their own. What the
  scripts see of them is in LiveIssuance.
- The demo of the example (`demo.mjs`), a test in the form of a script, and the release
  checks (`verify-package.mjs`, `verify-distribution.mjs`, `legacy-server-retired.cjs`,
  the type tests): sequential checks of packed files.
- Issuing a fresh allowance per call in the example is, in its own README, a shortcut.
  That an intent with a payment reference never expires by time, that a use may be
  recorded after `exp` by the length of two awaits or without its event, that a token dies up
  to a second before its row, that a fresh key invalidates old receipts and that a pass may
  refuse an intent paid meanwhile are hazards without a promise to check (see `hazards` in
  `PROJECT.json`).
- HTTP pipelining: a kept connection carries one request at a time.

What could come next: LegacyIntents and LegacyRedemption composed over the same
rows, so that a redemption meets a receipt while its pass commits; and the claim rules as
operators over bounded inputs.
