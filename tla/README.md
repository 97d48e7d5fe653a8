# Twins: a verification project

Twins is a payment-truth backend for USDC on Solana. Businesses create payment
requests; a watcher reports on-chain transfers; the store matches transfers to
requests conservatively, raises an exception when it cannot, keeps a receipt of
what happened, sends webhooks, reconciles periods and survives restarts through
a snapshot file. This directory holds TLA+ models of that code, TLC runs over
small instances, and proofs checked by TLAPS. Line numbers refer to
`internal/core/store.go` unless another file is named.

## 1. The system

All state lives in one Go struct, `MemoryStore`, guarded by one `sync.RWMutex`.
Every writing operation has the same shape:

    validate the input; now := time.Now()     (no lock held)
    s.mu.Lock(); defer s.mu.Unlock(); defer s.mustPersistLocked()
    read and write the tables                 (POSTing webhooks on the way)

So an operation is two atomic steps with other operations in between: the input
and `now` are read first, and may be old when the tables are written; and the
lock may be held for seconds, because webhooks are sent under it.

| Component | State | Operations | Hard behaviour | What makes it correct |
|---|---|---|---|---|
| Payment requests, idempotency | `paymentRequests`, `idempotency` | `CreatePaymentRequest`, `GetPaymentRequest` | retries, two calls with one key, expiry before lookup | one request per key; a request is what its body asked for; a retry finds it |
| Wallet registry | `wallets` | `RegisterWallet` | same address in two businesses; evidence that names two wallets | a payment is booked on a wallet of its business that it really pays into |
| Ingestion and matching | `stablecoinTransactions`, `transactionBySignature`, `transactionMatches` | `IngestStablecoinTransaction` | repeated and conflicting reports, finality, late, short, over and ambiguous payments, concurrent ingestion | no double settlement, no guess, no payment without an account |
| Exceptions | `exceptions` | raised by matching; `ResolveException` | resolved twice, by two operators, by another business | status, match and exception tell one story |
| Receipts | `receiptEvents` | written by the above | stamped with an old `now` | complete, and no more than happened |
| Webhooks | `webhookSubscriptions`, `webhookDeliveries` | `CreateWebhookSubscription`, delivery, `ReplayWebhookDelivery` | HTTP under the lock, receivers that call back, failures, replay, crash | one delivery per event and subscriber, rows that do not overstate, the lock is released |
| File persistence | the snapshot file, `persistenceErr` | `persistLocked`, `loadSnapshot`, `rebuildIndexesLocked` | write errors that are swallowed, crash at any point, rebuilt index | ready means durable; what comes back is consistent |
| Reconciliation, exports | `reconciliationRuns`, `settlementRows`, `walletSnapshots`, `exports` | `CreateReconciliationRun`, `CreateExport` | independent passes over moving tables; frozen rows beside live exceptions | books balance; what is frozen stays true |
| API keys and scopes | `apiKeys`, `apiKeyHash` | `CreateAPIKey`, `RevokeAPIKey`, `AuthenticateAPIKey` | one request looks its key up three times, each under a lock of its own; revocation in between | a revoked key stops at once for later requests; only an entitled key changes anything |
| Rate limiter, access log (`internal/api/server.go`) | `rateWindows`, `accessLogs` | `allowRequest`, `recordAccess` | limit and clock read before the lock, log written after the handler | a window admits no more than its limits; refusals are earned; the log tells the traffic |
| Businesses, users, incidents, policy, audit log | their tables | create, update, resolve | the same revocation or resolution asked for twice at once | the audit log explains the tables |
| Design partners, beta evidence, metrics | `designPartners`, `betaEvidence`; metrics keep nothing | create, update, report | a refused call that has already written; counters from many tables | references stay valid, readiness is not lost by accident, counters agree |
| Solana watcher (`workers/solana-watcher`) | none: no cursor | scan, parse, post | answers lost, API restarted, posting that stops at the first refusal | stores only what is on chain; finds what it can reach |
| HTTP routing, dashboard, migrations, crypto helpers, process start-up | - | - | none to model | not modelled |

How they interact: the HTTP handlers call one store operation each; ingestion
calls matching, which writes requests, transactions, matches, exceptions and
receipts in one critical section; each receipt event calls the webhook queue,
which makes HTTP calls out; reconciliation reads all payment tables; every
writer, the access log of every request included, rewrites the snapshot file;
the watcher is a client of the ingestion endpoint.

## 2. The modules

    PaymentLifecycle      abstract: what may happen to a payment request
      ^ refined by
    PaymentTruth          the payment tables and every operation on them
      ^ EXTENDED by
      |- DurableTruth     the file, failed writes, crashes
      |- Reconciliation   runs and exports
      |    ^ UsageMetrics counters over all of it
      |- Watcher          the chain, the scans and their posts
      |- PrivateBeta      partners, evidence and readiness

    WebhookDelivery       deliveries under the store lock, on its own
    Gateway               the way of an HTTP request, on its own

Each `MC...` module defines a small instance for TLC, each `..._proofs` module
holds theorems about the module it is named after. `PaymentAccounts_proofs` goes
on where `PaymentTruth_proofs` ends, with what several tables say of each other;
`DurableTruth_proofs`, `Reconciliation_proofs` (which has the metrics too) and
`Watcher_proofs` build on both, `PrivateBeta_proofs` on the first;
`WebhookDelivery_proofs` and `Gateway_proofs` stand alone, as their modules do.

**PaymentLifecycle** is the promise: a request opens, is settled once by one
transaction as confirmed, underpaid, overpaid or expired, and a disputed one can
be resolved by hand. No other status change exists.

**PaymentTruth** has one variable per table (the comments of `VARIABLES` name
the Go field) and `calls`, the operations in flight. `Start...` is the part
before the lock: the input and `now` are captured, `CreatePaymentRequest`'s
expiry validation included. `CreatePaymentRequest`,
`IngestStablecoinTransaction` and `ResolveException` are the part under the
lock; `RefuseOrReplay...` are their early returns, which change nothing. The
switch of `matchTransactionLocked` (1924) is `Contenders` - the set of requests
between which the code would have to choose - and three actions: one contender
is settled with its `Verdict` (`SettleRequest`), several raise an ambiguous
exception (`RaiseAmbiguous`), none an orphan one (`RaiseOrphan`). Map iteration
order, which picks between two wallets (1868), is a nondeterministic choice.
Times are natural numbers; amounts are numbers compared as `compareAmountStrings`
does. Validation fixes chain, token, mint and decimals to one value, so they are
left out; so are texts, ids' spelling and the audit log.

**WebhookDelivery** models the inside of the critical section that the other
modules treat as atomic: the holder of the lock records an event, stores one
pending delivery per subscriber, waits for the receiver's answer or the 2 s
time-out, and at the end writes the snapshot. `CallsBack` are receivers that
call the API before they answer, and so wait for the lock. The payment
operations are reduced to the batches of events that they record.

**DurableTruth** adds the file. Each step under the lock ends with `Persist`:
the whole snapshot is written, or nothing is and `/readyz` reports it.
`CrashAndRestart` may happen between any two steps; it drops the calls in
flight, loads the file and rebuilds the signature index.

**Reconciliation** adds runs and exports. `Rows`, `Snapshots` and `TotalsFor`
are the separate passes of `buildReconciliationReportLocked` (2261) over
separate selections, and a run is frozen. Amounts are rationals in the code and
sums of them exact, until `formatRatAmount` (3125) prints them with six decimals:
here amounts count a unit, `Precision` of which make the last of these decimals,
and the operator of that name rounds. `renderSettlementExport` (3048) takes the
run's rows; a JSON export also has the exceptions of the report, selected again
(2360), and a CSV export has not. The field `selected` of a run is a history
field: the code keeps the counts of what it selected and not the sets, which the
properties compare with the rows.

**UsageMetrics** is `usageMetricsLocked` (2925) over that: an operator on the
tables, with no state of its own.

**Gateway** is `ServeHTTP` of `internal/api/server.go` as a request lives it:
`Arrive` (the clock reading of `allowRequest`), `Identify` (first look-up of
the key), `ReadLimit` (the policy), `Count` (under `rateMu`), `Authenticate`
(second look-up, and the scope), the handler's store operation, and
`RecordAccess` (third look-up). No lock is held from one step to the next, and
any of them may be far apart. The handlers are those of the tenant tables; the
payment handlers have the same first and last steps and are the actions of
`PaymentTruth`. The audit log is a variable because it can be compared with the
tables it tells of.

**Watcher** puts the `scan-wallet` command in front of `PaymentTruth`. A scan
parses everything it lists (`Parse`, per transaction: an event or none for each
instruction, in their order), then posts transfer by
transfer and ends at the first answer that is not a success: an amount of zero
(400), a second transfer of a transaction with other evidence (409), an unknown
wallet (404). `LoseAnswer` and `RestartApi` are the faults. The chain and the
node are external: blocks are added, the newest `Limit` signatures are listed.

**PrivateBeta** adds partners and evidence. `RefuseBetaEvidence` is the early
return of `CreateBetaEvidence` that may already have set the partner's
commitment (1543). The report is `ReadyForPrivateBetaEvidence`.

## 3. The runs

| Run | What it checks |
|---|---|
| `truth_interleaved` | two calls in flight on one wallet: type correctness, `SettledOnce`, `VerdictsAreJust`, `StatusTellsTheEvidence`, `EveryPaymentAccountedFor`, `SignatureIndexExact`, `OneRequestPerKey`, `TimelineTellsTheStatus`, `ResolutionComesLast`, the action property `ConservativeMatching`, and the refinement `ImplementsLifecycle` |
| `truth_tenants` | two businesses, two wallets, evidence that names both: `VerdictsAreJust`, `BusinessIsolation` |
| `webhooks` | type correctness, `QueueAgreesWithReceipts`, `RowsAreHonest`, and the liveness property `LockIsReleased` |
| `durable` | `FileTypeOK`, `ReadyMeansDurable`, `SignatureIndexExact` after any crash, and the action property `CrashWhileReadyLosesNothing` |
| `reconciliation` | `ReportTypeOK`, `BooksBalance`, `ReconciledIsFinal`, `PaymentsStayInPeriod`, `ExportsKeepExceptions`, and `MetricsTellTheBooks` |
| `gateway` | three requests at once: type correctness, `RevokedKeysStop`, `AuditExplainsTables`, `ActorsWereEntitled`, `AdmissionsAreBounded`, `RefusalsAreEarned`, `AccessLogTellsTraffic` |
| `watcher` | scans under lost answers and restarts: `WatcherTypeOK`, `EvidenceIsOnChain`, and the liveness properties `PaymentsAreDetected` and `PaymentsReachTheirRequest` |
| `beta` | `EvidenceRefersToOwn` and the action property `ReadinessIsLostByUpdatesOnly` |

Four further runs each check one statement of the repository that the code does
not keep; TLC's counterexample is the reason for a finding in `PROJECT.json`.

| Run | Statement | What TLC shows |
|---|---|---|
| `truth_finality_tracking` | "Confirmation and finality tracking" | a transfer first reported before finality stays `pending_finality`: its final report is answered as a replay |
| `webhooks_signed` | signed webhooks; the store is durable across restarts | after a restart deliveries are signed with the empty secret |
| `durable_shown` | the file store is durable across restarts | a request whose snapshot write failed is answered, can be read, and is gone after a restart |
| `watcher_failed` | the watcher detects transfers and verifies their evidence | `parse_transaction` does not look at `meta.err`: a transaction that failed is posted as a final payment |

What the properties of the newer modules say, where it may surprise:

* `RevokedKeysStop` is about requests that come after the revocation. One that
  was authenticated before it goes on and succeeds: the code looks a key up once
  for the handler, and not again under the operation's lock.
* `AdmissionsAreBounded` bounds the requests of a window by the highest limit
  one of them was measured against, which is all the code promises: a policy
  lowered in the middle of a window does not take back what was measured before.
* `AccessLogTellsTraffic`: an entry without key and business is either a request
  that had none or one whose key was revoked before it was logged, the request
  that revoked it included.
* `PaymentsAreDetected` and `PaymentsReachTheirRequest` are about transactions
  that stay `InReach`: among the newest `Limit`, with no newer transaction whose
  posting stops the scan. A transaction that pays the wallet twice, or moves
  nothing to it, hides every older one until it has left the list.
* `ConservativeMatching` says when the code settles a request, not when it would
  be prudent to: an exact match is confirmed although other requests on the wallet
  wait for other amounts, and only without an exact one must the request be the
  only one. The property has one clause for each of these cases, expired ones
  included.
* `BooksBalance`: each payment and each request that a run selects is in exactly
  one row. The total of what was received equals the sum of the wallets'
  snapshots up to half a unit of the last decimal for each printed amount, and
  exactly if no payment has more than six decimals: validation admits those that
  do, and the code rounds each sum apart.
* `ExportsKeepExceptions` promises of a CSV export only the exceptions that were
  opened in the period: they are named by a row. One that the run counted because
  it was resolved in the period has its row in the report of another one, and
  only a JSON export lists it.
* `MetricsTellTheBooks` lets reconciled records exceed the confirmed requests as
  soon as there are two runs, because the code counts the rows of all of them.

### Bounds

* `truth_interleaved`: two callers, two idempotency keys, requests,
  transactions and exceptions, one wallet and address, times 0..2. Two callers are every
  pairwise interleaving; a third would only add another stale `now`. Two
  requests with different amounts and expiries make one payment exact, short,
  over, late, or ambiguous; the two transfers include one seen before it is
  final, one with a block time, and repeats of both. Identifiers are symmetric:
  the code compares them for equality only.
* `truth_tenants`: two businesses, two wallets and two keys, so four requests;
  one caller at a time, because isolation does not depend on interleaving.
  (`ConservativeMatching` does not tell tenants apart and stays in
  `truth_interleaved`.)
* `webhooks`: two businesses, one receiver that answers and one that calls
  back, batches of one and two events, two events in all, two attempts at a
  delivery, one crash. `MaxEvents`, `MaxAttempts` and `MaxCrashes` bound
  counters; the run ends when they are used up, so deadlock is not checked.
* `durable`: one caller, two requests and transfers, any number of crashes and
  failed writes, times 0..1.
* `reconciliation`: two wallets, one request, two payments of which one is
  exact and one short or to the other wallet, one run over either of two
  periods, one export in either format, times 0..1. `Precision` is 3 and the
  amounts 4 and 9, so that sums do differ by rounding: a payment of 4 to each
  wallet is printed as 3 and 3, their sum as 9. One run means that overlapping runs
  are not exercised here; the theorems of section 4 hold for any number of runs
  and rows.
* `gateway`: three requests, four origins (an address, and headers with the
  first key of the first business, with one it may create, or with the first key
  of a business founded by a request), a default limit of two requests a window
  and one by policy, a window of one unit, times 0..1. Three requests are one
  more than the limit, and enough for a revocation, a use of the revoked key and
  a third party. `MaxTime` bounds the clock; each exchange happens once, so the
  run ends and deadlock is not checked. Exchanges are symmetric.
* `watcher`: one wallet, which may be registered at any time, one request, two
  handlers, a chain of at most two of four transactions, a scan limit of two,
  one fault, times 0..1; one address is owner and token account. No symmetry,
  because of the liveness properties. Deadlock is not checked: when all is found
  and the bounds are used up, nothing is left to do. `watcher_failed` adds the
  failed transaction and needs no fault.
* `beta`: two businesses, two partners, two items of evidence over one short
  payment and its exception, goals of 2 partners, 1 with transactions and 1
  commitment where the code has 5, 2 and 1: with smaller goals, readiness is
  reached and lost in fewer steps by the same rules.

### Fairness

Safety runs assume none. `WebhookDelivery` assumes weak fairness of the steps of
the operation that holds the lock: its goroutine keeps running, and each HTTP
call ends, because the client has a 2 s time-out (`http.Client{Timeout: ...}` in
`NewMemoryStore`). Nothing is assumed of receivers, of clients, or of operators,
and nothing makes a crash or a replay happen.

`Watcher` assumes weak fairness of a scan (someone runs the command again and
again: the repository leaves that to its operator), weak fairness of each API
call in flight (its goroutine gets the lock in the end) and strong fairness of
the next post: `Caller` only bounds how many calls are in flight in the model,
while the server starts a goroutine for every connection, so a post cannot be
shut out for ever by other clients. Lost answers and restarts are bounded by
`MaxFaults`; nothing is assumed of the chain or of other clients.

## 4. The proofs

Every safety invariant and every action property that a run checks is also a
theorem, for all values of the constants that satisfy the named assumptions; the
refinement of `PaymentLifecycle` is one too. `PROJECT.json` lists the theorems
with the property each one states. Only liveness is left to TLC.

### Assumptions

| Module | Assumption | Why the code justifies it |
|---|---|---|
| `PaymentTruth` | `ConstantsAssumption`: shapes of inputs | request bodies are decoded into structs and validated |
| | `AbsentAssumption`: "missing" is no record and no id | a nil entry of a map is not an entry |
| `Reconciliation` | `FiniteAssumption`: finitely many ids | maps in memory are finite; without it a count or a sum means nothing |
| | `PrecisionAssumption`: a positive number of units in the last decimal | any amounts are multiples of a small enough unit |
| `PrivateBeta` | finitely many ids; `PartnerAssumption` | the same |
| `WebhookDelivery` | finitely many subscriptions; `NamesAssumption` | the same |
| `Gateway` | `GatewayAssumption`: no two businesses of the initial snapshot have one first key | keys are random and stored by their hash |
| | `NamesAssumption`: ids of keys, users, incidents and businesses differ | `newID` gives each kind a prefix, and an e-mail address has none |
| `Watcher` | `PostsAssumption`: what the watcher posts is among the bodies that clients send | it is one of the clients |

### The payment tables

`SettledOnce` is not inductive: that a second settlement is impossible depends
on the first one having moved the request out of `awaiting_payment`, and on the
new transaction's id being unused by any match. The invariant is built in four
layers, each proved from those before it. Lemmas first summarise what an
operation can change (`IngestEffect`, `ResolveEffect`, ...), so that the
inductive steps have one case per effect and not one per line of the code.

1. `IInv` (`Inductive`): types; no dangling id (`NoDanglingId`: matches and
   exceptions name stored rows, a matched request no longer awaits payment, a
   call in flight names a stored exception); `SettledOnce`; and
   `OneDisputePerRequest`, which makes a resolution a legal step of the
   lifecycle. From it: `TypeCorrect`, `NoDoubleSettlement`, `Refinement`, and,
   with `ConservativeMatching` read off the one action that adds a match, case by
   case of what its contenders are, `MatchingIsConservative`.
2. `TablesInv` (`TablesAgree`): the signature index is the table read by
   signature, a key names its request, a transaction is booked on a wallet of
   its business, and each match is just (`Just`). From it:
   `RetriesFindTheirTransfer`, `KeysMakeOneRequest`, `VerdictsStayJust`.
3. `StoryInv` (`OneStory`). The properties compare *sets* of matches and
   exceptions; the invariant says the same one row at a time: a request that no
   longer waits has its match, an exact match is undisputed, any other has its
   exception, a transaction has one account of itself. From it: `StatusIsTold`,
   `NoPaymentIsLost`; and `BusinessesAreIsolated` from each call's guards.
4. `Timelines` and `TimesInv`: the events of a receipt are those its status
   calls for; no event is stamped with a time that has not come; and a
   resolution in flight read its clock after the settlement it resolves was
   stamped. The last two are why `ResolutionsComeLast` holds although a
   resolution may wait for the lock as long as it likes: it is only asked for by
   who knows the exception's id. From them: `ReceiptsAreComplete`,
   `ResolutionsComeLast`.

`Sound` is the conjunction of the four, and `Promises` that of the properties
that follow from it. The modules around the payment tables reuse both.

### Around the payment tables

* **`DurableTruth`**. `DurableInv` is `Sound` twice: of the tables in memory, and
  of those that the file would load (`Saved`, the same modules instantiated on
  the file, with the signature index rebuilt). A snapshot of sound tables is
  sound because the rebuilt index is the one left out (`IndexIsRebuilt`); what is
  loaded from a sound file is sound. Hence `PromisesSurviveCrashes` and
  `IndexSurvivesCrashes`, however many writes failed before, and
  `ReadyCrashLosesNothing` together with `ReadyIsDurable`.
* **`Watcher`**. `WatcherInv` is `Sound`, and: all that a scan still has to post
  is on chain; the call it waits for posts the first of that; whatever is in
  flight, also after the watcher gave up on it, or is stored, is on chain. A
  block that is mined shifts every index of the chain and takes nothing from it
  (`ChainGrows`). That parsing yields evidence of the chain is a fact about
  flattened sequences (`FlatStays`). Hence `WatcherTypeCorrect`,
  `StoredWasMoved` and `WatchersKeepPromises`: losing answers and restarting the
  API cost no promise of the tables.
* **`Reconciliation`**. Runs and exports change no payment table
  (`ReportsLeavePaymentsAlone`), so the first three layers come for free;
  `ReconciliationInv` adds what a run froze, as statements on the tables of
  *later*: a row that is reconciled has an exact, undisputed match, and
  `ConfirmedIsClean` keeps that so; an exception has the time and the wallet of
  its transaction (`ExceptionsFitTxns`), so that one opened in the period is named
  by the row of its payment (`OpenedHaveRows`). Hence `ReconciledStaysFinal`,
  `PeriodsShareNoPayment`, `ExportsLoseNothing`, `ReportsTypeCorrect`.
  `BooksAlwaysBalance` counts and sums: rows and selections are paired one to one
  (`Paired`, `Numbered`), disjoint ones added (`CountApart`), what a run selects
  is found among its rows (`RequestsHaveRows`), and sums over a wallet's payments
  are added up to the sum over all (`SumOfGroups`). Each printed amount is within
  half a unit of its sum (`FormattedIsNear`), and so are many of them together
  (`SumsAreNear`); those of whole units are exact (`SumsOfWhole`). The sums
  are folds; each is characterised by what taking one member away leaves
  (`Sums`), and two that agree on that agree on every finite set, for otherwise
  there would be a smallest set on which they differ (`SetInduction`, from the
  well-foundedness of strict inclusion).
* **`UsageMetrics`**. Counters from separate tables agree because a match, its
  request, its transaction and its exception stand for each other one to one
  (`MatchJoins`, `CaseStandsFor`): `MetricsAreTrue`, for any number of runs.
* **`PrivateBeta`**. The payment tables never lose a row, so that evidence which
  named its business's own keeps doing so (`EvidenceStaysOwn`); and
  the counts of the report only grow by every step except an update of a partner
  (`ReadinessIsKept`), the refused creation that writes a commitment included.

### On their own

* **`WebhookDelivery`**. `Inv` says how far the holder of the lock has come
  (`HolderInv`: the events recorded, the subscribers that have their row, the
  delivery in progress), what holds between operations (`QueueInv`,
  `HonestInv`), that ids are minted in order (`Minted`), and that the file is a
  snapshot of an earlier state between operations (`DiskInv`). The last conjunct
  makes the crash a case like the others. Hence `WebhooksTypeCorrect`,
  `QueueMatchesReceipts`, `RowsNeverOverstate`.
* **`Gateway`**. A request is counted, looked up and logged by steps with other
  requests in between, so each invariant says what a request in flight *knows*
  and why that is still good enough. `Inv`: what was captured of a key is what
  the key was when it was looked up (`RevocationIsImmediate`, `AccessLogIsTrue`,
  `GatewayTypeCorrect`). `EntriesInv`: each audit entry is right by itself
  (`TenantsAreGuarded`). `ExplainedInv`: each row has its entries and no more
  (`AuditLogExplains`). `LimiterInv`: the windows of an origin do not overlap, the
  counter of the open one is the number of requests charged to it, one of those
  it admitted was measured against a limit that covers them all, and a refused
  request has as many rivals as a limit of its own
  (`LimiterBounds`, `RefusalsAreFair`).

### What the proofs changed

* `RevokedKeysStop` was false for arbitrary traffic, which the run's small set of
  commands did not show: creating a business asks for the setup token and not
  for a key (`internal/api/server.go` 179-201), so that a revoked key in the
  header does not matter. The property now says so.
* `GatewayAssumption` did not exclude that two businesses start with one key.
* `ReconciledRows` counts pairs of a run and a row, as the code's loop over all
  runs does; the union of the rows would count a payment once that two runs
  report.
* `Parse` is written an instruction at a time, as the loop in `parser.rs` is.

### Only model-checked

`LockIsReleased`, `PaymentsAreDetected` and `PaymentsReachTheirRequest` are
liveness properties under fairness, which the prover does not handle. The four
runs that expect a violation are counterexamples and need no proof.

## 5. Not modelled, and why

* A torn or empty snapshot after a power loss: `persistLocked` renames without
  syncing, and an empty file is loaded as a fresh store. It needs a model of the
  file system.
* Real durations: that the webhooks of one operation may take longer than the
  server's write time-out.
* Completeness of a closed period: an ingestion that read the clock before a
  period ended and waited for the lock until its run was made dates its
  transaction into that period. The code keeps nothing that closes a period.
* Retries: a creation retried after its request expired is refused, because
  validation comes before the idempotency lookup; a failed webhook delivery gets
  a `NextAttemptAt` that nothing reads. Both are in the models as the code has
  them, and no property claims otherwise.
* Readiness counts `real_transaction` evidence that names no transaction; the
  model does the same, and what evidence means is left to its author.
* What no document decides, and the models have as the code does it: an operation
  goes on when its key is revoked after it was authenticated; a refused
  `CreateBetaEvidence` may leave a pricing commitment behind; two runs over one
  period count its payments twice in the metrics; a CSV export has no exceptions
  but those of its rows. The hazards in `PROJECT.json` say so where they list them.
* In `Watcher`, a transaction pushed off the list by more than `Limit` newer ones:
  the liveness properties promise nothing of it, and no chain of the run is as long.
* In `Gateway`: the growth of the map of windows, which has no removal, and a
  restart, which empties it; revoking the last key with `api_keys:write`, which
  leaves a business without one; bodies and routes that are refused before they
  change anything.
* In `Watcher`: the node's failures, a scan that cannot parse a transaction, a
  429 of the API (each ends the scan, as a refused post does), `verify-fixture`
  and `fetch-signature`, which post one transaction the same way.
* The audit entries of payment operations, formatting (the columns of exports,
  pages, error texts), cryptography, SQL migrations (no code uses them), start-up.

## 6. Plan

1. Compositions whose proofs the layers above make short: `Reconciliation` and
   `PrivateBeta` across crashes (their tables are in the same snapshot), and
   `Watcher` in front of a store that loses its latest history.
2. `PaymentLifecycle` by itself: what its promise implies (a settled request
   never waits again), proved once and carried over by `Refinement`.
3. An abstract limiter that decides in one step, and whether `Gateway` implements
   it under a bound on how old the captured clock may be.
