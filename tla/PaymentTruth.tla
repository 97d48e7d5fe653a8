----------------------------- MODULE PaymentTruth -----------------------------
(***************************************************************************)
(* The payment tables of MemoryStore (src/internal/core/store.go): wallet  *)
(* registry, payment requests with their idempotency records, stablecoin   *)
(* transactions, transaction matches, exceptions and receipt events, and   *)
(* the operations that write them.                                         *)
(*                                                                         *)
(* Every operation of the code reads time.Now() BEFORE it takes s.mu and   *)
(* then does all its work under the lock.  It is two steps here: Start...  *)
(* puts the call in flight with its input and its captured "now", and the  *)
(* commit does what the code does under the lock.  Between the two, other  *)
(* calls may commit and the clock may advance.  A call that is refused by  *)
(* validation never starts: it changes nothing.                            *)
(*                                                                         *)
(* Left out: audit entries (write only), webhook deliveries and the file   *)
(* snapshot, none of which feeds back into these tables; the chain, token, *)
(* mint and decimals, each of which validation fixes to one value; all     *)
(* display fields.                                                         *)
(***************************************************************************)
EXTENDS Integers

CONSTANTS
  Business,     \* business ids
  WalletId,     \* ids newID("wal") can return
  RequestId,    \* ids newID("prq") can return
  TxnId,        \* ids newID("txn") can return
  ExceptionId,  \* ids newID("exc") can return
  Address,      \* on-chain addresses (wallet owners and token accounts)
  Signature,    \* on-chain transaction signatures
  IdemKey,      \* Idempotency-Key header values
  Body,         \* bodies of POST /v1/payment-requests that clients send
  Evidence,     \* bodies of POST /v1/stablecoin-transactions that clients send
  Caller,       \* HTTP handler goroutines
  MaxTime,      \* bound on the clock
  Absent        \* stands for a missing map entry, a nil pointer, an empty id

ASSUME ConstantsAssumption ==
  /\ MaxTime \in Nat
  /\ Body \subseteq [wallet : WalletId, amount : Nat, expiresAt : Nat]
  /\ Evidence \subseteq
       [signature : Signature, owner : Address, address : Address,
        amount : Nat, blockTime : Nat \cup {Absent}, final : BOOLEAN]

VARIABLES
  clock,       \* time.Now()
  calls,       \* the call each goroutine has in flight, Absent when none
  wallets,     \* s.wallets
  requests,    \* s.paymentRequests
  idem,        \* s.idempotency, by business and key
  txns,        \* s.stablecoinTransactions
  txnBySig,    \* s.transactionBySignature, by business and signature
  matches,     \* s.transactionMatches
  exceptions,  \* s.exceptions
  receipts     \* s.receiptEvents, by request

store == <<wallets, requests, idem, txns, txnBySig, matches, exceptions, receipts>>
vars == <<clock, calls, store>>

-------------------------------------------------------------------------------
(* Records *)

Outcome == {"confirmed", "underpaid", "overpaid", "expired"}
RequestStatus == {"awaiting_payment", "manually_resolved"} \cup Outcome
TxnStatus ==
  {"pending_finality", "confirmed_onchain", "matched_to_request", "orphan"}
ExceptionType == {"underpaid", "overpaid", "expired", "ambiguous_match", "orphan"}
EventType ==
  {"payment_request.created", "payment.detected", "transaction.verified",
   "transaction.matched", "payment.confirmed", "payment.exceptioned",
   "exception.resolved"}

Wallet == [business : Business, address : Address]
Request ==
  [business : Business, wallet : WalletId, amount : Nat, expiresAt : Nat,
   status : RequestStatus, createdAt : Nat, updatedAt : Nat]
IdemRecord == [body : Body, request : RequestId]
Txn ==
  [business : Business, wallet : WalletId, evidence : Evidence,
   status : TxnStatus, detectedAt : Nat]
Match == [request : RequestId, txn : TxnId, status : Outcome, at : Nat]
Exception ==
  [business : Business, request : RequestId \cup {Absent}, txn : TxnId,
   type : ExceptionType, status : {"open", "resolved"}, at : Nat,
   resolvedAt : Nat \cup {Absent}]
Event == [type : EventType, txn : TxnId \cup {Absent}, at : Nat]

CreateCall ==
  [op : {"create"}, business : Business, key : IdemKey, body : Body, now : Nat]
IngestCall ==
  [op : {"ingest"}, business : Business, evidence : Evidence, now : Nat]
ResolveCall ==
  [op : {"resolve"}, business : Business, exception : ExceptionId, now : Nat]

\* Each record above has a field Absent lacks; the proofs need it spelled out.
ASSUME AbsentAssumption ==
  /\ Absent \notin Wallet \cup Request \cup IdemRecord \cup Txn \cup Exception
  /\ Absent \notin CreateCall \cup IngestCall \cup ResolveCall
  /\ Absent \notin RequestId \cup TxnId

-------------------------------------------------------------------------------
(* Matching *)

\* Bug: the wallet's business is not compared.
AnyWallet(b, w) == wallets[w] # Absent

OwnsWallet(b, w) == wallets[w] # Absent /\ wallets[w].business = b

\* Wallets of the business the evidence pays into, as owner or as token account.
\* The code takes whichever its map iteration meets first.
PayableWallets(b, e) ==
  {w \in WalletId : /\ OwnsWallet(b, w)
                    /\ wallets[w].address \in {e.owner, e.address}}

\* Bug: lateness is judged by when the API saw the payment.
TimeDetected(tx) == tx.detectedAt

\* Block time when the evidence has one, else the time the API saw it.
PaymentTime(tx) ==
  IF tx.evidence.blockTime = Absent THEN tx.detectedAt ELSE tx.evidence.blockTime

IsLate(tx, r) == PaymentTime(tx) > requests[r].expiresAt

IsExact(tx, r) == tx.evidence.amount = requests[r].amount

\* Bug: a request that was already settled can be settled again.
SettledCandidates(tx) ==
  {r \in RequestId : /\ requests[r] # Absent
                     /\ requests[r].business = tx.business
                     /\ requests[r].wallet = tx.wallet}

\* Bug: a second late payment settles an expired request again.
ExpiredCandidates(tx) ==
  {r \in SettledCandidates(tx) : requests[r].status \in {"awaiting_payment", "expired"}}

\* Requests the transaction could settle: same business and wallet, still open.
Candidates(tx) ==
  {r \in RequestId : /\ requests[r] # Absent
                     /\ requests[r].business = tx.business
                     /\ requests[r].wallet = tx.wallet
                     /\ requests[r].status = "awaiting_payment"}

PreferExact(tx, S) ==
  IF \E r \in S : IsExact(tx, r) THEN {r \in S : IsExact(tx, r)} ELSE S

\* Bug: with no exact request, the first of several is taken to be meant.
FirstOfSeveralWins(tx) ==
  LET active == {r \in Candidates(tx) : ~IsLate(tx, r)}
      late == {r \in Candidates(tx) : IsLate(tx, r)}
      meant == IF active # {} THEN active ELSE late
  IN  IF \E r \in meant : IsExact(tx, r) THEN PreferExact(tx, meant)
      ELSE IF meant = {} THEN {} ELSE {CHOOSE r \in meant : TRUE}

\* The candidates the switch of matchTransactionLocked decides between: the
\* active exact ones if any, else the active ones, else the late exact ones,
\* else the late ones.  It settles a sole contender, and calls several ambiguous.
Contenders(tx) ==
  LET active == {r \in Candidates(tx) : ~IsLate(tx, r)}
      late == {r \in Candidates(tx) : IsLate(tx, r)}
  IN  IF active # {} THEN PreferExact(tx, active) ELSE PreferExact(tx, late)

Verdict(tx, r) ==
  IF IsLate(tx, r) THEN "expired"
  ELSE IF tx.evidence.amount < requests[r].amount THEN "underpaid"
  ELSE IF tx.evidence.amount > requests[r].amount THEN "overpaid"
  ELSE "confirmed"

\* Receipt events of a settled request, all stamped with the same "now".
SettlementEvents(t, outcome, now) ==
  [type : {"payment.detected", "transaction.verified", "transaction.matched",
           IF outcome = "confirmed" THEN "payment.confirmed" ELSE "payment.exceptioned"},
   txn : {t}, at : {now}]

CreateException(x, b, r, t, type, now) ==
  /\ exceptions[x] = Absent
  /\ exceptions' = [exceptions EXCEPT ![x] =
       [business |-> b, request |-> r, txn |-> t, type |-> type,
        status |-> "open", at |-> now, resolvedAt |-> Absent]]

\* Bug: a matched transaction gets the status of its match.
StoreTxnAsRequest(t, tx, status) ==
  txns' = [txns EXCEPT ![t] = [tx EXCEPT !.status =
             IF status = "matched_to_request" THEN "confirmed" ELSE status]]

StoreTxn(t, tx, status) == txns' = [txns EXCEPT ![t] = [tx EXCEPT !.status = status]]

\* Bug: the exception does not name the request.
SettleAnonymously(t, tx, r, now) ==
  LET outcome == Verdict(tx, r) IN
  /\ Contenders(tx) = {r}
  /\ matches' = matches \cup
       {[request |-> r, txn |-> t, status |-> outcome, at |-> now]}
  /\ IF outcome = "confirmed"
       THEN UNCHANGED exceptions
       ELSE \E x \in ExceptionId :
              CreateException(x, tx.business, Absent, t, outcome, now)
  /\ requests' = [requests EXCEPT ![r].status = outcome, ![r].updatedAt = now]
  /\ StoreTxn(t, tx, "matched_to_request")
  /\ receipts' = [receipts EXCEPT ![r] = @ \cup SettlementEvents(t, outcome, now)]

\* The sole contender is settled: match, exception unless exact, new statuses of
\* the request and of the transaction, receipt events.
SettleRequest(t, tx, r, now) ==
  LET outcome == Verdict(tx, r) IN
  /\ Contenders(tx) = {r}
  /\ matches' = matches \cup
       {[request |-> r, txn |-> t, status |-> outcome, at |-> now]}
  /\ IF outcome = "confirmed"
       THEN UNCHANGED exceptions
       ELSE \E x \in ExceptionId :
              CreateException(x, tx.business, r, t, outcome, now)
  /\ requests' = [requests EXCEPT ![r].status = outcome, ![r].updatedAt = now]
  /\ StoreTxn(t, tx, "matched_to_request")
  /\ receipts' = [receipts EXCEPT ![r] = @ \cup SettlementEvents(t, outcome, now)]

\* Several contenders: an exception that names no request; the transaction keeps
\* its status.
RaiseAmbiguous(t, tx, now) ==
  /\ \E r, q \in Contenders(tx) : r # q
  /\ \E x \in ExceptionId :
       CreateException(x, tx.business, Absent, t, "ambiguous_match", now)
  /\ StoreTxn(t, tx, "confirmed_onchain")
  /\ UNCHANGED <<requests, matches, receipts>>

\* Bug: the orphan gets its status and no exception.
MarkOrphan(t, tx, now) ==
  /\ Contenders(tx) = {}
  /\ StoreTxn(t, tx, "orphan")
  /\ UNCHANGED <<requests, matches, exceptions, receipts>>

RaiseOrphan(t, tx, now) ==
  /\ Contenders(tx) = {}
  /\ \E x \in ExceptionId : CreateException(x, tx.business, Absent, t, "orphan", now)
  /\ StoreTxn(t, tx, "orphan")
  /\ UNCHANGED <<requests, matches, receipts>>

\* Evidence that is not finalized is stored and never looked at again.
KeepPending(t, tx) ==
  /\ StoreTxn(t, tx, "pending_finality")
  /\ UNCHANGED <<requests, matches, exceptions, receipts>>

-------------------------------------------------------------------------------
(* Operations *)

Init ==
  /\ clock = 0
  /\ calls = [c \in Caller |-> Absent]
  /\ wallets = [w \in WalletId |-> Absent]
  /\ requests = [r \in RequestId |-> Absent]
  /\ idem = [bk \in Business \X IdemKey |-> Absent]
  /\ txns = [t \in TxnId |-> Absent]
  /\ txnBySig = [bs \in Business \X Signature |-> Absent]
  /\ matches = {}
  /\ exceptions = [x \in ExceptionId |-> Absent]
  /\ receipts = [r \in RequestId |-> {}]

Tick ==
  /\ clock < MaxTime
  /\ clock' = clock + 1
  /\ UNCHANGED <<calls, store>>

\* One address is registered once per business.  Its "now" is only displayed.
RegisterWallet(b, w, a) ==
  /\ wallets[w] = Absent
  /\ \A v \in WalletId : wallets[v] # [business |-> b, address |-> a]
  /\ wallets' = [wallets EXCEPT ![w] = [business |-> b, address |-> a]]
  /\ UNCHANGED <<clock, calls, requests, idem, txns, txnBySig, matches,
                 exceptions, receipts>>

Begin(c, call) ==
  /\ calls[c] = Absent
  /\ calls' = [calls EXCEPT ![c] = call]
  /\ UNCHANGED <<clock, store>>

End(c) == calls' = [calls EXCEPT ![c] = Absent] /\ UNCHANGED clock

\* Bug: a key used with another body counts as unused.
KeyUsedForBody(call) ==
  /\ idem[<<call.business, call.key>>] # Absent
  /\ idem[<<call.business, call.key>>].body = call.body

KeyUsed(call) == idem[<<call.business, call.key>>] # Absent

\* Bug: the same transfer with other evidence counts as new.
SameEvidenceIngested(b, e) ==
  /\ txnBySig[<<b, e.signature>>] # Absent
  /\ txns[txnBySig[<<b, e.signature>>]].evidence = e

AlreadyIngested(b, e) == txnBySig[<<b, e.signature>>] # Absent

\* Bug: an exception that was resolved is resolved again.
MayResolveAgain(b, x) == exceptions[x].business = b

\* Bug: the exception's business is not compared.
AnyoneMayResolve(b, x) == exceptions[x].status = "open"

MayResolve(b, x) == exceptions[x].business = b /\ exceptions[x].status = "open"

\* Bug: stamped with the exception's time.
ResolvedEventBackdated(x, now) ==
  [type |-> "exception.resolved", txn |-> x.txn, at |-> x.at]

ResolvedEvent(x, now) == [type |-> "exception.resolved", txn |-> x.txn, at |-> now]

\* normalizePaymentRequestInput refuses a body that has expired, before the
\* idempotency record is looked up.
StartCreatePaymentRequest(c, b, k, body) ==
  /\ body.expiresAt > clock
  /\ Begin(c, [op |-> "create", business |-> b, key |-> k, body |-> body,
               now |-> clock])

\* Replay (same body), conflict (other body) and unknown wallet write nothing.
RefuseOrReplayCreate(c) ==
  /\ calls[c] \in CreateCall
  /\ LET call == calls[c]
     IN  \/ KeyUsed(call)
         \/ ~OwnsWallet(call.business, call.body.wallet)
  /\ End(c)
  /\ UNCHANGED store

CreatePaymentRequest(c, r) ==
  LET call == calls[c] IN
  /\ call \in CreateCall
  /\ ~KeyUsed(call)
  /\ OwnsWallet(call.business, call.body.wallet)
  /\ requests[r] = Absent
  /\ requests' = [requests EXCEPT ![r] =
       [business |-> call.business, wallet |-> call.body.wallet,
        amount |-> call.body.amount, expiresAt |-> call.body.expiresAt,
        status |-> "awaiting_payment",
        createdAt |-> call.now, updatedAt |-> call.now]]
  /\ idem' = [idem EXCEPT ![<<call.business, call.key>>] =
       [body |-> call.body, request |-> r]]
  /\ receipts' = [receipts EXCEPT ![r] = @ \cup
       {[type |-> "payment_request.created", txn |-> Absent, at |-> call.now]}]
  /\ End(c)
  /\ UNCHANGED <<wallets, txns, txnBySig, matches, exceptions>>

StartIngestStablecoinTransaction(c, b, e) ==
  Begin(c, [op |-> "ingest", business |-> b, evidence |-> e, now |-> clock])

\* No wallet of the business, or a signature it already ingested: replay when
\* the evidence agrees, conflict when it does not.  Neither writes anything.
RefuseOrReplayIngest(c) ==
  /\ calls[c] \in IngestCall
  /\ LET call == calls[c]
     IN  \/ PayableWallets(call.business, call.evidence) = {}
         \/ AlreadyIngested(call.business, call.evidence)
  /\ End(c)
  /\ UNCHANGED store

IngestStablecoinTransaction(c, t, w) ==
  LET call == calls[c]
      e == call.evidence
      tx == [business |-> call.business, wallet |-> w, evidence |-> e,
             status |-> "confirmed_onchain", detectedAt |-> call.now]
  IN
  /\ call \in IngestCall
  /\ w \in PayableWallets(call.business, e)
  /\ ~AlreadyIngested(call.business, e)
  /\ txns[t] = Absent
  /\ txnBySig' = [txnBySig EXCEPT ![<<call.business, e.signature>>] = t]
  /\ \/ ~e.final /\ KeepPending(t, tx)
     \/ e.final /\ \E r \in RequestId : SettleRequest(t, tx, r, call.now)
     \/ e.final /\ RaiseAmbiguous(t, tx, call.now)
     \/ e.final /\ RaiseOrphan(t, tx, call.now)
  /\ End(c)
  /\ UNCHANGED <<wallets, idem>>

\* An exception id is random, so a caller knows one only from an answer.
StartResolveException(c, b, x) ==
  /\ exceptions[x] # Absent
  /\ Begin(c, [op |-> "resolve", business |-> b, exception |-> x, now |-> clock])

RefuseOrRepeatResolve(c) ==
  /\ calls[c] \in ResolveCall
  /\ ~MayResolve(calls[c].business, calls[c].exception)
  /\ End(c)
  /\ UNCHANGED store

\* Resolving the exception of a request resolves the request; an ambiguous or
\* orphan exception names none, and its transaction is left as it is.
ResolveException(c) ==
  LET call == calls[c]
      x == exceptions[call.exception]
  IN
  /\ call \in ResolveCall
  /\ MayResolve(call.business, call.exception)
  /\ exceptions' = [exceptions EXCEPT ![call.exception].status = "resolved",
                                      ![call.exception].resolvedAt = call.now]
  /\ IF x.request = Absent
       THEN UNCHANGED <<requests, receipts>>
       ELSE /\ requests' = [requests EXCEPT
                 ![x.request].status = "manually_resolved",
                 ![x.request].updatedAt = call.now]
            /\ receipts' = [receipts EXCEPT ![x.request] =
                 @ \cup {ResolvedEvent(x, call.now)}]
  /\ End(c)
  /\ UNCHANGED <<wallets, idem, txns, txnBySig, matches>>

Next ==
  \/ Tick
  \/ \E b \in Business, w \in WalletId, a \in Address : RegisterWallet(b, w, a)
  \/ \E c \in Caller, b \in Business :
       \/ \E k \in IdemKey, body \in Body : StartCreatePaymentRequest(c, b, k, body)
       \/ \E e \in Evidence : StartIngestStablecoinTransaction(c, b, e)
       \/ \E x \in ExceptionId : StartResolveException(c, b, x)
  \/ \E c \in Caller :
       \/ RefuseOrReplayCreate(c)
       \/ \E r \in RequestId : CreatePaymentRequest(c, r)
       \/ RefuseOrReplayIngest(c)
       \/ \E t \in TxnId, w \in WalletId : IngestStablecoinTransaction(c, t, w)
       \/ RefuseOrRepeatResolve(c)
       \/ ResolveException(c)

Spec == Init /\ [][Next]_vars

-------------------------------------------------------------------------------
(* Invariants *)

\* Every table holds records of its shape, and every reference names an id.
TypeOK ==
  /\ clock \in Nat
  /\ calls \in [Caller -> CreateCall \cup IngestCall \cup ResolveCall \cup {Absent}]
  /\ wallets \in [WalletId -> Wallet \cup {Absent}]
  /\ requests \in [RequestId -> Request \cup {Absent}]
  /\ idem \in [Business \X IdemKey -> IdemRecord \cup {Absent}]
  /\ txns \in [TxnId -> Txn \cup {Absent}]
  /\ txnBySig \in [Business \X Signature -> TxnId \cup {Absent}]
  /\ matches \subseteq Match
  /\ exceptions \in [ExceptionId -> Exception \cup {Absent}]
  /\ receipts \in [RequestId -> SUBSET Event]

ExceptionsOf(t) ==
  {x \in ExceptionId : exceptions[x] # Absent /\ exceptions[x].txn = t}

\* No payment settles two requests and no request is settled by two payments,
\* however calls interleave (matchTransactionLocked considers only requests that
\* await payment, and a transaction is matched only by the call that stores it).
SettledOnce ==
  \A m, n \in matches : m.request = n.request \/ m.txn = n.txn => m = n

\* A match is what its evidence says, read at any later time: same business and
\* wallet, a wallet the evidence really pays into, final evidence, and a verdict
\* that agrees with the two amounts and with the block time against the expiry.
VerdictsAreJust ==
  \A m \in matches :
    LET r == requests[m.request]
        tx == txns[m.txn]
        e == tx.evidence
        paidAt == IF e.blockTime = Absent THEN m.at ELSE e.blockTime
    IN  /\ r.business = tx.business /\ r.wallet = tx.wallet
        /\ wallets[tx.wallet].business = tx.business
        /\ wallets[tx.wallet].address \in {e.owner, e.address}
        /\ e.final
        /\ (m.status = "expired") <=> paidAt > r.expiresAt
        /\ m.status = "confirmed" => e.amount = r.amount
        /\ m.status = "underpaid" => e.amount < r.amount
        /\ m.status = "overpaid" => e.amount > r.amount

\* A request's status, its match and its exception tell one story: it waits iff
\* nothing matched it; it is confirmed iff an exact payment did, with no
\* exception; it is underpaid, overpaid or expired iff its match says so and the
\* exception is open; it is manually resolved iff that exception was resolved.
StatusTellsTheEvidence ==
  \A r \in RequestId :
    requests[r] # Absent =>
      LET ms == {m \in matches : m.request = r}
          xs == {x \in ExceptionId : exceptions[x] # Absent /\ exceptions[x].request = r}
          s == requests[r].status
          DisputedAs(st) == \E m \in ms, x \in xs :
            /\ xs = {x}
            /\ m.status \in Outcome \ {"confirmed"}
            /\ exceptions[x].type = m.status
            /\ exceptions[x].txn = m.txn
            /\ exceptions[x].business = requests[r].business
            /\ exceptions[x].status = st
      IN  \/ s = "awaiting_payment" /\ ms = {} /\ xs = {}
          \/ s = "confirmed" /\ xs = {} /\ \E m \in ms : m.status = "confirmed"
          \/ s = "manually_resolved" /\ DisputedAs("resolved")
          \/ /\ s \in Outcome \ {"confirmed"}
             /\ DisputedAs("open")
             /\ \E m \in ms : m.status = s

\* No final payment disappears: a stored transaction either waits for finality
\* with nothing said about it, or has exactly one account of itself - an exact
\* match, a match with its exception, an ambiguous exception or an orphan one -
\* and its status tells which.
EveryPaymentAccountedFor ==
  \A t \in TxnId :
    txns[t] # Absent =>
      LET ms == {m \in matches : m.txn = t}
          xs == ExceptionsOf(t)
          RaisedAs(type) ==
            ms = {} /\ \E x \in xs : xs = {x} /\ exceptions[x].type = type
      IN  CASE txns[t].status = "pending_finality" ->
                 ~txns[t].evidence.final /\ ms = {} /\ xs = {}
            [] txns[t].status = "confirmed_onchain" ->
                 txns[t].evidence.final /\ RaisedAs("ambiguous_match")
            [] txns[t].status = "orphan" ->
                 txns[t].evidence.final /\ RaisedAs("orphan")
            [] txns[t].status = "matched_to_request" ->
                 /\ txns[t].evidence.final
                 /\ \E m \in ms :
                      \/ m.status = "confirmed" /\ xs = {}
                      \/ \E x \in xs : xs = {x} /\ exceptions[x].request = m.request

\* The same transfer reported twice to a business is stored once: the index by
\* signature and the table agree in both directions.
SignatureIndexExact ==
  /\ \A b \in Business, s \in Signature :
       txnBySig[<<b, s>>] # Absent =>
         LET tx == txns[txnBySig[<<b, s>>]]
         IN  tx # Absent /\ tx.business = b /\ tx.evidence.signature = s
  /\ \A t \in TxnId :
       txns[t] # Absent => txnBySig[<<txns[t].business, txns[t].evidence.signature>>] = t

\* An idempotency key made one request, every request was made by one key, and
\* the request still is what the recorded body asked for.
OneRequestPerKey ==
  /\ \A p, q \in Business \X IdemKey :
       /\ idem[p] # Absent /\ idem[q] # Absent
       /\ idem[p].request = idem[q].request
       => p = q
  /\ \A r \in RequestId :
       requests[r] # Absent =>
         \E b \in Business, k \in IdemKey :
           /\ idem[<<b, k>>] # Absent
           /\ idem[<<b, k>>].request = r
           /\ requests[r].business = b
           /\ [wallet |-> requests[r].wallet, amount |-> requests[r].amount,
               expiresAt |-> requests[r].expiresAt] = idem[<<b, k>>].body

EventsOf(r, type) == {e \in receipts[r] : e.type = type}

\* The receipt a customer sees is complete and says no more than happened: one
\* event of each kind its status calls for, none of another kind, all of the
\* settlement's about the transaction that settled it.
TimelineTellsTheStatus ==
  \A r \in RequestId :
    LET settled == {"payment_request.created", "payment.detected",
                    "transaction.verified", "transaction.matched"}
        expected ==
          IF requests[r] = Absent THEN {}
          ELSE CASE requests[r].status = "awaiting_payment" -> {"payment_request.created"}
                 [] requests[r].status = "confirmed" -> settled \cup {"payment.confirmed"}
                 [] requests[r].status = "manually_resolved" ->
                      settled \cup {"payment.exceptioned", "exception.resolved"}
                 [] OTHER -> settled \cup {"payment.exceptioned"}
    IN  \A type \in EventType :
          IF type \in expected
            THEN \E e \in receipts[r] : EventsOf(r, type) = {e}
            ELSE EventsOf(r, type) = {}

\* However long a resolution waits for the lock, its event is the last of the
\* receipt: the caller learned the exception's id after the settlement was
\* stamped.
ResolutionComesLast ==
  \A r \in RequestId :
    \A e \in EventsOf(r, "exception.resolved"), f \in receipts[r] : f.at <= e.at

-------------------------------------------------------------------------------
(* Action properties *)

\* The conservative matching rule (docs/milestones/milestone-4/README.md), and what
\* the code makes of it when no request is exact.  Just before a step settles a
\* request, of the requests of the business on that wallet that awaited payment
\*   - a confirmed one was the only one in time that asked for exactly that amount,
\*     though others in time may have asked for other amounts;
\*   - an underpaid or overpaid one was the only one in time;
\*   - an expired one was late as all were, and the only one or the only exact one.
\* In time is judged by when the payment was made.
ConservativeMatching ==
  [][\A m \in matches' \ matches :
       LET tx == txns'[m.txn]
           paidAt == IF tx.evidence.blockTime = Absent THEN m.at
                     ELSE tx.evidence.blockTime
           waiting == {r \in RequestId : /\ requests[r] # Absent
                                         /\ requests[r].status = "awaiting_payment"
                                         /\ requests[r].business = tx.business
                                         /\ requests[r].wallet = tx.wallet}
           inTime == {r \in waiting : paidAt <= requests[r].expiresAt}
           Exact(S) == {r \in S : requests[r].amount = tx.evidence.amount}
       IN  /\ m.status = "confirmed" => Exact(inTime) = {m.request}
           /\ m.status \in {"underpaid", "overpaid"} => inTime = {m.request}
           /\ m.status = "expired" =>
                inTime = {} /\ {m.request} \in {waiting, Exact(waiting)}]_vars

\* A business's calls never change another business's requests, transactions or
\* exceptions (every handler compares BusinessID before it writes).
BusinessIsolation ==
  [][\A c \in Caller :
       calls[c] # Absent /\ calls'[c] = Absent =>
         LET b == calls[c].business IN
         /\ \A r \in RequestId : requests'[r] # requests[r] => requests'[r].business = b
         /\ \A t \in TxnId : txns'[t] # txns[t] => txns'[t].business = b
         /\ \A x \in ExceptionId :
              exceptions'[x] # exceptions[x] => exceptions'[x].business = b]_vars

-------------------------------------------------------------------------------
(* Refinement *)

RequestStatuses ==
  [r \in RequestId |-> IF requests[r] = Absent THEN "none" ELSE requests[r].status]
Settlements == {<<m.request, m.txn>> : m \in matches}

Lifecycle == INSTANCE PaymentLifecycle
               WITH status <- RequestStatuses, settlement <- Settlements

\* The tables keep the promise of PaymentLifecycle: one settlement per request
\* and per transaction, no status ever goes back, an operator closes only what
\* was underpaid, overpaid or expired.
ImplementsLifecycle == Lifecycle!Spec

-------------------------------------------------------------------------------
(* What documents and tests say and the code does not do *)

\* docs/v1-milestones.md asks for "confirmation and finality tracking": once
\* final evidence of a known transfer has been taken, the transaction is no
\* longer waiting for finality.
FinalEvidenceEndsTheWait ==
  [][\A c \in Caller :
       calls[c] \in IngestCall /\ calls'[c] = Absent =>
         LET b == calls[c].business
             e == calls[c].evidence
         IN  \A t \in TxnId :
               /\ txns'[t] # Absent
               /\ txns'[t].business = b
               /\ txns'[t].evidence \in {e, [e EXCEPT !.final = FALSE]}
               /\ e.final
               => txns'[t].status # "pending_finality"]_vars
===============================================================================
