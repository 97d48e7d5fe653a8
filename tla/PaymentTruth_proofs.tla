------------------------- MODULE PaymentTruth_proofs -------------------------
(***************************************************************************)
(* Proofs about PaymentTruth for all constants: an inductive invariant of  *)
(* types and ids, with the refinement of PaymentLifecycle; then a wider    *)
(* one, of what the tables say of each other.  PaymentAccounts_proofs goes *)
(* on from there.                                                          *)
(***************************************************************************)
EXTENDS PaymentTruth, TLAPS

\* A resolution in flight names an exception that exists.
ResolvesName ==
  \A c \in Caller : calls[c] \in ResolveCall => exceptions[calls[c].exception] # Absent

\* A match, and an exception that names a request, name one that exists and no
\* longer waits; both name a stored transaction.
TablesClosed ==
  /\ \A x \in ExceptionId :
       exceptions[x] # Absent =>
         /\ txns[exceptions[x].txn] # Absent
         /\ exceptions[x].request # Absent =>
              /\ requests[exceptions[x].request] # Absent
              /\ requests[exceptions[x].request].status # "awaiting_payment"
  /\ \A m \in matches :
       /\ txns[m.txn] # Absent
       /\ requests[m.request] # Absent
       /\ requests[m.request].status # "awaiting_payment"

NoDanglingId == ResolvesName /\ TablesClosed

\* A request has at most one exception; while it is open the request has its
\* type as status.
OneDisputePerRequest ==
  /\ \A x, y \in ExceptionId :
       /\ exceptions[x] # Absent /\ exceptions[y] # Absent
       /\ exceptions[x].request # Absent
       /\ exceptions[x].request = exceptions[y].request
       => x = y
  /\ \A x \in ExceptionId :
       /\ exceptions[x] # Absent
       /\ exceptions[x].request # Absent
       /\ exceptions[x].status = "open"
       => /\ exceptions[x].type \in {"underpaid", "overpaid", "expired"}
          /\ requests[exceptions[x].request].status = exceptions[x].type

-------------------------------------------------------------------------------
(* The operators of the matching engine *)

\* A contender is a request that waits, of the same business and wallet.
LEMMA ContendersWait ==
  ASSUME NEW tx, NEW r \in Contenders(tx)
  PROVE  /\ r \in RequestId
         /\ requests[r] # Absent
         /\ requests[r].status = "awaiting_payment"
         /\ requests[r].business = tx.business
         /\ requests[r].wallet = tx.wallet
BY DEF Contenders, Candidates, PreferExact

\* The verdict is always one of the four outcomes.
LEMMA VerdictIsOutcome ==
  ASSUME NEW tx, NEW r
  PROVE  Verdict(tx, r) \in Outcome
BY DEF Verdict, Outcome

-------------------------------------------------------------------------------
(* Type correctness *)

\* An exception that is written is well formed, and the others stay.
LEMMA CreateExceptionType ==
  ASSUME TypeOK,
         NEW x \in ExceptionId, NEW b \in Business,
         NEW r \in RequestId \cup {Absent}, NEW t \in TxnId,
         NEW type \in ExceptionType, NEW now \in Nat,
         CreateException(x, b, r, t, type, now)
  PROVE  exceptions' \in [ExceptionId -> Exception \cup {Absent}]
<1>1. [business |-> b, request |-> r, txn |-> t, type |-> type,
       status |-> "open", at |-> now, resolvedAt |-> Absent] \in Exception
  BY DEF Exception
<1> QED BY <1>1 DEF CreateException, TypeOK

\* What the call in flight carries, and the transaction an ingestion builds.
LEMMA IngestTxnType ==
  ASSUME TypeOK, NEW c \in Caller, calls[c] \in IngestCall,
         NEW w \in WalletId, NEW st \in TxnStatus
  PROVE  /\ calls[c].business \in Business
         /\ calls[c].now \in Nat
         /\ calls[c].evidence \in Evidence
         /\ calls[c].evidence.signature \in Signature
         /\ [business |-> calls[c].business, wallet |-> w,
             evidence |-> calls[c].evidence, status |-> st,
             detectedAt |-> calls[c].now] \in Txn
BY ConstantsAssumption DEF IngestCall, Txn

\* Storing a transaction keeps the table well formed.
LEMMA StoreTxnType ==
  ASSUME TypeOK, NEW t \in TxnId, NEW tx \in Txn, NEW st \in TxnStatus,
         StoreTxn(t, tx, st)
  PROVE  txns' \in [TxnId -> Txn \cup {Absent}]
<1>1. [tx EXCEPT !.status = st] \in Txn
  BY DEF Txn
<1> QED BY <1>1 DEF StoreTxn, TypeOK

\* A settlement keeps the five tables it writes well formed.
LEMMA SettleRequestType ==
  ASSUME TypeOK, NEW t \in TxnId, NEW tx \in Txn, NEW r \in RequestId,
         NEW now \in Nat, SettleRequest(t, tx, r, now)
  PROVE  /\ matches' \subseteq Match
         /\ exceptions' \in [ExceptionId -> Exception \cup {Absent}]
         /\ requests' \in [RequestId -> Request \cup {Absent}]
         /\ txns' \in [TxnId -> Txn \cup {Absent}]
         /\ receipts' \in [RequestId -> SUBSET Event]
<1> DEFINE outcome == Verdict(tx, r)
<1>1. outcome \in Outcome
  BY VerdictIsOutcome
<1>2. requests[r] \in Request
  <2>1. r \in Contenders(tx)
    BY DEF SettleRequest
  <2>2. requests[r] # Absent
    BY <2>1, ContendersWait
  <2> QED BY <2>2 DEF TypeOK
<1>3. matches' \subseteq Match
  <2>1. [request |-> r, txn |-> t, status |-> outcome, at |-> now] \in Match
    BY <1>1 DEF Match
  <2> QED BY <2>1 DEF SettleRequest, TypeOK
<1>4. exceptions' \in [ExceptionId -> Exception \cup {Absent}]
  <2>1. CASE outcome = "confirmed"
    BY <2>1 DEF SettleRequest, TypeOK
  <2>2. CASE outcome # "confirmed"
    <3>1. PICK x \in ExceptionId : CreateException(x, tx.business, r, t, outcome, now)
      BY <2>2 DEF SettleRequest
    <3>2. outcome \in ExceptionType /\ tx.business \in Business
      BY <1>1, <2>2 DEF Outcome, ExceptionType, Txn
    <3> QED BY <3>1, <3>2, CreateExceptionType
  <2> QED BY <2>1, <2>2
<1>5. requests' \in [RequestId -> Request \cup {Absent}]
  <2>1. [requests[r] EXCEPT !.status = outcome, !.updatedAt = now] \in Request
    BY <1>1, <1>2 DEF Request, RequestStatus
  <2>2. requests' = [requests EXCEPT ![r] =
                       [requests[r] EXCEPT !.status = outcome, !.updatedAt = now]]
    BY DEF SettleRequest, TypeOK
  <2> QED BY <2>1, <2>2 DEF TypeOK
<1>6. txns' \in [TxnId -> Txn \cup {Absent}]
  BY StoreTxnType DEF SettleRequest, TxnStatus
<1>7. receipts' \in [RequestId -> SUBSET Event]
  <2>1. SettlementEvents(t, outcome, now) \subseteq Event
    BY DEF SettlementEvents, Event, EventType
  <2>2. receipts' = [receipts EXCEPT ![r] = @ \cup SettlementEvents(t, outcome, now)]
    BY DEF SettleRequest
  <2> QED BY <2>1, <2>2 DEF TypeOK
<1> QED BY <1>3, <1>4, <1>5, <1>6, <1>7
\* The request a creation builds is well formed.
LEMMA NewRequestType ==
  ASSUME TypeOK, NEW c \in Caller, calls[c] \in CreateCall
  PROVE  [business |-> calls[c].business, wallet |-> calls[c].body.wallet,
          amount |-> calls[c].body.amount, expiresAt |-> calls[c].body.expiresAt,
          status |-> "awaiting_payment",
          createdAt |-> calls[c].now, updatedAt |-> calls[c].now] \in Request
<1>1. /\ calls[c].business \in Business /\ calls[c].body \in Body /\ calls[c].now \in Nat
  BY DEF CreateCall
<1>2. /\ calls[c].body.wallet \in WalletId
      /\ calls[c].body.amount \in Nat /\ calls[c].body.expiresAt \in Nat
  BY <1>1, ConstantsAssumption
<1> QED BY <1>1, <1>2 DEF Request, RequestStatus

\* A step keeps every table well formed.
LEMMA TypeStep ==
  ASSUME TypeOK, NoDanglingId, [Next]_vars
  PROVE  TypeOK'
<1>1. CASE Tick
  BY <1>1 DEF Tick, TypeOK, store
<1>2. CASE \E b \in Business, w \in WalletId, a \in Address : RegisterWallet(b, w, a)
  <2>1. PICK b \in Business, w \in WalletId, a \in Address : RegisterWallet(b, w, a)
    BY <1>2
  <2>2. [business |-> b, address |-> a] \in Wallet
    BY DEF Wallet
  <2> QED BY <2>1, <2>2 DEF RegisterWallet, TypeOK
<1>3. ASSUME NEW c \in Caller, NEW b \in Business, NEW k \in IdemKey, NEW body \in Body,
             StartCreatePaymentRequest(c, b, k, body)
      PROVE  TypeOK'
  <2>1. [op |-> "create", business |-> b, key |-> k, body |-> body, now |-> clock]
          \in CreateCall
    BY DEF CreateCall, TypeOK
  <2> QED BY <1>3, <2>1 DEF StartCreatePaymentRequest, Begin, TypeOK, store
<1>4. ASSUME NEW c \in Caller, NEW b \in Business, NEW e \in Evidence,
             StartIngestStablecoinTransaction(c, b, e)
      PROVE  TypeOK'
  <2>1. [op |-> "ingest", business |-> b, evidence |-> e, now |-> clock] \in IngestCall
    BY DEF IngestCall, TypeOK
  <2> QED BY <1>4, <2>1 DEF StartIngestStablecoinTransaction, Begin, TypeOK, store
<1>5. ASSUME NEW c \in Caller, NEW b \in Business, NEW x \in ExceptionId,
             StartResolveException(c, b, x)
      PROVE  TypeOK'
  <2>1. [op |-> "resolve", business |-> b, exception |-> x, now |-> clock] \in ResolveCall
    BY DEF ResolveCall, TypeOK
  <2> QED BY <1>5, <2>1 DEF StartResolveException, Begin, TypeOK, store
<1>6. ASSUME NEW c \in Caller,
             \/ RefuseOrReplayCreate(c)
             \/ RefuseOrReplayIngest(c)
             \/ RefuseOrRepeatResolve(c)
      PROVE  TypeOK'
  BY <1>6 DEF RefuseOrReplayCreate, RefuseOrReplayIngest, RefuseOrRepeatResolve,
              End, TypeOK, store
<1>7. ASSUME NEW c \in Caller, NEW r \in RequestId, CreatePaymentRequest(c, r)
      PROVE  TypeOK'
  <2> DEFINE call == calls[c]
  <2>1. /\ call \in CreateCall /\ call.business \in Business
        /\ call.key \in IdemKey /\ call.body \in Body /\ call.now \in Nat
    BY <1>7 DEF CreatePaymentRequest, CreateCall
  <2>3. [business |-> call.business, wallet |-> call.body.wallet,
         amount |-> call.body.amount, expiresAt |-> call.body.expiresAt,
         status |-> "awaiting_payment",
         createdAt |-> call.now, updatedAt |-> call.now] \in Request
    BY <2>1, NewRequestType
  <2>4. requests' \in [RequestId -> Request \cup {Absent}]
    BY <1>7, <2>3 DEF CreatePaymentRequest, TypeOK
  <2>5. idem' \in [Business \X IdemKey -> IdemRecord \cup {Absent}]
    <3>1. [body |-> call.body, request |-> r] \in IdemRecord
      BY <2>1 DEF IdemRecord
    <3> QED BY <1>7, <2>1, <3>1 DEF CreatePaymentRequest, TypeOK
  <2>6. receipts' \in [RequestId -> SUBSET Event]
    <3>1. [type |-> "payment_request.created", txn |-> Absent, at |-> call.now] \in Event
      BY <2>1 DEF Event, EventType
    <3> QED BY <1>7, <3>1 DEF CreatePaymentRequest, TypeOK
  <2> QED BY <1>7, <2>4, <2>5, <2>6 DEF CreatePaymentRequest, End, TypeOK
<1>8. ASSUME NEW c \in Caller, NEW t \in TxnId, NEW w \in WalletId,
             IngestStablecoinTransaction(c, t, w)
      PROVE  TypeOK'
  <2> DEFINE call == calls[c]
             e == call.evidence
             tx == [business |-> call.business, wallet |-> w, evidence |-> e,
                    status |-> "confirmed_onchain", detectedAt |-> call.now]
  <2>1. call \in IngestCall
    BY <1>8 DEF IngestStablecoinTransaction
  <2>2. /\ call.business \in Business /\ call.now \in Nat
        /\ e.signature \in Signature /\ tx \in Txn
    BY <2>1, IngestTxnType DEF TxnStatus
  <2> HIDE DEF tx
  <2>3. /\ matches' \subseteq Match
        /\ exceptions' \in [ExceptionId -> Exception \cup {Absent}]
        /\ requests' \in [RequestId -> Request \cup {Absent}]
        /\ txns' \in [TxnId -> Txn \cup {Absent}]
        /\ receipts' \in [RequestId -> SUBSET Event]
    <3>1. CASE KeepPending(t, tx)
      BY <2>2, <3>1, StoreTxnType DEF KeepPending, TxnStatus, TypeOK
    <3>2. CASE \E r \in RequestId : SettleRequest(t, tx, r, call.now)
      BY <2>2, <3>2, SettleRequestType
    <3>3. CASE RaiseAmbiguous(t, tx, call.now) \/ RaiseOrphan(t, tx, call.now)
      <4>1. PICK x \in ExceptionId, type \in ExceptionType, st \in TxnStatus :
              /\ CreateException(x, tx.business, Absent, t, type, call.now)
              /\ StoreTxn(t, tx, st)
              /\ UNCHANGED <<requests, matches, receipts>>
        BY <3>3 DEF RaiseAmbiguous, RaiseOrphan, ExceptionType, TxnStatus
      <4>2. tx.business \in Business
        BY <2>2 DEF Txn
      <4>3. exceptions' \in [ExceptionId -> Exception \cup {Absent}]
        BY SMTT(30), <2>2, <4>1, <4>2, CreateExceptionType
      <4> QED BY <2>2, <4>1, <4>3, StoreTxnType DEF TypeOK
    <3> QED BY <1>8, <3>1, <3>2, <3>3 DEF IngestStablecoinTransaction, tx
  <2>4. txnBySig' \in [Business \X Signature -> TxnId \cup {Absent}]
    BY SMTT(30), <1>8, <2>2 DEF IngestStablecoinTransaction, TypeOK
  <2> QED BY <1>8, <2>3, <2>4 DEF IngestStablecoinTransaction, End, TypeOK
<1>9. ASSUME NEW c \in Caller, ResolveException(c)
      PROVE  TypeOK'
  <2> DEFINE call == calls[c]
             x == exceptions[call.exception]
  <2>1. /\ call \in ResolveCall
        /\ call.exception \in ExceptionId /\ call.now \in Nat
    BY <1>9 DEF ResolveException, ResolveCall
  <2>2. x \in Exception
    BY <2>1 DEF NoDanglingId, ResolvesName, TablesClosed, TypeOK
  <2>3. exceptions' \in [ExceptionId -> Exception \cup {Absent}]
    <3>1. [x EXCEPT !.status = "resolved", !.resolvedAt = call.now] \in Exception
      BY <2>1, <2>2 DEF Exception
    <3> QED BY <1>9, <2>1, <3>1 DEF ResolveException, TypeOK
  <2>4. /\ requests' \in [RequestId -> Request \cup {Absent}]
        /\ receipts' \in [RequestId -> SUBSET Event]
    <3>1. CASE x.request = Absent
      BY <1>9, <3>1 DEF ResolveException, TypeOK
    <3>2. CASE x.request # Absent
      <4>1. x.request \in RequestId /\ requests[x.request] \in Request /\ x.txn \in TxnId
        BY <2>1, <2>2, <3>2 DEF NoDanglingId, ResolvesName, TablesClosed, TypeOK, Exception
      <4>2. [requests[x.request] EXCEPT !.status = "manually_resolved",
                                       !.updatedAt = call.now] \in Request
        BY <2>1, <4>1 DEF Request, RequestStatus
      <4>3. requests' = [requests EXCEPT ![x.request] =
              [requests[x.request] EXCEPT !.status = "manually_resolved",
                                          !.updatedAt = call.now]]
        BY <1>9, <3>2, <4>1 DEF ResolveException, TypeOK
      <4>4. ResolvedEvent(x, call.now) \in Event
        BY SMTT(30), <2>1, <4>1 DEF ResolvedEvent, Event, EventType
      <4>5. receipts' = [receipts EXCEPT ![x.request] = @ \cup {ResolvedEvent(x, call.now)}]
        BY <1>9, <3>2 DEF ResolveException
      <4> QED BY <4>1, <4>2, <4>3, <4>4, <4>5 DEF TypeOK
    <3> QED BY <3>1, <3>2
  <2> QED BY SMTT(30), <1>9, <2>3, <2>4 DEF ResolveException, End, TypeOK
<1>10. CASE UNCHANGED vars
  BY <1>10 DEF vars, store, TypeOK
<1> QED BY <1>1, <1>2, <1>3, <1>4, <1>5, <1>6, <1>7, <1>8, <1>9, <1>10 DEF Next
-------------------------------------------------------------------------------
(* What a step does to the tables *)

\* The request r is settled by t with outcome o.
Settles(r, t, o, now) ==
  /\ requests[r] # Absent
  /\ requests[r].status = "awaiting_payment"
  /\ matches' = matches \cup {[request |-> r, txn |-> t, status |-> o, at |-> now]}
  /\ requests' = [requests EXCEPT ![r] =
                    [requests[r] EXCEPT !.status = o, !.updatedAt = now]]

\* An exception about t is opened; r is its request, or Absent.
Opens(r, t, type) ==
  \E x \in ExceptionId, b \in Business, now \in Nat :
    CreateException(x, b, r, t, type, now)

\* An ingestion stores one new transaction and then says nothing about it,
\* settles one waiting request with it, or opens one exception about it.
IngestEffect(t) ==
  /\ txns[t] = Absent
  /\ txns' = [txns EXCEPT ![t] = txns'[t]]
  /\ txns'[t] # Absent
  /\ \/ UNCHANGED <<requests, matches, exceptions>>
     \/ \E r \in RequestId, o \in Outcome, now \in Nat :
          /\ Settles(r, t, o, now)
          /\ \/ o = "confirmed" /\ UNCHANGED exceptions
             \/ o # "confirmed" /\ Opens(r, t, o)
     \/ \E type \in ExceptionType :
          Opens(Absent, t, type) /\ UNCHANGED <<requests, matches>>

\* A resolution closes one open exception and the request it names, if any.
ResolveEffect ==
  \E x \in ExceptionId, now \in Nat :
    /\ exceptions[x] \in Exception
    /\ exceptions[x].status = "open"
    /\ exceptions' = [exceptions EXCEPT ![x] =
                         [exceptions[x] EXCEPT !.status = "resolved", !.resolvedAt = now]]
    /\ \/ exceptions[x].request = Absent /\ UNCHANGED requests
       \/ /\ exceptions[x].request \in RequestId
          /\ requests[exceptions[x].request] \in Request
          /\ requests' = [requests EXCEPT ![exceptions[x].request] =
                           [requests[exceptions[x].request] EXCEPT
                              !.status = "manually_resolved", !.updatedAt = now]]
    /\ UNCHANGED <<txns, matches>>

\* A creation adds one waiting request.
CreateEffect ==
  \E r \in RequestId, q \in Request :
    /\ requests[r] = Absent
    /\ q.status = "awaiting_payment"
    /\ requests' = [requests EXCEPT ![r] = q]
    /\ UNCHANGED <<txns, matches, exceptions>>

\* An ingestion stores one transaction, and settles one request or none.
LEMMA IngestDoes ==
  ASSUME TypeOK, NEW c \in Caller, NEW t \in TxnId, NEW w \in WalletId,
         IngestStablecoinTransaction(c, t, w)
  PROVE  IngestEffect(t)
<1> DEFINE call == calls[c]
           tx == [business |-> call.business, wallet |-> w, evidence |-> call.evidence,
                  status |-> "confirmed_onchain", detectedAt |-> call.now]
<1>1. call \in IngestCall
  BY DEF IngestStablecoinTransaction
<1>2. call.business \in Business /\ call.now \in Nat /\ tx \in Txn
  BY <1>1, IngestTxnType DEF TxnStatus
<1>3. tx.business \in Business
  BY <1>2 DEF Txn
<1> HIDE DEF tx
<1>4. /\ txns[t] = Absent
      /\ \/ KeepPending(t, tx)
         \/ \E r \in RequestId : SettleRequest(t, tx, r, call.now)
         \/ RaiseAmbiguous(t, tx, call.now)
         \/ RaiseOrphan(t, tx, call.now)
  BY DEF IngestStablecoinTransaction, tx
<1>5. \E st \in TxnStatus : StoreTxn(t, tx, st)
  BY <1>4 DEF KeepPending, SettleRequest, RaiseAmbiguous, RaiseOrphan, TxnStatus
<1>6. /\ txns' = [txns EXCEPT ![t] = txns'[t]]
      /\ txns'[t] # Absent
  <2>1. PICK st \in TxnStatus : StoreTxn(t, tx, st)
    BY <1>5
  <2>2. [tx EXCEPT !.status = st] \in Txn
    BY <1>2 DEF Txn
  <2>3. [tx EXCEPT !.status = st] # Absent
    BY <2>2, AbsentAssumption
  <2>4. txns' = [txns EXCEPT ![t] = [tx EXCEPT !.status = st]]
    BY <2>1 DEF StoreTxn
  <2>5. txns'[t] = [tx EXCEPT !.status = st]
    BY <2>4 DEF TypeOK
  <2> QED BY <2>3, <2>4, <2>5
<1>7. CASE KeepPending(t, tx)
  BY <1>4, <1>6, <1>7 DEF KeepPending, IngestEffect
<1>8. CASE \E r \in RequestId : SettleRequest(t, tx, r, call.now)
  <2>1. PICK r \in RequestId : SettleRequest(t, tx, r, call.now)
    BY <1>8
  <2> DEFINE o == Verdict(tx, r)
  <2>2. o \in Outcome
    BY VerdictIsOutcome
  <2>3. requests[r] # Absent /\ requests[r].status = "awaiting_payment"
    BY <2>1, ContendersWait DEF SettleRequest
  <2>4. requests' = [requests EXCEPT ![r] =
                      [requests[r] EXCEPT !.status = o, !.updatedAt = call.now]]
    BY ZenonT(60), <2>1 DEF SettleRequest, TypeOK
  <2>5. Settles(r, t, o, call.now)
    BY ZenonT(60), <2>1, <2>3, <2>4 DEF SettleRequest, Settles
  <2>6. \/ o = "confirmed" /\ UNCHANGED exceptions
        \/ o # "confirmed" /\ Opens(r, t, o)
    BY <1>2, <1>3, <2>1 DEF SettleRequest, Opens
  <2> HIDE DEF o
  <2> QED BY <1>2, <1>4, <1>6, <2>2, <2>5, <2>6 DEF IngestEffect
<1>9. CASE RaiseAmbiguous(t, tx, call.now) \/ RaiseOrphan(t, tx, call.now)
  <2>1. \E type \in ExceptionType :
          Opens(Absent, t, type) /\ UNCHANGED <<requests, matches>>
    BY SMTT(30), <1>2, <1>3, <1>9 DEF RaiseAmbiguous, RaiseOrphan, Opens, ExceptionType
  <2> QED BY <1>4, <1>6, <2>1 DEF IngestEffect
<1> QED BY <1>4, <1>7, <1>8, <1>9

\* A resolution closes one open exception, and its request if it names one.
LEMMA ResolveDoes ==
  ASSUME TypeOK, NoDanglingId, NEW c \in Caller, ResolveException(c)
  PROVE  ResolveEffect
<1> DEFINE x == calls[c].exception
           now == calls[c].now
<1>1. calls[c] \in ResolveCall /\ x \in ExceptionId /\ now \in Nat
  BY DEF ResolveException, ResolveCall
<1>2. exceptions[x] \in Exception /\ exceptions[x].status = "open"
  BY <1>1 DEF NoDanglingId, ResolvesName, TablesClosed, TypeOK, ResolveException, MayResolve
<1>3. exceptions' = [exceptions EXCEPT ![x] =
                       [exceptions[x] EXCEPT !.status = "resolved", !.resolvedAt = now]]
  BY <1>1 DEF ResolveException, TypeOK
<1>4. \/ exceptions[x].request = Absent /\ UNCHANGED requests
      \/ /\ exceptions[x].request \in RequestId
         /\ requests[exceptions[x].request] \in Request
         /\ requests' = [requests EXCEPT ![exceptions[x].request] =
                          [requests[exceptions[x].request] EXCEPT
                             !.status = "manually_resolved", !.updatedAt = now]]
  <2>1. CASE exceptions[x].request = Absent
    BY <2>1 DEF ResolveException
  <2>2. CASE exceptions[x].request # Absent
    <3>1. /\ exceptions[x].request \in RequestId
          /\ requests[exceptions[x].request] \in Request
      BY <1>1, <1>2, <2>2 DEF NoDanglingId, ResolvesName, TablesClosed, TypeOK, Exception
    <3>2. requests' = [requests EXCEPT ![exceptions[x].request] =
                        [requests[exceptions[x].request] EXCEPT
                           !.status = "manually_resolved", !.updatedAt = now]]
      BY <3>1, <2>2 DEF ResolveException, TypeOK
    <3> QED BY SMTT(30), <3>1, <3>2
  <2> QED BY <2>1, <2>2
<1> HIDE DEF x, now
<1> QED BY <1>1, <1>2, <1>3, <1>4 DEF ResolveEffect, ResolveException

\* A creation adds one request that waits.
LEMMA CreateDoes ==
  ASSUME TypeOK, NEW c \in Caller, NEW r \in RequestId, CreatePaymentRequest(c, r)
  PROVE  CreateEffect
<1> DEFINE call == calls[c]
           q == [business |-> call.business, wallet |-> call.body.wallet,
                 amount |-> call.body.amount, expiresAt |-> call.body.expiresAt,
                 status |-> "awaiting_payment",
                 createdAt |-> call.now, updatedAt |-> call.now]
<1>1. q \in Request
  BY NewRequestType DEF CreatePaymentRequest
<1>2. q.status = "awaiting_payment"
  OBVIOUS
<1>3. /\ requests[r] = Absent
      /\ requests' = [requests EXCEPT ![r] = q]
      /\ UNCHANGED <<txns, matches, exceptions>>
  BY DEF CreatePaymentRequest
<1> HIDE DEF q
<1> QED BY <1>1, <1>2, <1>3 DEF CreateEffect

\* Every step stores a transaction, closes an exception, adds a request, or
\* leaves requests, transactions, matches and exceptions alone.
LEMMA StepDoes ==
  ASSUME TypeOK, NoDanglingId, [Next]_vars
  PROVE  \/ UNCHANGED <<requests, txns, matches, exceptions>>
         \/ \E t \in TxnId : IngestEffect(t)
         \/ ResolveEffect
         \/ CreateEffect
<1>1. \/ Tick
      \/ \E b \in Business, w \in WalletId, a \in Address : RegisterWallet(b, w, a)
      \/ \E c \in Caller : \E call : Begin(c, call)
      \/ \E c \in Caller : \/ RefuseOrReplayCreate(c)
                           \/ RefuseOrReplayIngest(c)
                           \/ RefuseOrRepeatResolve(c)
      \/ UNCHANGED vars
      => UNCHANGED <<requests, txns, matches, exceptions>>
  BY DEF Tick, RegisterWallet, Begin, RefuseOrReplayCreate, RefuseOrReplayIngest,
         RefuseOrRepeatResolve, store, vars
<1>2. ASSUME NEW c \in Caller, NEW b \in Business,
             \/ \E k \in IdemKey, body \in Body : StartCreatePaymentRequest(c, b, k, body)
             \/ \E e \in Evidence : StartIngestStablecoinTransaction(c, b, e)
             \/ \E x \in ExceptionId : StartResolveException(c, b, x)
      PROVE  \E call : Begin(c, call)
  BY <1>2 DEF StartCreatePaymentRequest, StartIngestStablecoinTransaction,
              StartResolveException
<1> QED BY <1>1, <1>2, IngestDoes, ResolveDoes, CreateDoes DEF Next
-------------------------------------------------------------------------------
(* The inductive invariant *)

IInv == TypeOK /\ NoDanglingId /\ SettledOnce /\ OneDisputePerRequest

\* The initial state satisfies the inductive invariant.
LEMMA InitIInv == Init => IInv
<1> SUFFICES ASSUME Init PROVE IInv
  OBVIOUS
<1>1. TypeOK
  BY DEF Init, TypeOK
<1>2. ResolvesName
  BY AbsentAssumption DEF Init, ResolvesName
<1> QED
  BY <1>1, <1>2 DEF Init, IInv, NoDanglingId, TablesClosed, SettledOnce,
                    OneDisputePerRequest

\* Exceptions are never removed.
LEMMA ExceptionsStay ==
  ASSUME IInv, [Next]_vars, NEW x \in ExceptionId, exceptions[x] # Absent
  PROVE  exceptions'[x] # Absent
<1>1. CASE UNCHANGED exceptions
  BY <1>1
<1>2. CASE \E t \in TxnId : IngestEffect(t)
  <2>1. PICK t \in TxnId : IngestEffect(t)
    BY <1>2
  <2>2. CASE \E r, type : Opens(r, t, type)
    BY <2>2 DEF Opens, CreateException, IInv, TypeOK
  <2> QED BY <2>1, <2>2 DEF IngestEffect
<1>3. CASE ResolveEffect
  <2>1. PICK y \in ExceptionId, now \in Nat :
          /\ exceptions[y] \in Exception
          /\ exceptions' = [exceptions EXCEPT ![y] =
                               [exceptions[y] EXCEPT !.status = "resolved", !.resolvedAt = now]]
    BY <1>3 DEF ResolveEffect
  <2>2. [exceptions[y] EXCEPT !.status = "resolved", !.resolvedAt = now] \in Exception
    BY <2>1 DEF Exception
  <2> QED BY <2>1, <2>2, AbsentAssumption DEF IInv, TypeOK
<1> QED BY <1>1, <1>2, <1>3, StepDoes DEF IInv, CreateEffect

\* A resolution in flight names an exception that exists.
LEMMA ResolvesNameStep ==
  ASSUME IInv, [Next]_vars
  PROVE  ResolvesName'
<1> SUFFICES ASSUME NEW c \in Caller, calls'[c] \in ResolveCall
             PROVE  exceptions'[calls'[c].exception] # Absent
  BY DEF ResolvesName
<1>1. calls'[c].exception \in ExceptionId
  BY DEF ResolveCall
<1>2. CASE calls'[c] = calls[c]
  BY <1>1, <1>2, ExceptionsStay DEF IInv, NoDanglingId, ResolvesName
<1>3. CASE calls'[c] # calls[c]
  <2>1. calls'[c] # Absent
    BY AbsentAssumption
  <2>2. ~ \E d \in Caller : End(d)
    BY <1>3, <2>1 DEF End, IInv, TypeOK
  <2>3. PICK call : Begin(c, call)
              /\ \/ call.op # "resolve"
                 \/ exceptions[call.exception] # Absent
    <3>1. PICK d \in Caller, b \in Business :
            \/ \E k \in IdemKey, body \in Body : StartCreatePaymentRequest(d, b, k, body)
            \/ \E e \in Evidence : StartIngestStablecoinTransaction(d, b, e)
            \/ \E x \in ExceptionId : StartResolveException(d, b, x)
      <4>1. \A d \in Caller : /\ ~RefuseOrReplayCreate(d) /\ ~RefuseOrReplayIngest(d)
                             /\ ~RefuseOrRepeatResolve(d) /\ ~ResolveException(d)
        BY <2>2 DEF RefuseOrReplayCreate, RefuseOrReplayIngest, RefuseOrRepeatResolve,
                    ResolveException
      <4>2. \A d \in Caller, r \in RequestId : ~CreatePaymentRequest(d, r)
        BY <2>2 DEF CreatePaymentRequest
      <4>3. \A d \in Caller, t \in TxnId, w \in WalletId :
              ~IngestStablecoinTransaction(d, t, w)
        BY <2>2 DEF IngestStablecoinTransaction
      <4>4. calls' # calls
        BY <1>3
      <4>5. ~Tick /\ ~UNCHANGED vars
            /\ \A b \in Business, w \in WalletId, a \in Address : ~RegisterWallet(b, w, a)
        BY <4>4 DEF Tick, vars, RegisterWallet
      <4> QED BY SMTT(30), <4>1, <4>2, <4>3, <4>5 DEF Next
    <3>2. \E call : /\ Begin(d, call)
                    /\ \/ call.op # "resolve"
                       \/ exceptions[call.exception] # Absent
      <4>1. CASE \E k \in IdemKey, body \in Body : StartCreatePaymentRequest(d, b, k, body)
        <5>1. PICK k \in IdemKey, body \in Body : StartCreatePaymentRequest(d, b, k, body)
          BY <4>1
        <5> WITNESS [op |-> "create", business |-> b, key |-> k, body |-> body,
                     now |-> clock]
        <5> QED BY <5>1 DEF StartCreatePaymentRequest
      <4>2. CASE \E e \in Evidence : StartIngestStablecoinTransaction(d, b, e)
        <5>1. PICK e \in Evidence : StartIngestStablecoinTransaction(d, b, e)
          BY <4>2
        <5> WITNESS [op |-> "ingest", business |-> b, evidence |-> e, now |-> clock]
        <5> QED BY <5>1 DEF StartIngestStablecoinTransaction
      <4>3. CASE \E x \in ExceptionId : StartResolveException(d, b, x)
        <5>1. PICK x \in ExceptionId : StartResolveException(d, b, x)
          BY <4>3
        <5> WITNESS [op |-> "resolve", business |-> b, exception |-> x, now |-> clock]
        <5> QED BY <5>1 DEF StartResolveException
      <4> QED BY <3>1, <4>1, <4>2, <4>3
    <3>3. c = d
      BY <1>3, <3>2 DEF Begin, IInv, TypeOK
    <3> QED BY <3>2, <3>3
  <2>4. calls'[c] = call /\ exceptions' = exceptions
    BY <2>3 DEF Begin, store, IInv, TypeOK
  <2> QED BY <2>3, <2>4 DEF ResolveCall
<1> QED BY <1>2, <1>3
\* A settlement names a request and a transaction no match and no exception
\* named before.
LEMMA SettlesFresh ==
  ASSUME IInv, NEW r \in RequestId, NEW t \in TxnId, NEW o, NEW now,
         Settles(r, t, o, now), txns[t] = Absent
  PROVE  /\ \A m \in matches : m.request # r /\ m.txn # t
         /\ \A x \in ExceptionId :
              exceptions[x] # Absent => exceptions[x].request # r /\ exceptions[x].txn # t
BY AbsentAssumption DEF Settles, IInv, NoDanglingId, TablesClosed

\* A step settles no request and no transaction a second time.
LEMMA SettledOnceStep ==
  ASSUME IInv, [Next]_vars
  PROVE  SettledOnce'
<1>1. CASE matches' = matches
  BY <1>1 DEF IInv, SettledOnce
<1>2. CASE matches' # matches
  <2>1. PICK t \in TxnId, r \in RequestId, o \in Outcome, now \in Nat :
          txns[t] = Absent /\ Settles(r, t, o, now)
    BY <1>2, StepDoes DEF IInv, IngestEffect, ResolveEffect, CreateEffect
  <2>2. \A m \in matches : m.request # r /\ m.txn # t
    BY <2>1, SettlesFresh
  <2> QED BY SMTT(30), <2>1, <2>2 DEF Settles, IInv, SettledOnce
<1> QED BY <1>1, <1>2

\* Opening an exception about a stored transaction, and about a request no other
\* exception names, keeps references closed and exceptions unique.
LEMMA OpensAdds ==
  ASSUME IInv, NEW r \in RequestId \cup {Absent}, NEW t \in TxnId, NEW type, Opens(r, t, type)
  PROVE  \E x \in ExceptionId :
           /\ exceptions[x] = Absent
           /\ exceptions'[x].request = r /\ exceptions'[x].txn = t
           /\ exceptions'[x].type = type
           /\ \A y \in ExceptionId \ {x} : exceptions'[y] = exceptions[y]
BY DEF Opens, CreateException, IInv, TypeOK

\* A step keeps every id a match or an exception names in its table.
LEMMA TablesClosedStep ==
  ASSUME IInv, [Next]_vars
  PROVE  TablesClosed'
<1>1. CASE UNCHANGED <<requests, txns, matches, exceptions>>
  BY <1>1 DEF IInv, NoDanglingId, TablesClosed
<1>2. ASSUME NEW t \in TxnId, IngestEffect(t) PROVE TablesClosed'
  <2>1. \A u \in TxnId : txns[u] # Absent \/ u = t => txns'[u] # Absent
    BY <1>2 DEF IngestEffect, IInv, TypeOK
  <2>2. CASE UNCHANGED <<requests, matches, exceptions>>
    BY <2>1, <2>2 DEF IInv, NoDanglingId, TablesClosed, TypeOK, Match, Exception
  <2>3. ASSUME NEW r \in RequestId, NEW o \in Outcome, NEW now \in Nat,
               Settles(r, t, o, now),
               UNCHANGED exceptions \/ Opens(r, t, o)
        PROVE  TablesClosed'
    <3>1. /\ requests'[r] # Absent /\ requests'[r].status # "awaiting_payment"
          /\ \A q \in RequestId \ {r} : requests'[q] = requests[q]
      <4>1. [requests[r] EXCEPT !.status = o, !.updatedAt = now] \in Request
        BY <2>3 DEF Settles, IInv, TypeOK, Request, RequestStatus
      <4>2. requests'[r] = [requests[r] EXCEPT !.status = o, !.updatedAt = now]
        BY <2>3 DEF Settles, IInv, TypeOK
      <4>3. requests'[r].status = o
        BY <4>2, <2>3 DEF Settles, IInv, TypeOK, Request
      <4> QED BY <2>3, <4>1, <4>2, <4>3, AbsentAssumption DEF Settles, Outcome
    <3>2. \A m \in matches' :
            /\ txns'[m.txn] # Absent
            /\ requests'[m.request] # Absent
            /\ requests'[m.request].status # "awaiting_payment"
      BY <2>1, <2>3, <3>1 DEF Settles, IInv, NoDanglingId, TablesClosed, TypeOK, Match
    <3>3. ASSUME NEW x \in ExceptionId, exceptions'[x] # Absent
          PROVE  /\ txns'[exceptions'[x].txn] # Absent
                 /\ exceptions'[x].request # Absent =>
                      /\ requests'[exceptions'[x].request] # Absent
                      /\ requests'[exceptions'[x].request].status # "awaiting_payment"
      <4>1. CASE exceptions'[x] = exceptions[x]
        BY <2>1, <3>1, <3>3, <4>1 DEF IInv, NoDanglingId, TablesClosed, TypeOK, Exception
      <4>2. CASE exceptions'[x] # exceptions[x]
        <5>1. exceptions'[x].request = r /\ exceptions'[x].txn = t
          BY <2>3, <4>2, OpensAdds
        <5> QED BY <2>1, <3>1, <5>1
      <4> QED BY <4>1, <4>2
    <3> QED BY <3>2, <3>3 DEF TablesClosed
  <2>4. ASSUME NEW type \in ExceptionType, Opens(Absent, t, type),
               UNCHANGED <<requests, matches>>
        PROVE  TablesClosed'
    <3>1. \A m \in matches' : txns'[m.txn] # Absent
      BY <2>1, <2>4 DEF IInv, NoDanglingId, TablesClosed, TypeOK, Match
    <3>2. ASSUME NEW x \in ExceptionId, exceptions'[x] # Absent
          PROVE  /\ txns'[exceptions'[x].txn] # Absent
                 /\ exceptions'[x].request # Absent =>
                      /\ requests'[exceptions'[x].request] # Absent
                      /\ requests'[exceptions'[x].request].status # "awaiting_payment"
      <4>1. CASE exceptions'[x] = exceptions[x]
        BY <2>1, <2>4, <3>2, <4>1 DEF IInv, NoDanglingId, TablesClosed, TypeOK, Exception
      <4>2. CASE exceptions'[x] # exceptions[x]
        BY <2>1, <2>4, <4>2, OpensAdds
      <4> QED BY <4>1, <4>2
    <3> QED BY <2>4, <3>1, <3>2 DEF IInv, NoDanglingId, TablesClosed
  <2> QED BY <1>2, <2>2, <2>3, <2>4 DEF IngestEffect
<1>3. CASE ResolveEffect
  <2>1. PICK x \in ExceptionId, now \in Nat :
          /\ exceptions[x] \in Exception
          /\ exceptions' = [exceptions EXCEPT ![x] =
                         [exceptions[x] EXCEPT !.status = "resolved", !.resolvedAt = now]]
          /\ \/ exceptions[x].request = Absent /\ UNCHANGED requests
             \/ /\ exceptions[x].request \in RequestId
                /\ requests[exceptions[x].request] \in Request
                /\ requests' = [requests EXCEPT ![exceptions[x].request] =
                                 [requests[exceptions[x].request] EXCEPT
                                    !.status = "manually_resolved", !.updatedAt = now]]
          /\ UNCHANGED <<txns, matches>>
    BY <1>3 DEF ResolveEffect
  <2>2. \A q \in RequestId :
          /\ requests[q] # Absent => requests'[q] # Absent
          /\ requests[q] # Absent /\ requests[q].status # "awaiting_payment"
               => requests'[q].status # "awaiting_payment"
    <3>1. CASE UNCHANGED requests
      BY <3>1
    <3>2. CASE requests' # requests
      <4> DEFINE p == exceptions[x].request
                 new == [requests[p] EXCEPT !.status = "manually_resolved", !.updatedAt = now]
      <4>1. p \in RequestId /\ requests[p] \in Request /\ requests' = [requests EXCEPT ![p] = new]
        BY <2>1, <3>2
      <4>2. new \in Request /\ new.status = "manually_resolved"
        BY <4>1 DEF Request, RequestStatus
      <4> HIDE DEF p, new
      <4> QED BY <4>1, <4>2, AbsentAssumption DEF IInv, TypeOK
    <3> QED BY <3>1, <3>2
  <2>3. \A y \in ExceptionId :
          exceptions'[y] # Absent =>
            /\ exceptions[y] \in Exception
            /\ exceptions'[y].txn = exceptions[y].txn
            /\ exceptions'[y].request = exceptions[y].request
    BY <2>1 DEF IInv, TypeOK, Exception
  <2>4. \A y \in ExceptionId : exceptions[y] \in Exception => exceptions[y] # Absent
    BY AbsentAssumption
  <2> QED BY <2>1, <2>2, <2>3, <2>4
          DEF IInv, NoDanglingId, TablesClosed, TypeOK, Match, Exception
<1>4. CASE CreateEffect
  <2>1. PICK r \in RequestId, q \in Request :
          /\ requests[r] = Absent
          /\ requests' = [requests EXCEPT ![r] = q]
          /\ UNCHANGED <<txns, matches, exceptions>>
    BY <1>4 DEF CreateEffect
  <2> QED BY <2>1 DEF IInv, NoDanglingId, TablesClosed, TypeOK
<1> QED BY <1>1, <1>2, <1>3, <1>4, StepDoes DEF IInv

\* A step leaves every request with one exception at most.
LEMMA OneDisputeStep ==
  ASSUME IInv, [Next]_vars
  PROVE  OneDisputePerRequest'
<1>1. CASE UNCHANGED <<requests, txns, matches, exceptions>>
  BY <1>1 DEF IInv, OneDisputePerRequest
<1>2. ASSUME NEW t \in TxnId, IngestEffect(t) PROVE OneDisputePerRequest'
  <2>1. CASE UNCHANGED <<requests, matches, exceptions>>
    BY <2>1 DEF IInv, OneDisputePerRequest
  <2>2. ASSUME NEW r \in RequestId, NEW o \in Outcome, NEW now \in Nat,
               Settles(r, t, o, now),
               \/ o = "confirmed" /\ UNCHANGED exceptions
               \/ o # "confirmed" /\ Opens(r, t, o)
        PROVE  OneDisputePerRequest'
    <3>1. /\ requests'[r].status = o
          /\ \A q \in RequestId \ {r} : requests'[q] = requests[q]
      BY <2>2 DEF Settles, IInv, TypeOK, Request
    <3>2. \A x \in ExceptionId : exceptions[x] # Absent => exceptions[x].request # r
      BY <1>2, <2>2, SettlesFresh DEF IngestEffect
    <3>3. CASE UNCHANGED exceptions
      BY <3>1, <3>2, <3>3 DEF IInv, OneDisputePerRequest, TypeOK, Exception
    <3>4. CASE o # "confirmed" /\ Opens(r, t, o)
      <4>1. PICK x \in ExceptionId :
              /\ exceptions[x] = Absent
              /\ exceptions'[x].request = r
              /\ exceptions'[x].type = o
              /\ \A y \in ExceptionId \ {x} : exceptions'[y] = exceptions[y]
        BY <3>4, OpensAdds
      <4>2. o \in {"underpaid", "overpaid", "expired"}
        BY <3>4 DEF Outcome
      <4> QED BY SMTT(30), <3>1, <3>2, <4>1, <4>2 DEF IInv, OneDisputePerRequest, TypeOK, Exception
    <3> QED BY <2>2, <3>3, <3>4
  <2>3. ASSUME NEW type \in ExceptionType, Opens(Absent, t, type),
               UNCHANGED <<requests, matches>>
        PROVE  OneDisputePerRequest'
    <3>1. PICK x \in ExceptionId :
            /\ exceptions'[x].request = Absent
            /\ \A y \in ExceptionId \ {x} : exceptions'[y] = exceptions[y]
      BY ZenonT(60), <2>3, OpensAdds
    <3> QED BY <2>3, <3>1 DEF IInv, OneDisputePerRequest
  <2> QED BY <1>2, <2>1, <2>2, <2>3 DEF IngestEffect
<1>3. CASE ResolveEffect
  <2>1. PICK x \in ExceptionId, now \in Nat :
          /\ exceptions[x] \in Exception
          /\ exceptions' = [exceptions EXCEPT ![x] =
                         [exceptions[x] EXCEPT !.status = "resolved", !.resolvedAt = now]]
          /\ \/ exceptions[x].request = Absent /\ UNCHANGED requests
             \/ /\ exceptions[x].request \in RequestId
                /\ requests' = [requests EXCEPT ![exceptions[x].request] =
                                 [requests[exceptions[x].request] EXCEPT
                                    !.status = "manually_resolved", !.updatedAt = now]]
    BY <1>3 DEF ResolveEffect
  <2>2. /\ exceptions[x] # Absent
        /\ exceptions'[x].status = "resolved"
        /\ exceptions'[x].request = exceptions[x].request
        /\ \A y \in ExceptionId \ {x} : exceptions'[y] = exceptions[y]
    BY <2>1, AbsentAssumption DEF IInv, TypeOK, Exception
  <2>3. \A q \in RequestId : q # exceptions[x].request => requests'[q] = requests[q]
    BY <2>1 DEF IInv, TypeOK
  <2> QED BY <2>2, <2>3 DEF IInv, OneDisputePerRequest, TypeOK, Exception
<1>4. CASE CreateEffect
  <2>1. PICK r \in RequestId, q \in Request :
          /\ requests[r] = Absent
          /\ requests' = [requests EXCEPT ![r] = q]
          /\ UNCHANGED <<txns, matches, exceptions>>
    BY <1>4 DEF CreateEffect
  <2> QED BY <2>1
          DEF IInv, NoDanglingId, TablesClosed, OneDisputePerRequest, TypeOK, Exception
<1> QED BY <1>1, <1>2, <1>3, <1>4, StepDoes DEF IInv

-------------------------------------------------------------------------------
(* Theorems *)

\* The inductive invariant holds in every reachable state, for any number of
\* callers, businesses, wallets, requests and transactions.
THEOREM Inductive == Spec => []IInv
<1>1. IInv /\ [Next]_vars => IInv'
  BY TypeStep, ResolvesNameStep, TablesClosedStep, SettledOnceStep, OneDisputeStep
     DEF IInv, NoDanglingId
<1> QED BY InitIInv, <1>1, PTL DEF Spec

\* Every table of the store always holds well-formed records with known ids.
THEOREM TypeCorrect == Spec => []TypeOK
<1>1. IInv => TypeOK
  BY DEF IInv
<1> QED BY Inductive, <1>1, PTL

\* A payment never settles two requests, nor two payments one request, for any
\* interleaving of creations, ingestions and resolutions.
THEOREM NoDoubleSettlement == Spec => []SettledOnce
<1>1. IInv => SettledOnce
  BY DEF IInv
<1> QED BY Inductive, <1>1, PTL

-------------------------------------------------------------------------------
(* Refinement *)

\* Initially no request exists and nothing is settled.
LEMMA InitLifecycle == Init => Lifecycle!Init
BY DEF Init, Lifecycle!Init, RequestStatuses, Settlements

\* Every step of the store is a step of the promised lifecycle of one request,
\* or changes nothing the lifecycle speaks of.
LEMMA StepLifecycle ==
  ASSUME IInv, [Next]_vars
  PROVE  [Lifecycle!Next]_(Lifecycle!vars)
<1>1. CASE UNCHANGED <<requests, matches>>
  BY <1>1 DEF Lifecycle!vars, RequestStatuses, Settlements
<1>2. ASSUME NEW t \in TxnId, IngestEffect(t), ~UNCHANGED <<requests, matches>>
      PROVE  Lifecycle!Next
  <2>1. PICK r \in RequestId, o \in Outcome, now \in Nat :
          txns[t] = Absent /\ Settles(r, t, o, now)
    BY <1>2 DEF IngestEffect
  <2>2. RequestStatuses[r] = "awaiting_payment"
    BY <2>1 DEF RequestStatuses, Settles
  <2>3. \A p \in Settlements : p[1] # r /\ p[2] # t
    BY <2>1, SettlesFresh DEF Settlements
  <2>4. RequestStatuses' = [RequestStatuses EXCEPT ![r] = o]
    <3>1. requests[r] \in Request
      BY <2>1 DEF Settles, IInv, TypeOK
    <3>2. /\ requests'[r].status = o /\ requests'[r] \in Request
          /\ \A q \in RequestId \ {r} : requests'[q] = requests[q]
      BY <2>1, <3>1 DEF Settles, IInv, TypeOK, Request, RequestStatus
    <3> QED BY <3>2, AbsentAssumption DEF RequestStatuses
  <2>5. Settlements' = Settlements \cup {<<r, t>>}
    <3>1. matches' = matches \cup {[request |-> r, txn |-> t, status |-> o, at |-> now]}
      BY <2>1 DEF Settles
    <3> DEFINE n == [request |-> r, txn |-> t, status |-> o, at |-> now]
    <3>2. n.request = r /\ n.txn = t
      OBVIOUS
    <3> HIDE DEF n
    <3>3. \A p : p \in Settlements' <=> p \in Settlements \/ p = <<r, t>>
      BY <3>1, <3>2 DEF Settlements, n
    <3> QED BY <3>3
  <2>6. o \in {"confirmed"} \cup Lifecycle!Disputed
    BY DEF Outcome, Lifecycle!Disputed
  <2> QED BY <2>2, <2>3, <2>4, <2>5, <2>6 DEF Lifecycle!Next, Lifecycle!Settle
<1>3. CASE ResolveEffect /\ ~UNCHANGED <<requests, matches>>
  <2>1. PICK x \in ExceptionId, now \in Nat :
          /\ exceptions[x] \in Exception
          /\ exceptions[x].status = "open"
          /\ exceptions[x].request \in RequestId
          /\ requests[exceptions[x].request] \in Request
          /\ requests' = [requests EXCEPT ![exceptions[x].request] =
                           [requests[exceptions[x].request] EXCEPT
                              !.status = "manually_resolved", !.updatedAt = now]]
          /\ UNCHANGED matches
    BY <1>3 DEF ResolveEffect
  <2> DEFINE r == exceptions[x].request
  <2>2. requests[r].status \in {"underpaid", "overpaid", "expired"}
    BY <2>1, AbsentAssumption DEF IInv, OneDisputePerRequest
  <2>3. RequestStatuses[r] \in Lifecycle!Disputed
    BY <2>1, <2>2, AbsentAssumption DEF RequestStatuses, Lifecycle!Disputed
  <2>4. RequestStatuses' = [RequestStatuses EXCEPT ![r] = "manually_resolved"]
    <3>1. /\ requests'[r].status = "manually_resolved" /\ requests'[r] \in Request
          /\ \A q \in RequestId \ {r} : requests'[q] = requests[q]
      BY <2>1 DEF IInv, TypeOK, Request, RequestStatus
    <3> HIDE DEF r
    <3> QED BY <3>1, AbsentAssumption DEF RequestStatuses
  <2>5. UNCHANGED Settlements
    BY <2>1 DEF Settlements
  <2> HIDE DEF r
  <2> QED BY <2>1, <2>3, <2>4, <2>5 DEF Lifecycle!Next, Lifecycle!Resolve, r
<1>4. CASE CreateEffect
  <2>1. PICK r \in RequestId, q \in Request :
          /\ requests[r] = Absent
          /\ q.status = "awaiting_payment"
          /\ requests' = [requests EXCEPT ![r] = q]
          /\ UNCHANGED matches
    BY <1>4 DEF CreateEffect
  <2>2. RequestStatuses[r] = "none"
    BY <2>1 DEF RequestStatuses
  <2>3. RequestStatuses' = [RequestStatuses EXCEPT ![r] = "awaiting_payment"]
    BY <2>1, AbsentAssumption DEF RequestStatuses, IInv, TypeOK
  <2>4. UNCHANGED Settlements
    BY <2>1 DEF Settlements
  <2> QED BY <2>2, <2>3, <2>4 DEF Lifecycle!Next, Lifecycle!Open
<1> QED BY <1>1, <1>2, <1>3, <1>4, StepDoes DEF IInv

\* The store implements the lifecycle promised for a payment request: whatever
\* the calls and their interleaving, a request is settled once, by a payment of
\* its own, and only an underpaid, overpaid or expired one is closed by hand.
THEOREM Refinement == Spec => ImplementsLifecycle
<1>1. IInv /\ [Next]_vars => [Lifecycle!Next]_(Lifecycle!vars)
  BY StepLifecycle
<1> QED BY InitLifecycle, Inductive, <1>1, PTL
        DEF Spec, ImplementsLifecycle, Lifecycle!Spec

-------------------------------------------------------------------------------
(* What each operation writes *)

\* The transaction that the ingestion of call c stores, booked on wallet w.
Arrival(c, w, status) ==
  [business |-> calls[c].business, wallet |-> w, evidence |-> calls[c].evidence,
   status |-> status, detectedAt |-> calls[c].now]

\* Exception x, and no other, is added.
Raised(x, b, r, t, type, now) ==
  /\ exceptions[x] = Absent
  /\ exceptions'[x] =
       [business |-> b, request |-> r, txn |-> t, type |-> type,
        status |-> "open", at |-> now, resolvedAt |-> Absent]
  /\ exceptions'[x] # Absent
  /\ \A y \in ExceptionId \ {x} : exceptions'[y] = exceptions[y]

\* What is asked of a request never changes.
SameTerms(r) ==
  /\ requests'[r] \in Request
  /\ requests'[r].business = requests[r].business
  /\ requests'[r].wallet = requests[r].wallet
  /\ requests'[r].amount = requests[r].amount
  /\ requests'[r].expiresAt = requests[r].expiresAt

\* Request r gets status s; no other request changes.
Moves(r, s) ==
  /\ requests[r] \in Request
  /\ SameTerms(r)
  /\ requests'[r].status = s
  /\ \A q \in RequestId \ {r} : requests'[q] = requests[q]

\* Exception x is closed; no other exception changes.
Closes(x) ==
  /\ exceptions[x] \in Exception
  /\ exceptions[x].status = "open"
  /\ exceptions'[x] \in Exception
  /\ exceptions'[x].status = "resolved"
  /\ exceptions'[x].business = exceptions[x].business
  /\ exceptions'[x].request = exceptions[x].request
  /\ exceptions'[x].txn = exceptions[x].txn
  /\ exceptions'[x].type = exceptions[x].type
  /\ exceptions'[x].at = exceptions[x].at
  /\ \A y \in ExceptionId \ {x} : exceptions'[y] = exceptions[y]

\* Only five kinds of step write a table.
LEMMA StepIs ==
  ASSUME [Next]_vars
  PROVE  \/ UNCHANGED store
         \/ \E b \in Business, w \in WalletId, a \in Address : RegisterWallet(b, w, a)
         \/ \E c \in Caller, r \in RequestId : CreatePaymentRequest(c, r)
         \/ \E c \in Caller, t \in TxnId, w \in WalletId :
              IngestStablecoinTransaction(c, t, w)
         \/ \E c \in Caller : ResolveException(c)
BY DEF Next, Tick, StartCreatePaymentRequest, StartIngestStablecoinTransaction,
       StartResolveException, Begin, RefuseOrReplayCreate, RefuseOrReplayIngest,
       RefuseOrRepeatResolve, vars

\* An exception that is created is a record of its shape beside the others.
LEMMA CreateExceptionRaises ==
  ASSUME TypeOK,
         NEW x \in ExceptionId, NEW b \in Business,
         NEW r \in RequestId \cup {Absent}, NEW t \in TxnId,
         NEW type \in ExceptionType, NEW now \in Nat,
         CreateException(x, b, r, t, type, now)
  PROVE  Raised(x, b, r, t, type, now)
<1>1. [business |-> b, request |-> r, txn |-> t, type |-> type,
       status |-> "open", at |-> now, resolvedAt |-> Absent] \in Exception
  BY DEF Exception
<1>2. QED
  BY <1>1, AbsentAssumption DEF CreateException, Raised, TypeOK

\* Transaction t of call c is stored with status st, booked on wallet w, and
\* with it what that status stands for.
Books(c, t, w, st) ==
  LET b == calls[c].business
      e == calls[c].evidence
      now == calls[c].now
  IN
  /\ calls[c] \in IngestCall /\ b \in Business /\ now \in Nat
  /\ e \in Evidence /\ e.signature \in Signature
  /\ w \in PayableWallets(b, e)
  /\ txns[t] = Absent
  /\ txnBySig[<<b, e.signature>>] = Absent
  /\ txnBySig' = [txnBySig EXCEPT ![<<b, e.signature>>] = t]
  /\ UNCHANGED <<wallets, idem>>
  /\ Arrival(c, w, st) \in Txn
  /\ txns'[t] = Arrival(c, w, st)
  /\ \A u \in TxnId \ {t} : txns'[u] = txns[u]
  /\ \/ /\ st = "pending_finality" /\ ~e.final
        /\ UNCHANGED <<requests, matches, exceptions, receipts>>
     \/ /\ st = "matched_to_request" /\ e.final
        /\ \E r \in RequestId :
             SettleRequest(t, Arrival(c, w, "confirmed_onchain"), r, now)
     \/ /\ e.final
        /\ UNCHANGED <<requests, matches, receipts>>
        /\ \E x \in ExceptionId :
             \/ st = "confirmed_onchain" /\ Raised(x, b, Absent, t, "ambiguous_match", now)
             \/ st = "orphan" /\ Raised(x, b, Absent, t, "orphan", now)

\* An ingestion books the call's evidence on a wallet it pays into, under a new
\* id, and then keeps it pending, settles a request, or raises an exception.
LEMMA IngestBooks ==
  ASSUME TypeOK, NEW c \in Caller, NEW t \in TxnId, NEW w \in WalletId,
         IngestStablecoinTransaction(c, t, w)
  PROVE  \E st \in TxnStatus : Books(c, t, w, st)
<1> DEFINE b == calls[c].business
           e == calls[c].evidence
           now == calls[c].now
           tx == Arrival(c, w, "confirmed_onchain")
<1>1. calls[c] \in IngestCall
  BY DEF IngestStablecoinTransaction
<1>2. b \in Business /\ now \in Nat /\ e \in Evidence /\ e.signature \in Signature
  BY <1>1, IngestTxnType DEF TxnStatus
<1>3. \A st : [tx EXCEPT !.status = st] = Arrival(c, w, st)
  BY DEF Arrival
<1>4. tx.business = b
  BY DEF Arrival
<1>5. /\ w \in PayableWallets(b, e)
      /\ txns[t] = Absent
      /\ txnBySig[<<b, e.signature>>] = Absent
      /\ txnBySig' = [txnBySig EXCEPT ![<<b, e.signature>>] = t]
      /\ UNCHANGED <<wallets, idem>>
      /\ \/ ~e.final /\ KeepPending(t, tx)
         \/ e.final /\ \E r \in RequestId : SettleRequest(t, tx, r, now)
         \/ e.final /\ RaiseAmbiguous(t, tx, now)
         \/ e.final /\ RaiseOrphan(t, tx, now)
  BY DEF IngestStablecoinTransaction, AlreadyIngested, Arrival
<1> HIDE DEF tx, e, b, now
<1>6. ASSUME NEW st \in TxnStatus, StoreTxn(t, tx, st)
      PROVE  /\ Arrival(c, w, st) \in Txn
             /\ txns'[t] = Arrival(c, w, st)
             /\ \A u \in TxnId \ {t} : txns'[u] = txns[u]
  <2>1. Arrival(c, w, st) \in Txn
    BY <1>1, IngestTxnType DEF Arrival
  <2>2. txns' = [txns EXCEPT ![t] = Arrival(c, w, st)]
    BY <1>3, <1>6 DEF StoreTxn
  <2>3. QED
    BY <2>1, <2>2 DEF TypeOK
<1>7. CASE ~e.final /\ KeepPending(t, tx)
  <2>1. StoreTxn(t, tx, "pending_finality")
    BY <1>7 DEF KeepPending
  <2>2. Books(c, t, w, "pending_finality")
    BY <1>1, <1>2, <1>5, <1>6, <1>7, <2>1 DEF KeepPending, TxnStatus, Books, b, e, now
  <2>3. QED
    BY <2>2 DEF TxnStatus
<1>8. CASE e.final /\ \E r \in RequestId : SettleRequest(t, tx, r, now)
  <2>1. StoreTxn(t, tx, "matched_to_request")
    BY <1>8 DEF SettleRequest
  <2>2. Books(c, t, w, "matched_to_request")
    BY <1>1, <1>2, <1>5, <1>6, <1>8, <2>1 DEF TxnStatus, Books, b, e, now, tx
  <2>3. QED
    BY <2>2 DEF TxnStatus
<1>9. CASE e.final /\ RaiseAmbiguous(t, tx, now)
  <2>1. StoreTxn(t, tx, "confirmed_onchain") /\ UNCHANGED <<requests, matches, receipts>>
    BY <1>9 DEF RaiseAmbiguous
  <2>2. \E x \in ExceptionId : Raised(x, b, Absent, t, "ambiguous_match", now)
    BY <1>2, <1>4, <1>9, CreateExceptionRaises DEF RaiseAmbiguous, ExceptionType
  <2>3. Books(c, t, w, "confirmed_onchain")
    BY <1>1, <1>2, <1>5, <1>6, <1>9, <2>1, <2>2 DEF TxnStatus, Books, b, e, now
  <2>4. QED
    BY <2>3 DEF TxnStatus
<1>10. CASE e.final /\ RaiseOrphan(t, tx, now)
  <2>1. StoreTxn(t, tx, "orphan") /\ UNCHANGED <<requests, matches, receipts>>
    BY <1>10 DEF RaiseOrphan
  <2>2. \E x \in ExceptionId : Raised(x, b, Absent, t, "orphan", now)
    BY <1>2, <1>4, <1>10, CreateExceptionRaises DEF RaiseOrphan, ExceptionType
  <2>3. Books(c, t, w, "orphan")
    BY <1>1, <1>2, <1>5, <1>6, <1>10, <2>1, <2>2 DEF TxnStatus, Books, b, e, now
  <2>4. QED
    BY <2>3 DEF TxnStatus
<1>11. QED
  BY <1>5, <1>7, <1>8, <1>9, <1>10

\* A settlement moves one waiting request of the transaction's business and
\* wallet to its verdict, adds its match, and raises an exception about both
\* unless the verdict is "confirmed".
LEMMA SettlementWrites ==
  ASSUME TypeOK, NEW t \in TxnId, NEW tx, NEW r \in RequestId, NEW now \in Nat,
         tx.business \in Business, SettleRequest(t, tx, r, now)
  PROVE  LET o == Verdict(tx, r) IN
         /\ o \in Outcome
         /\ requests[r] # Absent
         /\ requests[r].status = "awaiting_payment"
         /\ requests[r].business = tx.business
         /\ requests[r].wallet = tx.wallet
         /\ Moves(r, o)
         /\ matches' = matches \cup
              {[request |-> r, txn |-> t, status |-> o, at |-> now]}
         /\ receipts' = [receipts EXCEPT ![r] = @ \cup SettlementEvents(t, o, now)]
         /\ \/ o = "confirmed" /\ UNCHANGED exceptions
            \/ /\ o # "confirmed"
               /\ \E x \in ExceptionId : Raised(x, tx.business, r, t, o, now)
<1> DEFINE o == Verdict(tx, r)
<1>1. o \in Outcome
  BY VerdictIsOutcome
<1>2. /\ requests[r] # Absent
      /\ requests[r].status = "awaiting_payment"
      /\ requests[r].business = tx.business
      /\ requests[r].wallet = tx.wallet
  BY ContendersWait DEF SettleRequest
<1>3. /\ matches' = matches \cup
           {[request |-> r, txn |-> t, status |-> o, at |-> now]}
      /\ receipts' = [receipts EXCEPT ![r] = @ \cup SettlementEvents(t, o, now)]
      /\ requests' = [requests EXCEPT ![r].status = o, ![r].updatedAt = now]
      /\ \/ o = "confirmed" /\ UNCHANGED exceptions
         \/ /\ o # "confirmed"
            /\ \E x \in ExceptionId : CreateException(x, tx.business, r, t, o, now)
  BY DEF SettleRequest
<1> HIDE DEF o
<1>4. Moves(r, o)
  <2>1. requests[r] \in Request
    BY <1>2 DEF TypeOK
  <2>2. requests' = [requests EXCEPT ![r] =
                       [requests[r] EXCEPT !.status = o, !.updatedAt = now]]
    BY <1>3 DEF TypeOK
  <2>3. [requests[r] EXCEPT !.status = o, !.updatedAt = now] \in Request
    BY <1>1, <2>1 DEF Request, RequestStatus
  <2>4. QED
    BY <2>1, <2>2, <2>3 DEF Moves, SameTerms, TypeOK, Request
<1>5. CASE o # "confirmed"
  <2>1. o \in ExceptionType
    BY <1>1, <1>5 DEF Outcome, ExceptionType
  <2>2. \E x \in ExceptionId : Raised(x, tx.business, r, t, o, now)
    BY <1>3, <1>5, <2>1, CreateExceptionRaises
  <2>3. QED
    BY <1>1, <1>2, <1>3, <1>4, <1>5, <2>2 DEF o
<1>6. CASE o = "confirmed"
  BY SMTT(30), <1>1, <1>2, <1>3, <1>4, <1>6 DEF o
<1>7. QED
  BY <1>5, <1>6

\* A resolution closes the open exception it names, of its own business, and
\* moves the request of that exception, if any, to "manually_resolved".
LEMMA ResolutionWrites ==
  ASSUME TypeOK, NoDanglingId, NEW c \in Caller, ResolveException(c)
  PROVE  LET x == calls[c].exception
             r == exceptions[x].request
             now == calls[c].now
         IN
         /\ calls[c] \in ResolveCall /\ x \in ExceptionId /\ now \in Nat
         /\ exceptions[x].business = calls[c].business
         /\ Closes(x)
         /\ \/ r = Absent /\ UNCHANGED <<requests, receipts>>
            \/ /\ r \in RequestId /\ requests[r] # Absent
               /\ Moves(r, "manually_resolved")
               /\ receipts' = [receipts EXCEPT ![r] =
                    @ \cup {ResolvedEvent(exceptions[x], now)}]
         /\ UNCHANGED <<wallets, idem, txns, txnBySig, matches>>
<1> DEFINE x == calls[c].exception
           r == exceptions[x].request
           now == calls[c].now
<1>1. calls[c] \in ResolveCall /\ x \in ExceptionId /\ now \in Nat
  BY DEF ResolveException, ResolveCall
<1>2. /\ exceptions[x] \in Exception
      /\ exceptions[x].status = "open"
      /\ exceptions[x].business = calls[c].business
  BY SMTT(30), <1>1 DEF NoDanglingId, ResolvesName, TypeOK, ResolveException, MayResolve
<1>3. /\ exceptions' = [exceptions EXCEPT ![x] =
           [exceptions[x] EXCEPT !.status = "resolved", !.resolvedAt = now]]
      /\ \/ r = Absent /\ UNCHANGED <<requests, receipts>>
         \/ /\ r # Absent
            /\ requests' = [requests EXCEPT
                 ![r].status = "manually_resolved", ![r].updatedAt = now]
            /\ receipts' = [receipts EXCEPT ![r] =
                 @ \cup {ResolvedEvent(exceptions[x], now)}]
      /\ UNCHANGED <<wallets, idem, txns, txnBySig, matches>>
  BY <1>1 DEF ResolveException, TypeOK
<1> HIDE DEF x, now
<1>4. Closes(x)
  <2>1. [exceptions[x] EXCEPT !.status = "resolved", !.resolvedAt = now] \in Exception
    BY <1>1, <1>2 DEF Exception
  <2>2. QED
    BY <1>1, <1>2, <1>3, <2>1 DEF Closes, TypeOK, Exception
<1>5. ASSUME r # Absent
      PROVE  r \in RequestId /\ requests[r] # Absent /\ Moves(r, "manually_resolved")
  <2>1. r \in RequestId /\ requests[r] # Absent
    BY <1>1, <1>2, <1>5, AbsentAssumption DEF NoDanglingId, TablesClosed, Exception
  <2>2. requests[r] \in Request
    BY <2>1 DEF TypeOK
  <2> HIDE DEF r
  <2>3. requests' = [requests EXCEPT ![r] =
          [requests[r] EXCEPT !.status = "manually_resolved", !.updatedAt = now]]
    BY <1>3, <1>5, <2>1 DEF TypeOK
  <2>4. [requests[r] EXCEPT !.status = "manually_resolved", !.updatedAt = now]
          \in Request
    BY <1>1, <2>2 DEF Request, RequestStatus
  <2>5. QED
    BY <2>1, <2>2, <2>3, <2>4 DEF Moves, SameTerms, TypeOK, Request
<1>6. QED
  BY <1>1, <1>2, <1>3, <1>4, <1>5 DEF x, now

\* A creation adds one waiting request with the terms of the call's body, and
\* records the key.
LEMMA CreationWrites ==
  ASSUME TypeOK, NEW c \in Caller, NEW r \in RequestId, CreatePaymentRequest(c, r)
  PROVE  LET b == calls[c].business
             k == calls[c].key
             body == calls[c].body
         IN
         /\ calls[c] \in CreateCall /\ calls[c].now \in Nat
         /\ b \in Business /\ k \in IdemKey /\ body \in Body
         /\ OwnsWallet(b, body.wallet)
         /\ idem[<<b, k>>] = Absent
         /\ requests[r] = Absent
         /\ requests'[r] \in Request
         /\ requests'[r].status = "awaiting_payment"
         /\ requests'[r].business = b
         /\ [wallet |-> requests'[r].wallet, amount |-> requests'[r].amount,
             expiresAt |-> requests'[r].expiresAt] = body
         /\ \A q \in RequestId \ {r} : requests'[q] = requests[q]
         /\ idem' = [idem EXCEPT ![<<b, k>>] = [body |-> body, request |-> r]]
         /\ receipts' = [receipts EXCEPT ![r] = @ \cup
              {[type |-> "payment_request.created", txn |-> Absent,
                at |-> calls[c].now]}]
         /\ UNCHANGED <<wallets, txns, txnBySig, matches, exceptions>>
<1> DEFINE b == calls[c].business
           k == calls[c].key
           body == calls[c].body
           q == [business |-> b, wallet |-> body.wallet,
                 amount |-> body.amount, expiresAt |-> body.expiresAt,
                 status |-> "awaiting_payment",
                 createdAt |-> calls[c].now, updatedAt |-> calls[c].now]
<1>1. calls[c] \in CreateCall
  BY DEF CreatePaymentRequest
<1>2. b \in Business /\ k \in IdemKey /\ body \in Body /\ calls[c].now \in Nat
  BY <1>1 DEF CreateCall
<1>3. q \in Request
  BY <1>1, NewRequestType
<1>4. [wallet |-> body.wallet, amount |-> body.amount,
       expiresAt |-> body.expiresAt] = body
  BY <1>2, ConstantsAssumption
<1>5. requests' = [requests EXCEPT ![r] = q]
  BY DEF CreatePaymentRequest
<1>6. requests'[r] = q
  BY <1>5 DEF TypeOK
<1>7. /\ OwnsWallet(b, body.wallet)
      /\ idem[<<b, k>>] = Absent
      /\ requests[r] = Absent
      /\ idem' = [idem EXCEPT ![<<b, k>>] = [body |-> body, request |-> r]]
      /\ receipts' = [receipts EXCEPT ![r] = @ \cup
           {[type |-> "payment_request.created", txn |-> Absent,
             at |-> calls[c].now]}]
      /\ UNCHANGED <<wallets, txns, txnBySig, matches, exceptions>>
  BY DEF CreatePaymentRequest, KeyUsed
<1>8. \A p \in RequestId \ {r} : requests'[p] = requests[p]
  BY <1>5 DEF TypeOK
<1>9. /\ q.status = "awaiting_payment" /\ q.business = b
      /\ q.wallet = body.wallet /\ q.amount = body.amount
      /\ q.expiresAt = body.expiresAt
  OBVIOUS
<1> HIDE DEF q, b, k, body
<1>10. QED
  BY <1>1, <1>2, <1>3, <1>4, <1>6, <1>7, <1>8, <1>9 DEF b, k, body

-------------------------------------------------------------------------------
(* What no step takes back *)

\* What an exception is about never changes.
SameCase(x) ==
  /\ exceptions'[x] \in Exception
  /\ exceptions'[x].business = exceptions[x].business
  /\ exceptions'[x].request = exceptions[x].request
  /\ exceptions'[x].txn = exceptions[x].txn
  /\ exceptions'[x].type = exceptions[x].type
  /\ exceptions'[x].at = exceptions[x].at

RowsStay ==
  /\ \A w \in WalletId : wallets[w] # Absent => wallets'[w] = wallets[w]
  /\ \A t \in TxnId : txns[t] # Absent => txns'[t] = txns[t]
  /\ \A r \in RequestId : requests[r] # Absent => SameTerms(r)
  /\ \A x \in ExceptionId : exceptions[x] # Absent => SameCase(x)
  /\ matches \subseteq matches'

\* Wallets, transactions and matches are never changed or removed, requests keep
\* their terms and exceptions what they are about, whatever the step.
LEMMA StepKeepsRows ==
  ASSUME TypeOK, NoDanglingId, [Next]_vars
  PROVE  RowsStay
<1>1. \A r \in RequestId : requests[r] # Absent /\ requests'[r] = requests[r]
                             => SameTerms(r)
  BY DEF SameTerms, TypeOK
<1>2. \A x \in ExceptionId : exceptions[x] # Absent /\ exceptions'[x] = exceptions[x]
                               => SameCase(x)
  BY DEF SameCase, TypeOK
<1>3. CASE UNCHANGED store
  BY <1>1, <1>2, <1>3 DEF RowsStay, store
<1>4. CASE \E b \in Business, w \in WalletId, a \in Address : RegisterWallet(b, w, a)
  BY <1>1, <1>2, <1>4 DEF RegisterWallet, RowsStay, TypeOK
<1>5. ASSUME NEW c \in Caller, NEW r \in RequestId, CreatePaymentRequest(c, r)
      PROVE  RowsStay
  <2>1. /\ requests[r] = Absent
        /\ \A q \in RequestId \ {r} : requests'[q] = requests[q]
        /\ UNCHANGED <<wallets, txns, matches, exceptions>>
    BY <1>5, CreationWrites
  <2>2. QED
    BY <1>1, <1>2, <2>1 DEF RowsStay
<1>6. ASSUME NEW c \in Caller, NEW t \in TxnId, NEW w \in WalletId,
             IngestStablecoinTransaction(c, t, w)
      PROVE  RowsStay
  <2> DEFINE tx == Arrival(c, w, "confirmed_onchain")
             now == calls[c].now
  <2>1. PICK st \in TxnStatus : Books(c, t, w, st)
    BY <1>6, IngestBooks
  <2>2. /\ UNCHANGED wallets
        /\ \A u \in TxnId : txns[u] # Absent => txns'[u] = txns[u]
        /\ now \in Nat /\ tx.business \in Business
    BY <2>1 DEF Books, Arrival
  <2>3. \/ UNCHANGED <<requests, matches, exceptions>>
        \/ \E r \in RequestId : SettleRequest(t, tx, r, now)
        \/ /\ UNCHANGED <<requests, matches>>
           /\ \E x \in ExceptionId :
                exceptions[x] = Absent
                /\ \A y \in ExceptionId \ {x} : exceptions'[y] = exceptions[y]
    BY <2>1 DEF Books, Raised
  <2> HIDE DEF tx, now
  <2>4. ASSUME NEW r \in RequestId, SettleRequest(t, tx, r, now)
        PROVE  RowsStay
    <3>1. /\ Moves(r, Verdict(tx, r))
          /\ matches \subseteq matches'
          /\ \/ UNCHANGED exceptions
             \/ \E x \in ExceptionId :
                  Raised(x, tx.business, r, t, Verdict(tx, r), now)
      BY <2>2, <2>4, SettlementWrites
    <3>2. \A q \in RequestId : requests[q] # Absent => SameTerms(q)
      BY <1>1, <3>1 DEF Moves
    <3>3. \A x \in ExceptionId : exceptions[x] # Absent => SameCase(x)
      BY <1>2, <3>1 DEF Raised
    <3>4. QED
      BY <2>2, <3>1, <3>2, <3>3 DEF RowsStay
  <2>5. CASE UNCHANGED <<requests, matches, exceptions>>
    BY <1>1, <1>2, <2>2, <2>5 DEF RowsStay
  <2>6. ASSUME NEW x \in ExceptionId, exceptions[x] = Absent,
               \A y \in ExceptionId \ {x} : exceptions'[y] = exceptions[y],
               UNCHANGED <<requests, matches>>
        PROVE  RowsStay
    BY <1>1, <1>2, <2>2, <2>6 DEF RowsStay
  <2>7. QED
    BY <2>3, <2>4, <2>5, <2>6
<1>7. ASSUME NEW c \in Caller, ResolveException(c)
      PROVE  RowsStay
  <2> DEFINE x == calls[c].exception
  <2>1. /\ x \in ExceptionId
        /\ Closes(x)
        /\ \/ UNCHANGED requests
           \/ \E r \in RequestId : Moves(r, "manually_resolved")
        /\ UNCHANGED <<wallets, txns, matches>>
    BY <1>7, ResolutionWrites
  <2> HIDE DEF x
  <2>2. \A r \in RequestId : requests[r] # Absent => SameTerms(r)
    BY <1>1, <2>1 DEF Moves
  <2>3. \A y \in ExceptionId : exceptions[y] # Absent => SameCase(y)
    BY <1>2, <2>1 DEF Closes, SameCase
  <2>4. QED
    BY <2>1, <2>2, <2>3 DEF RowsStay
<1>8. QED
  BY <1>3, <1>4, <1>5, <1>6, <1>7, StepIs

-------------------------------------------------------------------------------
(* The index by signature *)

\* Only an ingestion touches the index, and only for a signature it had not.
LEMMA SignatureIndexStep ==
  ASSUME TypeOK, SignatureIndexExact, [Next]_vars
  PROVE  SignatureIndexExact'
<1>1. CASE UNCHANGED <<txns, txnBySig>>
  BY <1>1 DEF SignatureIndexExact
<1>2. ASSUME NEW c \in Caller, NEW t \in TxnId, NEW w \in WalletId,
             IngestStablecoinTransaction(c, t, w)
      PROVE  SignatureIndexExact'
  <2> DEFINE b == calls[c].business
             s == calls[c].evidence.signature
  <2>1. PICK st \in TxnStatus : Books(c, t, w, st)
    BY <1>2, IngestBooks
  <2>2. /\ b \in Business /\ s \in Signature
        /\ txns[t] = Absent
        /\ txnBySig[<<b, s>>] = Absent
        /\ txnBySig' = [txnBySig EXCEPT ![<<b, s>>] = t]
        /\ \A u \in TxnId \ {t} : txns'[u] = txns[u]
    BY <2>1 DEF Books
  <2>3. /\ txns'[t] # Absent /\ txns'[t].business = b
        /\ txns'[t].evidence.signature = s
    BY <2>1, AbsentAssumption DEF Books, Arrival
  <2>4. /\ txnBySig'[<<b, s>>] = t
        /\ \A bs \in Business \X Signature :
             bs # <<b, s>> => txnBySig'[bs] = txnBySig[bs]
    BY <2>2 DEF TypeOK
  <2> HIDE DEF b, s
  <2>5. ASSUME NEW b1 \in Business, NEW s1 \in Signature, txnBySig'[<<b1, s1>>] # Absent
        PROVE  /\ txns'[txnBySig'[<<b1, s1>>]] # Absent
               /\ txns'[txnBySig'[<<b1, s1>>]].business = b1
               /\ txns'[txnBySig'[<<b1, s1>>]].evidence.signature = s1
    <3>1. CASE <<b1, s1>> = <<b, s>>
      BY <2>3, <2>4, <3>1
    <3>2. CASE <<b1, s1>> # <<b, s>>
      <4>1. txnBySig'[<<b1, s1>>] = txnBySig[<<b1, s1>>]
        BY <2>4, <3>2
      <4>2. txnBySig[<<b1, s1>>] \in TxnId \ {t}
        BY <2>2, <2>5, <4>1 DEF TypeOK, SignatureIndexExact
      <4>3. QED
        BY <2>2, <2>5, <4>1, <4>2 DEF SignatureIndexExact
    <3>3. QED
      BY <3>1, <3>2
  <2>6. ASSUME NEW u \in TxnId, txns'[u] # Absent
        PROVE  txnBySig'[<<txns'[u].business, txns'[u].evidence.signature>>] = u
    <3>1. CASE u = t
      BY <2>3, <2>4, <3>1
    <3>2. CASE u # t
      <4>1. txns'[u] = txns[u] /\ txns[u] \in Txn
        BY <2>2, <2>6, <3>2 DEF TypeOK
      <4>2. txns[u].business \in Business /\ txns[u].evidence.signature \in Signature
        BY <4>1, ConstantsAssumption DEF Txn
      <4>3. txnBySig[<<txns[u].business, txns[u].evidence.signature>>] = u
        BY <2>6, <4>1 DEF SignatureIndexExact
      <4>4. <<txns[u].business, txns[u].evidence.signature>> # <<b, s>>
        BY <2>2, <4>3, AbsentAssumption
      <4>5. QED
        BY <2>4, <4>1, <4>2, <4>3, <4>4
    <3>3. QED
      BY <3>1, <3>2
  <2>7. QED
    BY <2>5, <2>6 DEF SignatureIndexExact
<1>3. QED
  BY <1>1, <1>2, StepIs
     DEF store, RegisterWallet, CreatePaymentRequest, ResolveException

-------------------------------------------------------------------------------
(* Idempotency keys *)

\* A key names a request that exists.
KeysNameRequests ==
  \A p \in Business \X IdemKey : idem[p] # Absent => requests[idem[p].request] # Absent

\* No step but a creation adds a request or records a key.
LEMMA RequestsAppearByCreation ==
  ASSUME TypeOK, NoDanglingId, [Next]_vars,
         ~ \E c \in Caller, r \in RequestId : CreatePaymentRequest(c, r)
  PROVE  /\ UNCHANGED idem
         /\ \A r \in RequestId : requests[r] = Absent => requests'[r] = Absent
<1>1. CASE UNCHANGED store
  BY <1>1 DEF store
<1>2. CASE \E b \in Business, w \in WalletId, a \in Address : RegisterWallet(b, w, a)
  BY <1>2 DEF RegisterWallet
<1>3. ASSUME NEW c \in Caller, NEW t \in TxnId, NEW w \in WalletId,
             IngestStablecoinTransaction(c, t, w)
      PROVE  /\ UNCHANGED idem
             /\ \A r \in RequestId : requests[r] = Absent => requests'[r] = Absent
  <2> DEFINE tx == Arrival(c, w, "confirmed_onchain")
             now == calls[c].now
  <2>1. PICK st \in TxnStatus : Books(c, t, w, st)
    BY <1>3, IngestBooks
  <2>2. /\ UNCHANGED idem
        /\ now \in Nat /\ tx.business \in Business
        /\ \/ UNCHANGED requests
           \/ \E r \in RequestId : SettleRequest(t, tx, r, now)
    BY <2>1 DEF Books, Arrival
  <2> HIDE DEF tx, now
  <2>3. ASSUME NEW r \in RequestId, SettleRequest(t, tx, r, now)
        PROVE  Moves(r, Verdict(tx, r)) /\ requests[r] # Absent
    BY <2>2, <2>3, SettlementWrites
  <2>4. QED
    BY <2>2, <2>3 DEF Moves
<1>4. ASSUME NEW c \in Caller, ResolveException(c)
      PROVE  /\ UNCHANGED idem
             /\ \A r \in RequestId : requests[r] = Absent => requests'[r] = Absent
  <2>1. /\ UNCHANGED idem
        /\ \/ UNCHANGED requests
           \/ \E r \in RequestId : requests[r] # Absent /\ Moves(r, "manually_resolved")
    BY <1>4, ResolutionWrites
  <2>2. QED
    BY <2>1 DEF Moves
<1>5. QED
  BY <1>1, <1>2, <1>3, <1>4, StepIs

\* A creation takes a key that was free and a request id that no key named; every
\* other step leaves keys and the terms of requests alone.
LEMMA OneRequestPerKeyStep ==
  ASSUME TypeOK, NoDanglingId, OneRequestPerKey, KeysNameRequests, [Next]_vars
  PROVE  OneRequestPerKey' /\ KeysNameRequests'
<1>1. RowsStay
  BY StepKeepsRows
<1>2. \A r \in RequestId :
        requests[r] # Absent => requests'[r] # Absent /\ SameTerms(r)
  BY <1>1, AbsentAssumption DEF RowsStay, SameTerms
<1>3. \A p \in Business \X IdemKey :
        idem[p] # Absent => idem[p].request \in RequestId
  BY DEF TypeOK, IdemRecord
<1>4. CASE ~ \E c \in Caller, r \in RequestId : CreatePaymentRequest(c, r)
  <2>1. /\ idem' = idem
        /\ \A r \in RequestId : requests'[r] # Absent => requests[r] # Absent
    BY <1>4, RequestsAppearByCreation
  <2>2. KeysNameRequests'
    BY <1>2, <1>3, <2>1 DEF KeysNameRequests
  <2>3. ASSUME NEW r \in RequestId, requests'[r] # Absent
        PROVE  \E b \in Business, k \in IdemKey :
                 /\ idem'[<<b, k>>] # Absent
                 /\ idem'[<<b, k>>].request = r
                 /\ requests'[r].business = b
                 /\ [wallet |-> requests'[r].wallet, amount |-> requests'[r].amount,
                     expiresAt |-> requests'[r].expiresAt] = idem'[<<b, k>>].body
    <3>1. requests[r] # Absent /\ SameTerms(r)
      BY <1>2, <2>1, <2>3
    <3>2. QED
      BY <2>1, <3>1 DEF OneRequestPerKey, SameTerms
  <2>4. OneRequestPerKey'
    BY <2>1, <2>3 DEF OneRequestPerKey
  <2>5. QED
    BY <2>2, <2>4
<1>5. ASSUME NEW c \in Caller, NEW r \in RequestId, CreatePaymentRequest(c, r)
      PROVE  OneRequestPerKey' /\ KeysNameRequests'
  <2> DEFINE p == <<calls[c].business, calls[c].key>>
  <2>1. /\ calls[c].business \in Business /\ calls[c].key \in IdemKey
        /\ idem[p] = Absent
        /\ requests[r] = Absent /\ requests'[r] \in Request
        /\ requests'[r].business = calls[c].business
        /\ [wallet |-> requests'[r].wallet, amount |-> requests'[r].amount,
            expiresAt |-> requests'[r].expiresAt] = calls[c].body
        /\ calls[c].body \in Body
        /\ idem' = [idem EXCEPT ![p] = [body |-> calls[c].body, request |-> r]]
        /\ \A q \in RequestId \ {r} : requests'[q] = requests[q]
    BY <1>5, CreationWrites
  <2>2. [body |-> calls[c].body, request |-> r] \in IdemRecord
    BY <2>1 DEF IdemRecord
  <2>3. /\ p \in Business \X IdemKey
        /\ idem'[p] # Absent /\ idem'[p].request = r /\ idem'[p].body = calls[c].body
        /\ \A q \in Business \X IdemKey : q # p => idem'[q] = idem[q]
    BY <2>1, <2>2, AbsentAssumption DEF TypeOK
  <2>4. \A q \in Business \X IdemKey : idem[q] # Absent => idem[q].request # r
    BY <2>1 DEF KeysNameRequests
  <2>5. KeysNameRequests'
    BY <1>2, <1>3, <2>1, <2>3, AbsentAssumption DEF KeysNameRequests
  <2>6. \A q1, q2 \in Business \X IdemKey :
          /\ idem'[q1] # Absent /\ idem'[q2] # Absent
          /\ idem'[q1].request = idem'[q2].request
          => q1 = q2
    <3> HIDE DEF p
    <3> QED BY <2>3, <2>4 DEF OneRequestPerKey
  <2>7. ASSUME NEW q \in RequestId, requests'[q] # Absent
        PROVE  \E b \in Business, k \in IdemKey :
                 /\ idem'[<<b, k>>] # Absent
                 /\ idem'[<<b, k>>].request = q
                 /\ requests'[q].business = b
                 /\ [wallet |-> requests'[q].wallet, amount |-> requests'[q].amount,
                     expiresAt |-> requests'[q].expiresAt] = idem'[<<b, k>>].body
    <3>1. CASE q = r
      BY <2>1, <2>3, <3>1
    <3>2. CASE q # r
      <4>1. requests'[q] = requests[q] /\ requests[q] # Absent
        BY <2>1, <2>7, <3>2
      <4>2. PICK b \in Business, k \in IdemKey :
              /\ idem[<<b, k>>] # Absent
              /\ idem[<<b, k>>].request = q
              /\ requests[q].business = b
              /\ [wallet |-> requests[q].wallet, amount |-> requests[q].amount,
                  expiresAt |-> requests[q].expiresAt] = idem[<<b, k>>].body
        BY <4>1 DEF OneRequestPerKey
      <4>3. idem'[<<b, k>>] = idem[<<b, k>>]
        BY <2>1, <2>3, <4>2
      <4>4. QED
        BY <4>1, <4>2, <4>3
    <3>3. QED
      BY <3>1, <3>2
  <2>8. QED
    BY <2>5, <2>6, <2>7 DEF OneRequestPerKey
<1>6. QED
  BY <1>4, <1>5

-------------------------------------------------------------------------------
(* Verdicts *)

\* A transaction is booked on a wallet of its business that it pays into.
BookedOnOwnWallet ==
  \A t \in TxnId :
    txns[t] # Absent =>
      /\ OwnsWallet(txns[t].business, txns[t].wallet)
      /\ wallets[txns[t].wallet].address \in
           {txns[t].evidence.owner, txns[t].evidence.address}

\* A transaction is booked when it is stored, and wallets keep owner and address.
LEMMA BookedOnOwnWalletStep ==
  ASSUME TypeOK, NoDanglingId, BookedOnOwnWallet, [Next]_vars
  PROVE  BookedOnOwnWallet'
<1>1. RowsStay
  BY StepKeepsRows
<1>2. \A t \in TxnId : txns[t] # Absent => txns[t].wallet \in WalletId
  BY DEF TypeOK, Txn
<1>3. CASE \A t \in TxnId : txns[t] = Absent => txns'[t] = Absent
  BY <1>1, <1>2, <1>3 DEF BookedOnOwnWallet, OwnsWallet, RowsStay
<1>4. ASSUME NEW c \in Caller, NEW t \in TxnId, NEW w \in WalletId,
             IngestStablecoinTransaction(c, t, w)
      PROVE  BookedOnOwnWallet'
  <2>1. PICK st \in TxnStatus : Books(c, t, w, st)
    BY <1>4, IngestBooks
  <2>2. /\ txns'[t].business = calls[c].business
        /\ txns'[t].wallet = w
        /\ txns'[t].evidence = calls[c].evidence
        /\ w \in PayableWallets(calls[c].business, calls[c].evidence)
        /\ wallets' = wallets
        /\ \A u \in TxnId \ {t} : txns'[u] = txns[u]
    BY <2>1 DEF Books, Arrival
  <2>3. QED
    BY <2>2 DEF BookedOnOwnWallet, OwnsWallet, PayableWallets
<1>5. QED
  BY <1>3, <1>4, StepIs
     DEF store, RegisterWallet, CreatePaymentRequest, ResolveException

\* The verdict of match m agrees with the evidence.
Just(m) ==
  LET r == requests[m.request]
      tx == txns[m.txn]
      e == tx.evidence
      paidAt == IF e.blockTime = Absent THEN m.at ELSE e.blockTime
  IN  /\ r.business = tx.business /\ r.wallet = tx.wallet
      /\ e.final
      /\ (m.status = "expired") <=> paidAt > r.expiresAt
      /\ m.status = "confirmed" => e.amount = r.amount
      /\ m.status = "underpaid" => e.amount < r.amount
      /\ m.status = "overpaid" => e.amount > r.amount

\* Each verdict is just when it is given, and stays so: nothing it was given on
\* is ever rewritten.
LEMMA JustStep ==
  ASSUME TypeOK, NoDanglingId, \A m \in matches : Just(m), [Next]_vars
  PROVE  \A m \in matches' : Just(m)'
<1>1. RowsStay
  BY StepKeepsRows
<1>2. ASSUME NEW m \in matches PROVE Just(m)'
  <2>1. /\ m.request \in RequestId /\ m.txn \in TxnId
        /\ txns[m.txn] # Absent /\ requests[m.request] # Absent
    BY DEF TypeOK, Match, NoDanglingId, TablesClosed
  <2>2. txns'[m.txn] = txns[m.txn] /\ SameTerms(m.request)
    BY <1>1, <2>1 DEF RowsStay
  <2>3. QED
    BY <2>2 DEF Just, SameTerms
<1>3. CASE matches' = matches
  BY <1>2, <1>3
<1>4. ASSUME NEW c \in Caller, NEW t \in TxnId, NEW w \in WalletId,
             IngestStablecoinTransaction(c, t, w)
      PROVE  \A m \in matches' : Just(m)'
  <2> DEFINE tx == Arrival(c, w, "confirmed_onchain")
             now == calls[c].now
             e == calls[c].evidence
  <2>1. PICK st \in TxnStatus : Books(c, t, w, st)
    BY <1>4, IngestBooks
  <2>2. /\ now \in Nat /\ e \in Evidence
        /\ tx.business \in Business
        /\ tx.evidence = e /\ tx.detectedAt = now
        /\ txns'[t].business = tx.business
        /\ txns'[t].wallet = tx.wallet
        /\ txns'[t].evidence = e
        /\ \/ UNCHANGED matches
           \/ e.final /\ \E r \in RequestId : SettleRequest(t, tx, r, now)
    BY <2>1 DEF Books, Arrival
  <2>3. e.amount \in Nat /\ e.blockTime \in Nat \cup {Absent}
    BY <2>2, ConstantsAssumption
  <2> HIDE DEF tx, now, e
  <2>4. ASSUME NEW r \in RequestId, SettleRequest(t, tx, r, now), e.final
        PROVE  \A m \in matches' : Just(m)'
    <3> DEFINE o == Verdict(tx, r)
               n == [request |-> r, txn |-> t, status |-> o, at |-> now]
    <3>1. /\ requests[r].business = tx.business /\ requests[r].wallet = tx.wallet
          /\ Moves(r, o)
          /\ matches' = matches \cup {n}
      BY <2>2, <2>4, SettlementWrites
    <3>2. requests[r].amount \in Nat /\ requests[r].expiresAt \in Nat
      BY <3>1 DEF Moves, Request
    <3>3. /\ (o = "expired") <=>
               (IF e.blockTime = Absent THEN now ELSE e.blockTime) > requests[r].expiresAt
          /\ o = "confirmed" => e.amount = requests[r].amount
          /\ o = "underpaid" => e.amount < requests[r].amount
          /\ o = "overpaid" => e.amount > requests[r].amount
      BY <2>2, <2>3, <3>2 DEF Verdict, IsLate, PaymentTime
    <3>4. /\ n.request = r /\ n.txn = t /\ n.status = o /\ n.at = now
      OBVIOUS
    <3> HIDE DEF o, n
    <3>5. ASSUME NEW m, m = n PROVE Just(m)'
      BY <2>2, <2>4, <3>1, <3>3, <3>4, <3>5 DEF Just, Moves, SameTerms
    <3>6. QED
      BY <1>2, <3>1, <3>5
  <2>5. CASE e.final /\ \E r \in RequestId : SettleRequest(t, tx, r, now)
    BY <2>4, <2>5
  <2>6. QED
    BY <1>3, <2>2, <2>5
<1>5. QED
  BY <1>3, <1>4, StepIs
     DEF store, RegisterWallet, CreatePaymentRequest, ResolveException

-------------------------------------------------------------------------------
(* The invariant of the tables *)

VerdictsJust == \A m \in matches : Just(m)

TablesInv ==
  /\ SignatureIndexExact
  /\ OneRequestPerKey
  /\ KeysNameRequests
  /\ BookedOnOwnWallet
  /\ VerdictsJust

\* Empty tables agree with each other.
LEMMA TablesInit == Init => TablesInv
BY DEF Init, TablesInv, SignatureIndexExact, OneRequestPerKey, KeysNameRequests,
       BookedOnOwnWallet, VerdictsJust

\* A step of any operation keeps the tables in agreement.
LEMMA TablesStep ==
  ASSUME TypeOK, NoDanglingId, TablesInv, [Next]_vars
  PROVE  TablesInv'
BY SignatureIndexStep, OneRequestPerKeyStep, BookedOnOwnWalletStep, JustStep
   DEF TablesInv, VerdictsJust

\* With the ids known, a just verdict on a transaction booked on a wallet of its
\* business is all that VerdictsAreJust asks for.
LEMMA TablesAreJust ==
  ASSUME TypeOK, NoDanglingId, TablesInv
  PROVE  VerdictsAreJust
<1> SUFFICES ASSUME NEW m \in matches
             PROVE  LET r == requests[m.request]
                        tx == txns[m.txn]
                        e == tx.evidence
                        paidAt == IF e.blockTime = Absent THEN m.at ELSE e.blockTime
                    IN  /\ r.business = tx.business /\ r.wallet = tx.wallet
                        /\ wallets[tx.wallet].business = tx.business
                        /\ wallets[tx.wallet].address \in {e.owner, e.address}
                        /\ e.final
                        /\ (m.status = "expired") <=> paidAt > r.expiresAt
                        /\ m.status = "confirmed" => e.amount = r.amount
                        /\ m.status = "underpaid" => e.amount < r.amount
                        /\ m.status = "overpaid" => e.amount > r.amount
  BY DEF VerdictsAreJust
<1>1. m.txn \in TxnId /\ txns[m.txn] # Absent
  BY DEF TypeOK, Match, NoDanglingId, TablesClosed
<1>2. /\ wallets[txns[m.txn].wallet].business = txns[m.txn].business
      /\ wallets[txns[m.txn].wallet].address \in
           {txns[m.txn].evidence.owner, txns[m.txn].evidence.address}
  BY <1>1 DEF TablesInv, BookedOnOwnWallet, OwnsWallet
<1>3. Just(m)
  BY DEF TablesInv, VerdictsJust
<1>4. QED
  BY <1>2, <1>3 DEF Just

\* The invariant holds in every reachable state.
THEOREM TablesAgree == Spec => [](IInv /\ TablesInv)
<1>1. IInv /\ TablesInv /\ [Next]_vars => TablesInv'
  BY TablesStep DEF IInv
<1>2. QED
  BY TablesInit, Inductive, <1>1, PTL DEF Spec

\* A transfer is stored once per business and its signature always finds it, so
\* that a retry is recognised however many calls with that signature interleave.
THEOREM RetriesFindTheirTransfer == Spec => []SignatureIndexExact
<1>1. TablesInv => SignatureIndexExact
  BY DEF TablesInv
<1>2. QED
  BY TablesAgree, <1>1, PTL

\* No interleaving of creations makes a key stand for two requests or a request
\* for two keys, and the request stays what its recorded body asked for.
THEOREM KeysMakeOneRequest == Spec => []OneRequestPerKey
<1>1. TablesInv => OneRequestPerKey
  BY DEF TablesInv
<1>2. QED
  BY TablesAgree, <1>1, PTL

\* A verdict agrees with amounts, block time and expiry, and is about a payment
\* into a wallet of the request's own business, whenever it is read.
THEOREM VerdictsStayJust == Spec => []VerdictsAreJust
<1>1. IInv /\ TablesInv => VerdictsAreJust
  BY TablesAreJust DEF IInv
<1>2. QED
  BY TablesAgree, <1>1, PTL

-------------------------------------------------------------------------------
(* The conservative matching rule *)

\* The requests that a payment could be for, those of them in time, and the exact
\* ones of some.
Waiting(tx) ==
  {r \in RequestId : /\ requests[r] # Absent
                     /\ requests[r].status = "awaiting_payment"
                     /\ requests[r].business = tx.business
                     /\ requests[r].wallet = tx.wallet}

InTime(tx, paidAt) == {r \in Waiting(tx) : paidAt <= requests[r].expiresAt}

ExactOnes(tx, S) == {r \in S : requests[r].amount = tx.evidence.amount}

\* What the rule says of a request that a payment settled with an outcome.
Rule(tx, paidAt, r, outcome) ==
  /\ outcome = "confirmed" => ExactOnes(tx, InTime(tx, paidAt)) = {r}
  /\ outcome \in {"underpaid", "overpaid"} => InTime(tx, paidAt) = {r}
  /\ outcome = "expired" =>
       /\ InTime(tx, paidAt) = {}
       /\ {r} \in {Waiting(tx), ExactOnes(tx, Waiting(tx))}

\* The sole contender is settled as the rule says: contenders that are not exact
\* are all there are in time, or all there are when none is.
LEMMA SoleContenderByRule ==
  ASSUME TypeOK, NEW tx, NEW r \in RequestId,
         tx.evidence.amount \in Nat, PaymentTime(tx) \in Nat,
         Contenders(tx) = {r}
  PROVE  Rule(tx, PaymentTime(tx), r, Verdict(tx, r))
<1>1. PICK paidAt : paidAt = PaymentTime(tx)
  OBVIOUS
<1>2. PICK waiting, active, late :
        /\ waiting = Waiting(tx)
        /\ active = {q \in Candidates(tx) : ~IsLate(tx, q)}
        /\ late = {q \in Candidates(tx) : IsLate(tx, q)}
  OBVIOUS
<1>3. Candidates(tx) = waiting /\ active \cup late = waiting /\ active \cap late = {}
  BY <1>2 DEF Candidates, Waiting
<1>4. \A q \in waiting : requests[q].amount \in Nat /\ requests[q].expiresAt \in Nat
  BY <1>2 DEF Waiting, TypeOK, Request
<1>5. InTime(tx, paidAt) = active
  BY <1>1, <1>2, <1>3, <1>4 DEF InTime, IsLate
<1>6. \A S : PreferExact(tx, S) = IF \E q \in S : IsExact(tx, q)
                                  THEN ExactOnes(tx, S) ELSE S
  BY DEF PreferExact, ExactOnes, IsExact
<1>7. {r} = IF active # {} THEN PreferExact(tx, active) ELSE PreferExact(tx, late)
  BY <1>2 DEF Contenders
<1>8. r \in waiting
  BY <1>3, <1>6, <1>7 DEF ExactOnes
<1>9. IsLate(tx, r) <=> r \in late
  BY <1>2, <1>3, <1>8
<1>10. ~IsLate(tx, r) =>
         /\ Verdict(tx, r) = "confirmed" <=> IsExact(tx, r)
         /\ Verdict(tx, r) # "expired"
  BY <1>4, <1>8 DEF Verdict, IsExact
<1>11. CASE IsLate(tx, r)
  <2>1. active = {}
    BY <1>3, <1>6, <1>7, <1>9, <1>11 DEF ExactOnes
  <2>2. {r} = PreferExact(tx, waiting)
    BY <1>3, <1>7, <2>1
  <2>3. {r} \in {waiting, ExactOnes(tx, waiting)}
    BY <1>6, <2>2
  <2>4. Verdict(tx, r) = "expired"
    BY <1>11 DEF Verdict
  <2>5. QED
    BY <1>1, <1>2, <1>5, <2>1, <2>3, <2>4 DEF Rule
<1>12. CASE ~IsLate(tx, r)
  <2>1. {r} = PreferExact(tx, active)
    BY <1>3, <1>7, <1>8, <1>9, <1>12
  <2>2. IsExact(tx, r) => {r} = ExactOnes(tx, active)
    BY <1>6, <2>1
  <2>3. ~IsExact(tx, r) => {r} = active
    BY <1>6, <2>1 DEF ExactOnes, IsExact
  <2>4. QED
    BY <1>1, <1>5, <1>10, <1>12, <2>2, <2>3 DEF Rule
<1>13. QED
  BY <1>11, <1>12

\* A step that adds a match is a settlement.
LEMMA NewMatchIsSettlement ==
  ASSUME TypeOK, NoDanglingId, [Next]_vars, NEW m \in matches' \ matches
  PROVE  \E c \in Caller, t \in TxnId, w \in WalletId, r \in RequestId :
           LET tx == Arrival(c, w, "confirmed_onchain") IN
           /\ calls[c].now \in Nat /\ calls[c].evidence \in Evidence
           /\ SettleRequest(t, tx, r, calls[c].now)
           /\ m = [request |-> r, txn |-> t, status |-> Verdict(tx, r), at |-> calls[c].now]
           /\ txns'[t] = Arrival(c, w, "matched_to_request")
<1>1. PICK c \in Caller, t \in TxnId, w \in WalletId : IngestStablecoinTransaction(c, t, w)
  BY StepIs DEF store, RegisterWallet, CreatePaymentRequest, ResolveException
<1>2. PICK st \in TxnStatus : Books(c, t, w, st)
  BY <1>1, IngestBooks
<1> DEFINE tx == Arrival(c, w, "confirmed_onchain")
<1>3. PICK r \in RequestId : st = "matched_to_request" /\ SettleRequest(t, tx, r, calls[c].now)
  BY <1>2 DEF Books
<1>4. /\ calls[c].now \in Nat /\ calls[c].evidence \in Evidence
      /\ txns'[t] = Arrival(c, w, "matched_to_request")
  BY <1>2, <1>3 DEF Books
<1>5. m = [request |-> r, txn |-> t, status |-> Verdict(tx, r), at |-> calls[c].now]
  BY <1>3 DEF SettleRequest
<1>6. QED
  BY <1>3, <1>4, <1>5

\* A request is settled only as the one that the rule leaves for its outcome,
\* whatever was created, settled or resolved between the call's start and its
\* commit: exact among those in time, else alone in time, else alone, or alone
\* exact, among those that are all late.
THEOREM MatchingIsConservative == Spec => ConservativeMatching
<1>1. ASSUME IInv, [Next]_vars, NEW m \in matches' \ matches
      PROVE  Rule(txns'[m.txn],
                  IF txns'[m.txn].evidence.blockTime = Absent THEN m.at
                  ELSE txns'[m.txn].evidence.blockTime,
                  m.request, m.status)
  <2>1. PICK c \in Caller, t \in TxnId, w \in WalletId, r \in RequestId :
          LET tx == Arrival(c, w, "confirmed_onchain") IN
          /\ calls[c].now \in Nat /\ calls[c].evidence \in Evidence
          /\ SettleRequest(t, tx, r, calls[c].now)
          /\ m = [request |-> r, txn |-> t, status |-> Verdict(tx, r), at |-> calls[c].now]
          /\ txns'[t] = Arrival(c, w, "matched_to_request")
    BY <1>1, NewMatchIsSettlement DEF IInv
  <2>2. PICK tx, e, paidAt :
          /\ tx = Arrival(c, w, "confirmed_onchain")
          /\ e = calls[c].evidence
          /\ paidAt = IF e.blockTime = Absent THEN calls[c].now ELSE e.blockTime
    OBVIOUS
  <2>3. /\ m.request = r /\ m.txn = t /\ m.status = Verdict(tx, r) /\ m.at = calls[c].now
        /\ txns'[t].business = tx.business /\ txns'[t].wallet = tx.wallet
        /\ txns'[t].evidence = e /\ tx.evidence = e
        /\ PaymentTime(tx) = paidAt
    BY <2>1, <2>2 DEF Arrival, PaymentTime
  <2>4. e.amount \in Nat /\ paidAt \in Nat
    BY <2>1, <2>2, ConstantsAssumption
  <2>5. Contenders(tx) = {r}
    BY <2>1, <2>2 DEF SettleRequest
  <2>6. Rule(tx, paidAt, r, Verdict(tx, r))
    BY <1>1, <2>3, <2>4, <2>5, SoleContenderByRule DEF IInv
  <2>7. Rule(txns'[t], paidAt, r, Verdict(tx, r))
    BY <2>3, <2>6 DEF Rule, Waiting, InTime, ExactOnes
  <2>8. paidAt = IF txns'[t].evidence.blockTime = Absent THEN m.at
                 ELSE txns'[t].evidence.blockTime
    BY <2>2, <2>3
  <2>9. QED
    BY <2>3, <2>7, <2>8
<1>2. IInv /\ [Next]_vars =>
        [\A m \in matches' \ matches :
           LET tx == txns'[m.txn]
               paidAt == IF tx.evidence.blockTime = Absent THEN m.at
                         ELSE tx.evidence.blockTime
               waiting == {r \in RequestId : /\ requests[r] # Absent
                                             /\ requests[r].status = "awaiting_payment"
                                             /\ requests[r].business = tx.business
                                             /\ requests[r].wallet = tx.wallet}
               inTime == {r \in waiting : paidAt <= requests[r].expiresAt}
               Exact(S) == {r \in S : requests[r].amount = tx.evidence.amount}
           IN  /\ m.status = "confirmed" => Exact(inTime) = {m.request}
               /\ m.status \in {"underpaid", "overpaid"} => inTime = {m.request}
               /\ m.status = "expired" =>
                    inTime = {} /\ {m.request} \in {waiting, Exact(waiting)}]_vars
  BY <1>1 DEF Rule, Waiting, InTime, ExactOnes
<1>3. QED
  BY Inductive, <1>2, PTL DEF Spec, ConservativeMatching
===============================================================================
