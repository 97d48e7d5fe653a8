----------------------------- MODULE DurableTruth -----------------------------
(***************************************************************************)
(* PaymentTruth with its file: NewPersistentStore, persistLocked and       *)
(* loadSnapshot of src/internal/core/store.go.  Every operation that takes *)
(* s.mu for writing - one that is refused under the lock and the access    *)
(* log of every request included - rewrites the whole file before it lets  *)
(* the lock go, by a temporary file and a rename.  An error of the write   *)
(* is kept for /readyz and is not reported to the caller.                  *)
(*                                                                         *)
(* The process can die between two steps.  What it had not written is      *)
(* gone, and so are the calls in flight; an index that is not in the file  *)
(* is rebuilt.  The rename is atomic here: a power loss, after which the   *)
(* file can be torn or empty, is not modelled.                             *)
(***************************************************************************)
EXTENDS PaymentTruth

VARIABLES
  disk,     \* the file at s.persistencePath
  healthy,  \* s.persistenceErr is empty
  shown     \* payment requests a client has been shown (history)

durableVars == <<vars, disk, healthy, shown>>

-------------------------------------------------------------------------------
(* The file *)

\* Bug: the idempotency records are not in the snapshot.
SnapshotWithoutIdempotency ==
  [wallets |-> wallets, requests |-> requests,
   idem |-> [bk \in Business \X IdemKey |-> Absent], txns |-> txns,
   matches |-> matches, exceptions |-> exceptions, receipts |-> receipts]

\* Bug: the transaction's Status is tagged json:"-", as a subscription's secret is.
SnapshotWithoutTxnStatus ==
  [wallets |-> wallets, requests |-> requests, idem |-> idem,
   txns |-> [t \in TxnId |->
               IF txns[t] = Absent THEN Absent ELSE [txns[t] EXCEPT !.status = ""]],
   matches |-> matches, exceptions |-> exceptions, receipts |-> receipts]

\* The payment tables of persistentSnapshot; transactionBySignature is not one.
Snapshot ==
  [wallets |-> wallets, requests |-> requests, idem |-> idem, txns |-> txns,
   matches |-> matches, exceptions |-> exceptions, receipts |-> receipts]

\* Bug: a failed write is not remembered.
PersistSilently ==
  \/ disk' = Snapshot' /\ healthy' = TRUE
  \/ UNCHANGED <<disk, healthy>>

\* mustPersistLocked: written as a whole, or not at all.
Persist ==
  \/ disk' = Snapshot' /\ healthy' = TRUE
  \/ UNCHANGED disk /\ healthy' = FALSE

\* Bug: the index is not rebuilt.
NoIndex(table) == [bs \in Business \X Signature |-> Absent]

TxnsOf(table, b, s) ==
  {t \in TxnId : table[t] # Absent /\ table[t].business = b /\ table[t].evidence.signature = s}

\* rebuildIndexesLocked.
IndexBySignature(table) ==
  [bs \in Business \X Signature |->
     IF TxnsOf(table, bs[1], bs[2]) = {} THEN Absent
     ELSE CHOOSE t \in TxnsOf(table, bs[1], bs[2]) : TRUE]

-------------------------------------------------------------------------------
(* Operations *)

DurableInit ==
  /\ Init
  /\ disk = Snapshot
  /\ healthy = TRUE
  /\ shown = {}

\* Steps outside the lock: time passes, a call is decoded and validated.
OutsideLock ==
  /\ \/ Tick
     \/ \E c \in Caller, b \in Business :
          \/ \E k \in IdemKey, body \in Body : StartCreatePaymentRequest(c, b, k, body)
          \/ \E e \in Evidence : StartIngestStablecoinTransaction(c, b, e)
          \/ \E x \in ExceptionId : StartResolveException(c, b, x)
  /\ UNCHANGED <<disk, healthy, shown>>

\* Operations on the payment tables, under the lock, with their deferred persist.
UnderLock ==
  /\ \/ \E b \in Business, w \in WalletId, a \in Address : RegisterWallet(b, w, a)
     \/ \E c \in Caller :
          \/ RefuseOrReplayCreate(c)
          \/ \E r \in RequestId : CreatePaymentRequest(c, r)
          \/ RefuseOrReplayIngest(c)
          \/ \E t \in TxnId, w \in WalletId : IngestStablecoinTransaction(c, t, w)
          \/ RefuseOrRepeatResolve(c)
          \/ ResolveException(c)
  /\ Persist
  /\ UNCHANGED shown

\* Any other writer of the store, the access log first of all: the payment
\* tables stay as they are, the file is written again.
OtherWrite ==
  /\ UNCHANGED <<vars, shown>>
  /\ Persist

\* A client reads a request of its business: GET /v1/payment-requests/{id}.
GetPaymentRequest(r) ==
  /\ requests[r] # Absent
  /\ shown' = shown \cup {r}
  /\ UNCHANGED <<vars, disk, healthy>>

\* The process dies and NewPersistentStore loads the file.
CrashAndRestart ==
  /\ calls' = [c \in Caller |-> Absent]
  /\ wallets' = disk.wallets
  /\ requests' = disk.requests
  /\ idem' = disk.idem
  /\ txns' = disk.txns
  /\ txnBySig' = IndexBySignature(disk.txns)
  /\ matches' = disk.matches
  /\ exceptions' = disk.exceptions
  /\ receipts' = disk.receipts
  /\ healthy' = TRUE
  /\ UNCHANGED <<clock, disk, shown>>

DurableNext ==
  \/ OutsideLock
  \/ UnderLock
  \/ OtherWrite
  \/ \E r \in RequestId : GetPaymentRequest(r)
  \/ CrashAndRestart

DurableSpec == DurableInit /\ [][DurableNext]_durableVars

-------------------------------------------------------------------------------
(* Properties *)

\* The file holds tables of the shape the operations expect.
FileTypeOK ==
  /\ disk.wallets \in [WalletId -> Wallet \cup {Absent}]
  /\ disk.requests \in [RequestId -> Request \cup {Absent}]
  /\ disk.idem \in [Business \X IdemKey -> IdemRecord \cup {Absent}]
  /\ disk.txns \in [TxnId -> Txn \cup {Absent}]
  /\ disk.matches \subseteq Match
  /\ disk.exceptions \in [ExceptionId -> Exception \cup {Absent}]
  /\ disk.receipts \in [RequestId -> SUBSET Event]
  /\ healthy \in BOOLEAN
  /\ shown \subseteq RequestId

\* While the store reports itself ready, the file holds every table: an error
\* that was swallowed is still visible to /readyz until a later write has
\* repaired it (persistLocked clears persistenceErr only after the rename).
ReadyMeansDurable == healthy => disk = Snapshot

\* A crash of a store that reports itself ready loses nothing but the calls in
\* flight: no table, no idempotency record, and the index comes back as it was,
\* so that a retry after the crash is still recognised as one.  (A store whose
\* writes failed comes back with an older history; that its index agrees with its
\* transactions even then is SignatureIndexExact.)
CrashWhileReadyLosesNothing ==
  [][~(healthy /\ CrashAndRestart) \/ UNCHANGED store]_durableVars

-------------------------------------------------------------------------------
(* What documents say and the code does not do *)

\* docs/deployment/production.md: "The file store is durable across restarts" -
\* a request a client was shown is there as long as the data path is.
ShownRequestsSurvive == \A r \in shown : requests[r] # Absent
===============================================================================
