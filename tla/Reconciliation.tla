---------------------------- MODULE Reconciliation ----------------------------
(***************************************************************************)
(* Reconciliation runs and settlement exports of MemoryStore               *)
(* (src/internal/core/store.go) over the payment tables of PaymentTruth.   *)
(*                                                                         *)
(* A run selects what happened in a period, by the times the rows carry,   *)
(* and freezes the settlement rows, the wallet snapshots and the totals it *)
(* finds.  Nothing rewrites a run.  The list of exceptions is not frozen:  *)
(* reading the report, or exporting it as JSON, selects them again, and an *)
(* export as CSV has none but those its rows name.  Payment calls go on    *)
(* meanwhile; a call in flight carries the time it was started at.         *)
(*                                                                         *)
(* Amounts are rationals in the code (a request may ask for "1/2500000");  *)
(* here they count a unit as small as wanted, and Precision of these make  *)
(* the last of the six decimals that a report prints.                      *)
(***************************************************************************)
EXTENDS PaymentTruth, FiniteSetsExt

CONSTANTS
  RunId,      \* ids newID("rec") can return
  Period,     \* periods clients ask for: records with from and to
  Precision,  \* amount units in 0.000001, the last decimal of a formatted amount
  MaxExports  \* bound on the exports

ASSUME PeriodAssumption ==
  /\ Period \subseteq {p \in [from : Nat, to : Nat] : p.from < p.to}
  /\ MaxExports \in Nat

ASSUME PrecisionAssumption == Precision \in Nat \ {0}

\* The maps of a running program are finite, and so is what a report counts.
ASSUME FiniteAssumption ==
  IsFiniteSet(RequestId) /\ IsFiniteSet(TxnId) /\ IsFiniteSet(ExceptionId)
    /\ IsFiniteSet(WalletId) /\ IsFiniteSet(RunId)

VARIABLES
  runs,    \* s.reconciliationRuns with s.settlementRows and s.walletSnapshots
  exports  \* s.exports

allVars == <<vars, runs, exports>>

Format == {"csv", "json"}

RowStatus == {"reconciled", "exception", "unmatched", "pending"}

Row ==
  [request : RequestId \cup {Absent}, txn : TxnId \cup {Absent},
   exception : ExceptionId \cup {Absent}, status : RowStatus]

Totals ==
  [requests : Nat, confirmed : Nat, txns : Nat, matched : Nat, unmatched : Nat,
   matches : Nat, exceptions : Nat, open : Nat, received : Nat]

Snapshot == [wallet : WalletId, inbound : Nat, count : Nat]

Selection ==
  [txns : SUBSET TxnId, requests : SUBSET RequestId, exceptions : SUBSET ExceptionId]

\* wallet is Absent for a run over all wallets; at is the time of the run.  The
\* stored run has the totals of what was selected and not the selection itself:
\* selected is a history field, which no operation reads.
Run ==
  [business : Business, period : Period, wallet : WalletId \cup {Absent},
   at : Nat, rows : SUBSET Row, snapshots : SUBSET Snapshot, totals : Totals,
   selected : Selection]

Export ==
  [run : RunId, format : Format, rows : SUBSET Row, exceptions : SUBSET ExceptionId]

-------------------------------------------------------------------------------
(* What a run selects: b is its business, p its period, w its wallet if any *)

InPeriod(p, time) == p.from <= time /\ time < p.to

OnWallet(w, wallet) == w = Absent \/ w = wallet

TxnsFor(b, p, w) ==
  {t \in TxnId : /\ txns[t] # Absent
                 /\ txns[t].business = b
                 /\ OnWallet(w, txns[t].wallet)
                 /\ InPeriod(p, txns[t].detectedAt)}

RequestsFor(b, p, w) ==
  {r \in RequestId : /\ requests[r] # Absent
                     /\ requests[r].business = b
                     /\ OnWallet(w, requests[r].wallet)
                     /\ \/ InPeriod(p, requests[r].createdAt)
                        \/ InPeriod(p, requests[r].updatedAt)}

\* Bug: the wallet is not compared.
MatchesOfAllWallets(b, p, w) ==
  {m \in matches : requests[m.request].business = b /\ InPeriod(p, m.at)}

\* Bug: a match belongs to the period its request changed in.
MatchesByRequest(b, p, w) ==
  {m \in matches : /\ requests[m.request].business = b
                   /\ InPeriod(p, requests[m.request].updatedAt)
                   /\ OnWallet(w, txns[m.txn].wallet)}

MatchesFor(b, p, w) ==
  {m \in matches : /\ requests[m.request].business = b
                   /\ InPeriod(p, m.at)
                   /\ OnWallet(w, txns[m.txn].wallet)}

ExceptionOnWallet(w, x) ==
  \/ w = Absent
  \/ exceptions[x].request # Absent /\ requests[exceptions[x].request].wallet = w
  \/ txns[exceptions[x].txn].wallet = w

\* Bug: a resolved exception counts in the period it was resolved in only.
ExceptionsByLastChange(b, p, w) ==
  {x \in ExceptionId :
     /\ exceptions[x] # Absent
     /\ exceptions[x].business = b
     /\ InPeriod(p, IF exceptions[x].resolvedAt = Absent
                      THEN exceptions[x].at ELSE exceptions[x].resolvedAt)
     /\ ExceptionOnWallet(w, x)}

ExceptionsFor(b, p, w) ==
  {x \in ExceptionId :
     /\ exceptions[x] # Absent
     /\ exceptions[x].business = b
     /\ \/ InPeriod(p, exceptions[x].at)
        \/ exceptions[x].resolvedAt # Absent /\ InPeriod(p, exceptions[x].resolvedAt)
     /\ ExceptionOnWallet(w, x)}

\* The first four statements of buildReconciliationReportLocked, without matches.
Selected(b, p, w) ==
  [txns |-> TxnsFor(b, p, w), requests |-> RequestsFor(b, p, w),
   exceptions |-> ExceptionsFor(b, p, w)]

\* findExceptionForReconciliationLocked: the exception about a request, about a
\* transaction, or about both.  There is at most one (EveryPaymentAccountedFor).
ExceptionAbout(r, t) ==
  LET xs == {x \in ExceptionId : /\ exceptions[x] # Absent
                                 /\ r = Absent \/ exceptions[x].request = r
                                 /\ t = Absent \/ exceptions[x].txn = t}
  IN  IF xs = {} THEN Absent ELSE CHOOSE x \in xs : TRUE

-------------------------------------------------------------------------------
(* buildReconciliationReportLocked *)

\* Bug: a resolved exception makes its row reconciled.
MatchRowOnceResolved(m) ==
  LET x == ExceptionAbout(m.request, m.txn)
  IN  [request |-> m.request, txn |-> m.txn, exception |-> x,
       status |-> IF (IF x = Absent THEN TRUE ELSE exceptions[x].status = "resolved")
                    THEN "reconciled" ELSE "exception"]

MatchRow(m) ==
  LET x == ExceptionAbout(m.request, m.txn)
  IN  [request |-> m.request, txn |-> m.txn, exception |-> x,
       status |-> IF m.status = "confirmed" /\ x = Absent
                    THEN "reconciled" ELSE "exception"]

UnmatchedRow(t) ==
  [request |-> Absent, txn |-> t, exception |-> ExceptionAbout(Absent, t),
   status |-> "unmatched"]

PendingRow(r) ==
  LET x == ExceptionAbout(r, Absent)
  IN  [request |-> r, txn |-> Absent, exception |-> x,
       status |-> IF x = Absent THEN "pending" ELSE "exception"]

\* Bug: a request has a row of its own only while it awaits payment.
RowsWhileAwaiting(b, p, w) ==
  LET ms == MatchesFor(b, p, w)
      awaiting == {r \in RequestsFor(b, p, w) : requests[r].status = "awaiting_payment"}
  IN  {MatchRow(m) : m \in ms}
        \cup {UnmatchedRow(t) : t \in TxnsFor(b, p, w) \ {m.txn : m \in ms}}
        \cup {PendingRow(r) : r \in awaiting}

\* One row per match, then one per transaction and one per request without one.
Rows(b, p, w) ==
  LET ms == MatchesFor(b, p, w)
      matchedTxns == {m.txn : m \in ms}
      matchedRequests == {m.request : m \in ms}
  IN  {MatchRow(m) : m \in ms}
        \cup {UnmatchedRow(t) : t \in TxnsFor(b, p, w) \ matchedTxns}
        \cup {PendingRow(r) : r \in RequestsFor(b, p, w) \ matchedRequests}

Received(ts) == MapThenSumSet(LAMBDA t : txns[t].evidence.amount, ts)

\* A sum is exact until it is printed with six decimals, halves away from zero.
formatRatAmount(value) ==
  LET rest == value % Precision
  IN  IF 2 * rest < Precision THEN value - rest ELSE value - rest + Precision

Snapshots(b, p, w) ==
  {LET ts == {t \in TxnsFor(b, p, w) : txns[t].wallet = v}
   IN  [wallet |-> v, inbound |-> formatRatAmount(Received(ts)), count |-> Cardinality(ts)] :
     v \in {v \in WalletId : OwnsWallet(b, v) /\ OnWallet(w, v)}}

TotalsFor(b, p, w) ==
  LET rs == RequestsFor(b, p, w)
      ts == TxnsFor(b, p, w)
      ms == MatchesFor(b, p, w)
      xs == ExceptionsFor(b, p, w)
      matched == Cardinality({m.txn : m \in ms})
  IN  [requests |-> Cardinality(rs),
       confirmed |-> Cardinality({r \in rs : requests[r].status = "confirmed"}),
       txns |-> Cardinality(ts), matched |-> matched,
       unmatched |-> Cardinality(ts) - matched,
       matches |-> Cardinality(ms),
       exceptions |-> Cardinality(xs),
       open |-> Cardinality({x \in xs : exceptions[x].status = "open"}),
       received |-> formatRatAmount(Received(ts))]

-------------------------------------------------------------------------------
(* Operations *)

ReconciliationInit ==
  /\ Init
  /\ runs = [n \in RunId |-> Absent]
  /\ exports = {}

CreateReconciliationRun(n, b, p, w) ==
  /\ runs[n] = Absent
  /\ w # Absent => OwnsWallet(b, w)
  /\ runs' = [runs EXCEPT ![n] =
       [business |-> b, period |-> p, wallet |-> w, at |-> clock,
        rows |-> Rows(b, p, w), snapshots |-> Snapshots(b, p, w),
        totals |-> TotalsFor(b, p, w), selected |-> Selected(b, p, w)]]
  /\ UNCHANGED <<vars, exports>>

\* The run's rows as they were.  Only a JSON export also has the exceptions of
\* the report, which are selected again.
renderSettlementExport(n, format) ==
  [run |-> n, format |-> format, rows |-> runs[n].rows,
   exceptions |-> IF format = "json"
                    THEN ExceptionsFor(runs[n].business, runs[n].period, runs[n].wallet)
                    ELSE {}]

\* A client that names no format asks for "csv"; another format is refused.
CreateExport(b, n, format) ==
  /\ runs[n] # Absent
  /\ runs[n].business = b
  /\ Cardinality(exports) < MaxExports
  /\ exports' = exports \cup {renderSettlementExport(n, format)}
  /\ UNCHANGED <<vars, runs>>

ReconciliationNext ==
  \/ Next /\ UNCHANGED <<runs, exports>>
  \/ \E n \in RunId, b \in Business :
       \/ \E p \in Period, w \in WalletId \cup {Absent} : CreateReconciliationRun(n, b, p, w)
       \/ \E format \in Format : CreateExport(b, n, format)

ReconciliationSpec == ReconciliationInit /\ [][ReconciliationNext]_allVars

-------------------------------------------------------------------------------
(* Properties *)

Made == {n \in RunId : runs[n] # Absent}

\* Runs and exports are records of their shape; in particular no total is
\* negative, though unmatched is a difference of two independent counts.
ReportTypeOK ==
  /\ runs \in [RunId -> Run \cup {Absent}]
  /\ exports \subseteq Export

\* The rows tell of the transactions that were selected, each in one row, and of
\* every request that was, each in one row, whatever became of it since; and the
\* totals computed from the tables agree with the rows.  (Rows may tell of more
\* requests than the total counts: the match is of the period, and the request
\* was made before it and resolved after it.)
RowsBalance(run) ==
  LET RowsWith(S) == Cardinality({row \in run.rows : row.status \in S})
      Paid == {row \in run.rows : row.txn # Absent}
      Asked == {row \in run.rows : row.request # Absent}
  IN  /\ {row.txn : row \in Paid} = run.selected.txns
      /\ run.totals.txns = Cardinality(Paid)
      /\ Cardinality({row.txn : row \in Paid}) = Cardinality(Paid)
      /\ run.selected.requests \subseteq {row.request : row \in Asked}
      /\ run.totals.requests <= Cardinality(Asked)
      /\ Cardinality({row.request : row \in Asked}) = Cardinality(Asked)
      /\ run.totals.unmatched = RowsWith({"unmatched"})
      /\ run.totals.matched = run.totals.matches
      /\ RowsWith({"reconciled"}) <= run.totals.matched

\* The totals agree with the wallet snapshots, which are computed apart: exactly
\* on the number of transactions; on what was received up to half a unit of the
\* last decimal for every amount printed, and exactly when no payment has more
\* decimals than are printed.
SnapshotsBalance(run) ==
  LET received == run.totals.received
      inbound == MapThenSumSet(LAMBDA s : s.inbound, run.snapshots)
      slack == Precision * (Cardinality(run.snapshots) + 1)
  IN  /\ run.totals.txns = MapThenSumSet(LAMBDA s : s.count, run.snapshots)
      /\ 2 * received <= 2 * inbound + slack
      /\ 2 * inbound <= 2 * received + slack
      /\ (\A t \in run.selected.txns : txns[t].evidence.amount % Precision = 0)
           => received = inbound

\* The books balance: no report drops a payment or a request or shows one twice,
\* and its totals, its rows and its snapshots say the same.  (It needs matches
\* and their transactions to carry one time and one wallet.)
BooksBalance == \A n \in Made : RowsBalance(runs[n]) /\ SnapshotsBalance(runs[n])

\* A row that was frozen as reconciled stays true for ever: its request is
\* confirmed, for exactly what the transaction paid, and no exception names it.
ReconciledIsFinal ==
  \A n \in Made :
    \A row \in runs[n].rows :
      row.status = "reconciled" =>
        /\ requests[row.request].status = "confirmed"
        /\ txns[row.txn].status = "matched_to_request"
        /\ txns[row.txn].evidence.amount = requests[row.request].amount
        /\ \A x \in ExceptionId :
             exceptions[x] # Absent =>
               exceptions[x].request # row.request /\ exceptions[x].txn # row.txn

\* A business that closes disjoint periods counts no payment twice: a row's
\* payment was detected in the run's period, and its match says so too, however
\* often the request has changed since.
PaymentsStayInPeriod ==
  \A n \in Made :
    \A row \in runs[n].rows :
      row.txn # Absent => InPeriod(runs[n].period, txns[row.txn].detectedAt)

\* No export loses what its run reports.  An exception that was opened in the
\* period and counted by the run is named by a row, so that even a CSV export
\* shows it; and a JSON export, which selects the exceptions again, has every one
\* that the run counted, resolved or not, because nothing leaves the selection.
\* (A CSV export does lose an exception that was counted because it was resolved
\* in the period, when its payment was detected in another one.)
ExportsKeepExceptions ==
  \A e \in exports :
    LET run == runs[e.run]
        opened == {x \in run.selected.exceptions : InPeriod(run.period, exceptions[x].at)}
    IN  /\ opened \subseteq {row.exception : row \in e.rows}
        /\ e.format = "json" => run.selected.exceptions \subseteq e.exceptions
===============================================================================
