----------------------------- MODULE UsageMetrics -----------------------------
(***************************************************************************)
(* The usage metrics of MemoryStore (usageMetricsLocked of                 *)
(* src/internal/core/store.go): counters that one pass over every table    *)
(* computes whenever they are read.  Nothing is kept, so what they say of  *)
(* each other rests on what the tables say of each other.                  *)
(*                                                                         *)
(* Left out: the counters of a table this model does not have (webhook     *)
(* deliveries, users, keys, partners, beta evidence) and those of wallets  *)
(* and exports, which have nothing to agree with.                          *)
(***************************************************************************)
EXTENDS Reconciliation

Own(table, b) == {i \in DOMAIN table : table[i] # Absent /\ table[i].business = b}

WithStatus(table, b, status) ==
  Cardinality({i \in Own(table, b) : table[i].status = status})

\* Every reconciled row of every run, also of runs that overlap.
ReconciledRows(b) ==
  UNION {{n} \X {row \in runs[n].rows : row.status = "reconciled"} : n \in Own(runs, b)}

\* Bug: disputed payments are counted by their matches.
MetricsByMatches(b) ==
  LET Disputed(outcome) ==
        Cardinality({m \in matches : requests[m.request].business = b /\ m.status = outcome})
  IN  [requests |-> Cardinality(Own(requests, b)),
       underpaid |-> Disputed("underpaid"),
       overpaid |-> Disputed("overpaid"),
       expired |-> Disputed("expired"),
       detected |-> Cardinality(Own(txns, b)),
       matched |-> WithStatus(txns, b, "matched_to_request"),
       orphan |-> WithStatus(txns, b, "orphan"),
       open |-> WithStatus(exceptions, b, "open"),
       resolved |-> WithStatus(exceptions, b, "resolved"),
       receipts |-> Cardinality({r \in Own(requests, b) : receipts[r] # {}}),
       runs |-> Cardinality(Own(runs, b)),
       reconciled |-> Cardinality(ReconciledRows(b))]

Metrics(b) ==
  [requests |-> Cardinality(Own(requests, b)),
   underpaid |-> WithStatus(requests, b, "underpaid"),
   overpaid |-> WithStatus(requests, b, "overpaid"),
   expired |-> WithStatus(requests, b, "expired"),
   detected |-> Cardinality(Own(txns, b)),
   matched |-> WithStatus(txns, b, "matched_to_request"),
   orphan |-> WithStatus(txns, b, "orphan"),
   open |-> WithStatus(exceptions, b, "open"),
   resolved |-> WithStatus(exceptions, b, "resolved"),
   receipts |-> Cardinality({r \in Own(requests, b) : receipts[r] # {}}),
   runs |-> Cardinality(Own(runs, b)),
   reconciled |-> Cardinality(ReconciledRows(b))]

\* The counters come from separate tables and agree with each other: each match
\* made one transaction matched; a disputed request stands for one open
\* exception and loses its counter when that is resolved; what was detected and
\* neither matched nor orphaned has its own exception or waits for finality;
\* every request has a receipt; and no run counts as reconciled a payment that is
\* not confirmed.
MetricsTellTheBooks ==
  \A b \in Business :
    LET m == Metrics(b)
        Exceptions(S) == {x \in Own(exceptions, b) : exceptions[x].type \in S}
        Open(S) == Cardinality({x \in Exceptions(S) : exceptions[x].status = "open"})
        confirmed == WithStatus(requests, b, "confirmed")
    IN  /\ m.matched = Cardinality({n \in matches : requests[n.request].business = b})
        /\ m.matched = confirmed + Cardinality(Exceptions(Outcome))
        /\ m.underpaid + m.overpaid + m.expired = Open(Outcome)
        /\ m.orphan = Cardinality(Exceptions({"orphan"}))
        /\ m.detected = m.matched + m.orphan
                          + Cardinality(Exceptions({"ambiguous_match"}))
                          + WithStatus(txns, b, "pending_finality")
        /\ m.open + m.resolved = m.detected - confirmed
                                   - WithStatus(txns, b, "pending_finality")
        /\ m.receipts = m.requests
        /\ m.reconciled <= m.runs * confirmed
===============================================================================
