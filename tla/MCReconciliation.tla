--------------------------- MODULE MCReconciliation ---------------------------
(***************************************************************************)
(* A small instance of Reconciliation, with the usage metrics: one request *)
(* on the first of two wallets; a payment that is short for it, one that   *)
(* is exact, and one to the other wallet.  Two consecutive periods.  Three *)
(* units of amount make the last decimal: 4 + 4 is printed as 9, and each  *)
(* wallet's 4 as 3, while 9 is exact.                                      *)
(***************************************************************************)
EXTENDS UsageMetrics, TLC

CONSTANTS w1, w2, owner, other, s1, s2

Transfer(s, to, amount) ==
  [signature |-> s, owner |-> to, address |-> to, amount |-> amount,
   blockTime |-> Absent, final |-> TRUE]

Bodies == {[wallet |-> w1, amount |-> 9, expiresAt |-> 2]}
Transfers == {Transfer(s1, owner, 4), Transfer(s2, owner, 9), Transfer(s2, other, 4)}

Periods == {[from |-> 0, to |-> 1], [from |-> 1, to |-> 2]}

\* Ids are random and interchangeable.
Symmetry ==
  Permutations(TxnId) \cup Permutations(ExceptionId)
===============================================================================
