---------------------------- MODULE MCPrivateBeta ----------------------------
(***************************************************************************)
(* A small instance of PrivateBeta: two businesses, two partners, and two  *)
(* items of evidence, one of which a ready report takes of each kind.      *)
(***************************************************************************)
EXTENDS PrivateBeta, TLC

CONSTANTS w1, owner, s1, r1, t1, x1, p1

\* A payment that is short, so that there is an exception to resolve.
Bodies == {[wallet |-> w1, amount |-> 2, expiresAt |-> 1]}
Transfers ==
  {[signature |-> s1, owner |-> owner, address |-> owner, amount |-> 1,
    blockTime |-> Absent, final |-> TRUE]}

Item(partner, type, request, txn, exception) ==
  [partner |-> partner, type |-> type, request |-> request, txn |-> txn,
   exception |-> exception]

\* The commitments name a partner, a partner and a request, or nobody.
Items ==
  {Item(p1, "real_transaction", r1, t1, Absent),
   Item(Absent, "exception_case", Absent, Absent, x1),
   Item(p1, "pricing_commitment", Absent, Absent, Absent),
   Item(p1, "pricing_commitment", r1, Absent, Absent),
   Item(Absent, "pricing_commitment", Absent, Absent, Absent)}

Symmetry == Permutations(Business) \cup Permutations(BetaId)
===============================================================================
