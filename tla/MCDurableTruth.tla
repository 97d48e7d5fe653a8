---------------------------- MODULE MCDurableTruth ----------------------------
(***************************************************************************)
(* A small instance of DurableTruth: one caller, two requests on one       *)
(* wallet, one transfer that is exact for one of them and one that is      *)
(* exact for neither.                                                      *)
(***************************************************************************)
EXTENDS DurableTruth, TLC

CONSTANTS w1, owner, token, s1, s2

Transfer(s, amount) ==
  [signature |-> s, owner |-> owner, address |-> token, amount |-> amount,
   blockTime |-> Absent, final |-> TRUE]

Bodies == {[wallet |-> w1, amount |-> 2, expiresAt |-> 1],
           [wallet |-> w1, amount |-> 3, expiresAt |-> 1]}
Transfers == {Transfer(s1, 2), Transfer(s2, 1)}

\* Ids are random and interchangeable, and so are keys.
Symmetry ==
  Permutations(RequestId) \cup Permutations(TxnId) \cup Permutations(ExceptionId)
    \cup Permutations(IdemKey)
===============================================================================
