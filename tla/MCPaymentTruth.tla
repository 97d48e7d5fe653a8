---------------------------- MODULE MCPaymentTruth ----------------------------
(***************************************************************************)
(* Small instances of PaymentTruth for TLC.  Times 0..2; a request that    *)
(* expires at 1 can be paid in time, late, or late by the clock with a     *)
(* block time in time.                                                     *)
(***************************************************************************)
EXTENDS PaymentTruth, TLC

CONSTANTS w1, w2, owner, token, other, s1, s2

-------------------------------------------------------------------------------
(* Inputs *)

Transfer(s, to, tokenAccount, amount, blockTime, final) ==
  [signature |-> s, owner |-> to, address |-> tokenAccount, amount |-> amount,
   blockTime |-> blockTime, final |-> final]

Invoice(w, amount, expiresAt) ==
  [wallet |-> w, amount |-> amount, expiresAt |-> expiresAt]

\* Two invoices on one wallet, with different amounts and expiries, so that a
\* payment can be exact, short, over, late or ambiguous.
OneWalletBodies == {Invoice(w1, 2, 1), Invoice(w1, 3, 2)}
\* s1 pays 2 and is first seen before it is final; s2 pays 3 and has a block time.
\* One address is owner and token account, since the lookup takes either.
OneWalletEvidence ==
  {Transfer(s1, owner, owner, 2, Absent, FALSE),
   Transfer(s1, owner, owner, 2, Absent, TRUE),
   Transfer(s2, owner, owner, 3, 1, TRUE)}

\* Invoices on two wallets, one registered by owner and one by token account:
\* evidence that names both may be booked on either.
TwoWalletBodies == {Invoice(w1, 2, 1), Invoice(w2, 2, 2)}
TwoWalletEvidence ==
  {Transfer(s1, owner, token, 2, 0, TRUE),
   Transfer(s1, other, token, 2, Absent, TRUE)}

-------------------------------------------------------------------------------
(* Ids are random and interchangeable, and so are callers, keys and businesses. *)

Symmetry ==
  Permutations(RequestId) \cup Permutations(TxnId) \cup Permutations(ExceptionId)
    \cup Permutations(Caller) \cup Permutations(IdemKey) \cup Permutations(Business)
===============================================================================
