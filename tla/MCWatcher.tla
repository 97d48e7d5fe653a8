------------------------------ MODULE MCWatcher ------------------------------
(***************************************************************************)
(* A small instance of Watcher: one wallet, one invoice, and a chain that  *)
(* may come to hold an exact payment, one that pays twice, one that moves  *)
(* nothing, one in another token, and one that failed.                     *)
(***************************************************************************)
EXTENDS Watcher

CONSTANTS w1, owner, s1, s2, s3

-------------------------------------------------------------------------------
(* The chain *)

\* One address is owner and token account, since the lookup takes either.
ToOwner(amount, usdc) ==
  [owner |-> owner, address |-> owner, amount |-> amount, usdc |-> usdc]

Transaction(s, failed, transfers) ==
  [signature |-> s, failed |-> failed, transfers |-> transfers]

Exact == Transaction(s1, FALSE, <<ToOwner(2, TRUE)>>)
Twice == Transaction(s2, FALSE, <<ToOwner(2, TRUE), ToOwner(1, TRUE)>>)
Nothing == Transaction(s3, FALSE, <<ToOwner(0, TRUE)>>)
WrongToken == Transaction(s3, FALSE, <<ToOwner(2, FALSE)>>)
Failed == Transaction(s3, TRUE, <<ToOwner(2, TRUE)>>)

Transactions == {Exact, Twice, Nothing, WrongToken}
WithFailed == Transactions \cup {Failed}

-------------------------------------------------------------------------------
(* Inputs of the API *)

Bodies == {[wallet |-> w1, amount |-> 2, expiresAt |-> 1]}

\* All evidence the watcher could make of these transactions.
AllEvidence ==
  {[signature |-> s, owner |-> owner, address |-> owner, amount |-> amount,
    blockTime |-> time, final |-> TRUE] :
     s \in Signature, amount \in 0 .. 2, time \in 0 .. MaxTime}
===============================================================================
