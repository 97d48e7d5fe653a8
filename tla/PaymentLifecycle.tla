--------------------------- MODULE PaymentLifecycle ---------------------------
(***************************************************************************)
(* What the API promises about one payment request, without saying how     *)
(* wallets, evidence, clocks or concurrent calls get it there:             *)
(*                                                                         *)
(*   - a request is opened once and waits for a payment;                   *)
(*   - it is settled at most once, by one transaction that settles no      *)
(*     other request;                                                      *)
(*   - a settlement that is not an exact payment (underpaid, overpaid,     *)
(*     expired) can be closed by an operator, once, and nothing else can;  *)
(*   - a confirmed or manually resolved request never changes again.       *)
(*                                                                         *)
(* PaymentTruth implements it (PaymentTruth!Lifecycle).                    *)
(***************************************************************************)

CONSTANTS RequestId, TxnId

VARIABLES
  status,      \* status of every request id, "none" while it does not exist
  settlement   \* the pairs <<request, transaction>> settled so far

vars == <<status, settlement>>

\* Settlements an operator may close.
Disputed == {"underpaid", "overpaid", "expired"}

Status ==
  {"none", "awaiting_payment", "confirmed", "manually_resolved"} \cup Disputed

-------------------------------------------------------------------------------

Init ==
  /\ status = [r \in RequestId |-> "none"]
  /\ settlement = {}

Open(r) ==
  /\ status[r] = "none"
  /\ status' = [status EXCEPT ![r] = "awaiting_payment"]
  /\ UNCHANGED settlement

Settle(r, t) ==
  /\ status[r] = "awaiting_payment"
  /\ \A p \in settlement : p[1] # r /\ p[2] # t
  /\ \E outcome \in {"confirmed"} \cup Disputed :
       status' = [status EXCEPT ![r] = outcome]
  /\ settlement' = settlement \cup {<<r, t>>}

Resolve(r) ==
  /\ status[r] \in Disputed
  /\ status' = [status EXCEPT ![r] = "manually_resolved"]
  /\ UNCHANGED settlement

Next ==
  \E r \in RequestId :
    \/ Open(r)
    \/ \E t \in TxnId : Settle(r, t)
    \/ Resolve(r)

Spec == Init /\ [][Next]_vars

===============================================================================
