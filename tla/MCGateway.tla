------------------------------- MODULE MCGateway -------------------------------
(***************************************************************************)
(* A small instance of Gateway: two businesses, the second founded by a    *)
(* request; the first key of the first business, and a key it may create;  *)
(* an address without a key.  Two requests a window, or one by policy.     *)
(***************************************************************************)
EXTENDS Gateway, TLC

CONSTANTS b1, b2, k1, k2, k3, i1, e1, e2, h1, h2, h3, a1

Bearers == (h1 :> k1) @@ (h2 :> k2) @@ (h3 :> k3) @@ (a1 :> Absent)

Snapshot == (b1 :> [key |-> k1, owner |-> e1]) @@ (b2 :> Absent)

Sent ==
  {<<h1, [op |-> "UpdateSecurityPolicy", limit |-> 1]>>,
   <<h1, [op |-> "CreateAPIKey", scopes |-> {"users:read"}]>>,
   <<h1, [op |-> "RevokeAPIKey", key |-> k1]>>,
   <<h1, [op |-> "CreateIncident"]>>,
   <<h1, [op |-> "CreateBusiness", setupToken |-> TRUE, owner |-> e1]>>,
   <<h1, [op |-> "ResolveIncident", incident |-> i1]>>,
   <<a1, [op |-> "CreateBusiness", setupToken |-> TRUE, owner |-> e1]>>,
   <<h2, [op |-> "RevokeAPIKey", key |-> k1]>>,
   <<h2, [op |-> "CreateUser", email |-> e2]>>,
   <<h3, [op |-> "ListUsers"]>>,
   <<h3, [op |-> "CreateUser", email |-> e2]>>}

Symmetry == Permutations(Exchange)
===============================================================================
