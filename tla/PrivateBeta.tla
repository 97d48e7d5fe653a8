----------------------------- MODULE PrivateBeta ------------------------------
(***************************************************************************)
(* Design partners, beta evidence and the private beta report of           *)
(* MemoryStore (src/internal/core/store.go), over the payment tables of    *)
(* PaymentTruth that evidence refers to.  The report is computed when it   *)
(* is read; nothing of it is kept.                                         *)
(*                                                                         *)
(* Left out: times, which only order lists; agreed_to_test, testimonials   *)
(* and the other counters of the report that say nothing of readiness;     *)
(* calls that are refused before they change anything.                     *)
(***************************************************************************)
EXTENDS PaymentTruth, FiniteSets

CONSTANTS
  PartnerId,       \* ids newID("dsp") can return
  BetaId,          \* ids newID("bev") can return
  PartnerStatus,   \* statuses clients give a partner
  BetaInput,       \* bodies of POST /v1/beta-evidence
  OnboardedGoal,   \* 5 in the code
  TransactionGoal, \* 2
  CommitmentGoal   \* 1

BetaType ==
  {"real_transaction", "exception_case", "testimonial", "pricing_commitment",
   "workflow_pain", "integration_request"}

BetaBody ==
  [partner : PartnerId \cup {Absent}, type : BetaType, request : RequestId \cup {Absent},
   txn : TxnId \cup {Absent}, exception : ExceptionId \cup {Absent}]

ASSUME BetaAssumption ==
  /\ PartnerStatus \subseteq
       {"prospect", "invited", "onboarding", "active", "paused", "churned"}
  /\ BetaInput \subseteq BetaBody
  /\ OnboardedGoal \in Nat /\ TransactionGoal \in Nat /\ CommitmentGoal \in Nat
  /\ IsFiniteSet(PartnerId) /\ IsFiniteSet(BetaId)

VARIABLES
  partners,     \* s.designPartners
  betaEvidence  \* s.betaEvidence

betaVars == <<vars, partners, betaEvidence>>

Partner == [business : Business, status : PartnerStatus, commitment : BOOLEAN]
BetaItem == [business : Business, body : BetaInput]

\* A partner has fields Absent lacks; the proofs need it spelled out.
ASSUME PartnerAssumption == Absent \notin Partner

-------------------------------------------------------------------------------
(* The report *)

PartnersOf(b) == {p \in PartnerId : partners[p] # Absent /\ partners[p].business = b}

ItemsOf(b, type) ==
  {e \in BetaId : /\ betaEvidence[e] # Absent
                  /\ betaEvidence[e].business = b
                  /\ betaEvidence[e].body.type = type}

Onboarded(b) == {p \in PartnersOf(b) : partners[p].status \in {"onboarding", "active"}}

\* An item need not name a transaction to make its partner count.
PartnersWithTransactions(b) ==
  {betaEvidence[e].body.partner : e \in ItemsOf(b, "real_transaction")} \ {Absent}

\* Bug: a case counts while its exception is open.
OpenExceptionCases(b) ==
  {e \in ItemsOf(b, "exception_case") :
     LET x == betaEvidence[e].body.exception
     IN  IF x = Absent THEN TRUE ELSE exceptions[x].status = "open"}

ExceptionCases(b) == ItemsOf(b, "exception_case")

\* Partners that committed, and commitments that name no partner.
PricingCommitments(b) ==
  Cardinality({p \in PartnersOf(b) : partners[p].commitment})
    + Cardinality({e \in ItemsOf(b, "pricing_commitment") :
                     betaEvidence[e].body.partner = Absent})

RemainingNeeded(goal, actual) == IF actual >= goal THEN 0 ELSE goal - actual

ReadyForPrivateBetaEvidence(b) ==
  /\ RemainingNeeded(OnboardedGoal, Cardinality(Onboarded(b))) = 0
  /\ RemainingNeeded(TransactionGoal, Cardinality(PartnersWithTransactions(b))) = 0
  /\ RemainingNeeded(CommitmentGoal, PricingCommitments(b)) = 0
  /\ ExceptionCases(b) # {}

-------------------------------------------------------------------------------
(* Operations *)

CreateDesignPartner(p, b, status, commitment) ==
  /\ partners[p] = Absent
  /\ partners' = [partners EXCEPT ![p] =
       [business |-> b, status |-> status, commitment |-> commitment]]
  /\ UNCHANGED <<vars, betaEvidence>>

\* A field that is Absent is left as it is.
UpdateDesignPartner(b, p, status, commitment) ==
  /\ p \in PartnersOf(b)
  /\ partners' = [partners EXCEPT
       ![p].status = IF status = Absent THEN @ ELSE status,
       ![p].commitment = IF commitment = Absent THEN @ ELSE commitment]
  /\ UNCHANGED <<vars, betaEvidence>>

\* Bug: the business is not compared.
Exists(table, id, b) == id # Absent => table[id] # Absent

\* A reference is left empty or names a record of the business.
Refers(table, id, b) ==
  id # Absent => table[id] # Absent /\ table[id].business = b

ReferencesHold(b, body) ==
  /\ Refers(requests, body.request, b)
  /\ Refers(txns, body.txn, b)
  /\ Refers(exceptions, body.exception, b)

\* Evidence of a commitment makes its partner one that committed.
Commit(body) ==
  IF body.type = "pricing_commitment" /\ body.partner # Absent
    THEN partners' = [partners EXCEPT ![body.partner].commitment = TRUE]
    ELSE UNCHANGED partners

CreateBetaEvidence(e, b, body) ==
  /\ betaEvidence[e] = Absent
  /\ Refers(partners, body.partner, b)
  /\ ReferencesHold(b, body)
  /\ Commit(body)
  /\ betaEvidence' = [betaEvidence EXCEPT ![e] = [business |-> b, body |-> body]]
  /\ UNCHANGED vars

\* The partner is looked up and written before the other references are: a call
\* that is answered 404 may have changed it.
RefuseBetaEvidence(b, body) ==
  /\ Refers(partners, body.partner, b)
  /\ ~ReferencesHold(b, body)
  /\ Commit(body)
  /\ UNCHANGED <<vars, betaEvidence>>

BetaInit ==
  /\ Init
  /\ partners = [p \in PartnerId |-> Absent]
  /\ betaEvidence = [e \in BetaId |-> Absent]

BetaNext ==
  \/ Next /\ UNCHANGED <<partners, betaEvidence>>
  \/ \E b \in Business :
       \/ \E p \in PartnerId :
            \/ \E s \in PartnerStatus, c \in BOOLEAN : CreateDesignPartner(p, b, s, c)
            \/ \E s \in PartnerStatus \cup {Absent}, c \in BOOLEAN \cup {Absent} :
                 UpdateDesignPartner(b, p, s, c)
       \/ \E body \in BetaInput :
            \/ \E e \in BetaId : CreateBetaEvidence(e, b, body)
            \/ RefuseBetaEvidence(b, body)

BetaSpec == BetaInit /\ [][BetaNext]_betaVars

-------------------------------------------------------------------------------
(* Properties *)

\* Partners and evidence are records of their shape, and whatever an item names
\* exists and is its business's: references are checked once, and no later call,
\* of this business or of another, deletes what they name or gives it away.
EvidenceRefersToOwn ==
  /\ partners \in [PartnerId -> Partner \cup {Absent}]
  /\ betaEvidence \in [BetaId -> BetaItem \cup {Absent}]
  /\ \A e \in BetaId :
       betaEvidence[e] # Absent =>
         LET b == betaEvidence[e].business
             body == betaEvidence[e].body
             Named(id, table) ==
               id = Absent \/ (table[id] # Absent /\ table[id].business = b)
         IN  /\ Named(body.partner, partners)
             /\ Named(body.request, requests)
             /\ Named(body.txn, txns)
             /\ Named(body.exception, exceptions)

\* A business that met its evidence target falls behind it again only by its own
\* update of a partner that takes back a commitment or the onboarding; payments,
\* resolutions, new evidence, refused evidence and other businesses' calls do not
\* undo it.
ReadinessIsLostByUpdatesOnly ==
  [][\A b \in Business :
       ReadyForPrivateBetaEvidence(b) /\ ~ReadyForPrivateBetaEvidence(b)' =>
         /\ \E p \in PartnersOf(b) :
              \/ p \in Onboarded(b) /\ p \notin Onboarded(b)'
              \/ partners[p].commitment /\ ~partners'[p].commitment
         /\ UNCHANGED <<store, betaEvidence>>]_betaVars
===============================================================================
