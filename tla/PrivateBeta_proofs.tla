-------------------------- MODULE PrivateBeta_proofs --------------------------
(***************************************************************************)
(* Design partners and beta evidence, for all constants: what evidence     *)
(* names stays its business's, and readiness is never lost by accident.    *)
(***************************************************************************)
EXTENDS PrivateBeta, PaymentTruth_proofs, FiniteSetTheorems

-------------------------------------------------------------------------------
(* Partners *)

\* No partner is deleted or given to another business.
PartnersStay ==
  \A p \in PartnerId :
    partners[p] # Absent =>
      partners'[p] # Absent /\ partners'[p].business = partners[p].business

PartnersOK == partners \in [PartnerId -> Partner \cup {Absent}]

\* A commitment is written down without touching anything else of a partner.
LEMMA CommitKeepsPartners ==
  ASSUME PartnersOK, NEW b \in Business, NEW body \in BetaInput,
         Refers(partners, body.partner, b), Commit(body)
  PROVE  PartnersOK' /\ PartnersStay
<1>1. body \in BetaBody
  BY BetaAssumption
<1>2. CASE UNCHANGED partners
  BY <1>2 DEF PartnersOK, PartnersStay
<1>3. ASSUME body.partner # Absent,
             partners' = [partners EXCEPT ![body.partner].commitment = TRUE]
      PROVE  PartnersOK' /\ PartnersStay
  <2>1. PICK p \in PartnerId : p = body.partner
    BY <1>1, <1>3 DEF BetaBody
  <2>2. partners[p] \in Partner
    BY <2>1, <1>3 DEF Refers, PartnersOK
  <2>3. [partners[p] EXCEPT !.commitment = TRUE] \in Partner
    BY <2>2 DEF Partner
  <2>4. partners' = [partners EXCEPT ![p] = [partners[p] EXCEPT !.commitment = TRUE]]
    BY <1>3, <2>1
  <2>5. [partners[p] EXCEPT !.commitment = TRUE].business = partners[p].business
    BY <2>2 DEF Partner
  <2>6. QED
    BY <2>2, <2>3, <2>4, <2>5, PartnerAssumption DEF PartnersOK, PartnersStay
<1>4. QED
  BY <1>2, <1>3 DEF Commit

\* An update changes at most the status and the commitment of its partner.
LEMMA UpdateKeepsPartners ==
  ASSUME PartnersOK, NEW b \in Business, NEW p \in PartnerId,
         NEW s \in PartnerStatus \cup {Absent}, NEW c \in BOOLEAN \cup {Absent},
         UpdateDesignPartner(b, p, s, c)
  PROVE  PartnersOK' /\ PartnersStay
<1>1. partners[p] \in Partner
  BY DEF UpdateDesignPartner, PartnersOf, PartnersOK
<1> DEFINE new == [partners[p] EXCEPT
             !.status = IF s = Absent THEN @ ELSE s,
             !.commitment = IF c = Absent THEN @ ELSE c]
<1>2. new \in Partner
  BY <1>1 DEF Partner
<1>3. new.business = partners[p].business
  BY <1>1 DEF Partner
<1>4. partners' = [partners EXCEPT ![p] = new]
  BY <1>1 DEF UpdateDesignPartner, PartnersOK, Partner
<1> HIDE DEF new
<1>5. QED
  BY <1>1, <1>2, <1>3, <1>4, PartnerAssumption DEF PartnersOK, PartnersStay

-------------------------------------------------------------------------------
(* Evidence *)

\* What one item names exists and is its business's.
NamesOwn(item) ==
  /\ Refers(partners, item.body.partner, item.business)
  /\ Refers(requests, item.body.request, item.business)
  /\ Refers(txns, item.body.txn, item.business)
  /\ Refers(exceptions, item.body.exception, item.business)

EvidenceOK == betaEvidence \in [BetaId -> BetaItem \cup {Absent}]

BetaInv ==
  /\ PartnersOK
  /\ EvidenceOK
  /\ \A e \in BetaId : betaEvidence[e] # Absent => NamesOwn(betaEvidence[e])

\* Whatever the business does about its beta, the payment tables only ever take
\* the steps of PaymentTruth, so that all its theorems hold here.
LEMMA BetaStepsArePaymentSteps ==
  ASSUME [BetaNext]_betaVars
  PROVE  [Next]_vars
BY DEF BetaNext, betaVars, CreateDesignPartner, UpdateDesignPartner,
       CreateBetaEvidence, RefuseBetaEvidence

\* Calls about design partners and beta evidence implement PaymentTruth: the
\* payment operations cannot tell whether anyone makes them.
THEOREM BetaLeavesPaymentsAlone == BetaSpec => Spec
<1>1. BetaInit => Init
  BY DEF BetaInit
<1>2. [BetaNext]_betaVars => [Next]_vars
  BY BetaStepsArePaymentSteps
<1>3. QED
  BY <1>1, <1>2, PTL DEF BetaSpec, Spec

\* What is named stays: no payment call and no call about partners deletes a
\* row or gives it to another business.
LEMMA NamesStay ==
  ASSUME NEW item \in BetaItem, NamesOwn(item), TypeOK, RowsStay, PartnersStay
  PROVE  NamesOwn(item)'
<1>1. item.body \in BetaBody
  BY BetaAssumption DEF BetaItem
<1>2. Refers(partners, item.body.partner, item.business)'
  BY <1>1 DEF NamesOwn, Refers, PartnersStay, BetaBody
<1>3. Refers(requests, item.body.request, item.business)'
  BY <1>1, AbsentAssumption DEF NamesOwn, Refers, RowsStay, SameTerms, BetaBody
<1>4. Refers(txns, item.body.txn, item.business)'
  BY <1>1 DEF NamesOwn, Refers, RowsStay, BetaBody
<1>5. Refers(exceptions, item.body.exception, item.business)'
  BY <1>1, AbsentAssumption DEF NamesOwn, Refers, RowsStay, SameCase, BetaBody
<1>6. QED
  BY <1>2, <1>3, <1>4, <1>5 DEF NamesOwn

\* Partners stay whatever the step.
LEMMA StepKeepsPartners ==
  ASSUME PartnersOK, [BetaNext]_betaVars
  PROVE  PartnersOK' /\ PartnersStay
<1>1. CASE UNCHANGED partners
  BY <1>1 DEF PartnersOK, PartnersStay
<1>2. ASSUME NEW b \in Business, NEW p \in PartnerId, NEW s \in PartnerStatus,
             NEW c \in BOOLEAN, CreateDesignPartner(p, b, s, c)
      PROVE  PartnersOK' /\ PartnersStay
  <2>1. [business |-> b, status |-> s, commitment |-> c] \in Partner
    BY DEF Partner
  <2>2. QED
    BY <1>2, <2>1 DEF CreateDesignPartner, PartnersOK, PartnersStay
<1>3. ASSUME NEW b \in Business, NEW body \in BetaInput,
             Refers(partners, body.partner, b), Commit(body)
      PROVE  PartnersOK' /\ PartnersStay
  BY <1>3, CommitKeepsPartners
<1>4. QED
  BY <1>1, <1>2, <1>3, UpdateKeepsPartners
     DEF BetaNext, betaVars, CreateBetaEvidence, RefuseBetaEvidence

\* New evidence names what is its business's, and so it stays.
LEMMA BetaInvStep ==
  ASSUME TypeOK, NoDanglingId, BetaInv, [BetaNext]_betaVars
  PROVE  BetaInv'
<1>1. RowsStay
  BY BetaStepsArePaymentSteps, StepKeepsRows
<1>2. PartnersOK' /\ PartnersStay
  BY StepKeepsPartners DEF BetaInv
<1>3. ASSUME NEW e \in BetaId, betaEvidence[e] # Absent
      PROVE  NamesOwn(betaEvidence[e])'
             \/ betaEvidence'[e] # betaEvidence[e]
  <2>1. PICK item \in BetaItem : item = betaEvidence[e]
    BY <1>3 DEF BetaInv, EvidenceOK
  <2>2. NamesOwn(item)'
    BY <1>1, <1>2, <1>3, <2>1, NamesStay DEF BetaInv
  <2>3. QED
    BY <2>1, <2>2 DEF NamesOwn
<1>4. CASE UNCHANGED betaEvidence
  BY <1>2, <1>3, <1>4 DEF BetaInv, EvidenceOK
<1>5. ASSUME NEW e \in BetaId, NEW b \in Business, NEW body \in BetaInput,
             CreateBetaEvidence(e, b, body)
      PROVE  BetaInv'
  <2>1. PICK item \in BetaItem : item = [business |-> b, body |-> body]
    BY DEF BetaItem
  <2>2. NamesOwn(item)'
    <3>1. NamesOwn(item)
      BY <1>5, <2>1 DEF CreateBetaEvidence, ReferencesHold, NamesOwn
    <3>2. QED
      BY <3>1, <1>1, <1>2, NamesStay
  <2>3. betaEvidence' = [betaEvidence EXCEPT ![e] = item]
    BY <1>5, <2>1 DEF CreateBetaEvidence
  <2>4. EvidenceOK' /\ betaEvidence'[e] = item
        /\ \A d \in BetaId \ {e} : betaEvidence'[d] = betaEvidence[d]
    BY <2>3 DEF BetaInv, EvidenceOK
  <2>5. NamesOwn(betaEvidence[e])'
    BY <2>2, <2>4 DEF NamesOwn
  <2>6. QED
    BY <1>2, <1>3, <2>4, <2>5 DEF BetaInv
<1>6. QED
  BY <1>4, <1>5
     DEF BetaNext, betaVars, CreateDesignPartner, UpdateDesignPartner, RefuseBetaEvidence

\* A store that was just created names nothing.
LEMMA BetaInvInit == BetaInit => BetaInv
BY DEF BetaInit, BetaInv, PartnersOK, EvidenceOK

\* For any interleaving of payment calls with calls about partners and evidence,
\* evidence names only what exists and is its business's.
THEOREM EvidenceStaysOwn == BetaSpec => []EvidenceRefersToOwn
<1>1. IInv /\ BetaInv /\ [BetaNext]_betaVars => BetaInv'
  BY BetaInvStep DEF IInv
<1>2. BetaInv => EvidenceRefersToOwn
  BY DEF BetaInv, PartnersOK, EvidenceOK, NamesOwn, Refers, EvidenceRefersToOwn
<1>3. QED
  BY BetaLeavesPaymentsAlone, Inductive, BetaInvInit, <1>1, <1>2, PTL DEF BetaSpec

-------------------------------------------------------------------------------
(* Readiness *)

Committed(b) == {p \in PartnersOf(b) : partners[p].commitment}

Unnamed(b) ==
  {e \in ItemsOf(b, "pricing_commitment") : betaEvidence[e].body.partner = Absent}

\* Nothing that business b's readiness counts gets lost.
NothingLost(b) ==
  /\ Onboarded(b) \subseteq Onboarded(b)'
  /\ Committed(b) \subseteq Committed(b)'
  /\ PartnersWithTransactions(b) \subseteq PartnersWithTransactions(b)'
  /\ Unnamed(b) \subseteq Unnamed(b)'
  /\ ExceptionCases(b) \subseteq ExceptionCases(b)'

\* A larger set meets a goal that a smaller one meets.
LEMMA LargerMeetsGoal ==
  ASSUME NEW T, IsFiniteSet(T), NEW S \in SUBSET T
  PROVE  /\ Cardinality(S) \in Nat /\ Cardinality(T) \in Nat
         /\ Cardinality(S) <= Cardinality(T)
BY FS_Subset, FS_CardinalityType

CountsIds ==
  \A b \in Business :
    /\ Onboarded(b) \subseteq PartnerId /\ Committed(b) \subseteq PartnerId
    /\ PartnersWithTransactions(b) \subseteq PartnerId
    /\ Unnamed(b) \subseteq BetaId

\* What readiness counts are ids of partners and of evidence.
LEMMA CountedAreIds == EvidenceOK => CountsIds
<1> SUFFICES ASSUME EvidenceOK, NEW b \in Business
             PROVE  /\ Onboarded(b) \subseteq PartnerId /\ Committed(b) \subseteq PartnerId
                    /\ PartnersWithTransactions(b) \subseteq PartnerId
                    /\ Unnamed(b) \subseteq BetaId
  BY DEF CountsIds
<1>1. Onboarded(b) \subseteq PartnerId /\ Committed(b) \subseteq PartnerId
  BY DEF Onboarded, Committed, PartnersOf
<1>2. Unnamed(b) \subseteq BetaId
  BY DEF Unnamed, ItemsOf
<1>3. ASSUME NEW e \in BetaId, betaEvidence[e] # Absent
      PROVE  betaEvidence[e].body.partner \in PartnerId \cup {Absent}
  <2>1. betaEvidence[e].body \in BetaBody
    BY <1>3, BetaAssumption DEF EvidenceOK, BetaItem
  <2>2. QED
    BY <2>1 DEF BetaBody
<1>4. PartnersWithTransactions(b) \subseteq PartnerId
  BY <1>3 DEF PartnersWithTransactions, ItemsOf
<1>5. QED
  BY <1>1, <1>2, <1>4

\* A business that loses nothing stays ready.
LEMMA NothingLostStaysReady ==
  ASSUME EvidenceOK', NEW b \in Business, NothingLost(b), ReadyForPrivateBetaEvidence(b)
  PROVE  ReadyForPrivateBetaEvidence(b)'
<1>1. CountsIds'
  BY CountedAreIds, PTL
<1>2. /\ IsFiniteSet(Onboarded(b)') /\ IsFiniteSet(Committed(b)')
      /\ IsFiniteSet(PartnersWithTransactions(b)') /\ IsFiniteSet(Unnamed(b)')
  BY <1>1, BetaAssumption, FS_Subset DEF CountsIds
<1>3. /\ Cardinality(Onboarded(b)) \in Nat
      /\ Cardinality(Onboarded(b)') \in Nat
      /\ Cardinality(Onboarded(b)) <= Cardinality(Onboarded(b)')
  BY <1>2, LargerMeetsGoal DEF NothingLost
<1>4. /\ Cardinality(Committed(b)) \in Nat
      /\ Cardinality(Committed(b)') \in Nat
      /\ Cardinality(Committed(b)) <= Cardinality(Committed(b)')
  BY <1>2, LargerMeetsGoal DEF NothingLost
<1>5. /\ Cardinality(PartnersWithTransactions(b)) \in Nat
      /\ Cardinality(PartnersWithTransactions(b)') \in Nat
      /\ Cardinality(PartnersWithTransactions(b))
           <= Cardinality(PartnersWithTransactions(b)')
  BY <1>2, LargerMeetsGoal DEF NothingLost
<1>6. /\ Cardinality(Unnamed(b)) \in Nat
      /\ Cardinality(Unnamed(b)') \in Nat
      /\ Cardinality(Unnamed(b)) <= Cardinality(Unnamed(b)')
  BY <1>2, LargerMeetsGoal DEF NothingLost
<1>7. /\ PricingCommitments(b) = Cardinality(Committed(b)) + Cardinality(Unnamed(b))
      /\ PricingCommitments(b)' = Cardinality(Committed(b)') + Cardinality(Unnamed(b)')
  BY DEF PricingCommitments, Committed, Unnamed
<1>8. ExceptionCases(b)' # {}
  BY DEF NothingLost, ReadyForPrivateBetaEvidence
<1>9. PricingCommitments(b) \in Nat /\ PricingCommitments(b)' \in Nat
      /\ PricingCommitments(b) <= PricingCommitments(b)'
  BY <1>4, <1>6, <1>7
<1>10. QED
  BY <1>3, <1>5, <1>8, <1>9, BetaAssumption
     DEF ReadyForPrivateBetaEvidence, RemainingNeeded

\* Partners of b stay, with their onboarding and their commitment.
PartnersGain(b) ==
  \A p \in PartnersOf(b) :
    /\ p \in PartnersOf(b)'
    /\ partners[p].status \in {"onboarding", "active"} =>
         partners'[p].status \in {"onboarding", "active"}
    /\ partners[p].commitment => partners'[p].commitment

EvidenceStays ==
  \A e \in BetaId : betaEvidence[e] # Absent => betaEvidence'[e] = betaEvidence[e]

\* Every figure of a business's readiness counts partners or evidence, so it is
\* lost only with one of them.
LEMMA GainsLoseNothing ==
  ASSUME NEW b \in Business, PartnersGain(b), EvidenceStays
  PROVE  NothingLost(b)
<1>1. Onboarded(b) \subseteq Onboarded(b)'
  BY DEF PartnersGain, Onboarded
<1>2. Committed(b) \subseteq Committed(b)'
  BY Zenon DEF PartnersGain, Committed
<1>3. \A type : \A e \in ItemsOf(b, type) :
        e \in ItemsOf(b, type)' /\ betaEvidence'[e] = betaEvidence[e]
  BY DEF EvidenceStays, ItemsOf
<1>4. \A e \in ItemsOf(b, "real_transaction") :
        e \in ItemsOf(b, "real_transaction")' /\ betaEvidence'[e] = betaEvidence[e]
  BY <1>3
<1>5. PartnersWithTransactions(b) \subseteq PartnersWithTransactions(b)'
  BY <1>4 DEF PartnersWithTransactions
<1>6. Unnamed(b) \subseteq Unnamed(b)'
  BY <1>3 DEF Unnamed
<1>7. ExceptionCases(b) \subseteq ExceptionCases(b)'
  BY <1>3 DEF ExceptionCases
<1>8. QED
  BY <1>1, <1>2, <1>5, <1>6, <1>7 DEF NothingLost

\* A commitment that evidence brings takes nothing from any partner.
LEMMA CommitGains ==
  ASSUME PartnersOK, NEW body \in BetaInput, Commit(body), PartnersStay,
         NEW b \in Business
  PROVE  PartnersGain(b)
<1> SUFFICES ASSUME NEW p \in PartnersOf(b)
             PROVE  /\ p \in PartnersOf(b)'
                    /\ partners[p].status \in {"onboarding", "active"} =>
                         partners'[p].status \in {"onboarding", "active"}
                    /\ partners[p].commitment => partners'[p].commitment
  BY DEF PartnersGain
<1>1. p \in PartnerId /\ partners[p] \in Partner /\ partners[p] # Absent
  BY DEF PartnersOf, PartnersOK
<1>2. p \in PartnersOf(b)'
  BY <1>1 DEF PartnersStay, PartnersOf
<1>3. CASE partners'[p] = partners[p]
  BY <1>2, <1>3, Zenon
<1>4. CASE partners'[p] = [partners[p] EXCEPT !.commitment = TRUE]
  <2>1. partners'[p].status = partners[p].status /\ partners'[p].commitment = TRUE
    BY <1>1, <1>4 DEF Partner
  <2>2. QED
    BY <1>2, <2>1, Zenon
<1>5. QED
  BY <1>1, <1>3, <1>4 DEF Commit, PartnersOK

\* Whoever takes a step, a business that stops being ready was changed by its own
\* update of a partner.
LEMMA ReadinessStep ==
  ASSUME PartnersOK, EvidenceOK, EvidenceOK', [BetaNext]_betaVars, NEW b \in Business,
         ReadyForPrivateBetaEvidence(b), ~ReadyForPrivateBetaEvidence(b)'
  PROVE  /\ \E p \in PartnersOf(b) :
              \/ p \in Onboarded(b) /\ p \notin Onboarded(b)'
              \/ partners[p].commitment /\ ~partners'[p].commitment
         /\ UNCHANGED <<store, betaEvidence>>
<1>1. ~NothingLost(b)
  BY NothingLostStaysReady
<1>2. EvidenceStays => ~PartnersGain(b)
  BY <1>1, GainsLoseNothing
<1>3. PartnersStay
  BY StepKeepsPartners
<1>4. CASE UNCHANGED <<partners, betaEvidence>>
  <2>1. EvidenceStays
    BY <1>4 DEF EvidenceStays
  <2>2. PartnersGain(b)
    BY <1>4, Zenon DEF PartnersGain, PartnersOf
  <2>3. QED
    BY <1>2, <2>1, <2>2
<1>5. ASSUME NEW d \in Business, NEW p \in PartnerId, NEW s \in PartnerStatus,
             NEW c \in BOOLEAN, CreateDesignPartner(p, d, s, c)
      PROVE  FALSE
  <2>1. EvidenceStays
    BY <1>5 DEF EvidenceStays, CreateDesignPartner
  <2>2. \A q \in PartnersOf(b) : q \in PartnerId /\ partners'[q] = partners[q]
    BY <1>5 DEF CreateDesignPartner, PartnersOf, PartnersOK
  <2>3. \A q \in PartnersOf(b) : q \in PartnersOf(b)'
    BY <2>2 DEF PartnersOf
  <2>4. PartnersGain(b)
    BY <2>2, <2>3, Zenon DEF PartnersGain
  <2>5. QED
    BY <1>2, <2>1, <2>4
<1>6. ASSUME NEW d \in Business, NEW body \in BetaInput, Commit(body), EvidenceStays
      PROVE  FALSE
  BY <1>2, <1>3, <1>6, CommitGains
<1>7. ASSUME NEW d \in Business, NEW e \in BetaId, NEW body \in BetaInput,
             CreateBetaEvidence(e, d, body)
      PROVE  FALSE
  <2>1. EvidenceStays
    BY <1>7 DEF CreateBetaEvidence, EvidenceStays, EvidenceOK
  <2>2. QED
    BY <1>6, <1>7, <2>1 DEF CreateBetaEvidence
<1>8. ASSUME NEW d \in Business, NEW body \in BetaInput, RefuseBetaEvidence(d, body)
      PROVE  FALSE
  <2>1. EvidenceStays
    BY <1>8 DEF RefuseBetaEvidence, EvidenceStays
  <2>2. QED
    BY <1>6, <1>8, <2>1 DEF RefuseBetaEvidence
<1>9. ASSUME NEW d \in Business, NEW p \in PartnerId, NEW s \in PartnerStatus \cup {Absent},
             NEW c \in BOOLEAN \cup {Absent}, UpdateDesignPartner(d, p, s, c)
      PROVE  /\ \E q \in PartnersOf(b) :
                  \/ q \in Onboarded(b) /\ q \notin Onboarded(b)'
                  \/ partners[q].commitment /\ ~partners'[q].commitment
             /\ UNCHANGED <<store, betaEvidence>>
  <2>1. EvidenceStays /\ UNCHANGED <<store, betaEvidence>>
    BY <1>9 DEF UpdateDesignPartner, EvidenceStays, vars
  <2>2. PICK q \in PartnersOf(b) :
          ~ /\ q \in PartnersOf(b)'
            /\ partners[q].status \in {"onboarding", "active"} =>
                 partners'[q].status \in {"onboarding", "active"}
            /\ partners[q].commitment => partners'[q].commitment
    BY <1>2, <2>1, Zenon DEF PartnersGain
  <2>3. q \in PartnersOf(b)'
    BY <1>3 DEF PartnersStay, PartnersOf
  <2>4. CASE partners[q].commitment /\ ~partners'[q].commitment
    BY <2>1, <2>4, Zenon
  <2>5. CASE /\ partners[q].status \in {"onboarding", "active"}
             /\ ~(partners'[q].status \in {"onboarding", "active"})
    <3>1. q \in Onboarded(b) /\ q \notin Onboarded(b)'
      BY <2>5 DEF Onboarded
    <3>2. QED
      BY <2>1, <3>1, Zenon
  <2>6. QED
    BY <2>2, <2>3, <2>4, <2>5, Zenon
<1>10. QED
  BY <1>4, <1>5, <1>7, <1>8, <1>9 DEF BetaNext, betaVars

\* For any goals, partners and evidence, readiness is lost by the business's own
\* update of a partner and by nothing else.
THEOREM ReadinessIsKept == BetaSpec => ReadinessIsLostByUpdatesOnly
<1>1. BetaInv /\ BetaInv' /\ [BetaNext]_betaVars =>
        [\A b \in Business :
           ReadyForPrivateBetaEvidence(b) /\ ~ReadyForPrivateBetaEvidence(b)' =>
             /\ \E p \in PartnersOf(b) :
                  \/ p \in Onboarded(b) /\ p \notin Onboarded(b)'
                  \/ partners[p].commitment /\ ~partners'[p].commitment
             /\ UNCHANGED <<store, betaEvidence>>]_betaVars
  BY ReadinessStep DEF BetaInv
<1>2. IInv /\ BetaInv /\ [BetaNext]_betaVars => BetaInv'
  BY BetaInvStep DEF IInv
<1>3. QED
  BY BetaLeavesPaymentsAlone, Inductive, BetaInvInit, <1>1, <1>2, PTL
     DEF BetaSpec, ReadinessIsLostByUpdatesOnly
===============================================================================
