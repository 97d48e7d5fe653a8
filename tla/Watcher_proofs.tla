----------------------------- MODULE Watcher_proofs ----------------------------
(***************************************************************************)
(* The Solana watcher, for all constants: a scan waits for the call it     *)
(* made, and what its posts store is on the chain.                         *)
(***************************************************************************)
EXTENDS Watcher, PaymentAccounts_proofs, WellFoundedInduction

-------------------------------------------------------------------------------
(* Sequences *)

\* A set that holds 0 and, with each number below n, its successor holds all
\* numbers up to n: else it would miss a smallest one.
LEMMA CountUp ==
  ASSUME NEW n \in Nat, NEW F, 0 \in F, \A k \in 0 .. n - 1 : k \in F => k + 1 \in F
  PROVE  \A k \in 0 .. n : k \in F
<1>1. IsWellFoundedOn(OpToRel(<, Nat), Nat)
  BY NatLessThanWellFounded
<1>2. PICK G : G = (0 .. n) \ F
  OBVIOUS
<1>3. SUFFICES ASSUME G # {} PROVE FALSE
  BY <1>2
<1>4. G \subseteq Nat
  BY <1>2
<1>5. PICK k \in G : \A j \in G : ~ (<<j, k>> \in OpToRel(<, Nat))
  BY <1>1, <1>3, <1>4, WFMin
<1>6. \A j \in G : ~ (j < k)
  BY <1>4, <1>5 DEF OpToRel
<1>7. k # 0 /\ k \in 0 .. n /\ k \notin F
  BY <1>2
<1>8. k - 1 \in 0 .. n - 1 /\ k - 1 \notin F
  BY <1>7
<1>9. QED
  BY <1>2, <1>6, <1>8

\* What FlattenSeq has flattened of ss up to its i-th member, given F before it.
FlatStep(F, ss, i) == IF i = 1 THEN ss[i] ELSE F[i - 1] \o ss[i]

\* F holds what is flattened up to each of the first k members.
Flat(F, ss, E, k) == \A i \in 1 .. k : F[i] = FlatStep(F, ss, i) /\ F[i] \in Seq(E)

\* What is flattened of k members can be extended by one.
LEMMA FlatOneMore ==
  ASSUME NEW E, NEW ss \in Seq(Seq(E)), NEW k \in Nat, k < Len(ss), NEW F, Flat(F, ss, E, k)
  PROVE  \E H : Flat(H, ss, E, k + 1)
<1>1. PICK H : H = [i \in 1 .. k + 1 |-> IF i = k + 1 THEN FlatStep(F, ss, k + 1) ELSE F[i]]
  OBVIOUS
<1>2. \A i \in 1 .. k : H[i] = F[i]
  BY <1>1
<1>3. \A i \in 1 .. k : H[i] = FlatStep(H, ss, i)
  <2> SUFFICES ASSUME NEW i \in 1 .. k PROVE H[i] = FlatStep(H, ss, i)
    OBVIOUS
  <2>1. H[i] = FlatStep(F, ss, i)
    BY <1>2 DEF Flat
  <2>2. i # 1 => H[i - 1] = F[i - 1]
    BY <1>2
  <2>3. QED
    BY <2>1, <2>2 DEF FlatStep
<1>4. H[k + 1] = FlatStep(H, ss, k + 1)
  <2>1. H[k + 1] = FlatStep(F, ss, k + 1)
    BY <1>1
  <2>2. k # 0 => H[k] = F[k]
    BY <1>2
  <2>3. k + 1 - 1 = k /\ (k + 1 = 1 <=> k = 0)
    OBVIOUS
  <2>4. QED
    BY <2>1, <2>2, <2>3 DEF FlatStep
<1>5. H[k + 1] \in Seq(E)
  <2>1. ss[k + 1] \in Seq(E)
    OBVIOUS
  <2>2. H[k + 1] = FlatStep(F, ss, k + 1)
    BY <1>1
  <2>3. k # 0 => F[k] \in Seq(E)
    BY DEF Flat
  <2>4. k + 1 - 1 = k /\ (k + 1 = 1 <=> k = 0)
    OBVIOUS
  <2>5. QED
    BY <2>1, <2>2, <2>3, <2>4 DEF FlatStep
<1>6. \A i \in 1 .. k + 1 : i \in 1 .. k \/ i = k + 1
  OBVIOUS
<1>7. \A i \in 1 .. k : H[i] \in Seq(E)
  BY <1>2 DEF Flat
<1>8. QED
  BY <1>3, <1>4, <1>5, <1>6, <1>7 DEF Flat

\* Flattening sequences over a set gives a sequence over that set.
LEMMA FlatStays ==
  ASSUME NEW E, NEW ss \in Seq(Seq(E))
  PROVE  FlattenSeq(ss) \in Seq(E)
<1> DEFINE n == Len(ss)
<1>1. CASE n = 0
  BY <1>1 DEF FlattenSeq
<1>2. CASE n # 0
  <2>1. n \in Nat /\ \A i \in 1 .. n : ss[i] \in Seq(E)
    OBVIOUS
  <2>2. PICK F : Flat(F, ss, E, n)
    <3> DEFINE G == {k \in 0 .. n : \E F : Flat(F, ss, E, k)}
    <3>1. 0 \in G
      BY DEF Flat
    <3>2. \A k \in 0 .. n - 1 : k \in G => k + 1 \in G
      BY FlatOneMore
    <3> HIDE DEF G
    <3>3. \A k \in 0 .. n : k \in G
      BY <2>1, <3>1, <3>2, CountUp
    <3>4. n \in G
      BY <2>1, <3>3
    <3>5. QED
      BY <3>4 DEF G
  <2>3. PICK H : H = [i \in 1 .. n |-> F[i]]
    OBVIOUS
  <2>4. \A i \in 1 .. n : H[i] = IF i = 1 THEN ss[i] ELSE H[i - 1] \o ss[i]
    <3> SUFFICES ASSUME NEW i \in 1 .. n
                 PROVE  H[i] = IF i = 1 THEN ss[i] ELSE H[i - 1] \o ss[i]
      OBVIOUS
    <3>1. H[i] = FlatStep(F, ss, i)
      BY <2>2, <2>3 DEF Flat
    <3>2. i # 1 => H[i - 1] = F[i - 1]
      BY <2>3
    <3>3. QED
      BY <3>1, <3>2 DEF FlatStep
  <2>5. H = [i \in 1 .. n |-> IF i = 1 THEN ss[i] ELSE H[i - 1] \o ss[i]]
    BY <2>3, <2>4
  <2>6. \E h : /\ h = [i \in 1 .. n |-> IF i = 1 THEN ss[i] ELSE h[i - 1] \o ss[i]]
               /\ FlattenSeq(ss) = h[n]
    BY <1>2, <2>5 DEF FlattenSeq
  <2>7. PICK h : /\ h = [i \in 1 .. n |-> IF i = 1 THEN ss[i] ELSE h[i - 1] \o ss[i]]
                 /\ FlattenSeq(ss) = h[n]
    BY <2>6
  <2>8. \A i \in 1 .. n : h[i] = IF i = 1 THEN ss[i] ELSE h[i - 1] \o ss[i]
    BY <2>7
  <2> DEFINE T == {k \in 0 .. n : k = 0 \/ h[k] \in Seq(E)}
  <2>9. ASSUME NEW k \in 0 .. n - 1, k \in T
        PROVE  k + 1 \in T
    <3>1. k + 1 \in 1 .. n /\ k + 1 - 1 = k /\ (k + 1 = 1 <=> k = 0)
      BY <2>1
    <3>2. h[k + 1] = IF k = 0 THEN ss[k + 1] ELSE h[k] \o ss[k + 1]
      BY <2>8, <3>1
    <3>3. k = 0 \/ h[k] \in Seq(E)
      BY <2>9
    <3>4. h[k + 1] \in Seq(E)
      BY <2>1, <3>1, <3>2, <3>3
    <3>5. QED
      BY <3>1, <3>4
  <2>10. 0 \in T
    BY <2>1
  <2> HIDE DEF T
  <2>11. \A k \in 0 .. n : k \in T
    BY <2>1, <2>9, <2>10, CountUp
  <2>12. n \in T
    BY <2>1, <2>11
  <2>13. QED
    BY <1>2, <2>7, <2>12 DEF T
<1>3. QED
  BY <1>1, <1>2

-------------------------------------------------------------------------------
(* What a scan posts *)

\* Evidence of the transfers on chain that are in USDC and to the watched address.
Moved(e) ==
  \E i \in DOMAIN chain :
    \E j \in DOMAIN chain[i].txn.transfers :
      /\ chain[i].txn.transfers[j].usdc
      /\ IsInbound(chain[i].txn.transfers[j])
      /\ e = EvidenceOf(chain[i], chain[i].txn.transfers[j])

OnChain ==
  UNION {{EvidenceOf(chain[i], chain[i].txn.transfers[j]) :
            j \in {k \in DOMAIN chain[i].txn.transfers :
                     /\ chain[i].txn.transfers[k].usdc
                     /\ IsInbound(chain[i].txn.transfers[k])}} : i \in DOMAIN chain}

\* The members of OnChain are the evidence that was moved on chain.
LEMMA OnChainIsMoved == \A e : e \in OnChain <=> Moved(e)
BY DEF OnChain, Moved

\* A block of the chain is parsed to evidence that is on chain.
LEMMA ParseIsOnChain ==
  ASSUME chain \in Seq(Block), NEW i \in DOMAIN chain
  PROVE  Parse(chain[i]) \in Seq(OnChain)
<1>1. chain[i].txn \in ChainTxn
  <2>1. chain[i] \in Block
    OBVIOUS
  <2>2. QED
    BY <2>1 DEF Block
<1>2. PICK ts : ts = chain[i].txn.transfers
  OBVIOUS
<1>3. ts \in Seq(Transfer)
  BY <1>1, <1>2, WatcherAssumption
<1>4. PICK ss : ss = [j \in DOMAIN ts |->
                       IF IsInbound(ts[j]) /\ ts[j].usdc
                         THEN <<EvidenceOf(chain[i], ts[j])>> ELSE <<>>]
  OBVIOUS
<1>5. \A j \in DOMAIN ts : ss[j] \in Seq(OnChain)
  <2> SUFFICES ASSUME NEW j \in DOMAIN ts
               PROVE  ss[j] \in Seq(OnChain)
    OBVIOUS
  <2>1. CASE IsInbound(ts[j]) /\ ts[j].usdc
    <3>1. Moved(EvidenceOf(chain[i], ts[j]))
      BY <1>2, <2>1, Zenon DEF Moved
    <3>2. EvidenceOf(chain[i], ts[j]) \in OnChain
      BY <3>1, OnChainIsMoved, Zenon
    <3>3. ss[j] = <<EvidenceOf(chain[i], ts[j])>>
      BY <1>4, <2>1, Zenon
    <3> HIDE DEF OnChain
    <3>4. QED
      BY <3>2, <3>3
  <2>2. CASE ~ (IsInbound(ts[j]) /\ ts[j].usdc)
    <3>1. ss[j] = <<>>
      BY <1>4, <2>2, Zenon
    <3>2. QED
      BY <3>1
  <2>3. QED
    BY <2>1, <2>2
<1>6. PICK n \in Nat : DOMAIN ts = 1 .. n
  BY <1>3
<1>7. ss \in Seq(Seq(OnChain))
  <2>1. DOMAIN ss = 1 .. n
    BY <1>4, <1>6, Zenon
  <2>2. ss \in [1 .. n -> Seq(OnChain)]
    BY <1>4, <1>5, <1>6, <2>1
  <2>3. QED
    BY <2>2
<1>8. FlattenSeq(ss) \in Seq(OnChain)
  BY <1>7, FlatStays
<1>9. Parse(chain[i]) = FlattenSeq(ss)
  BY <1>2, <1>4, Zenon DEF Parse
<1>10. QED
  BY <1>8, <1>9

\* So is the evidence of all blocks a scan lists.
LEMMA ScanIsOnChain ==
  ASSUME chain \in Seq(Block)
  PROVE  FlattenSeq([i \in DOMAIN Listed |-> Parse(Listed[i])]) \in Seq(OnChain)
<1>1. PICK n \in Nat : n = IF Len(chain) < Limit THEN Len(chain) ELSE Limit
  BY WatcherAssumption
<1>2. /\ Len(Listed) = n /\ DOMAIN Listed = 1 .. n
      /\ \A i \in 1 .. n : i \in DOMAIN chain /\ Listed[i] = chain[i]
  BY <1>1, WatcherAssumption DEF Listed
<1>3. PICK ss : ss = [i \in DOMAIN Listed |-> Parse(Listed[i])]
  OBVIOUS
<1>4. DOMAIN ss = 1 .. n /\ \A i \in 1 .. n : ss[i] = Parse(chain[i])
  BY <1>2, <1>3, Zenon
<1>5. \A i \in 1 .. n : ss[i] \in Seq(OnChain)
  BY <1>2, <1>4, ParseIsOnChain, Zenon
<1>6. ss = [i \in 1 .. n |-> ss[i]]
  BY <1>2, <1>3, <1>4
<1>7. ss \in Seq(Seq(OnChain))
  BY <1>5, <1>6
<1>8. QED
  BY <1>3, <1>7, FlatStays

-------------------------------------------------------------------------------
(* The inductive invariant *)

\* A scan has something left, all of it on chain, and waits for the call that
\* posts the first of it.
ScanHolds ==
  scan # Absent =>
    /\ scan = [left |-> scan.left, call |-> scan.call]
    /\ scan.left \in Seq(OnChain)
    /\ scan.left # <<>>
    /\ scan.call # Absent =>
         /\ scan.call \in Caller
         /\ calls[scan.call] \in IngestCall
         /\ calls[scan.call].business = Operator
         /\ calls[scan.call].evidence = Head(scan.left)

\* The calls that post evidence post what is on chain, also those whose answer
\* nobody waits for any more.
PostsAreOnChain ==
  \A c \in Caller : calls[c] \in IngestCall => calls[c].evidence \in OnChain

\* So is the evidence that is stored.
StoredIsOnChain ==
  \A t \in TxnId : txns[t] # Absent => txns[t].evidence \in OnChain

ChainIsTyped ==
  /\ clock \in 0 .. MaxTime
  /\ chain \in Seq(Block)
  /\ \A i \in DOMAIN chain : chain[i].time \in 0 .. MaxTime
  /\ faults \in 0 .. MaxFaults

WatcherInv ==
  /\ Sound /\ StampedInThePast
  /\ ChainIsTyped
  /\ ScanHolds
  /\ PostsAreOnChain
  /\ StoredIsOnChain

\* A block that is mined takes nothing from what is on chain.
LEMMA ChainGrows ==
  ASSUME ChainIsTyped, NEW txn \in ChainTxn, Mine(txn)
  PROVE  ChainIsTyped' /\ OnChain \subseteq OnChain'
<1>1. PICK b : b = [txn |-> txn, time |-> clock]
  OBVIOUS
<1>2. b \in Block
  BY <1>1 DEF ChainIsTyped, Block
<1>3. chain' = <<b>> \o chain /\ chain \in Seq(Block)
  BY <1>1 DEF Mine, ChainIsTyped
<1>4. chain' \in Seq(Block)
  BY <1>2, <1>3
<1>5. \A i \in DOMAIN chain' : chain'[i].time \in 0 .. MaxTime
  <2>1. b.time \in 0 .. MaxTime
    BY <1>1 DEF ChainIsTyped
  <2>2. \A i \in DOMAIN chain' : chain'[i] = b \/ \E j \in DOMAIN chain : chain'[i] = chain[j]
    BY <1>2, <1>3
  <2>3. QED
    BY <2>1, <2>2 DEF ChainIsTyped
<1>6. \A i \in DOMAIN chain : i + 1 \in DOMAIN chain' /\ chain'[i + 1] = chain[i]
  BY <1>2, <1>3
<1>7. ASSUME NEW e, Moved(e)
      PROVE  Moved(e)'
  <2>1. PICK i \in DOMAIN chain :
          \E j \in DOMAIN chain[i].txn.transfers :
            /\ chain[i].txn.transfers[j].usdc
            /\ IsInbound(chain[i].txn.transfers[j])
            /\ e = EvidenceOf(chain[i], chain[i].txn.transfers[j])
    BY <1>7, Zenon DEF Moved
  <2>2. i + 1 \in DOMAIN chain' /\ chain'[i + 1] = chain[i]
    BY <1>6, <2>1, Zenon
  <2>3. \E j \in DOMAIN chain'[i + 1].txn.transfers :
          /\ chain'[i + 1].txn.transfers[j].usdc
          /\ IsInbound(chain'[i + 1].txn.transfers[j])
          /\ e = EvidenceOf(chain'[i + 1], chain'[i + 1].txn.transfers[j])
    BY <2>1, <2>2, Zenon
  <2>4. QED
    BY <2>2, <2>3, Zenon DEF Moved, IsInbound, EvidenceOf
<1>8. \A e : e \in OnChain' <=> Moved(e)'
  BY DEF OnChain, Moved
<1>9. ChainIsTyped'
  BY <1>4, <1>5 DEF Mine, vars, ChainIsTyped
<1>10. QED
  BY <1>7, <1>8, <1>9, OnChainIsMoved

\* Valid evidence of what is on chain is among the bodies that clients send.
LEMMA OnChainIsEvidence ==
  ASSUME ChainIsTyped, NEW e \in OnChain, IsValid(e)
  PROVE  e \in Evidence
<1>1. PICK i \in DOMAIN chain : \E j \in DOMAIN chain[i].txn.transfers :
        /\ chain[i].txn.transfers[j].usdc
        /\ IsInbound(chain[i].txn.transfers[j])
        /\ e = EvidenceOf(chain[i], chain[i].txn.transfers[j])
  BY OnChainIsMoved, Zenon DEF Moved
<1>2. PICK j \in DOMAIN chain[i].txn.transfers :
        /\ chain[i].txn.transfers[j].usdc
        /\ IsInbound(chain[i].txn.transfers[j])
        /\ e = EvidenceOf(chain[i], chain[i].txn.transfers[j])
  BY <1>1, Zenon
<1>3. chain[i] \in Block
  BY DEF ChainIsTyped
<1>4. /\ chain[i] = [txn |-> chain[i].txn, time |-> chain[i].time]
      /\ chain[i].txn \in ChainTxn /\ chain[i].time \in 0 .. MaxTime
  BY <1>3 DEF Block, ChainIsTyped
<1>5. QED
  BY <1>2, <1>4, PostsAssumption, Zenon

-------------------------------------------------------------------------------
(* Steps *)

\* The post of a scan is a call the payment tables are ready for.
LEMMA PostIsIngest ==
  ASSUME WatcherInv, NEW c \in Caller, Post(c)
  PROVE  /\ Head(scan.left) \in OnChain
         /\ Head(scan.left) \in Evidence
         /\ [Next]_vars
<1>1. Head(scan.left) \in OnChain
  BY DEF Post, WatcherInv, ScanHolds
<1>2. Head(scan.left) \in Evidence
  BY <1>1, OnChainIsEvidence DEF Post, WatcherInv
<1>3. Next
  BY <1>2, WatcherAssumption, Zenon DEF Post, Next
<1>4. QED
  BY <1>1, <1>2, <1>3

\* Other clients, the scan and what it posts move the tables as the payment
\* operations do.
LEMMA ApiStep ==
  ASSUME WatcherInv, WatcherNext, ~RestartApi
  PROVE  [Next]_vars
<1>1. CASE OtherClients
  BY <1>1, WatcherAssumption, Zenon DEF OtherClients, Next
<1>2. CASE \E txn \in ChainTxn : Mine(txn)
  BY <1>2 DEF Mine
<1>3. CASE ScanWallet
  BY <1>3 DEF ScanWallet
<1>4. CASE PostNext
  BY <1>4, PostIsIngest DEF PostNext, PostInvalid
<1>5. CASE \E c \in Caller : FinishIngest(c) \/ FinishCreate(c)
  BY <1>5, Zenon DEF FinishIngest, FinishCreate, Next
<1>6. CASE LoseAnswer
  BY <1>6 DEF LoseAnswer
<1>7. QED
  BY <1>1, <1>2, <1>3, <1>4, <1>5, <1>6 DEF WatcherNext

\* Tables without calls in flight are as sound as they were.
LEMMA RestartIsSound ==
  ASSUME Sound, StampedInThePast, RestartApi
  PROVE  Sound' /\ StampedInThePast'
<1>1. UNCHANGED <<clock, store>> /\ calls' = [c \in Caller |-> Absent]
  BY DEF RestartApi
<1>2. /\ wallets' = wallets /\ requests' = requests /\ idem' = idem /\ txns' = txns
      /\ txnBySig' = txnBySig /\ matches' = matches /\ exceptions' = exceptions
      /\ receipts' = receipts /\ clock' = clock
  BY <1>1 DEF store
<1>3. \A c \in Caller : calls'[c] \notin ResolveCall
  BY <1>1, AbsentAssumption
<1>4. IInv'
  <2>1. TypeOK'
    BY <1>1, <1>2 DEF Sound, IInv, TypeOK
  <2>2. NoDanglingId'
    BY <1>2, <1>3 DEF Sound, IInv, NoDanglingId, TablesClosed, ResolvesName
  <2>3. SettledOnce' /\ OneDisputePerRequest'
    BY <1>2 DEF Sound, IInv, SettledOnce, OneDisputePerRequest
  <2>4. QED
    BY <2>1, <2>2, <2>3 DEF IInv
<1>5. TablesInv'
  BY <1>2 DEF Sound, TablesInv, SignatureIndexExact, OneRequestPerKey,
              KeysNameRequests, BookedOnOwnWallet, OwnsWallet, VerdictsJust, Just
<1>6. StoryInv'
  BY <1>2 DEF Sound, StoryInv, SettledHaveMatch, ConfirmedIsClean, DisputesAreRaised,
              Disputes, OneExceptionPerTxn, Accounts, Account, Unmatched, RaisedAbout
<1>7. Timelines'
  BY <1>2, Zenon DEF Sound, Timelines, Timeline, Expected, SettlementTypes
<1>8. ResolutionComesLast'
  BY <1>2, Zenon DEF Sound, ResolutionComesLast, EventsOf
<1>9. StampedInThePast'
  BY <1>1, <1>2 DEF StampedInThePast
<1>10. ResolversCameAfter'
  BY <1>3 DEF ResolversCameAfter
<1>11. QED
  BY <1>4, <1>5, <1>6, <1>7, <1>8, <1>9, <1>10 DEF Sound

\* A step that leaves the chain and the scan, and the call it waits for, as they
\* are leaves the scan waiting as it was.
LEMMA ScanStays ==
  ASSUME ScanHolds, UNCHANGED <<chain, scan>>,
         scan # Absent /\ scan.call # Absent => calls'[scan.call] = calls[scan.call]
  PROVE  ScanHolds'
<1>1. OnChain' = OnChain
  BY DEF OnChain, IsInbound, EvidenceOf
<1>2. QED
  BY <1>1, Zenon DEF ScanHolds

\* A call that is put in flight leaves the others in flight.
LEMMA OthersStay ==
  ASSUME TypeOK, NEW c \in Caller, NEW call, calls' = [calls EXCEPT ![c] = call]
  PROVE  calls'[c] = call /\ \A d \in Caller : d # c => calls'[d] = calls[d]
BY DEF TypeOK

\* A call that finishes is no longer in flight.
LEMMA FinishEnds ==
  ASSUME NEW c
  PROVE  FinishIngest(c) \/ FinishCreate(c) => End(c) /\ UNCHANGED <<chain, faults>>
<1>1. ASSUME FinishIngest(c)
      PROVE  End(c) /\ UNCHANGED <<chain, faults>>
  <2>1. UNCHANGED <<chain, faults>>
    BY <1>1, Zenon DEF FinishIngest
  <2>2. (\E t \in TxnId, w \in WalletId : IngestStablecoinTransaction(c, t, w))
        \/ RefuseOrReplayIngest(c)
    BY <1>1, Zenon DEF FinishIngest
  <2>3. End(c)
    BY <2>2, Zenon DEF RefuseOrReplayIngest, IngestStablecoinTransaction
  <2>4. QED
    BY <2>1, <2>3, Zenon
<1>2. ASSUME FinishCreate(c)
      PROVE  End(c) /\ UNCHANGED <<chain, faults>>
  BY <1>2, Zenon DEF FinishCreate, RefuseOrReplayCreate, CreatePaymentRequest
<1>3. QED
  BY <1>1, <1>2

\* Every step leaves the chain well formed and takes nothing from it.
LEMMA ChainStep ==
  ASSUME WatcherInv, [WatcherNext]_watcherVars
  PROVE  ChainIsTyped' /\ OnChain \subseteq OnChain'
<1>1. ASSUME UNCHANGED chain
      PROVE  OnChain' = OnChain
  BY <1>1 DEF OnChain, IsInbound, EvidenceOf
<1> HIDE DEF OnChain
<1>2. ASSUME UNCHANGED chain, clock' \in 0 .. MaxTime, faults' \in 0 .. MaxFaults
      PROVE  ChainIsTyped' /\ OnChain \subseteq OnChain'
  BY <1>1, <1>2 DEF WatcherInv, ChainIsTyped
<1>3. /\ clock \in 0 .. MaxTime /\ faults \in 0 .. MaxFaults
      /\ MaxTime \in Nat /\ MaxFaults \in Nat
  BY WatcherAssumption, ConstantsAssumption DEF WatcherInv, ChainIsTyped
<1>4. CASE OtherClients
  <2>1. UNCHANGED <<chain, faults>>
    BY <1>4 DEF OtherClients
  <2>2. clock' = clock \/ (clock < MaxTime /\ clock' = clock + 1)
    BY <1>4 DEF OtherClients, Tick, RegisterWallet, StartCreatePaymentRequest, Begin
  <2>3. clock' \in 0 .. MaxTime
    BY <1>3, <2>2
  <2>4. QED
    BY <1>2, <1>3, <2>1, <2>3
<1>5. CASE \E txn \in ChainTxn : Mine(txn)
  BY <1>5, ChainGrows DEF WatcherInv
<1>6. CASE ScanWallet \/ PostNext \/ UNCHANGED watcherVars
  <2>1. UNCHANGED <<chain, faults, clock>>
    BY <1>6 DEF ScanWallet, PostNext, Post, PostInvalid, StartIngestStablecoinTransaction,
                Begin, watcherVars, vars
  <2>2. QED
    BY <1>2, <1>3, <2>1
<1>7. CASE \E c \in Caller : FinishIngest(c) \/ FinishCreate(c)
  <2>1. \E c \in Caller : End(c) /\ UNCHANGED <<chain, faults>>
    BY <1>7, FinishEnds, Zenon
  <2>2. UNCHANGED <<chain, faults, clock>>
    BY <2>1 DEF End
  <2>3. QED
    BY <1>2, <1>3, <2>2
<1>8. CASE LoseAnswer \/ RestartApi
  <2>1. UNCHANGED <<chain, clock>> /\ faults < MaxFaults /\ faults' = faults + 1
    BY <1>8 DEF LoseAnswer, RestartApi, vars
  <2>2. faults' \in 0 .. MaxFaults
    BY <1>3, <2>1
  <2>3. QED
    BY <1>2, <1>3, <2>1, <2>2
<1>9. QED
  BY <1>4, <1>5, <1>6, <1>7, <1>8 DEF WatcherNext

\* A call that ingests was in flight, or posts what is on chain.
LEMMA CallsStep ==
  ASSUME WatcherInv, [WatcherNext]_watcherVars, NEW c \in Caller, calls'[c] \in IngestCall
  PROVE  calls'[c] = calls[c] \/ calls'[c].evidence \in OnChain
<1>1. TypeOK
  BY DEF WatcherInv, Sound, IInv
<1> HIDE DEF OnChain
<1>2. CASE UNCHANGED calls
  BY <1>2
<1>3. ASSUME NEW d \in Caller, End(d)
      PROVE  calls'[c] = calls[c]
  BY <1>1, <1>3, OthersStay, AbsentAssumption DEF End
<1>4. CASE OtherClients
  <2>1. ASSUME NEW d \in Caller, NEW k \in IdemKey, NEW body \in Body,
               StartCreatePaymentRequest(d, Operator, k, body)
        PROVE  calls'[c] = calls[c]
    BY <1>1, <2>1, OthersStay DEF StartCreatePaymentRequest, Begin, IngestCall
  <2>2. QED
    BY <1>2, <1>4, <2>1 DEF OtherClients, Tick, RegisterWallet
<1>5. CASE PostNext
  <2>1. ASSUME NEW d \in Caller, Post(d)
        PROVE  calls'[c] = calls[c] \/ calls'[c].evidence \in OnChain
    <3>1. Head(scan.left) \in OnChain
      BY <2>1, PostIsIngest
    <3>2. QED
      BY <1>1, <2>1, <3>1, OthersStay DEF Post, StartIngestStablecoinTransaction, Begin
  <2>2. QED
    BY <1>2, <1>5, <2>1 DEF PostNext, PostInvalid, vars
<1>6. CASE \E d \in Caller : FinishIngest(d) \/ FinishCreate(d)
  BY <1>3, <1>6, FinishEnds, Zenon
<1>7. CASE RestartApi
  BY <1>7, AbsentAssumption DEF RestartApi
<1>8. CASE ScanWallet \/ LoseAnswer \/ UNCHANGED watcherVars \/ \E txn \in ChainTxn : Mine(txn)
  BY <1>2, <1>8 DEF ScanWallet, LoseAnswer, Mine, watcherVars, vars
<1>9. QED
  BY <1>4, <1>5, <1>6, <1>7, <1>8 DEF WatcherNext

\* What is stored was stored, or is what a call in flight posted.
LEMMA StoredStep ==
  ASSUME WatcherInv, [WatcherNext]_watcherVars, NEW t \in TxnId
  PROVE  txns'[t] = txns[t] \/ txns'[t].evidence \in OnChain
<1>1. txns \in [TxnId -> Txn \cup {Absent}]
  BY DEF WatcherInv, Sound, IInv, TypeOK
<1> HIDE DEF OnChain
<1>2. ASSUME NEW c \in Caller, NEW u \in TxnId, NEW w \in WalletId,
             IngestStablecoinTransaction(c, u, w)
      PROVE  txns'[t] = txns[t] \/ txns'[t].evidence \in OnChain
  <2>1. calls[c].evidence \in OnChain
    BY <1>2 DEF IngestStablecoinTransaction, WatcherInv, PostsAreOnChain
  <2>2. PICK tx : tx = [business |-> calls[c].business, wallet |-> w,
                        evidence |-> calls[c].evidence,
                        status |-> "confirmed_onchain", detectedAt |-> calls[c].now]
    OBVIOUS
  <2>3. \E status : StoreTxn(u, tx, status)
    BY <1>2, <2>2 DEF IngestStablecoinTransaction, KeepPending, SettleRequest,
                      RaiseAmbiguous, RaiseOrphan
  <2>4. PICK status : txns' = [txns EXCEPT ![u] = [tx EXCEPT !.status = status]]
    BY <2>3 DEF StoreTxn
  <2>5. t = u => txns'[t].evidence = calls[c].evidence
    BY <1>1, <2>2, <2>4
  <2>6. t # u => txns'[t] = txns[t]
    BY <1>1, <2>4
  <2>7. QED
    BY <2>1, <2>5, <2>6
<1>3. CASE UNCHANGED txns
  BY <1>3
<1>4. CASE OtherClients \/ PostNext \/ \E c \in Caller : FinishCreate(c)
  BY <1>3, <1>4
     DEF OtherClients, Tick, RegisterWallet, StartCreatePaymentRequest, Begin, PostNext,
         Post, PostInvalid, StartIngestStablecoinTransaction, FinishCreate,
         RefuseOrReplayCreate, CreatePaymentRequest, store, vars
<1>5. CASE \E c \in Caller : FinishIngest(c)
  BY <1>2, <1>3, <1>5 DEF FinishIngest, RefuseOrReplayIngest, store
<1>6. CASE \/ ScanWallet \/ LoseAnswer \/ RestartApi \/ UNCHANGED watcherVars
           \/ \E txn \in ChainTxn : Mine(txn)
  BY <1>3, <1>6 DEF ScanWallet, LoseAnswer, RestartApi, Mine, watcherVars, vars, store
<1>7. QED
  BY <1>4, <1>5, <1>6 DEF WatcherNext

\* However calls begin and end around it, a scan waits for its own.
LEMMA ScanStep ==
  ASSUME WatcherInv, [WatcherNext]_watcherVars
  PROVE  ScanHolds'
<1>1. TypeOK /\ ScanHolds
  BY DEF WatcherInv, Sound, IInv
<1> HIDE DEF OnChain
<1>2. OnChain \subseteq OnChain' /\ Seq(OnChain) \subseteq Seq(OnChain')
  BY ChainStep
<1>3. ASSUME UNCHANGED scan,
             scan # Absent /\ scan.call # Absent => calls'[scan.call] = calls[scan.call]
      PROVE  ScanHolds'
  BY <1>1, <1>2, <1>3, Zenon DEF ScanHolds
<1>4. CASE scan' = Absent
  BY <1>4 DEF ScanHolds
<1>5. CASE UNCHANGED <<calls, scan>>
  BY <1>3, <1>5
<1>6. ASSUME NEW d \in Caller, calls[d] = Absent, NEW call,
             calls' = [calls EXCEPT ![d] = call], UNCHANGED scan
      PROVE  ScanHolds'
  <2>1. ASSUME scan # Absent, scan.call # Absent
        PROVE  calls'[scan.call] = calls[scan.call]
    <3>1. scan.call \in Caller /\ calls[scan.call] # Absent
      BY <1>1, <2>1, AbsentAssumption DEF ScanHolds
    <3>2. QED
      BY <1>1, <1>6, <3>1, OthersStay
  <2>2. QED
    BY <1>3, <1>6, <2>1
<1>7. ASSUME NEW d \in Caller, End(d), UNCHANGED scan,
             scan = Absent \/ d # scan.call
      PROVE  ScanHolds'
  <2>1. ASSUME scan # Absent, scan.call # Absent
        PROVE  calls'[scan.call] = calls[scan.call]
    BY <1>1, <1>7, <2>1, OthersStay DEF ScanHolds, End
  <2>2. QED
    BY <1>3, <1>7, <2>1
<1>8. CASE OtherClients
  BY <1>5, <1>6, <1>8
     DEF OtherClients, Tick, RegisterWallet, StartCreatePaymentRequest, Begin
<1>9. CASE ScanWallet
  <2>1. PICK events : /\ events = FlattenSeq([i \in DOMAIN Listed |-> Parse(Listed[i])])
                      /\ events # <<>>
                      /\ scan' = [left |-> events, call |-> Absent]
    BY <1>9, Zenon DEF ScanWallet
  <2>2. events \in Seq(OnChain)
    BY <2>1, ScanIsOnChain DEF WatcherInv, ChainIsTyped
  <2>3. QED
    BY <1>2, <2>1, <2>2 DEF ScanHolds
<1>10. ASSUME NEW c \in Caller, Post(c)
       PROVE  ScanHolds'
  <2>1. /\ scan = [left |-> scan.left, call |-> scan.call]
        /\ scan.left \in Seq(OnChain) /\ scan.left # <<>>
        /\ scan' = [scan EXCEPT !.call = c]
    BY <1>1, <1>10 DEF Post, ScanHolds
  <2>2. scan'.left = scan.left /\ scan'.call = c /\ scan' = [left |-> scan'.left, call |-> scan'.call]
    BY <2>1
  <2>3. calls'[c] = [op |-> "ingest", business |-> Operator,
                     evidence |-> Head(scan.left), now |-> clock]
    BY <1>1, <1>10, OthersStay DEF Post, StartIngestStablecoinTransaction, Begin
  <2>4. calls'[c] \in IngestCall
    BY <1>1, <1>10, <2>3, PostIsIngest, WatcherAssumption DEF IngestCall, TypeOK
  <2>5. QED
    BY <1>2, <2>1, <2>2, <2>3, <2>4 DEF ScanHolds
<1>11. CASE PostNext
  BY <1>4, <1>10, <1>11 DEF PostNext, PostInvalid
<1>12. ASSUME NEW c \in Caller, FinishIngest(c)
       PROVE  ScanHolds'
  <2>1. End(c) /\ \E accepted : Answered(c, accepted)
    BY <1>12, FinishEnds, Zenon DEF FinishIngest
  <2>2. CASE scan = Absent \/ c # scan.call
    BY <1>7, <2>1, <2>2 DEF Answered
  <2>3. CASE ~ (scan = Absent \/ c # scan.call)
    <3>1. scan.left \in Seq(OnChain)
      BY <1>1, <2>3 DEF ScanHolds
    <3>2. CASE scan' = [left |-> Tail(scan.left), call |-> Absent] /\ Len(scan.left) > 1
      <4>1. Tail(scan.left) \in Seq(OnChain) /\ Tail(scan.left) # <<>>
        <5>1. PICK left : left = scan.left
          OBVIOUS
        <5>2. left \in Seq(OnChain) /\ Len(left) \in Nat /\ Len(left) > 1
          BY <3>1, <3>2, <5>1
        <5>3. Tail(left) \in Seq(OnChain) /\ Len(Tail(left)) > 0
          BY <5>2
        <5>4. ~ (Len(<<>>) > 0)
          OBVIOUS
        <5>5. Tail(left) # <<>>
          BY <5>3, <5>4, Zenon
        <5>6. QED
          BY <5>1, <5>3, <5>5, Zenon
      <4>2. QED
        BY <1>2, <3>2, <4>1 DEF ScanHolds
    <3>3. QED
      BY <1>4, <2>1, <2>3, <3>2 DEF Answered
  <2>4. QED
    BY <2>2, <2>3
<1>13. ASSUME NEW c \in Caller, FinishCreate(c)
       PROVE  ScanHolds'
  <2>1. calls[c] \in CreateCall /\ End(c) /\ UNCHANGED scan
    BY <1>13 DEF FinishCreate, RefuseOrReplayCreate, CreatePaymentRequest
  <2>2. ASSUME scan # Absent, c = scan.call
        PROVE  ScanHolds'
    <3>1. CASE scan.call = Absent
      BY <1>3, <2>1, <3>1
    <3>2. CASE scan.call # Absent
      BY <1>1, <2>1, <2>2, <3>2 DEF ScanHolds, CreateCall, IngestCall
    <3>3. QED
      BY <3>1, <3>2
  <2>3. QED
    BY <1>7, <2>1, <2>2
<1>14. CASE RestartApi
  BY <1>3, <1>4, <1>14 DEF RestartApi
<1>15. CASE LoseAnswer \/ UNCHANGED watcherVars \/ \E txn \in ChainTxn : Mine(txn)
  BY <1>4, <1>5, <1>15 DEF LoseAnswer, Mine, watcherVars, vars
<1>16. QED
  BY <1>8, <1>9, <1>11, <1>12, <1>13, <1>14, <1>15 DEF WatcherNext

-------------------------------------------------------------------------------
(* What holds *)

\* Every step preserves the invariant.
LEMMA WatcherStep ==
  ASSUME WatcherInv, [WatcherNext]_watcherVars
  PROVE  WatcherInv'
<1>1. Sound' /\ StampedInThePast'
  <2>1. CASE RestartApi
    BY <2>1, RestartIsSound DEF WatcherInv
  <2>2. CASE ~RestartApi
    <3>1. [Next]_vars
      BY <2>2, ApiStep DEF watcherVars, vars
    <3>2. QED
      BY <3>1, SoundStep DEF WatcherInv
  <2>3. QED
    BY <2>1, <2>2
<1>2. ChainIsTyped' /\ OnChain \subseteq OnChain'
  BY ChainStep
<1>3. ScanHolds'
  BY ScanStep
<1> HIDE DEF OnChain
<1>4. PostsAreOnChain'
  BY <1>2, CallsStep DEF WatcherInv, PostsAreOnChain
<1>5. StoredIsOnChain'
  BY <1>2, StoredStep DEF WatcherInv, StoredIsOnChain
<1>6. QED
  BY <1>1, <1>2, <1>3, <1>4, <1>5 DEF WatcherInv

\* The invariant holds in every reachable state.
THEOREM WatcherInductive == WatcherSpec => []WatcherInv
<1>1. WatcherInit => WatcherInv
  <2> SUFFICES ASSUME WatcherInit PROVE WatcherInv
    OBVIOUS
  <2>1. Sound /\ StampedInThePast
    BY SoundInit DEF WatcherInit
  <2>2. QED
    BY <2>1, WatcherAssumption, ConstantsAssumption, AbsentAssumption
       DEF WatcherInit, Init, WatcherInv, ChainIsTyped, ScanHolds, PostsAreOnChain,
           StoredIsOnChain
<1>2. WatcherInv /\ [WatcherNext]_watcherVars => WatcherInv'
  BY WatcherStep
<1>3. QED
  BY <1>1, <1>2, PTL DEF WatcherSpec

\* A running scan has something left to post, and the call it waits for is in
\* flight and posts just that, whatever other calls, lost answers and restarts
\* of the API come between.
THEOREM WatcherTypeCorrect == WatcherSpec => []WatcherTypeOK
<1>1. WatcherInv => WatcherTypeOK
  <2> SUFFICES ASSUME WatcherInv PROVE WatcherTypeOK
    OBVIOUS
  <2>1. \A call \in IngestCall :
          call = [op |-> "ingest", business |-> call.business,
                  evidence |-> call.evidence, now |-> call.now]
    BY DEF IngestCall
  <2>2. QED
    BY <2>1 DEF WatcherInv, WatcherTypeOK, ChainIsTyped, ScanHolds
<1>2. QED
  BY WatcherInductive, <1>1, PTL

\* Whatever the API stores was moved on chain, in USDC, to the watched address by
\* the transaction with that signature: also what was posted by a scan that gave
\* up, or before a restart.
THEOREM StoredWasMoved == WatcherSpec => []EvidenceIsOnChain
<1>1. WatcherInv => EvidenceIsOnChain
  BY OnChainIsMoved, Zenon DEF WatcherInv, StoredIsOnChain, EvidenceIsOnChain, Moved
<1>2. QED
  BY WatcherInductive, <1>1, PTL

\* What the watcher posts, repeats and abandons breaks no promise of the payment
\* tables.
THEOREM WatchersKeepPromises == WatcherSpec => []Promises
<1>1. WatcherInv => Promises
  BY SoundKeepsPromises DEF WatcherInv
<1>2. QED
  BY WatcherInductive, <1>1, PTL
===============================================================================
