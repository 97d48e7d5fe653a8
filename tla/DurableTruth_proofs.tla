-------------------------- MODULE DurableTruth_proofs --------------------------
(***************************************************************************)
(* What the file guarantees, for every value of the constants: a store     *)
(* that reports itself ready loses nothing, and one that does not comes    *)
(* back with an older history that keeps every promise of PaymentTruth.    *)
(***************************************************************************)
EXTENDS DurableTruth, PaymentAccounts_proofs

\* A step outside the lock leaves the tables, hence the snapshot, as they are.
LEMMA OutsideLockKeepsTheSnapshot ==
  ASSUME OutsideLock
  PROVE  Snapshot' = Snapshot /\ UNCHANGED <<disk, healthy>>
<1>1. UNCHANGED store
  BY DEF OutsideLock, Tick, StartCreatePaymentRequest,
         StartIngestStablecoinTransaction, StartResolveException, Begin, store
<1>2. QED
  BY <1>1 DEF OutsideLock, Snapshot, store

\* The file has the fields of a snapshot and no other; without it, the tables
\* loaded from the file would not determine the file.
FileHasItsFields ==
  disk = [wallets |-> disk.wallets, requests |-> disk.requests, idem |-> disk.idem,
          txns |-> disk.txns, matches |-> disk.matches,
          exceptions |-> disk.exceptions, receipts |-> disk.receipts]

\* Whatever is written is a snapshot.
LEMMA SnapshotHasItsFields ==
  ASSUME disk' = Snapshot'
  PROVE  FileHasItsFields'
BY DEF FileHasItsFields, Snapshot

\* A store that reports itself ready holds nothing that its file does not hold,
\* whatever the interleaving of calls, failed writes and crashes.
THEOREM ReadyIsDurable == DurableSpec => []ReadyMeansDurable
<1> DEFINE Inv == ReadyMeansDurable /\ FileHasItsFields
<1>1. DurableInit => Inv
  BY DEF DurableInit, ReadyMeansDurable, FileHasItsFields, Snapshot
<1>2. Inv /\ [DurableNext]_durableVars => Inv'
  <2> SUFFICES ASSUME Inv, [DurableNext]_durableVars
               PROVE  Inv'
    OBVIOUS
  <2>1. CASE OutsideLock
    BY <2>1, OutsideLockKeepsTheSnapshot DEF ReadyMeansDurable, FileHasItsFields
  <2>2. CASE UnderLock \/ OtherWrite
    <3>1. CASE disk' = Snapshot' /\ healthy' = TRUE
      BY <3>1, SnapshotHasItsFields DEF ReadyMeansDurable
    <3>2. CASE UNCHANGED disk /\ healthy' = FALSE
      BY <3>2 DEF ReadyMeansDurable, FileHasItsFields
    <3>3. QED
      BY <2>2, <3>1, <3>2 DEF UnderLock, OtherWrite, Persist
  <2>3. CASE \E r \in RequestId : GetPaymentRequest(r)
    BY <2>3 DEF GetPaymentRequest, ReadyMeansDurable, FileHasItsFields, Snapshot,
                vars, store
  <2>4. CASE CrashAndRestart
    BY <2>4 DEF CrashAndRestart, ReadyMeansDurable, FileHasItsFields, Snapshot
  <2>5. CASE UNCHANGED durableVars
    BY <2>5 DEF durableVars, vars, store, ReadyMeansDurable, FileHasItsFields, Snapshot
  <2>6. QED
    BY <2>1, <2>2, <2>3, <2>4, <2>5 DEF DurableNext
<1>3. QED
  BY <1>1, <1>2, PTL DEF DurableSpec

-------------------------------------------------------------------------------
(* The file as tables *)

\* The tables a restart would load, with no call in flight.
Saved ==
  INSTANCE PaymentAccounts_proofs
    WITH clock <- 0,
         calls <- [c \in Caller |-> Absent],
         wallets <- disk.wallets,
         requests <- disk.requests,
         idem <- disk.idem,
         txns <- disk.txns,
         txnBySig <- IndexBySignature(disk.txns),
         matches <- disk.matches,
         exceptions <- disk.exceptions,
         receipts <- disk.receipts

\* The index finds the transactions of the table, each by its signature.
Indexes(index, table) ==
  /\ \A b \in Business, s \in Signature :
       index[<<b, s>>] # Absent =>
         /\ table[index[<<b, s>>]] # Absent
         /\ table[index[<<b, s>>]].business = b
         /\ table[index[<<b, s>>]].evidence.signature = s
  /\ \A t \in TxnId :
       table[t] # Absent => index[<<table[t].business, table[t].evidence.signature>>] = t

\* A table has one such index, which is therefore the one that is rebuilt.
LEMMA IndexIsRebuilt ==
  ASSUME NEW table, NEW index,
         index \in [Business \X Signature -> TxnId \cup {Absent}],
         Indexes(index, table)
  PROVE  IndexBySignature(table) = index
<1>1. ASSUME NEW b \in Business, NEW s \in Signature
      PROVE  IF TxnsOf(table, b, s) = {} THEN index[<<b, s>>] = Absent
             ELSE TxnsOf(table, b, s) = {index[<<b, s>>]}
  <2>1. \A t \in TxnsOf(table, b, s) : t = index[<<b, s>>]
    BY DEF TxnsOf, Indexes
  <2>2. index[<<b, s>>] # Absent => index[<<b, s>>] \in TxnsOf(table, b, s)
    <3>1. index[<<b, s>>] \in TxnId \cup {Absent}
      OBVIOUS
    <3>2. QED
      BY <3>1 DEF TxnsOf, Indexes
  <2>3. TxnsOf(table, b, s) \subseteq TxnId
    BY DEF TxnsOf
  <2>4. QED
    BY <2>1, <2>2, <2>3
<1>2. ASSUME NEW bs \in Business \X Signature
      PROVE  IndexBySignature(table)[bs] = index[bs]
  <2>1. PICK b \in Business, s \in Signature : bs = <<b, s>> /\ bs[1] = b /\ bs[2] = s
    OBVIOUS
  <2>2. IndexBySignature(table)[bs] =
          IF TxnsOf(table, b, s) = {} THEN Absent
          ELSE CHOOSE t \in TxnsOf(table, b, s) : TRUE
    <3>1. IndexBySignature(table)[bs] =
            IF TxnsOf(table, bs[1], bs[2]) = {} THEN Absent
            ELSE CHOOSE t \in TxnsOf(table, bs[1], bs[2]) : TRUE
      BY DEF IndexBySignature
    <3>2. QED
      BY <2>1, <3>1
  <2>3. CASE TxnsOf(table, b, s) = {}
    BY <1>1, <2>1, <2>2, <2>3
  <2>4. CASE TxnsOf(table, b, s) = {index[<<b, s>>]}
    <3>1. (CHOOSE t \in TxnsOf(table, b, s) : TRUE) = index[<<b, s>>]
      BY <2>4
    <3>2. QED
      BY <2>1, <2>2, <2>4, <3>1
  <2>5. QED
    BY <1>1, <2>3, <2>4
<1>3. QED
  BY <1>2 DEF IndexBySignature

\* A file that is not written stays sound.
LEMMA FileStaysSound ==
  ASSUME Saved!Sound, UNCHANGED disk
  PROVE  Saved!Sound'
<1>1. IndexBySignature(disk.txns)' = IndexBySignature(disk.txns)
  OBVIOUS
<1>2. Saved!NoDanglingId' /\ Saved!SettledOnce' /\ Saved!OneDisputePerRequest'
  BY SMTT(30) DEF Saved!Sound, Saved!IInv, Saved!NoDanglingId, Saved!TablesClosed,
         Saved!ResolvesName, Saved!ResolveCall, Saved!SettledOnce,
         Saved!OneDisputePerRequest
<1>3. Saved!TypeOK'
  BY SMTT(30), <1>1 DEF Saved!Sound, Saved!IInv, Saved!TypeOK
<1>4. Saved!TablesInv'
  BY ZenonT(60), <1>1 DEF Saved!Sound, Saved!TablesInv, Saved!SignatureIndexExact,
              Saved!OneRequestPerKey, Saved!KeysNameRequests, Saved!BookedOnOwnWallet,
              Saved!OwnsWallet, Saved!VerdictsJust, Saved!Just
<1>5. Saved!StoryInv'
  BY DEF Saved!Sound, Saved!StoryInv, Saved!SettledHaveMatch, Saved!ConfirmedIsClean,
         Saved!DisputesAreRaised, Saved!Disputes, Saved!OneExceptionPerTxn,
         Saved!Accounts, Saved!Account, Saved!Unmatched, Saved!RaisedAbout
<1>6. Saved!Timelines' /\ Saved!ResolversCameAfter' /\ Saved!ResolutionComesLast'
  BY DEF Saved!Sound, Saved!Timelines, Saved!Timeline, Saved!Expected,
         Saved!SettlementTypes, Saved!ResolversCameAfter, Saved!ResolveCall,
         Saved!ResolutionComesLast, Saved!EventsOf
<1>7. QED
  BY <1>2, <1>3, <1>4, <1>5, <1>6 DEF Saved!Sound, Saved!IInv

\* What is loaded from a sound file is sound.
LEMMA LoadedIsSound ==
  ASSUME Saved!Sound, CrashAndRestart, clock \in Nat
  PROVE  Sound'
<1>1. NoDanglingId' /\ SettledOnce' /\ OneDisputePerRequest'
  BY DEF Saved!Sound, Saved!IInv, Saved!NoDanglingId, Saved!TablesClosed,
         Saved!ResolvesName, Saved!ResolveCall, Saved!SettledOnce,
         Saved!OneDisputePerRequest, CrashAndRestart, NoDanglingId, TablesClosed,
         ResolvesName, ResolveCall, SettledOnce, OneDisputePerRequest
<1>2. TypeOK'
  BY SMTT(30) DEF Saved!Sound, Saved!IInv, Saved!TypeOK, TypeOK, CrashAndRestart,
         Saved!CreateCall, CreateCall, Saved!IngestCall, IngestCall,
         Saved!ResolveCall, ResolveCall, Saved!Wallet, Wallet, Saved!Request, Request,
         Saved!RequestStatus, RequestStatus, Saved!Outcome, Outcome,
         Saved!IdemRecord, IdemRecord, Saved!Txn, Txn, Saved!TxnStatus, TxnStatus,
         Saved!Match, Match, Saved!Exception, Exception,
         Saved!ExceptionType, ExceptionType, Saved!Event, Event,
         Saved!EventType, EventType
<1>3. TablesInv'
  BY DEF Saved!Sound, Saved!TablesInv, Saved!SignatureIndexExact,
         Saved!OneRequestPerKey, Saved!KeysNameRequests, Saved!BookedOnOwnWallet,
         Saved!OwnsWallet, Saved!VerdictsJust, Saved!Just, CrashAndRestart,
         TablesInv, SignatureIndexExact, OneRequestPerKey, KeysNameRequests,
         BookedOnOwnWallet, OwnsWallet, VerdictsJust, Just
<1>4. StoryInv'
  BY DEF Saved!Sound, Saved!StoryInv, Saved!SettledHaveMatch, Saved!ConfirmedIsClean,
         Saved!DisputesAreRaised, Saved!Disputes, Saved!OneExceptionPerTxn,
         Saved!Accounts, Saved!Account, Saved!Unmatched, Saved!RaisedAbout,
         CrashAndRestart, StoryInv, SettledHaveMatch, ConfirmedIsClean,
         DisputesAreRaised, Disputes, OneExceptionPerTxn, Accounts, Account,
         Unmatched, RaisedAbout
<1>5. Timelines'
  BY DEF Saved!Sound, Saved!Timelines, Saved!Timeline, Saved!Expected,
         Saved!SettlementTypes, CrashAndRestart, Timelines, Timeline, Expected,
         SettlementTypes
<1>6. ResolversCameAfter' /\ ResolutionComesLast'
  BY DEF Saved!Sound, Saved!ResolversCameAfter, Saved!ResolveCall,
         Saved!ResolutionComesLast, Saved!EventsOf, CrashAndRestart,
         ResolversCameAfter, ResolveCall, ResolutionComesLast, EventsOf
<1>7. QED
  BY <1>1, <1>2, <1>3, <1>4, <1>5, <1>6 DEF Sound, IInv

\* A snapshot of sound tables is a sound file: the index it leaves out is the one
\* that is rebuilt from it, and the calls it leaves out are no longer in flight.
LEMMA SnapshotIsSound ==
  ASSUME Sound', disk' = Snapshot'
  PROVE  Saved!Sound'
<1>1. /\ disk'.wallets = wallets' /\ disk'.requests = requests'
      /\ disk'.idem = idem' /\ disk'.txns = txns' /\ disk'.matches = matches'
      /\ disk'.exceptions = exceptions' /\ disk'.receipts = receipts'
  BY DEF Snapshot
<1>2. IndexBySignature(disk.txns)' = txnBySig'
  <2>1. txnBySig' \in [Business \X Signature -> TxnId \cup {Absent}]
    BY DEF Sound, IInv, TypeOK
  <2>2. Indexes(txnBySig', txns')
    BY DEF Sound, TablesInv, SignatureIndexExact, Indexes
  <2>3. IndexBySignature(txns') = txnBySig'
    BY <2>1, <2>2, IndexIsRebuilt
  <2>4. QED
    BY <1>1, <2>3
<1>3. Saved!NoDanglingId' /\ Saved!SettledOnce' /\ Saved!OneDisputePerRequest'
  BY <1>1, AbsentAssumption
     DEF Sound, IInv, Saved!NoDanglingId, Saved!TablesClosed, Saved!ResolvesName,
         Saved!ResolveCall, Saved!SettledOnce, Saved!OneDisputePerRequest,
         NoDanglingId, TablesClosed, ResolveCall, SettledOnce, OneDisputePerRequest
<1>4. Saved!TypeOK'
  BY <1>1, <1>2
     DEF Sound, IInv, Saved!TypeOK, TypeOK, Saved!CreateCall, Saved!IngestCall,
         Saved!ResolveCall, Saved!Wallet, Wallet, Saved!Request, Request,
         Saved!RequestStatus, RequestStatus, Saved!Outcome, Outcome,
         Saved!IdemRecord, IdemRecord, Saved!Txn, Txn, Saved!TxnStatus, TxnStatus,
         Saved!Match, Match, Saved!Exception, Exception,
         Saved!ExceptionType, ExceptionType, Saved!Event, Event,
         Saved!EventType, EventType
<1>5. Saved!TablesInv'
  BY SMTT(30), <1>1, <1>2
     DEF Sound, Saved!TablesInv, Saved!SignatureIndexExact, Saved!OneRequestPerKey,
         Saved!KeysNameRequests, Saved!BookedOnOwnWallet, Saved!OwnsWallet,
         Saved!VerdictsJust, Saved!Just, TablesInv, SignatureIndexExact,
         OneRequestPerKey, KeysNameRequests, BookedOnOwnWallet, OwnsWallet,
         VerdictsJust, Just
<1>6. Saved!StoryInv'
  BY <1>1
     DEF Sound, Saved!StoryInv, Saved!SettledHaveMatch, Saved!ConfirmedIsClean,
         Saved!DisputesAreRaised, Saved!Disputes, Saved!OneExceptionPerTxn,
         Saved!Accounts, Saved!Account, Saved!Unmatched, Saved!RaisedAbout,
         StoryInv, SettledHaveMatch, ConfirmedIsClean, DisputesAreRaised, Disputes,
         OneExceptionPerTxn, Accounts, Account, Unmatched, RaisedAbout
<1>7. Saved!Timelines'
  BY <1>1
     DEF Sound, Saved!Timelines, Saved!Timeline, Saved!Expected,
         Saved!SettlementTypes, Timelines, Timeline, Expected, SettlementTypes
<1>8. Saved!ResolversCameAfter' /\ Saved!ResolutionComesLast'
  BY <1>1, AbsentAssumption
     DEF Sound, Saved!ResolversCameAfter, Saved!ResolveCall, ResolveCall,
         Saved!ResolutionComesLast, Saved!EventsOf, ResolutionComesLast, EventsOf
<1>9. QED
  BY <1>3, <1>4, <1>5, <1>6, <1>7, <1>8 DEF Saved!Sound, Saved!IInv

-------------------------------------------------------------------------------
(* The invariant of the store and its file *)

\* Nothing in the file is stamped with a time that has not come.
FileStampedInThePast ==
  \A r \in RequestId : \A e \in disk.receipts[r] : e.at <= clock

DurableInv ==
  /\ Sound /\ StampedInThePast
  /\ Saved!Sound /\ FileStampedInThePast
  /\ healthy \in BOOLEAN
  /\ shown \subseteq RequestId

\* Initially the file is a snapshot of empty tables.
LEMMA DurableInvInit == DurableInit => DurableInv
<1> SUFFICES ASSUME DurableInit PROVE DurableInv
  OBVIOUS
<1>1. Sound /\ StampedInThePast
  BY SoundInit DEF DurableInit
<1>2. Saved!Init
  <2>1. \A b, s : TxnsOf(disk.txns, b, s) = {}
    BY DEF DurableInit, Init, Snapshot, TxnsOf
  <2>2. IndexBySignature(disk.txns) = [bs \in Business \X Signature |-> Absent]
    BY <2>1 DEF IndexBySignature
  <2>3. QED
    BY <2>2 DEF DurableInit, Init, Snapshot, Saved!Init
<1>3. Saved!Sound
  <2>1. /\ Absent \notin Saved!Wallet \cup Saved!Request \cup Saved!IdemRecord
                        \cup Saved!Txn \cup Saved!Exception
        /\ Absent \notin Saved!CreateCall \cup Saved!IngestCall \cup Saved!ResolveCall
        /\ Absent \notin RequestId \cup TxnId
    BY AbsentAssumption
       DEF Saved!Wallet, Wallet, Saved!Request, Request, Saved!RequestStatus,
           RequestStatus, Saved!Outcome, Outcome, Saved!IdemRecord, IdemRecord,
           Saved!Txn, Txn, Saved!TxnStatus, TxnStatus, Saved!Exception, Exception,
           Saved!ExceptionType, ExceptionType, Saved!CreateCall, CreateCall,
           Saved!IngestCall, IngestCall, Saved!ResolveCall, ResolveCall
  <2>2. QED
    BY <1>2, <2>1, ConstantsAssumption, Saved!SoundInit
<1>4. QED
  BY <1>1, <1>3 DEF DurableInit, Init, Snapshot, DurableInv, FileStampedInThePast

\* Each step of the store without its file is a step of PaymentTruth.
LEMMA MemoryStep ==
  ASSUME OutsideLock \/ UnderLock \/ OtherWrite \/ UNCHANGED vars
  PROVE  [Next]_vars
BY DEF OutsideLock, UnderLock, OtherWrite, Next

\* Operations, failed writes and crashes keep tables and file sound.
LEMMA DurableInvStep ==
  ASSUME DurableInv, [DurableNext]_durableVars
  PROVE  DurableInv'
<1>1. /\ clock \in Nat
      /\ \A r \in RequestId : \A e \in disk.receipts[r] : e.at \in Nat
  <2>1. disk.receipts \in [RequestId -> SUBSET Event]
    BY DEF DurableInv, Saved!Sound, Saved!IInv, Saved!TypeOK, Saved!Event, Event,
           Saved!EventType, EventType
  <2>2. QED
    BY <2>1 DEF DurableInv, Sound, IInv, TypeOK, Event
<1>2. ASSUME [Next]_vars, Sound', StampedInThePast',
             \/ disk' = Snapshot' /\ healthy' \in BOOLEAN
             \/ UNCHANGED disk /\ healthy' \in BOOLEAN,
             shown' \subseteq RequestId
      PROVE  DurableInv'
  <2>1. clock <= clock' /\ clock' \in Nat
    BY <1>2, CallsKeepTheirTime DEF DurableInv, Sound, IInv
  <2>2. CASE disk' = Snapshot'
    <3>1. Saved!Sound'
      BY <1>2, <2>2, SnapshotIsSound
    <3>2. FileStampedInThePast'
      BY <1>2, <2>2 DEF FileStampedInThePast, StampedInThePast, Snapshot
    <3>3. QED
      BY <1>2, <3>1, <3>2 DEF DurableInv
  <2>3. CASE UNCHANGED disk
    <3>1. Saved!Sound'
      BY <2>3, FileStaysSound DEF DurableInv
    <3>2. FileStampedInThePast'
      BY <1>1, <2>1, <2>3 DEF FileStampedInThePast, DurableInv
    <3>3. QED
      BY <1>2, <3>1, <3>2 DEF DurableInv
  <2>4. QED
    BY <1>2, <2>2, <2>3
<1>3. ASSUME [Next]_vars
      PROVE  Sound' /\ StampedInThePast'
  BY <1>3, SoundStep DEF DurableInv
<1>4. CASE OutsideLock \/ UnderLock \/ OtherWrite
  <2>1. [Next]_vars
    BY <1>4, MemoryStep
  <2>2. /\ \/ disk' = Snapshot' /\ healthy' \in BOOLEAN
           \/ UNCHANGED disk /\ healthy' \in BOOLEAN
        /\ shown' \subseteq RequestId
    BY <1>4 DEF OutsideLock, UnderLock, OtherWrite, Persist, DurableInv
  <2>3. QED
    BY <1>2, <1>3, <2>1, <2>2
<1>5. CASE (\E r \in RequestId : GetPaymentRequest(r)) \/ UNCHANGED durableVars
  <2>1. UNCHANGED vars /\ UNCHANGED disk /\ healthy' \in BOOLEAN /\ shown' \subseteq RequestId
    BY <1>5 DEF GetPaymentRequest, durableVars, DurableInv
  <2>2. QED
    BY <1>2, <1>3, <2>1, MemoryStep
<1>6. CASE CrashAndRestart
  <2>1. Sound'
    BY <1>1, <1>6, LoadedIsSound DEF DurableInv
  <2>2. UNCHANGED disk /\ UNCHANGED clock /\ UNCHANGED shown /\ healthy' \in BOOLEAN
    BY <1>6 DEF CrashAndRestart
  <2>3. Saved!Sound'
    BY <2>2, FileStaysSound DEF DurableInv
  <2>4. StampedInThePast' /\ FileStampedInThePast'
    BY <1>6 DEF CrashAndRestart, StampedInThePast, FileStampedInThePast, DurableInv
  <2>5. QED
    BY <2>1, <2>2, <2>3, <2>4 DEF DurableInv
<1>7. QED
  BY <1>4, <1>5, <1>6 DEF DurableNext

\* The invariant holds in every reachable state.
THEOREM DurablyInductive == DurableSpec => []DurableInv
<1>1. DurableInv /\ [DurableNext]_durableVars => DurableInv'
  BY DurableInvStep
<1>2. QED
  BY DurableInvInit, <1>1, PTL DEF DurableSpec

\* Whatever was written last, and however the store died, the file holds tables
\* of the shape the operations expect.
THEOREM FileIsWellFormed == DurableSpec => []FileTypeOK
<1>1. DurableInv => FileTypeOK
  BY DEF DurableInv, Saved!Sound, Saved!IInv, Saved!TypeOK, FileTypeOK,
         Saved!Wallet, Wallet, Saved!Request, Request,
         Saved!RequestStatus, RequestStatus, Saved!Outcome, Outcome,
         Saved!IdemRecord, IdemRecord, Saved!Txn, Txn, Saved!TxnStatus, TxnStatus,
         Saved!Match, Match, Saved!Exception, Exception,
         Saved!ExceptionType, ExceptionType, Saved!Event, Event,
         Saved!EventType, EventType
<1>2. QED
  BY DurablyInductive, <1>1, PTL

\* The index by signature is exact before and after any number of crashes, also
\* of a store whose last writes failed.
THEOREM IndexSurvivesCrashes == DurableSpec => []SignatureIndexExact
<1>1. DurableInv => SignatureIndexExact
  BY DEF DurableInv, Sound, TablesInv
<1>2. QED
  BY DurablyInductive, <1>1, PTL

\* Crashes and failed writes break no promise of the payment tables: a store
\* that forgot its latest history still settles each request once, gives just
\* verdicts and accounts for every payment it knows of.
THEOREM PromisesSurviveCrashes == DurableSpec => []Promises
<1>1. DurableInv => Promises
  BY SoundKeepsPromises DEF DurableInv
<1>2. QED
  BY DurablyInductive, <1>1, PTL

\* A crash of a store that reports itself ready brings every table back as it
\* was, the index that the file leaves out included.
THEOREM ReadyCrashLosesNothing == DurableSpec => CrashWhileReadyLosesNothing
<1>1. ASSUME DurableInv, ReadyMeansDurable, healthy, CrashAndRestart
      PROVE  UNCHANGED store
  <2>1. disk = Snapshot
    BY <1>1 DEF ReadyMeansDurable
  <2>2. IndexBySignature(txns) = txnBySig
    <3>1. txnBySig \in [Business \X Signature -> TxnId \cup {Absent}]
      BY <1>1 DEF DurableInv, Sound, IInv, TypeOK
    <3>2. Indexes(txnBySig, txns)
      BY <1>1 DEF DurableInv, Sound, TablesInv, SignatureIndexExact, Indexes
    <3>3. QED
      BY <3>1, <3>2, IndexIsRebuilt
  <2>3. QED
    BY <1>1, <2>1, <2>2 DEF CrashAndRestart, Snapshot, store
<1>2. DurableInv /\ ReadyMeansDurable /\ [DurableNext]_durableVars =>
        [~(healthy /\ CrashAndRestart) \/ UNCHANGED store]_durableVars
  BY <1>1
<1>3. QED
  BY DurablyInductive, ReadyIsDurable, <1>2, PTL DEF DurableSpec, CrashWhileReadyLosesNothing
===============================================================================
