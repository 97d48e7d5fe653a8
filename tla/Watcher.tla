-------------------------------- MODULE Watcher --------------------------------
(***************************************************************************)
(* The Solana watcher (src/workers/solana-watcher) against the API: the    *)
(* scan-wallet command of main.rs, parse_transaction of parser.rs, and the *)
(* ingestion of PaymentTruth that it posts to.                             *)
(*                                                                         *)
(* A scan keeps nothing from the one before.  It lists the newest          *)
(* signatures of the watched address, fetches and parses all of them, then *)
(* posts their transfers one by one, newest transaction first, and stops   *)
(* at the first answer that is not a success.  An answer may be lost: the  *)
(* API finishes the call, the watcher has given up and is run again.       *)
(*                                                                         *)
(* The chain and the node are external.  The model takes the default       *)
(* commitment, so that only finalized transactions are listed; a scan in   *)
(* which the node fails posts nothing and is a scan that did not happen.   *)
(***************************************************************************)
EXTENDS PaymentTruth, SequencesExt

CONSTANTS
  Watched,    \* --wallet
  Operator,   \* the business of --api-key
  ChainTxn,   \* transactions the chain may come to hold
  Limit,      \* --limit
  MaxChain,   \* bound on the chain
  MaxFaults   \* bound on lost answers and restarts of the API

Transfer == [owner : Address, address : Address, amount : Nat, usdc : BOOLEAN]

ASSUME WatcherAssumption ==
  /\ Watched \in Address
  /\ Operator \in Business
  /\ \A txn \in ChainTxn :
       /\ txn.signature \in Signature
       /\ txn.failed \in BOOLEAN
       /\ txn.transfers \in Seq(Transfer)
  /\ Limit \in Nat \ {0}
  /\ MaxChain \in Nat
  /\ MaxFaults \in Nat

VARIABLES
  chain,  \* finalized transactions that mention the watched address, newest first
  scan,   \* the running scan: the evidence still to be posted and the API call
          \* whose answer it waits for; Absent when none runs
  faults  \* lost answers and restarts so far

watcherVars == <<vars, chain, scan, faults>>

-------------------------------------------------------------------------------
(* What the watcher makes of a transaction *)

Block == [txn : ChainTxn, time : Nat]

EvidenceOf(block, transfer) ==
  [signature |-> block.txn.signature, owner |-> transfer.owner,
   address |-> transfer.address, amount |-> transfer.amount,
   blockTime |-> block.time, final |-> TRUE]

IsInbound(transfer) == Watched \in {transfer.owner, transfer.address}

\* normalizeStablecoinTransactionInput refuses an amount of zero.
IsValid(evidence) == evidence.amount > 0

\* What the watcher posts is among the bodies that clients of the API send.
ASSUME PostsAssumption ==
  \A txn \in ChainTxn, time \in 0 .. MaxTime :
    \A i \in DOMAIN txn.transfers :
      LET transfer == txn.transfers[i]
          evidence == EvidenceOf([txn |-> txn, time |-> time], transfer)
      IN  IsInbound(transfer) /\ transfer.usdc /\ IsValid(evidence) =>
            evidence \in Evidence

\* Bug: the mint is not compared.
ParseAnyToken(block) ==
  FlattenSeq([i \in DOMAIN block.txn.transfers |->
    LET transfer == block.txn.transfers[i]
    IN  IF IsInbound(transfer) THEN <<EvidenceOf(block, transfer)>> ELSE <<>>])

\* parse_transaction: the inbound transfers of USDC, an instruction at a time.  It
\* does not look at meta.err, so that those of a failed transaction are among them.
Parse(block) ==
  FlattenSeq([i \in DOMAIN block.txn.transfers |->
    LET transfer == block.txn.transfers[i]
    IN  IF IsInbound(transfer) /\ transfer.usdc
          THEN <<EvidenceOf(block, transfer)>> ELSE <<>>])

\* What getSignaturesForAddress lists, newest first.
Listed == SubSeq(chain, 1, IF Len(chain) < Limit THEN Len(chain) ELSE Limit)

-------------------------------------------------------------------------------
(* Steps *)

Mine(txn) ==
  /\ Len(chain) < MaxChain
  /\ \A i \in DOMAIN chain : chain[i].txn.signature # txn.signature
  /\ chain' = <<[txn |-> txn, time |-> clock]>> \o chain
  /\ UNCHANGED <<vars, scan, faults>>

\* Everything is parsed before anything is posted.
ScanWallet ==
  LET listed == Listed
      events == FlattenSeq([i \in DOMAIN listed |-> Parse(listed[i])])
  IN
  /\ scan = Absent
  /\ events # <<>>
  /\ scan' = [left |-> events, call |-> Absent]
  /\ UNCHANGED <<vars, chain, faults>>

Post(c) ==
  /\ scan # Absent
  /\ scan.call = Absent
  /\ IsValid(Head(scan.left))
  /\ StartIngestStablecoinTransaction(c, Operator, Head(scan.left))
  /\ scan' = [scan EXCEPT !.call = c]
  /\ UNCHANGED <<chain, faults>>

\* 400: as any answer that is not a success, the end of the scan.
PostInvalid ==
  /\ scan # Absent
  /\ scan.call = Absent
  /\ ~IsValid(Head(scan.left))
  /\ scan' = Absent
  /\ UNCHANGED <<vars, chain, faults>>

\* Bug: the last answer does not end the scan.
ScanOn(c, accepted) ==
  IF scan = Absent \/ c # scan.call THEN UNCHANGED scan
  ELSE scan' = IF accepted THEN [left |-> Tail(scan.left), call |-> Absent] ELSE Absent

\* Bug: an answer that is not a success ends nothing and is asked for again.
RetryOnRefusal(c, accepted) ==
  IF scan = Absent \/ c # scan.call THEN UNCHANGED scan
  ELSE scan' = IF ~accepted THEN [scan EXCEPT !.call = Absent]
               ELSE IF Len(scan.left) > 1
                      THEN [left |-> Tail(scan.left), call |-> Absent] ELSE Absent

\* maybe_post goes on after a success, and gives up at error_for_status.
Answered(c, accepted) ==
  IF scan = Absent \/ c # scan.call THEN UNCHANGED scan
  ELSE scan' = IF accepted /\ Len(scan.left) > 1
                 THEN [left |-> Tail(scan.left), call |-> Absent] ELSE Absent

SameEvidence(e, f) ==
  e.amount = f.amount /\ e.address = f.address /\ e.owner = f.owner

\* 201 for a new transaction, 200 for a known one with the same evidence; 404 or
\* 409 otherwise.
FinishIngest(c) ==
  LET call == calls[c] IN
  /\ \/ /\ \E t \in TxnId, w \in WalletId : IngestStablecoinTransaction(c, t, w)
        /\ Answered(c, TRUE)
     \/ /\ RefuseOrReplayIngest(c)
        /\ LET known == txnBySig[<<call.business, call.evidence.signature>>]
           IN  Answered(c, /\ PayableWallets(call.business, call.evidence) # {}
                           /\ SameEvidence(call.evidence, txns[known].evidence))
  /\ UNCHANGED <<chain, faults>>

\* The watcher gives up on the answer; the call goes on.
LoseAnswer ==
  /\ scan # Absent
  /\ scan.call # Absent
  /\ faults < MaxFaults
  /\ faults' = faults + 1
  /\ scan' = Absent
  /\ UNCHANGED <<vars, chain>>

\* The API dies and comes back with the tables it had (DurableTruth shows that,
\* while it is ready, it does); calls in flight are gone, and so is a scan that
\* waits for one.
RestartApi ==
  /\ \E c \in Caller : calls[c] # Absent
  /\ faults < MaxFaults
  /\ faults' = faults + 1
  /\ calls' = [c \in Caller |-> Absent]
  /\ scan' = IF scan = Absent THEN Absent
             ELSE IF scan.call = Absent THEN scan ELSE Absent
  /\ UNCHANGED <<clock, store, chain>>

\* Other clients of the API: wallets and payment requests.
OtherClients ==
  /\ \/ Tick
     \/ \E w \in WalletId, a \in Address : RegisterWallet(Operator, w, a)
     \/ \E c \in Caller, k \in IdemKey, body \in Body :
          StartCreatePaymentRequest(c, Operator, k, body)
  /\ UNCHANGED <<chain, scan, faults>>

FinishCreate(c) ==
  /\ RefuseOrReplayCreate(c) \/ \E r \in RequestId : CreatePaymentRequest(c, r)
  /\ UNCHANGED <<chain, scan, faults>>

WatcherInit ==
  /\ Init
  /\ chain = <<>>
  /\ scan = Absent
  /\ faults = 0

PostNext == PostInvalid \/ \E c \in Caller : Post(c)

WatcherNext ==
  \/ OtherClients
  \/ \E txn \in ChainTxn : Mine(txn)
  \/ ScanWallet
  \/ PostNext
  \/ \E c \in Caller : FinishIngest(c) \/ FinishCreate(c)
  \/ LoseAnswer
  \/ RestartApi

\* Handlers get the lock in the end; a post finds a handler in the end, however
\* often others take one (there is a goroutine for every connection, Caller only
\* bounds them); and the scan is run again and again, which the repository leaves
\* to whoever schedules the command.
Fairness ==
  /\ WF_watcherVars(ScanWallet)
  /\ SF_watcherVars(PostNext)
  /\ \A c \in Caller : WF_watcherVars(FinishIngest(c) \/ FinishCreate(c))

WatcherSpec == WatcherInit /\ [][WatcherNext]_watcherVars /\ Fairness

-------------------------------------------------------------------------------
(* Properties *)

\* A running scan has something left to post, and waits for at most one call.
WatcherTypeOK ==
  /\ chain \in Seq(Block)
  /\ faults \in 0 .. MaxFaults
  /\ scan # Absent =>
       /\ scan.left # <<>>
       /\ scan.call # Absent =>
            calls[scan.call] = [op |-> "ingest", business |-> Operator,
                                evidence |-> Head(scan.left),
                                now |-> calls[scan.call].now]

Stored(s) == txnBySig[<<Operator, s>>] # Absent

\* Whatever is stored was moved to the watched address on chain, in USDC, by the
\* transaction with that signature, at the time the evidence says.
EvidenceIsOnChain ==
  \A t \in TxnId :
    txns[t] # Absent =>
      \E i \in DOMAIN chain :
        \E j \in DOMAIN chain[i].txn.transfers :
          /\ chain[i].txn.transfers[j].usdc
          /\ IsInbound(chain[i].txn.transfers[j])
          /\ txns[t].evidence = EvidenceOf(chain[i], chain[i].txn.transfers[j])

\* Posting the transfers of the transaction gets an answer that ends the scan.
Stops(block) ==
  LET posted == Parse(block)
  IN  \E i \in DOMAIN posted :
        ~IsValid(posted[i]) \/ ~SameEvidence(posted[i], posted[1])

\* The transaction is among those a scan lists, and the scan comes to it: no newer
\* one stops it.
InReach(s) ==
  LET listed == Listed
  IN  \E i \in DOMAIN listed :
        /\ listed[i].txn.signature = s
        /\ Parse(listed[i]) # <<>>
        /\ IsValid(Parse(listed[i])[1])
        /\ \A j \in 1 .. i - 1 : ~Stops(listed[j])

Registered ==
  \E w \in WalletId : wallets[w] = [business |-> Operator, address |-> Watched]

\* docs/v1-milestones.md: "USDC entering a registered wallet is detected" - also
\* when answers are lost, the API restarts or the wallet is registered late, as
\* long as the transaction stays within what a scan reaches.
PaymentsAreDetected ==
  \A s \in Signature : <>[](InReach(s) /\ Registered) => <>Stored(s)

AwaitsPayment(r) ==
  /\ requests[r] # Absent
  /\ requests[r].status = "awaiting_payment"
  /\ wallets[requests[r].wallet].address = Watched

\* End to end: a payment that is on chain while the wallet's only request waits
\* for it moves that request on, to confirmed or to an exception.
PaymentsReachTheirRequest ==
  \A s \in Signature, r \in RequestId :
    <>[]InReach(s) =>
      (AwaitsPayment(r) /\ ~Stored(s))
        ~> (~AwaitsPayment(r) \/ \E q \in RequestId \ {r} : AwaitsPayment(q))

-------------------------------------------------------------------------------
(* What documents say and the code does not do *)

\* docs/milestones/milestone-3/README.md: the watcher's goal is to "detect USDC
\* transfers into registered Solana business wallets" - a transaction that failed
\* has transferred nothing.
FailedPaymentsAreIgnored ==
  \A t \in TxnId, i \in DOMAIN chain :
    /\ txns[t] # Absent
    /\ txns[t].evidence.signature = chain[i].txn.signature
    => ~chain[i].txn.failed
===============================================================================
