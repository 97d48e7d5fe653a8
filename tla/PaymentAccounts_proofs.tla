------------------------ MODULE PaymentAccounts_proofs ------------------------
(***************************************************************************)
(* Requests, transactions, matches, exceptions and receipts tell one       *)
(* story, for all constants.  The invariants of PaymentTruth that say so   *)
(* speak of sets (the matches of a request, the exceptions about a         *)
(* transaction); here each is first brought into a form that speaks of one *)
(* row at a time, which is what a step preserves.                          *)
(***************************************************************************)
EXTENDS PaymentTruth_proofs

-------------------------------------------------------------------------------
(* One row at a time *)

\* A request that no longer waits was matched.
SettledHaveMatch ==
  \A r \in RequestId :
    requests[r] # Absent /\ requests[r].status # "awaiting_payment" =>
      \E m \in matches : m.request = r

\* The request of an exact match is confirmed, and nothing disputes the match.
ConfirmedIsClean ==
  \A m \in matches :
    m.status = "confirmed" =>
      /\ requests[m.request].status = "confirmed"
      /\ \A x \in ExceptionId :
           exceptions[x] # Absent =>
             exceptions[x].request # m.request /\ exceptions[x].txn # m.txn

\* Exception x is about match m; request and exception are both open or closed.
Disputes(x, m) ==
  /\ exceptions[x] # Absent
  /\ exceptions[x].request = m.request
  /\ exceptions[x].txn = m.txn
  /\ exceptions[x].type = m.status
  /\ exceptions[x].business = requests[m.request].business
  /\ \/ exceptions[x].status = "open" /\ requests[m.request].status = m.status
     \/ /\ exceptions[x].status = "resolved"
        /\ requests[m.request].status = "manually_resolved"

DisputesAreRaised ==
  \A m \in matches :
    m.status # "confirmed" => \E x \in ExceptionId : Disputes(x, m)

OneExceptionPerTxn ==
  \A x, y \in ExceptionId :
    /\ exceptions[x] # Absent /\ exceptions[y] # Absent
    /\ exceptions[x].txn = exceptions[y].txn
    => x = y

Unmatched(t) == \A m \in matches : m.txn # t

RaisedAbout(t, type) ==
  \E x \in ExceptionId :
    exceptions[x] # Absent /\ exceptions[x].txn = t /\ exceptions[x].type = type

\* What the status of a stored transaction stands for.
Account(t) ==
  \/ /\ txns[t].status = "pending_finality" /\ ~txns[t].evidence.final
     /\ Unmatched(t)
     /\ \A x \in ExceptionId : exceptions[x] # Absent => exceptions[x].txn # t
  \/ /\ txns[t].status = "confirmed_onchain" /\ txns[t].evidence.final
     /\ Unmatched(t) /\ RaisedAbout(t, "ambiguous_match")
  \/ /\ txns[t].status = "orphan" /\ txns[t].evidence.final
     /\ Unmatched(t) /\ RaisedAbout(t, "orphan")
  \/ /\ txns[t].status = "matched_to_request" /\ txns[t].evidence.final
     /\ ~Unmatched(t)

Accounts == \A t \in TxnId : txns[t] # Absent => Account(t)

StoryInv ==
  /\ SettledHaveMatch
  /\ ConfirmedIsClean
  /\ DisputesAreRaised
  /\ OneExceptionPerTxn
  /\ Accounts

-------------------------------------------------------------------------------
(* What a step does to the four tables *)

\* Only transaction t is added, with status st.
Stores(t, st) ==
  /\ txns[t] = Absent
  /\ txns'[t] # Absent
  /\ txns'[t].status = st
  /\ \A u \in TxnId \ {t} : txns'[u] = txns[u]

\* t is stored and settles r, which waited, with outcome o.
StoresAndSettles(t, r, o, now) ==
  /\ Stores(t, "matched_to_request") /\ txns'[t].evidence.final
  /\ requests[r] # Absent
  /\ requests[r].status = "awaiting_payment"
  /\ requests[r].business = txns'[t].business
  /\ o \in Outcome
  /\ Moves(r, o)
  /\ matches' = matches \cup {[request |-> r, txn |-> t, status |-> o, at |-> now]}
  /\ \/ o = "confirmed" /\ UNCHANGED exceptions
     \/ /\ o # "confirmed"
        /\ \E x \in ExceptionId : Raised(x, txns'[t].business, r, t, o, now)

\* t is stored and exception x is raised, which names no request.
StoresAndRaises(t, x, b, now) ==
  /\ txns'[t].evidence.final
  /\ UNCHANGED <<requests, matches>>
  /\ \/ Stores(t, "confirmed_onchain") /\ Raised(x, b, Absent, t, "ambiguous_match", now)
     \/ Stores(t, "orphan") /\ Raised(x, b, Absent, t, "orphan", now)

\* Exception x is closed, and the request it names, if any.
ClosesWithRequest(x) ==
  /\ Closes(x)
  /\ \/ exceptions[x].request = Absent /\ UNCHANGED requests
     \/ /\ exceptions[x].request \in RequestId
        /\ requests[exceptions[x].request] # Absent
        /\ Moves(exceptions[x].request, "manually_resolved")
  /\ UNCHANGED <<txns, matches>>

\* Only request r is added; it waits.
Adds(r) ==
  /\ requests[r] = Absent
  /\ requests'[r].status = "awaiting_payment"
  /\ \A q \in RequestId \ {r} : requests'[q] = requests[q]
  /\ UNCHANGED <<txns, matches, exceptions>>

\* An ingestion stores a transaction, and receipts change only with a settlement.
LEMMA IngestTells ==
  ASSUME TypeOK, NEW c \in Caller, NEW t \in TxnId, NEW w \in WalletId,
         IngestStablecoinTransaction(c, t, w)
  PROVE  \/ /\ Stores(t, "pending_finality") /\ ~txns'[t].evidence.final
            /\ UNCHANGED <<requests, matches, exceptions, receipts>>
         \/ \E r \in RequestId, o \in Outcome :
              /\ StoresAndSettles(t, r, o, calls[c].now)
              /\ receipts' = [receipts EXCEPT ![r] =
                   @ \cup SettlementEvents(t, o, calls[c].now)]
         \/ /\ \E x \in ExceptionId :
                 StoresAndRaises(t, x, calls[c].business, calls[c].now)
            /\ UNCHANGED receipts
<1> DEFINE tx == Arrival(c, w, "confirmed_onchain")
           now == calls[c].now
<1>1. PICK st \in TxnStatus : Books(c, t, w, st)
  BY IngestBooks
<1>2. /\ Stores(t, st)
      /\ txns'[t].evidence = calls[c].evidence
      /\ txns'[t].business = tx.business
      /\ tx.business \in Business /\ now \in Nat
      /\ \/ /\ st = "pending_finality" /\ ~calls[c].evidence.final
            /\ UNCHANGED <<requests, matches, exceptions, receipts>>
         \/ /\ st = "matched_to_request" /\ calls[c].evidence.final
            /\ \E r \in RequestId : SettleRequest(t, tx, r, now)
         \/ /\ calls[c].evidence.final
            /\ UNCHANGED <<requests, matches, receipts>>
            /\ \E x \in ExceptionId :
                 \/ /\ st = "confirmed_onchain"
                    /\ Raised(x, calls[c].business, Absent, t, "ambiguous_match", now)
                 \/ /\ st = "orphan"
                    /\ Raised(x, calls[c].business, Absent, t, "orphan", now)
  BY <1>1, AbsentAssumption DEF Books, Stores, Arrival
<1> HIDE DEF tx
<1>3. ASSUME NEW r \in RequestId, SettleRequest(t, tx, r, now),
             st = "matched_to_request", calls[c].evidence.final
      PROVE  \E o \in Outcome :
               /\ StoresAndSettles(t, r, o, now)
               /\ receipts' = [receipts EXCEPT ![r] = @ \cup SettlementEvents(t, o, now)]
  <2> DEFINE o == Verdict(tx, r)
  <2> HIDE DEF now
  <2>1. /\ o \in Outcome
        /\ requests[r] # Absent
        /\ requests[r].status = "awaiting_payment"
        /\ requests[r].business = tx.business
        /\ Moves(r, o)
        /\ matches' = matches \cup {[request |-> r, txn |-> t, status |-> o, at |-> now]}
        /\ receipts' = [receipts EXCEPT ![r] = @ \cup SettlementEvents(t, o, now)]
        /\ \/ o = "confirmed" /\ UNCHANGED exceptions
           \/ /\ o # "confirmed"
              /\ \E x \in ExceptionId : Raised(x, tx.business, r, t, o, now)
    BY <1>2, <1>3, SettlementWrites
  <2> HIDE DEF o
  <2>2. StoresAndSettles(t, r, o, now)
    BY <1>2, <1>3, <2>1 DEF StoresAndSettles
  <2>3. QED
    BY <2>1, <2>2
<1>4. QED
  BY <1>2, <1>3 DEF StoresAndRaises

\* Every step does one of six things to requests, transactions, matches and
\* exceptions.
LEMMA StepTells ==
  ASSUME IInv, [Next]_vars
  PROVE  \/ UNCHANGED <<requests, txns, matches, exceptions>>
         \/ \E r \in RequestId : Adds(r)
         \/ \E t \in TxnId :
              /\ Stores(t, "pending_finality") /\ ~txns'[t].evidence.final
              /\ UNCHANGED <<requests, matches, exceptions>>
         \/ \E t \in TxnId, r \in RequestId, o \in Outcome, now \in Nat :
              StoresAndSettles(t, r, o, now)
         \/ \E t \in TxnId, x \in ExceptionId, b \in Business, now \in Nat :
              StoresAndRaises(t, x, b, now)
         \/ \E x \in ExceptionId : ClosesWithRequest(x)
<1>1. TypeOK /\ NoDanglingId
  BY DEF IInv
<1>2. CASE UNCHANGED store \/
           \E b \in Business, w \in WalletId, a \in Address : RegisterWallet(b, w, a)
  BY <1>2 DEF store, RegisterWallet
<1>3. ASSUME NEW c \in Caller, NEW r \in RequestId, CreatePaymentRequest(c, r)
      PROVE  Adds(r)
  BY <1>1, <1>3, CreationWrites DEF Adds
<1>4. ASSUME NEW c \in Caller, ResolveException(c)
      PROVE  \E x \in ExceptionId : ClosesWithRequest(x)
  <2> DEFINE x == calls[c].exception
  <2>1. /\ x \in ExceptionId
        /\ Closes(x)
        /\ \/ exceptions[x].request = Absent /\ UNCHANGED requests
           \/ /\ exceptions[x].request \in RequestId
              /\ requests[exceptions[x].request] # Absent
              /\ Moves(exceptions[x].request, "manually_resolved")
        /\ UNCHANGED <<txns, matches>>
    BY <1>1, <1>4, ResolutionWrites
  <2> HIDE DEF x
  <2>2. QED
    BY <2>1 DEF ClosesWithRequest
<1>5. ASSUME NEW c \in Caller, NEW t \in TxnId, NEW w \in WalletId,
             IngestStablecoinTransaction(c, t, w)
      PROVE  \/ /\ Stores(t, "pending_finality") /\ ~txns'[t].evidence.final
                /\ UNCHANGED <<requests, matches, exceptions>>
             \/ \E r \in RequestId, o \in Outcome, now \in Nat :
                  StoresAndSettles(t, r, o, now)
             \/ \E x \in ExceptionId, b \in Business, now \in Nat :
                  StoresAndRaises(t, x, b, now)
  <2>1. calls[c].business \in Business /\ calls[c].now \in Nat
    BY <1>1, <1>5, IngestBooks DEF Books
  <2>2. QED
    BY <1>1, <1>5, <2>1, IngestTells
<1>6. QED
  BY <1>2, <1>3, <1>4, <1>5, StepIs

\* A settlement names a request and a transaction nothing named before.
LEMMA SettlementIsFresh ==
  ASSUME IInv, NEW t \in TxnId, NEW r \in RequestId, NEW o, NEW now,
         StoresAndSettles(t, r, o, now)
  PROVE  /\ \A m \in matches : m.request # r /\ m.txn # t
         /\ \A x \in ExceptionId :
              exceptions[x] # Absent => exceptions[x].request # r /\ exceptions[x].txn # t
BY AbsentAssumption DEF StoresAndSettles, Stores, IInv, NoDanglingId, TablesClosed

\* Neither a match nor an exception is about a transaction that is not stored.
LEMMA NewTxnIsFresh ==
  ASSUME IInv, NEW t \in TxnId, txns[t] = Absent
  PROVE  /\ \A m \in matches : m.txn # t
         /\ \A x \in ExceptionId : exceptions[x] # Absent => exceptions[x].txn # t
BY DEF IInv, NoDanglingId, TablesClosed

\* A match names a settled request and a stored transaction.
LEMMA MatchIds ==
  ASSUME IInv, NEW m \in matches
  PROVE  /\ m.request \in RequestId /\ m.txn \in TxnId
         /\ m.status \in Outcome
         /\ requests[m.request] # Absent /\ txns[m.txn] # Absent
         /\ requests[m.request].status # "awaiting_payment"
BY DEF IInv, TypeOK, Match, NoDanglingId, TablesClosed

\* A request leaves "awaiting_payment" with a match.
LEMMA SettledHaveMatchStep ==
  ASSUME IInv, SettledHaveMatch, [Next]_vars
  PROVE  SettledHaveMatch'
<1>1. \A r \in RequestId : requests[r] # Absent => requests'[r] # Absent /\ SameTerms(r)
  BY StepKeepsRows, AbsentAssumption DEF IInv, RowsStay, SameTerms
<1>2. matches \subseteq matches'
  BY StepKeepsRows DEF IInv, RowsStay
<1>3. CASE UNCHANGED requests
  BY <1>2, <1>3 DEF SettledHaveMatch
<1>4. ASSUME NEW r \in RequestId, Adds(r) PROVE SettledHaveMatch'
  BY <1>2, <1>4 DEF Adds, SettledHaveMatch
<1>5. ASSUME NEW t \in TxnId, NEW r \in RequestId, NEW o \in Outcome, NEW now \in Nat,
             StoresAndSettles(t, r, o, now)
      PROVE  SettledHaveMatch'
  <2>1. \E m \in matches' : m.request = r
    <3> DEFINE n == [request |-> r, txn |-> t, status |-> o, at |-> now]
    <3>1. n.request = r
      OBVIOUS
    <3>2. n \in matches'
      BY <1>5 DEF StoresAndSettles
    <3>3. QED
      BY <3>1, <3>2
  <2>2. \A q \in RequestId \ {r} : requests'[q] = requests[q]
    BY <1>5 DEF StoresAndSettles, Moves
  <2>3. QED
    BY <1>2, <2>1, <2>2 DEF SettledHaveMatch
<1>6. ASSUME NEW x \in ExceptionId, ClosesWithRequest(x), ~UNCHANGED requests
      PROVE  SettledHaveMatch'
  <2> DEFINE r == exceptions[x].request
  <2>1. /\ r \in RequestId /\ requests[r] # Absent
        /\ \A q \in RequestId \ {r} : requests'[q] = requests[q]
        /\ exceptions[x] # Absent
    BY <1>6, AbsentAssumption DEF ClosesWithRequest, Moves, Closes
  <2>2. requests[r].status # "awaiting_payment"
    BY <2>1, AbsentAssumption DEF IInv, NoDanglingId, TablesClosed
  <2> HIDE DEF r
  <2>3. QED
    BY <1>2, <2>1, <2>2 DEF SettledHaveMatch
<1>7. QED
  BY <1>3, <1>4, <1>5, <1>6, StepTells DEF StoresAndRaises

\* Nothing disputes an exact match, however long ago it was made.
LEMMA ConfirmedIsCleanStep ==
  ASSUME IInv, ConfirmedIsClean, [Next]_vars
  PROVE  ConfirmedIsClean'
<1>1. \A x \in ExceptionId : exceptions[x] # Absent =>
        /\ exceptions'[x].request = exceptions[x].request
        /\ exceptions'[x].txn = exceptions[x].txn
  BY StepKeepsRows DEF IInv, RowsStay, SameCase
<1>2. \A m \in matches : /\ m.request \in RequestId /\ m.txn \in TxnId
                         /\ m.request # Absent
                         /\ requests[m.request] # Absent
  BY MatchIds, AbsentAssumption
<1>3. CASE UNCHANGED <<requests, matches, exceptions>>
  BY <1>3 DEF ConfirmedIsClean
<1>4. ASSUME NEW r \in RequestId, Adds(r) PROVE ConfirmedIsClean'
  BY <1>2, <1>4 DEF Adds, ConfirmedIsClean
<1>5. ASSUME NEW t \in TxnId, NEW r \in RequestId, NEW o \in Outcome, NEW now \in Nat,
             StoresAndSettles(t, r, o, now)
      PROVE  ConfirmedIsClean'
  <2> DEFINE n == [request |-> r, txn |-> t, status |-> o, at |-> now]
  <2>1. n.request = r /\ n.txn = t /\ n.status = o
    OBVIOUS
  <2>2. /\ matches' = matches \cup {n}
        /\ requests'[r].status = o
        /\ \A q \in RequestId \ {r} : requests'[q] = requests[q]
        /\ \/ o = "confirmed" /\ UNCHANGED exceptions
           \/ /\ o # "confirmed"
              /\ \E x \in ExceptionId : Raised(x, txns'[t].business, r, t, o, now)
    BY <1>5 DEF StoresAndSettles, Moves
  <2> HIDE DEF n
  <2>3. /\ \A m \in matches : m.request # r /\ m.txn # t
        /\ \A x \in ExceptionId :
             exceptions[x] # Absent => exceptions[x].request # r /\ exceptions[x].txn # t
    BY <1>5, SettlementIsFresh
  <2>4. CASE o = "confirmed" /\ UNCHANGED exceptions
    BY <1>2, <2>1, <2>2, <2>3, <2>4 DEF ConfirmedIsClean
  <2>5. ASSUME NEW x \in ExceptionId, o # "confirmed",
               Raised(x, txns'[t].business, r, t, o, now)
        PROVE  ConfirmedIsClean'
    <3>1. /\ exceptions'[x].request = r /\ exceptions'[x].txn = t
          /\ \A y \in ExceptionId \ {x} : exceptions'[y] = exceptions[y]
      BY <2>5 DEF Raised
    <3>2. QED
      BY <1>2, <2>1, <2>2, <2>3, <2>5, <3>1 DEF ConfirmedIsClean
  <2>6. QED
    BY <2>2, <2>4, <2>5
<1>6. ASSUME NEW t \in TxnId, NEW x \in ExceptionId, NEW b, NEW now,
             StoresAndRaises(t, x, b, now)
      PROVE  ConfirmedIsClean'
  <2>1. /\ UNCHANGED <<requests, matches>>
        /\ txns[t] = Absent
        /\ exceptions'[x].request = Absent /\ exceptions'[x].txn = t
        /\ \A y \in ExceptionId \ {x} : exceptions'[y] = exceptions[y]
    BY <1>6 DEF StoresAndRaises, Stores, Raised
  <2>2. \A m \in matches : m.txn # t
    BY <2>1, NewTxnIsFresh
  <2>3. QED
    BY <1>2, <2>1, <2>2 DEF ConfirmedIsClean
<1>7. ASSUME NEW x \in ExceptionId, ClosesWithRequest(x) PROVE ConfirmedIsClean'
  <2>1. /\ exceptions[x] # Absent
        /\ UNCHANGED matches
        /\ \A y \in ExceptionId \ {x} : exceptions'[y] = exceptions[y]
        /\ \A q \in RequestId : q # exceptions[x].request => requests'[q] = requests[q]
    BY <1>7, AbsentAssumption DEF ClosesWithRequest, Closes, Moves
  <2>2. QED
    BY <1>1, <1>2, <2>1 DEF ConfirmedIsClean
<1>8. QED
  BY <1>3, <1>4, <1>5, <1>6, <1>7, StepTells

\* Every other match has its exception, which follows the request.
LEMMA DisputesAreRaisedStep ==
  ASSUME IInv, DisputesAreRaised, [Next]_vars
  PROVE  DisputesAreRaised'
<1>1. \A x \in ExceptionId : exceptions[x] # Absent => exceptions'[x] # Absent /\ SameCase(x)
  BY StepKeepsRows, AbsentAssumption DEF IInv, RowsStay, SameCase
<1>2. \A r \in RequestId : requests[r] # Absent => SameTerms(r)
  BY StepKeepsRows DEF IInv, RowsStay
\* An old match keeps its exception unless that one is closed in this step.
<1>3. ASSUME NEW m \in matches, NEW x \in ExceptionId, Disputes(x, m),
             exceptions'[x].status = exceptions[x].status,
             requests'[m.request].status = requests[m.request].status
      PROVE  Disputes(x, m)'
  <2>1. SameCase(x) /\ exceptions'[x] # Absent
    BY <1>1, <1>3 DEF Disputes
  <2>2. requests'[m.request].business = requests[m.request].business
    BY <1>2, MatchIds DEF SameTerms
  <2>3. QED
    BY <1>3, <2>1, <2>2 DEF Disputes, SameCase
<1>4. ASSUME \A m \in matches : requests'[m.request] = requests[m.request],
             \A x \in ExceptionId : exceptions[x] # Absent => exceptions'[x] = exceptions[x],
             NEW m \in matches, m.status # "confirmed"
      PROVE  \E x \in ExceptionId : Disputes(x, m)'
  <2>1. PICK x \in ExceptionId : Disputes(x, m)
    BY <1>4 DEF DisputesAreRaised
  <2>2. Disputes(x, m)'
    BY <1>3, <1>4, <2>1 DEF Disputes
  <2>3. QED
    BY <2>2
<1>5. CASE UNCHANGED <<requests, matches, exceptions>>
  BY <1>4, <1>5 DEF DisputesAreRaised
<1>6. ASSUME NEW r \in RequestId, Adds(r) PROVE DisputesAreRaised'
  BY <1>4, <1>6, MatchIds DEF Adds, DisputesAreRaised
<1>7. ASSUME NEW t \in TxnId, NEW r \in RequestId, NEW o \in Outcome, NEW now \in Nat,
             StoresAndSettles(t, r, o, now)
      PROVE  DisputesAreRaised'
  <2>1. /\ matches' = matches \cup {[request |-> r, txn |-> t, status |-> o, at |-> now]}
        /\ requests[r].business = txns'[t].business
        /\ SameTerms(r) /\ requests'[r].status = o
        /\ \A q \in RequestId \ {r} : requests'[q] = requests[q]
        /\ \/ o = "confirmed" /\ UNCHANGED exceptions
           \/ /\ o # "confirmed"
              /\ \E x \in ExceptionId : Raised(x, txns'[t].business, r, t, o, now)
    BY <1>7 DEF StoresAndSettles, Moves
  <2>2. /\ \A m \in matches : requests'[m.request] = requests[m.request]
        /\ \A x \in ExceptionId : exceptions[x] # Absent => exceptions'[x] = exceptions[x]
    BY <1>7, <2>1, SettlementIsFresh, MatchIds DEF Raised
  <2>3. ASSUME NEW m \in matches', m \notin matches, m.status # "confirmed"
        PROVE  \E x \in ExceptionId : Disputes(x, m)'
    <3>1. m.request = r /\ m.txn = t /\ m.status = o
      BY <2>1, <2>3
    <3>2. PICK x \in ExceptionId : Raised(x, txns'[t].business, r, t, o, now)
      BY <2>1, <2>3, <3>1
    <3>3. Disputes(x, m)'
      BY <2>1, <3>1, <3>2 DEF Disputes, Raised, SameTerms
    <3>4. QED
      BY <3>3
  <2>4. QED
    BY <1>4, <2>2, <2>3 DEF DisputesAreRaised
<1>8. ASSUME NEW t \in TxnId, NEW x \in ExceptionId, NEW b, NEW now,
             StoresAndRaises(t, x, b, now)
      PROVE  DisputesAreRaised'
  <2>1. /\ UNCHANGED <<requests, matches>>
        /\ \A y \in ExceptionId : exceptions[y] # Absent => exceptions'[y] = exceptions[y]
    BY <1>8 DEF StoresAndRaises, Raised
  <2>2. QED
    BY <1>4, <2>1 DEF DisputesAreRaised
<1>9. ASSUME NEW x \in ExceptionId, ClosesWithRequest(x) PROVE DisputesAreRaised'
  <2>1. /\ exceptions[x] # Absent /\ exceptions[x].status = "open"
        /\ exceptions'[x].status = "resolved"
        /\ UNCHANGED matches
        /\ \A y \in ExceptionId \ {x} : exceptions'[y] = exceptions[y]
        /\ \A q \in RequestId : q # exceptions[x].request => requests'[q] = requests[q]
        /\ exceptions[x].request # Absent =>
             requests'[exceptions[x].request].status = "manually_resolved"
    BY <1>9, AbsentAssumption DEF ClosesWithRequest, Closes, Moves
  <2>2. ASSUME NEW m \in matches, m.status # "confirmed"
        PROVE  \E y \in ExceptionId : Disputes(y, m)'
    <3>1. PICK y \in ExceptionId : Disputes(y, m)
      BY <2>2 DEF DisputesAreRaised
    <3>2. /\ m.request \in RequestId /\ m.request # Absent
          /\ requests[m.request] # Absent
      BY MatchIds, AbsentAssumption
    <3>3. CASE y = x
      <4>1. /\ SameCase(x) /\ exceptions'[x] # Absent
            /\ exceptions'[x].request = m.request
            /\ requests'[m.request].status = "manually_resolved"
            /\ requests'[m.request].business = requests[m.request].business
        BY <1>1, <1>2, <2>1, <3>1, <3>2, <3>3 DEF Disputes, SameCase, SameTerms
      <4>2. Disputes(x, m)'
        BY <2>1, <3>1, <3>3, <4>1 DEF Disputes, SameCase
      <4>3. QED
        BY <4>2
    <3>4. CASE y # x
      <4>1. exceptions[x].request # m.request
        BY <2>1, <3>1, <3>2, <3>4 DEF IInv, OneDisputePerRequest, Disputes
      <4>2. Disputes(y, m)'
        BY <1>3, <2>1, <3>1, <3>2, <3>4, <4>1
      <4>3. QED
        BY <4>2
    <3>5. QED
      BY <3>3, <3>4
  <2>3. QED
    BY <2>1, <2>2 DEF DisputesAreRaised
<1>10. QED
  BY <1>5, <1>6, <1>7, <1>8, <1>9, StepTells

\* Exceptions are raised only about the transaction that is being stored.
LEMMA OneExceptionPerTxnStep ==
  ASSUME IInv, OneExceptionPerTxn, [Next]_vars
  PROVE  OneExceptionPerTxn'
<1>1. \A x \in ExceptionId :
        exceptions[x] # Absent => exceptions'[x].txn = exceptions[x].txn
  BY StepKeepsRows DEF IInv, RowsStay, SameCase
<1>2. CASE \A x \in ExceptionId : exceptions[x] = Absent => exceptions'[x] = Absent
  BY <1>1, <1>2 DEF OneExceptionPerTxn
<1>3. ASSUME NEW t \in TxnId, NEW x \in ExceptionId, txns[t] = Absent,
             exceptions'[x].txn = t,
             \A y \in ExceptionId \ {x} : exceptions'[y] = exceptions[y]
      PROVE  OneExceptionPerTxn'
  <2>1. \A y \in ExceptionId : exceptions[y] # Absent => exceptions[y].txn # t
    BY <1>3, NewTxnIsFresh
  <2>2. QED
    BY <1>1, <1>3, <2>1 DEF OneExceptionPerTxn
<1>4. ASSUME NEW t \in TxnId, NEW r \in RequestId, NEW o \in Outcome, NEW now \in Nat,
             StoresAndSettles(t, r, o, now)
      PROVE  OneExceptionPerTxn'
  <2>1. txns[t] = Absent
    BY <1>4 DEF StoresAndSettles, Stores
  <2>2. CASE UNCHANGED exceptions
    BY <1>2, <2>2
  <2>3. ASSUME NEW x \in ExceptionId, Raised(x, txns'[t].business, r, t, o, now)
        PROVE  OneExceptionPerTxn'
    <3>1. /\ exceptions'[x].txn = t
          /\ \A y \in ExceptionId \ {x} : exceptions'[y] = exceptions[y]
      BY <2>3 DEF Raised
    <3>2. QED
      BY <1>3, <2>1, <3>1
  <2>4. QED
    BY <1>4, <2>2, <2>3 DEF StoresAndSettles
<1>5. ASSUME NEW t \in TxnId, NEW x \in ExceptionId, NEW b, NEW now,
             StoresAndRaises(t, x, b, now)
      PROVE  OneExceptionPerTxn'
  <2>1. /\ txns[t] = Absent
        /\ exceptions'[x].txn = t
        /\ \A y \in ExceptionId \ {x} : exceptions'[y] = exceptions[y]
    BY <1>5 DEF StoresAndRaises, Stores, Raised
  <2>2. QED
    BY <1>3, <2>1
<1>6. ASSUME NEW x \in ExceptionId, ClosesWithRequest(x) PROVE OneExceptionPerTxn'
  <2>1. /\ exceptions[x] # Absent
        /\ \A y \in ExceptionId \ {x} : exceptions'[y] = exceptions[y]
    BY <1>6, AbsentAssumption DEF ClosesWithRequest, Closes
  <2>2. QED
    BY <1>2, <2>1
<1>7. QED
  BY <1>2, <1>4, <1>5, <1>6, StepTells DEF Adds

\* A transaction is stored with its account, which no later step takes away and
\* to which no later step adds.
LEMMA AccountsStep ==
  ASSUME IInv, Accounts, [Next]_vars
  PROVE  Accounts'
<1>1. RowsStay
  BY StepKeepsRows DEF IInv
<1>2. \A x \in ExceptionId : exceptions[x] # Absent =>
        /\ exceptions'[x] # Absent
        /\ exceptions'[x].txn = exceptions[x].txn
        /\ exceptions'[x].type = exceptions[x].type
  BY <1>1, AbsentAssumption DEF RowsStay, SameCase
\* An old transaction keeps its account if nothing new names it.
<1>3. ASSUME NEW t \in TxnId, txns[t] # Absent,
             \A m \in matches' \ matches : m.txn # t,
             \A x \in ExceptionId : exceptions[x] = Absent /\ exceptions'[x] # Absent
                                      => exceptions'[x].txn # t
      PROVE  Account(t)'
  <2>1. Account(t) /\ txns'[t] = txns[t] /\ matches \subseteq matches'
    BY <1>1, <1>3 DEF Accounts, RowsStay
  <2>2. Unmatched(t) => Unmatched(t)'
    BY <1>3 DEF Unmatched
  <2>3. ~Unmatched(t) => ~Unmatched(t)'
    BY <2>1 DEF Unmatched
  <2>4. \A type : RaisedAbout(t, type) => RaisedAbout(t, type)'
    BY <1>2 DEF RaisedAbout
  <2>5. (\A x \in ExceptionId : exceptions[x] # Absent => exceptions[x].txn # t)
          => \A x \in ExceptionId : exceptions'[x] # Absent => exceptions'[x].txn # t
    BY <1>2, <1>3
  <2>6. QED
    BY <2>1, <2>2, <2>3, <2>4, <2>5 DEF Account
<1>4. CASE /\ UNCHANGED <<txns, matches>>
           /\ \A x \in ExceptionId : exceptions[x] = Absent => exceptions'[x] = Absent
  BY <1>3, <1>4 DEF Accounts
<1>5. ASSUME NEW t \in TxnId, Stores(t, "pending_finality"), ~txns'[t].evidence.final,
             UNCHANGED <<requests, matches, exceptions>>
      PROVE  Accounts'
  <2>1. Account(t)'
    <3>1. /\ \A m \in matches : m.txn # t
          /\ \A x \in ExceptionId : exceptions[x] # Absent => exceptions[x].txn # t
      BY <1>5, NewTxnIsFresh DEF Stores
    <3>2. QED
      BY <1>5, <3>1 DEF Stores, Account, Unmatched
  <2>2. QED
    BY <1>3, <1>5, <2>1 DEF Accounts, Stores
<1>6. ASSUME NEW t \in TxnId, NEW r \in RequestId, NEW o \in Outcome, NEW now \in Nat,
             StoresAndSettles(t, r, o, now)
      PROVE  Accounts'
  <2> DEFINE n == [request |-> r, txn |-> t, status |-> o, at |-> now]
  <2>1. n.txn = t
    OBVIOUS
  <2>2. /\ matches' = matches \cup {n}
        /\ Stores(t, "matched_to_request") /\ txns'[t].evidence.final
        /\ \/ UNCHANGED exceptions
           \/ \E x \in ExceptionId : Raised(x, txns'[t].business, r, t, o, now)
    BY <1>6 DEF StoresAndSettles
  <2> HIDE DEF n
  <2>3. Account(t)'
    BY <2>1, <2>2 DEF Account, Stores, Unmatched
  <2>4. \A x \in ExceptionId :
          exceptions[x] = Absent /\ exceptions'[x] # Absent => exceptions'[x].txn = t
    BY <2>2 DEF Raised
  <2>5. QED
    BY <1>3, <2>1, <2>2, <2>3, <2>4 DEF Accounts, Stores
<1>7. ASSUME NEW t \in TxnId, NEW x \in ExceptionId, NEW b, NEW now,
             StoresAndRaises(t, x, b, now)
      PROVE  Accounts'
  <2>1. /\ txns'[t].evidence.final
        /\ UNCHANGED matches
        /\ txns[t] = Absent /\ txns'[t] # Absent
        /\ \A u \in TxnId \ {t} : txns'[u] = txns[u]
        /\ exceptions'[x].txn = t /\ exceptions'[x] # Absent
        /\ \A y \in ExceptionId \ {x} : exceptions'[y] = exceptions[y]
        /\ \/ /\ txns'[t].status = "confirmed_onchain"
              /\ exceptions'[x].type = "ambiguous_match"
           \/ /\ txns'[t].status = "orphan"
              /\ exceptions'[x].type = "orphan"
    BY <1>7 DEF StoresAndRaises, Stores, Raised
  <2>2. Account(t)'
    <3>1. Unmatched(t)'
      BY <2>1, NewTxnIsFresh DEF Unmatched
    <3>2. QED
      BY <2>1, <3>1 DEF Account, RaisedAbout
  <2>3. QED
    BY <1>3, <2>1, <2>2 DEF Accounts
<1>8. ASSUME NEW x \in ExceptionId, ClosesWithRequest(x) PROVE Accounts'
  <2>1. /\ exceptions[x] # Absent
        /\ \A y \in ExceptionId \ {x} : exceptions'[y] = exceptions[y]
        /\ UNCHANGED <<txns, matches>>
    BY <1>8, AbsentAssumption DEF ClosesWithRequest, Closes
  <2>2. QED
    BY <1>4, <2>1
<1>9. QED
  BY <1>4, <1>5, <1>6, <1>7, <1>8, StepTells DEF Adds

-------------------------------------------------------------------------------
(* The stories the runs check *)

\* Of empty tables there is nothing to tell.
LEMMA StoryInit == Init => StoryInv
BY DEF Init, StoryInv, SettledHaveMatch, ConfirmedIsClean, DisputesAreRaised,
       OneExceptionPerTxn, Accounts

\* The story of a request follows from that of its match.
LEMMA StoryOfRequests ==
  ASSUME IInv, StoryInv
  PROVE  StatusTellsTheEvidence
<1> DEFINE ms(r) == {m \in matches : m.request = r}
           xs(r) == {x \in ExceptionId :
                       exceptions[x] # Absent /\ exceptions[x].request = r}
           DisputedAs(r, st) == \E m \in ms(r), x \in xs(r) :
             /\ xs(r) = {x}
             /\ m.status \in Outcome \ {"confirmed"}
             /\ exceptions[x].type = m.status
             /\ exceptions[x].txn = m.txn
             /\ exceptions[x].business = requests[r].business
             /\ exceptions[x].status = st
           Story(r) ==
             \/ requests[r].status = "awaiting_payment" /\ ms(r) = {} /\ xs(r) = {}
             \/ /\ requests[r].status = "confirmed" /\ xs(r) = {}
                /\ \E m \in ms(r) : m.status = "confirmed"
             \/ requests[r].status = "manually_resolved" /\ DisputedAs(r, "resolved")
             \/ /\ requests[r].status \in Outcome \ {"confirmed"}
                /\ DisputedAs(r, "open")
                /\ \E m \in ms(r) : m.status = requests[r].status
<1>1. ASSUME NEW r \in RequestId, requests[r] # Absent
      PROVE  Story(r)
  <2>1. CASE requests[r].status = "awaiting_payment"
    <3>1. ms(r) = {} /\ xs(r) = {}
      BY <1>1, <2>1, AbsentAssumption DEF IInv, NoDanglingId, TablesClosed
    <3>2. QED
      BY <2>1, <3>1
  <2>2. CASE requests[r].status # "awaiting_payment"
    <3>1. PICK m \in matches : m.request = r
      BY <1>1, <2>2 DEF StoryInv, SettledHaveMatch
    <3>2. m \in ms(r) /\ m.status \in Outcome
      BY <3>1, MatchIds
    <3>3. CASE m.status = "confirmed"
      <4>1. requests[r].status = "confirmed" /\ xs(r) = {}
        BY <3>1, <3>3 DEF StoryInv, ConfirmedIsClean
      <4>2. QED
        BY <3>2, <3>3, <4>1
    <3>4. CASE m.status # "confirmed"
      <4>1. PICK x \in ExceptionId : Disputes(x, m)
        BY <3>4 DEF StoryInv, DisputesAreRaised
      <4>2. xs(r) = {x}
        BY <1>1, <3>1, <4>1, AbsentAssumption DEF Disputes, IInv, OneDisputePerRequest
      <4>3. CASE exceptions[x].status = "open"
        <5>1. requests[r].status = m.status
          BY <3>1, <4>1, <4>3 DEF Disputes
        <5>2. DisputedAs(r, "open")
          BY <3>1, <3>2, <3>4, <4>1, <4>2, <4>3 DEF Disputes
        <5>3. QED
          BY <3>2, <3>4, <5>1, <5>2
      <4>4. CASE exceptions[x].status # "open"
        <5>1. /\ requests[r].status = "manually_resolved"
              /\ exceptions[x].status = "resolved"
          BY <3>1, <4>1, <4>4 DEF Disputes
        <5>2. DisputedAs(r, "resolved")
          BY <3>1, <3>2, <3>4, <4>1, <4>2, <5>1 DEF Disputes
        <5>3. QED
          BY <5>1, <5>2
      <4>5. QED
        BY <4>3, <4>4
    <3>5. QED
      BY <3>3, <3>4
  <2>3. QED
    BY <2>1, <2>2
<1>2. QED
  BY <1>1 DEF StatusTellsTheEvidence

\* The story of a transaction follows from its account.
LEMMA StoryOfPayments ==
  ASSUME IInv, StoryInv
  PROVE  EveryPaymentAccountedFor
<1> DEFINE ms(t) == {m \in matches : m.txn = t}
           xs(t) == ExceptionsOf(t)
           RaisedAs(t, type) ==
             ms(t) = {} /\ \E x \in xs(t) : xs(t) = {x} /\ exceptions[x].type = type
           Settled(t) ==
             \E m \in ms(t) :
               \/ m.status = "confirmed" /\ xs(t) = {}
               \/ \E x \in xs(t) : xs(t) = {x} /\ exceptions[x].request = m.request
<1>1. ASSUME NEW t \in TxnId
      PROVE  Unmatched(t) <=> ms(t) = {}
  BY DEF Unmatched
<1>2. ASSUME NEW t \in TxnId, NEW x \in xs(t)
      PROVE  xs(t) = {x}
  BY <1>2 DEF ExceptionsOf, StoryInv, OneExceptionPerTxn
<1>3. ASSUME NEW t \in TxnId, NEW type, RaisedAbout(t, type), Unmatched(t)
      PROVE  RaisedAs(t, type)
  <2>1. PICK x \in xs(t) : exceptions[x].type = type
    BY <1>3 DEF RaisedAbout, ExceptionsOf
  <2>2. QED
    BY <1>1, <1>2, <1>3, <2>1
<1>4. ASSUME NEW t \in TxnId, ~Unmatched(t)
      PROVE  Settled(t)
  <2>1. PICK m \in matches : m \in ms(t)
    BY <1>1, <1>4
  <2>2. CASE m.status = "confirmed"
    <3>1. xs(t) = {}
      BY <2>1, <2>2 DEF StoryInv, ConfirmedIsClean, ExceptionsOf
    <3>2. QED
      BY <2>1, <2>2, <3>1
  <2>3. CASE m.status # "confirmed"
    <3>1. PICK x \in ExceptionId : Disputes(x, m)
      BY <2>3 DEF StoryInv, DisputesAreRaised
    <3>2. x \in xs(t) /\ exceptions[x].request = m.request
      BY <2>1, <3>1 DEF Disputes, ExceptionsOf
    <3>3. QED
      BY <1>2, <2>1, <3>2
  <2>4. QED
    BY <2>2, <2>3
<1>5. ASSUME NEW t \in TxnId, txns[t] # Absent
      PROVE  CASE txns[t].status = "pending_finality" ->
                    ~txns[t].evidence.final /\ ms(t) = {} /\ xs(t) = {}
               [] txns[t].status = "confirmed_onchain" ->
                    txns[t].evidence.final /\ RaisedAs(t, "ambiguous_match")
               [] txns[t].status = "orphan" ->
                    txns[t].evidence.final /\ RaisedAs(t, "orphan")
               [] txns[t].status = "matched_to_request" ->
                    txns[t].evidence.final /\ Settled(t)
  <2>1. Account(t)
    BY <1>5 DEF StoryInv, Accounts
  <2>2. (\A x \in ExceptionId : exceptions[x] # Absent => exceptions[x].txn # t)
          => xs(t) = {}
    BY DEF ExceptionsOf
  <2>3. \A type : RaisedAbout(t, type) /\ Unmatched(t) => RaisedAs(t, type)
    BY <1>3
  <2>4. Unmatched(t) => ms(t) = {}
    BY <1>1
  <2>5. ~Unmatched(t) => Settled(t)
    BY <1>4
  <2> HIDE DEF ms, xs, RaisedAs, Settled
  <2>6. CASE txns[t].status = "pending_finality"
    BY <2>1, <2>2, <2>4, <2>6 DEF Account
  <2>7. CASE txns[t].status = "confirmed_onchain"
    BY <2>1, <2>3, <2>7 DEF Account
  <2>8. CASE txns[t].status = "orphan"
    BY <2>1, <2>3, <2>8 DEF Account
  <2>9. CASE txns[t].status = "matched_to_request"
    BY <2>1, <2>5, <2>9 DEF Account
  <2>10. QED
    BY <2>1, <2>6, <2>7, <2>8, <2>9 DEF Account
<1>6. QED
  BY <1>5 DEF EveryPaymentAccountedFor

\* Every step keeps the story.
LEMMA StoryStep ==
  ASSUME IInv, StoryInv, [Next]_vars
  PROVE  StoryInv'
BY SettledHaveMatchStep, ConfirmedIsCleanStep, DisputesAreRaisedStep,
   OneExceptionPerTxnStep, AccountsStep
   DEF StoryInv

\* The invariant holds in every reachable state.
THEOREM OneStory == Spec => [](IInv /\ StoryInv)
<1>1. IInv /\ StoryInv /\ [Next]_vars => StoryInv'
  BY StoryStep
<1>2. QED
  BY StoryInit, Inductive, <1>1, PTL DEF Spec

\* For any interleaving of calls, a request's status, its match and its
\* exception agree.
THEOREM StatusIsTold == Spec => []StatusTellsTheEvidence
<1>1. IInv /\ StoryInv => StatusTellsTheEvidence
  BY StoryOfRequests
<1>2. QED
  BY OneStory, <1>1, PTL

\* For any interleaving of calls, no final payment is left without an account,
\* and none has two.
THEOREM NoPaymentIsLost == Spec => []EveryPaymentAccountedFor
<1>1. IInv /\ StoryInv => EveryPaymentAccountedFor
  BY StoryOfPayments
<1>2. QED
  BY OneStory, <1>1, PTL

-------------------------------------------------------------------------------
(* Isolation of businesses *)

\* An exception that names a request belongs to the request's business.
LEMMA ExceptionOfOwnRequest ==
  ASSUME IInv, StoryInv, NEW x \in ExceptionId,
         exceptions[x] # Absent, exceptions[x].request # Absent
  PROVE  exceptions[x].business = requests[exceptions[x].request].business
<1> DEFINE r == exceptions[x].request
<1>1. /\ r \in RequestId
      /\ requests[r] # Absent
      /\ requests[r].status # "awaiting_payment"
  BY AbsentAssumption DEF IInv, TypeOK, Exception, NoDanglingId, TablesClosed
<1>2. PICK m \in matches : m.request = r
  BY <1>1 DEF StoryInv, SettledHaveMatch
<1>3. m.status # "confirmed"
  BY <1>2 DEF StoryInv, ConfirmedIsClean
<1>4. PICK y \in ExceptionId : Disputes(y, m)
  BY <1>3 DEF StoryInv, DisputesAreRaised
<1>5. y = x
  BY <1>2, <1>4 DEF Disputes, IInv, OneDisputePerRequest
<1>6. QED
  BY <1>2, <1>4, <1>5 DEF Disputes

\* The call that a step answers is the one whose operation the step is.
LEMMA AnsweredCallActs ==
  ASSUME TypeOK, [Next]_vars, NEW c \in Caller, calls[c] # Absent, calls'[c] = Absent
  PROVE  \/ UNCHANGED store
         \/ \E r \in RequestId : CreatePaymentRequest(c, r)
         \/ \E t \in TxnId, w \in WalletId : IngestStablecoinTransaction(c, t, w)
         \/ ResolveException(c)
<1>1. ASSUME NEW d \in Caller, End(d) PROVE d = c
  BY <1>1 DEF End, TypeOK
<1>2. ASSUME NEW d \in Caller, NEW call, Begin(d, call) PROVE UNCHANGED store
  BY <1>2 DEF Begin
<1>3. ~ \E b \in Business, w \in WalletId, a \in Address : RegisterWallet(b, w, a)
  BY DEF RegisterWallet
<1>4. ASSUME NEW d \in Caller, NEW r \in RequestId, CreatePaymentRequest(d, r)
      PROVE  d = c
  BY SMTT(30), <1>1, <1>4 DEF CreatePaymentRequest
<1>5. ASSUME NEW d \in Caller, NEW t \in TxnId, NEW w \in WalletId,
             IngestStablecoinTransaction(d, t, w)
      PROVE  d = c
  BY SMTT(30), <1>1, <1>5 DEF IngestStablecoinTransaction
<1>6. ASSUME NEW d \in Caller, ResolveException(d)
      PROVE  d = c
  BY <1>1, <1>6 DEF ResolveException
<1>7. QED
  BY <1>3, <1>4, <1>5, <1>6, StepIs

\* Requests, transactions and exceptions that a step changes are those of b.
ChangesOnlyOf(b) ==
  /\ \A r \in RequestId : requests'[r] # requests[r] => requests'[r].business = b
  /\ \A t \in TxnId : txns'[t] # txns[t] => txns'[t].business = b
  /\ \A x \in ExceptionId : exceptions'[x] # exceptions[x] => exceptions'[x].business = b

\* The step of a call writes rows of the call's business only: an exception that
\* is resolved is its own, and so is the request behind it.
LEMMA CallsStayInTheirBusiness ==
  ASSUME IInv, StoryInv, [Next]_vars, NEW c \in Caller,
         calls[c] # Absent, calls'[c] = Absent
  PROVE  ChangesOnlyOf(calls[c].business)
<1> DEFINE b == calls[c].business
<1>1. TypeOK /\ NoDanglingId
  BY DEF IInv
<1>2. CASE UNCHANGED store
  BY <1>2 DEF store, ChangesOnlyOf
<1>3. ASSUME NEW r \in RequestId, CreatePaymentRequest(c, r)
      PROVE  ChangesOnlyOf(b)
  <2>1. /\ requests'[r].business = b
        /\ \A q \in RequestId \ {r} : requests'[q] = requests[q]
        /\ UNCHANGED <<txns, exceptions>>
    BY <1>1, <1>3, CreationWrites
  <2>2. QED
    BY <2>1 DEF ChangesOnlyOf
<1>4. ASSUME NEW t \in TxnId, NEW w \in WalletId, IngestStablecoinTransaction(c, t, w)
      PROVE  ChangesOnlyOf(b)
  <2>1. txns'[t].business = b
    <3>1. PICK st \in TxnStatus : Books(c, t, w, st)
      BY <1>1, <1>4, IngestBooks
    <3>2. QED
      BY <3>1 DEF Books, Arrival
  <2>2. CASE Stores(t, "pending_finality") /\ UNCHANGED <<requests, exceptions>>
    BY <2>1, <2>2 DEF Stores, ChangesOnlyOf
  <2>3. ASSUME NEW r \in RequestId, NEW o \in Outcome, StoresAndSettles(t, r, o, calls[c].now)
        PROVE  ChangesOnlyOf(b)
    <3>1. /\ \A u \in TxnId \ {t} : txns'[u] = txns[u]
          /\ requests'[r].business = b
          /\ \A q \in RequestId \ {r} : requests'[q] = requests[q]
          /\ \/ UNCHANGED exceptions
             \/ \E x \in ExceptionId : Raised(x, b, r, t, o, calls[c].now)
      BY <2>1, <2>3 DEF StoresAndSettles, Stores, Moves, SameTerms
    <3>2. QED
      BY <2>1, <3>1 DEF Raised, ChangesOnlyOf
  <2>4. ASSUME NEW x \in ExceptionId, StoresAndRaises(t, x, b, calls[c].now)
        PROVE  ChangesOnlyOf(b)
    <3>1. /\ \A u \in TxnId \ {t} : txns'[u] = txns[u]
          /\ UNCHANGED requests
          /\ exceptions'[x].business = b
          /\ \A y \in ExceptionId \ {x} : exceptions'[y] = exceptions[y]
      BY <2>4 DEF StoresAndRaises, Stores, Raised
    <3>2. QED
      BY <2>1, <3>1 DEF ChangesOnlyOf
  <2>5. QED
    BY <1>1, <1>4, <2>2, <2>3, <2>4, IngestTells
<1>5. ASSUME ResolveException(c)
      PROVE  ChangesOnlyOf(b)
  <2> DEFINE x == calls[c].exception
             r == exceptions[x].request
  <2>1. /\ x \in ExceptionId
        /\ exceptions[x].business = b
        /\ Closes(x)
        /\ \/ UNCHANGED requests
           \/ r \in RequestId /\ Moves(r, "manually_resolved")
        /\ UNCHANGED txns
    BY <1>1, <1>5, ResolutionWrites
  <2>2. r \in RequestId => requests[r].business = b
    BY <2>1, ExceptionOfOwnRequest, AbsentAssumption DEF Closes
  <2> HIDE DEF x, r
  <2>3. QED
    BY <2>1, <2>2 DEF Closes, Moves, SameTerms, ChangesOnlyOf
<1>6. QED
  BY <1>1, <1>2, <1>3, <1>4, <1>5, AnsweredCallActs

\* No call, whatever it was refused or raced by, changes a row of a business
\* that is not its caller's.
THEOREM BusinessesAreIsolated == Spec => BusinessIsolation
<1>1. IInv /\ StoryInv /\ [Next]_vars =>
        [\A c \in Caller :
           calls[c] # Absent /\ calls'[c] = Absent =>
             LET b == calls[c].business IN
             /\ \A r \in RequestId : requests'[r] # requests[r] => requests'[r].business = b
             /\ \A t \in TxnId : txns'[t] # txns[t] => txns'[t].business = b
             /\ \A x \in ExceptionId :
                  exceptions'[x] # exceptions[x] => exceptions'[x].business = b]_vars
  BY CallsStayInTheirBusiness DEF ChangesOnlyOf
<1>2. QED
  BY OneStory, <1>1, PTL DEF Spec, BusinessIsolation

-------------------------------------------------------------------------------
(* Receipts *)

SettlementTypes ==
  {"payment_request.created", "payment.detected", "transaction.verified",
   "transaction.matched"}

\* The event types a request's status calls for.
Expected(r) ==
  IF requests[r] = Absent THEN {}
  ELSE CASE requests[r].status = "awaiting_payment" -> {"payment_request.created"}
         [] requests[r].status = "confirmed" -> SettlementTypes \cup {"payment.confirmed"}
         [] requests[r].status = "manually_resolved" ->
              SettlementTypes \cup {"payment.exceptioned", "exception.resolved"}
         [] OTHER -> SettlementTypes \cup {"payment.exceptioned"}

\* The receipt of r has the events its status calls for, one of each type.
Timeline(r) ==
  /\ \A e \in receipts[r] : e.type \in Expected(r)
  /\ \A type \in Expected(r) : \E e \in receipts[r] : e.type = type
  /\ \A e, f \in receipts[r] : e.type = f.type => e = f

Timelines == \A r \in RequestId : Timeline(r)

\* Said of single events, the timelines are what TimelineTellsTheStatus says of
\* the sets of events of each type.
LEMMA TimelinesTell ==
  ASSUME TypeOK, Timelines
  PROVE  TimelineTellsTheStatus
<1>1. ASSUME NEW r \in RequestId, NEW type \in EventType
      PROVE  IF type \in Expected(r)
               THEN \E e \in receipts[r] : EventsOf(r, type) = {e}
               ELSE EventsOf(r, type) = {}
  <2>1. Timeline(r)
    BY DEF Timelines
  <2>2. CASE type \in Expected(r)
    <3>1. PICK e \in receipts[r] : e.type = type
      BY <2>1, <2>2 DEF Timeline
    <3>2. EventsOf(r, type) = {e}
      BY <2>1, <3>1 DEF Timeline, EventsOf
    <3>3. QED
      BY <2>2, <3>2
  <2>3. CASE type \notin Expected(r)
    BY <2>1, <2>3 DEF Timeline, EventsOf
  <2>4. QED
    BY <2>2, <2>3
<1>2. QED
  BY <1>1 DEF TimelineTellsTheStatus, Expected, SettlementTypes

\* Events N, and no others, are added to the receipt of r.
Stamps(r, N) ==
  /\ receipts'[r] = receipts[r] \cup N
  /\ \A q \in RequestId \ {r} : receipts'[q] = receipts[q]

\* A receipt that gets one event of each type that its request's new status adds
\* still tells its status.
LEMMA TimelineGrows ==
  ASSUME NEW r \in RequestId, NEW N, Timeline(r), receipts'[r] = receipts[r] \cup N,
         Expected(r)' = Expected(r) \cup {e.type : e \in N},
         \A e \in N : e.type \notin Expected(r),
         \A e, f \in N : e.type = f.type => e = f
  PROVE  Timeline(r)'
BY DEF Timeline

\* What a step does to receipts and to the statuses of their requests: nothing,
\* a creation, a settlement or a resolution.
CreationStamped(r, now) ==
  /\ requests[r] = Absent
  /\ requests'[r] # Absent /\ requests'[r].status = "awaiting_payment"
  /\ \A q \in RequestId \ {r} : requests'[q] = requests[q]
  /\ Stamps(r, {[type |-> "payment_request.created", txn |-> Absent, at |-> now]})

SettlementStamped(r, t, o, now) ==
  /\ requests[r] # Absent /\ requests[r].status = "awaiting_payment"
  /\ requests'[r] # Absent /\ requests'[r].status = o /\ o \in Outcome
  /\ \A q \in RequestId \ {r} : requests'[q] = requests[q]
  /\ Stamps(r, SettlementEvents(t, o, now))

ResolutionStamped(x, r, now) ==
  /\ exceptions[x] # Absent /\ exceptions[x].status = "open"
  /\ exceptions[x].request = r
  /\ exceptions'[x].status = "resolved"
  /\ requests[r] # Absent
  /\ requests'[r] # Absent /\ requests'[r].status = "manually_resolved"
  /\ \A q \in RequestId \ {r} : requests'[q] = requests[q]
  /\ Stamps(r, {ResolvedEvent(exceptions[x], now)})

\* Receipts change by a creation, a settlement or a resolution of a call in flight.
LEMMA StepStamps ==
  ASSUME IInv, [Next]_vars
  PROVE  \/ UNCHANGED <<requests, receipts>>
         \/ \E c \in Caller, r \in RequestId :
              calls[c] \in CreateCall /\ CreationStamped(r, calls[c].now)
         \/ \E c \in Caller, r \in RequestId, t \in TxnId, o \in Outcome :
              calls[c] \in IngestCall /\ SettlementStamped(r, t, o, calls[c].now)
         \/ \E c \in Caller, r \in RequestId :
              /\ calls[c] \in ResolveCall
              /\ ResolutionStamped(calls[c].exception, r, calls[c].now)
<1>1. TypeOK /\ NoDanglingId
  BY DEF IInv
<1>2. ASSUME NEW r \in RequestId, NEW N, receipts' = [receipts EXCEPT ![r] = @ \cup N]
      PROVE  Stamps(r, N)
  BY <1>1, <1>2 DEF TypeOK, Stamps
<1>3. CASE UNCHANGED store \/
           \E b \in Business, w \in WalletId, a \in Address : RegisterWallet(b, w, a)
  BY <1>3 DEF store, RegisterWallet
<1>4. ASSUME NEW c \in Caller, NEW r \in RequestId, CreatePaymentRequest(c, r)
      PROVE  calls[c] \in CreateCall /\ CreationStamped(r, calls[c].now)
  <2> DEFINE N == {[type |-> "payment_request.created", txn |-> Absent, at |-> calls[c].now]}
  <2>1. /\ calls[c] \in CreateCall
        /\ requests[r] = Absent
        /\ requests'[r] \in Request /\ requests'[r].status = "awaiting_payment"
        /\ \A q \in RequestId \ {r} : requests'[q] = requests[q]
        /\ receipts' = [receipts EXCEPT ![r] = @ \cup N]
    BY <1>1, <1>4, CreationWrites
  <2>2. Stamps(r, N)
    BY <1>2, <2>1
  <2>3. QED
    BY <2>1, <2>2, AbsentAssumption DEF CreationStamped
<1>5. ASSUME NEW c \in Caller, NEW t \in TxnId, NEW w \in WalletId,
             IngestStablecoinTransaction(c, t, w)
      PROVE  \/ UNCHANGED <<requests, receipts>>
             \/ \E r \in RequestId, o \in Outcome :
                  calls[c] \in IngestCall /\ SettlementStamped(r, t, o, calls[c].now)
  <2>1. calls[c] \in IngestCall
    BY <1>5 DEF IngestStablecoinTransaction
  <2>2. ASSUME NEW r \in RequestId, NEW o \in Outcome,
               StoresAndSettles(t, r, o, calls[c].now),
               receipts' = [receipts EXCEPT ![r] =
                              @ \cup SettlementEvents(t, o, calls[c].now)]
        PROVE  SettlementStamped(r, t, o, calls[c].now)
    <3>1. Stamps(r, SettlementEvents(t, o, calls[c].now))
      BY <1>2, <2>2
    <3>2. QED
      BY <2>2, <3>1, AbsentAssumption
         DEF StoresAndSettles, Moves, SameTerms, SettlementStamped
  <2>3. QED
    BY <1>1, <1>5, <2>1, <2>2, IngestTells DEF StoresAndRaises
<1>6. ASSUME NEW c \in Caller, ResolveException(c)
      PROVE  \/ UNCHANGED <<requests, receipts>>
             \/ \E r \in RequestId :
                  /\ calls[c] \in ResolveCall
                  /\ ResolutionStamped(calls[c].exception, r, calls[c].now)
  <2> DEFINE x == calls[c].exception
             r == exceptions[x].request
             N == {ResolvedEvent(exceptions[x], calls[c].now)}
  <2>1. /\ calls[c] \in ResolveCall
        /\ Closes(x)
        /\ \/ UNCHANGED <<requests, receipts>>
           \/ /\ r \in RequestId /\ requests[r] # Absent
              /\ Moves(r, "manually_resolved")
              /\ receipts' = [receipts EXCEPT ![r] = @ \cup N]
    BY <1>1, <1>6, ResolutionWrites
  <2>2. receipts' = [receipts EXCEPT ![r] = @ \cup N] /\ r \in RequestId => Stamps(r, N)
    BY <1>2
  <2> HIDE DEF N
  <2>3. /\ r \in RequestId /\ requests[r] # Absent /\ Moves(r, "manually_resolved")
        /\ Stamps(r, N)
        => ResolutionStamped(x, r, calls[c].now)
    BY <2>1, AbsentAssumption DEF Closes, Moves, SameTerms, ResolutionStamped, N
  <2>4. QED
    BY <2>1, <2>2, <2>3
<1>7. QED
  BY <1>3, <1>4, <1>5, <1>6, StepIs

\* Each operation stamps exactly the events of the status it gives.
LEMMA TimelinesStep ==
  ASSUME IInv, Timelines, [Next]_vars
  PROVE  Timelines'
<1>1. ASSUME NEW q \in RequestId, requests'[q] = requests[q], receipts'[q] = receipts[q]
      PROVE  Timeline(q)'
  BY <1>1 DEF Timelines, Timeline, Expected
<1>2. CASE UNCHANGED <<requests, receipts>>
  BY <1>1, <1>2 DEF Timelines
<1>3. ASSUME NEW r \in RequestId, NEW now, CreationStamped(r, now)
      PROVE  Timelines'
  <2> DEFINE n == [type |-> "payment_request.created", txn |-> Absent, at |-> now]
             N == {n}
  <2>1. {e.type : e \in N} = {"payment_request.created"} /\ \A e, f \in N : e = f
    OBVIOUS
  <2>2. receipts'[r] = receipts[r] \cup N
    BY <1>3 DEF CreationStamped, Stamps
  <2> HIDE DEF N
  <2>3. Expected(r) = {} /\ Expected(r)' = {"payment_request.created"}
    BY <1>3 DEF CreationStamped, Expected
  <2>4. Timeline(r)'
    BY <2>1, <2>2, <2>3, TimelineGrows DEF Timelines
  <2>5. QED
    BY <1>1, <1>3, <2>4 DEF CreationStamped, Stamps, Timelines
<1>4. ASSUME NEW r \in RequestId, NEW t, NEW o \in Outcome, NEW now,
             SettlementStamped(r, t, o, now)
      PROVE  Timelines'
  <2> DEFINE N == SettlementEvents(t, o, now)
             last == IF o = "confirmed" THEN "payment.confirmed" ELSE "payment.exceptioned"
             types == {"payment.detected", "transaction.verified", "transaction.matched", last}
  <2>1. {e.type : e \in N} = types /\ \A e, f \in N : e.type = f.type => e = f
    <3>1. N = [type : types, txn : {t}, at : {now}]
      BY DEF SettlementEvents
    <3> HIDE DEF N, types
    <3>2. \A e \in N : e.type \in types
      BY <3>1
    <3>3. ASSUME NEW type \in types PROVE \E e \in N : e.type = type
      <4> DEFINE n == [type |-> type, txn |-> t, at |-> now]
      <4>1. n \in N /\ n.type = type
        BY <3>1
      <4>2. QED
        BY <4>1
    <3>4. ASSUME NEW e \in N, NEW f \in N, e.type = f.type PROVE e = f
      BY <3>1, <3>4
    <3>5. QED
      BY <3>2, <3>3, <3>4
  <2>2. receipts'[r] = receipts[r] \cup N
    BY <1>4 DEF SettlementStamped, Stamps
  <2> HIDE DEF N
  <2>3. /\ Expected(r) = {"payment_request.created"}
        /\ Expected(r)' = {"payment_request.created"} \cup types
    <3>1. /\ requests[r] # Absent /\ requests[r].status = "awaiting_payment"
          /\ requests'[r] # Absent /\ requests'[r].status = o
      BY <1>4 DEF SettlementStamped
    <3>2. Expected(r) = {"payment_request.created"}
      BY <3>1 DEF Expected
    <3>3. Expected(r)' = SettlementTypes \cup {last}
      BY <3>1 DEF Expected, Outcome
    <3>4. QED
      BY <3>2, <3>3 DEF SettlementTypes
  <2>4. \A e \in N : e.type \notin Expected(r)
    BY <2>1, <2>3
  <2> HIDE DEF types, last
  <2>5. Timeline(r)'
    BY <2>1, <2>2, <2>3, <2>4, TimelineGrows DEF Timelines
  <2>6. QED
    BY <1>1, <1>4, <2>5 DEF SettlementStamped, Stamps, Timelines
<1>5. ASSUME NEW x \in ExceptionId, NEW r \in RequestId, NEW now,
             ResolutionStamped(x, r, now)
      PROVE  Timelines'
  <2> DEFINE n == ResolvedEvent(exceptions[x], now)
             N == {n}
  <2>1. {e.type : e \in N} = {"exception.resolved"}
    BY DEF ResolvedEvent
  <2>2. receipts'[r] = receipts[r] \cup N
    BY <1>5 DEF ResolutionStamped, Stamps
  <2>3. requests[r].status \in {"underpaid", "overpaid", "expired"}
    BY <1>5, AbsentAssumption DEF ResolutionStamped, IInv, OneDisputePerRequest
  <2>4. /\ Expected(r) = SettlementTypes \cup {"payment.exceptioned"}
        /\ Expected(r)' = SettlementTypes \cup {"payment.exceptioned", "exception.resolved"}
    BY <1>5, <2>3 DEF ResolutionStamped, Expected
  <2>5. /\ Expected(r)' = Expected(r) \cup {e.type : e \in N}
        /\ "exception.resolved" \notin Expected(r)
    BY <2>1, <2>4 DEF SettlementTypes
  <2>6. \A e, f \in N : e = f /\ e.type = "exception.resolved"
    BY DEF ResolvedEvent
  <2> HIDE DEF N
  <2>7. Timeline(r)'
    BY <2>2, <2>5, <2>6, TimelineGrows DEF Timelines
  <2>8. QED
    BY <1>1, <1>5, <2>7 DEF ResolutionStamped, Stamps, Timelines
<1>6. QED
  BY <1>2, <1>3, <1>4, <1>5, StepStamps DEF ResolveCall

\* Whatever the interleaving, a receipt has the events of its request's status,
\* one of each, and no other.
THEOREM ReceiptsAreComplete == Spec => []TimelineTellsTheStatus
<1>1. Init => Timelines
  BY DEF Init, Timelines, Timeline, Expected
<1>2. IInv /\ Timelines /\ [Next]_vars => Timelines'
  BY TimelinesStep
<1>3. IInv /\ Timelines => TimelineTellsTheStatus
  BY TimelinesTell DEF IInv
<1>4. QED
  BY Inductive, <1>1, <1>2, <1>3, PTL DEF Spec

-------------------------------------------------------------------------------
(* The order of a receipt *)

\* Nothing is stamped with a time that has not come.
StampedInThePast ==
  /\ \A c \in Caller : calls[c] # Absent => calls[c].now <= clock
  /\ \A r \in RequestId : \A e \in receipts[r] : e.at <= clock

\* A resolution that can still succeed took its time after everything on the
\* receipt was stamped.
ResolversCameAfter ==
  \A c \in Caller, r \in RequestId :
    /\ calls[c] \in ResolveCall
    /\ exceptions[calls[c].exception].status = "open"
    /\ exceptions[calls[c].exception].request = r
    => \A e \in receipts[r] : e.at <= calls[c].now

TimesInv ==
  /\ Timelines
  /\ StampedInThePast
  /\ ResolversCameAfter
  /\ ResolutionComesLast

\* A call keeps its time until it is answered, and takes it from the clock.
LEMMA CallsKeepTheirTime ==
  ASSUME TypeOK, [Next]_vars
  PROVE  /\ clock <= clock' /\ clock' \in Nat
         /\ \A c \in Caller :
              \/ calls'[c] = calls[c]
              \/ calls'[c] = Absent
              \/ calls'[c].now = clock /\ UNCHANGED <<clock, store>>
<1>1. CASE Tick
  BY <1>1 DEF Tick, TypeOK
<1>2. CASE UNCHANGED vars \/
           \E b \in Business, w \in WalletId, a \in Address : RegisterWallet(b, w, a)
  BY <1>2 DEF vars, RegisterWallet, TypeOK
<1>3. ASSUME NEW d \in Caller, NEW call, Begin(d, call), call.now = clock
      PROVE  /\ clock <= clock' /\ clock' \in Nat
             /\ \A c \in Caller : \/ calls'[c] = calls[c]
                                  \/ calls'[c].now = clock /\ UNCHANGED <<clock, store>>
  BY <1>3 DEF Begin, TypeOK
<1>4. ASSUME NEW d \in Caller, End(d)
      PROVE  /\ clock <= clock' /\ clock' \in Nat
             /\ \A c \in Caller : calls'[c] = calls[c] \/ calls'[c] = Absent
  BY <1>4 DEF End, TypeOK
<1>5. \/ Tick
      \/ UNCHANGED vars
      \/ \E b \in Business, w \in WalletId, a \in Address : RegisterWallet(b, w, a)
      \/ \E d \in Caller : \E call : Begin(d, call) /\ call.now = clock
      \/ \E d \in Caller : End(d)
  <2>1. ASSUME NEW c \in Caller, NEW b \in Business
        PROVE  /\ \A k \in IdemKey, body \in Body :
                    StartCreatePaymentRequest(c, b, k, body) =>
                      \E call : Begin(c, call) /\ call.now = clock
               /\ \A e \in Evidence :
                    StartIngestStablecoinTransaction(c, b, e) =>
                      \E call : Begin(c, call) /\ call.now = clock
               /\ \A x \in ExceptionId :
                    StartResolveException(c, b, x) =>
                      \E call : Begin(c, call) /\ call.now = clock
    <3>1. ASSUME NEW k \in IdemKey, NEW body \in Body, StartCreatePaymentRequest(c, b, k, body)
          PROVE  \E call : Begin(c, call) /\ call.now = clock
      <4> DEFINE call == [op |-> "create", business |-> b, key |-> k, body |-> body,
                          now |-> clock]
      <4>1. call.now = clock /\ Begin(c, call)
        BY <3>1 DEF StartCreatePaymentRequest
      <4>2. QED
        BY <4>1
    <3>2. ASSUME NEW e \in Evidence, StartIngestStablecoinTransaction(c, b, e)
          PROVE  \E call : Begin(c, call) /\ call.now = clock
      <4> DEFINE call == [op |-> "ingest", business |-> b, evidence |-> e, now |-> clock]
      <4>1. call.now = clock /\ Begin(c, call)
        BY <3>2 DEF StartIngestStablecoinTransaction
      <4>2. QED
        BY <4>1
    <3>3. ASSUME NEW x \in ExceptionId, StartResolveException(c, b, x)
          PROVE  \E call : Begin(c, call) /\ call.now = clock
      <4> DEFINE call == [op |-> "resolve", business |-> b, exception |-> x, now |-> clock]
      <4>1. call.now = clock /\ Begin(c, call)
        BY SMTT(30), <3>3 DEF StartResolveException
      <4>2. QED
        BY SMTT(30), <4>1
    <3>4. QED
      BY <3>1, <3>2, <3>3
  <2>2. ASSUME NEW c \in Caller
        PROVE  /\ RefuseOrReplayCreate(c) \/ RefuseOrReplayIngest(c)
                    \/ RefuseOrRepeatResolve(c) \/ ResolveException(c) => End(c)
               /\ \A r \in RequestId : CreatePaymentRequest(c, r) => End(c)
               /\ \A t \in TxnId, w \in WalletId :
                    IngestStablecoinTransaction(c, t, w) => End(c)
    BY DEF RefuseOrReplayCreate, CreatePaymentRequest, RefuseOrReplayIngest,
           IngestStablecoinTransaction, RefuseOrRepeatResolve, ResolveException
  <2>3. QED
    BY <2>1, <2>2 DEF Next
<1>6. QED
  BY <1>1, <1>2, <1>3, <1>4, <1>5

\* No exception is opened again.
LEMMA NoneIsReopened ==
  ASSUME IInv, [Next]_vars, NEW x \in ExceptionId, exceptions[x] # Absent,
         exceptions'[x].status = "open"
  PROVE  exceptions'[x] = exceptions[x]
BY ZenonT(60), StepTells DEF Adds, StoresAndSettles, StoresAndRaises, Raised, ClosesWithRequest, Closes

\* The receipt of a request with an open exception stays as it is until that
\* exception is resolved.
LEMMA OpenCaseFreezesReceipt ==
  ASSUME IInv, [Next]_vars, NEW x \in ExceptionId, NEW r \in RequestId,
         exceptions[x] # Absent, exceptions[x].request = r,
         exceptions'[x].status = "open"
  PROVE  receipts'[r] = receipts[r]
<1>1. /\ requests[r] # Absent /\ requests[r].status # "awaiting_payment"
      /\ exceptions[x].request # Absent
  BY AbsentAssumption DEF IInv, NoDanglingId, TablesClosed
<1>2. ASSUME NEW y \in ExceptionId, exceptions[y] # Absent, exceptions[y].request = r
      PROVE  y = x
  BY <1>1, <1>2 DEF IInv, OneDisputePerRequest
<1>3. \A c \in Caller : calls[c] \in ResolveCall => calls[c].exception \in ExceptionId
  BY DEF ResolveCall
<1>4. ASSUME NEW y \in ExceptionId, NEW q \in RequestId, NEW now, ResolutionStamped(y, q, now)
      PROVE  receipts'[r] = receipts[r]
  <2>1. q # r
    BY <1>2, <1>4 DEF ResolutionStamped
  <2>2. QED
    BY <1>4, <2>1 DEF ResolutionStamped, Stamps
<1>5. ASSUME NEW q \in RequestId, NEW now, CreationStamped(q, now)
      PROVE  receipts'[r] = receipts[r]
  BY <1>1, <1>5 DEF CreationStamped, Stamps
<1>6. ASSUME NEW q \in RequestId, NEW t, NEW o, NEW now, SettlementStamped(q, t, o, now)
      PROVE  receipts'[r] = receipts[r]
  BY <1>1, <1>6 DEF SettlementStamped, Stamps
<1>7. QED
  BY <1>3, <1>4, <1>5, <1>6, StepStamps

\* Every stamp is the time of a call in flight.
LEMMA NewStampsAreOfCalls ==
  ASSUME IInv, [Next]_vars, NEW r \in RequestId, NEW e \in receipts'[r], e \notin receipts[r]
  PROVE  \E c \in Caller : calls[c] # Absent /\ e.at = calls[c].now
<1>1. ASSUME NEW q \in RequestId, NEW now, CreationStamped(q, now)
      PROVE  e.at = now
  BY <1>1 DEF CreationStamped, Stamps
<1>2. ASSUME NEW q \in RequestId, NEW t, NEW o, NEW now, SettlementStamped(q, t, o, now)
      PROVE  e.at = now
  BY <1>2 DEF SettlementStamped, Stamps, SettlementEvents
<1>3. ASSUME NEW x, NEW q \in RequestId, NEW now, ResolutionStamped(x, q, now)
      PROVE  e.at = now
  BY <1>3 DEF ResolutionStamped, Stamps, ResolvedEvent
<1>4. QED
  BY <1>1, <1>2, <1>3, StepStamps, AbsentAssumption

\* Times only grow, and a stamp is taken from a clock that has been reached.
LEMMA StampedInThePastStep ==
  ASSUME IInv, StampedInThePast, [Next]_vars
  PROVE  StampedInThePast'
<1>1. /\ clock \in Nat /\ clock' \in Nat /\ clock <= clock'
      /\ \A c \in Caller : \/ calls'[c] = calls[c]
                           \/ calls'[c] = Absent
                           \/ calls'[c].now = clock
  BY CallsKeepTheirTime DEF IInv, TypeOK
<1>2. \A c \in Caller : calls[c] # Absent => calls[c].now \in Nat
  BY DEF IInv, TypeOK, CreateCall, IngestCall, ResolveCall
<1>3. \A r \in RequestId : \A e \in receipts[r] : e.at \in Nat
  BY DEF IInv, TypeOK, Event
<1>4. ASSUME NEW c \in Caller, calls'[c] # Absent PROVE calls'[c].now <= clock'
  BY <1>1, <1>2, <1>4 DEF StampedInThePast
<1>5. ASSUME NEW r \in RequestId, NEW e \in receipts'[r] PROVE e.at <= clock'
  <2>1. CASE e \in receipts[r]
    BY <1>1, <1>3, <2>1 DEF StampedInThePast
  <2>2. CASE e \notin receipts[r]
    <3>1. PICK c \in Caller : calls[c] # Absent /\ e.at = calls[c].now
      BY <1>5, <2>2, NewStampsAreOfCalls
    <3>2. QED
      BY <1>1, <1>2, <3>1 DEF StampedInThePast
  <2>3. QED
    BY <2>1, <2>2
<1>6. QED
  BY <1>4, <1>5 DEF StampedInThePast

\* A caller learns an exception's id after its settlement was stamped, and until
\* the exception is resolved the receipt stays as it is.
LEMMA ResolversCameAfterStep ==
  ASSUME IInv, StampedInThePast, ResolversCameAfter, [Next]_vars
  PROVE  ResolversCameAfter'
<1> SUFFICES ASSUME NEW c \in Caller, NEW r \in RequestId,
                    calls'[c] \in ResolveCall,
                    exceptions'[calls'[c].exception].status = "open",
                    exceptions'[calls'[c].exception].request = r
             PROVE  \A e \in receipts'[r] : e.at <= calls'[c].now
  BY DEF ResolversCameAfter
<1>1. calls'[c] # Absent
  BY AbsentAssumption
<1>2. CASE calls'[c] = calls[c]
  <2> DEFINE x == calls[c].exception
  <2>1. x \in ExceptionId /\ exceptions[x] # Absent
    BY <1>2 DEF IInv, NoDanglingId, ResolvesName, ResolveCall
  <2>2. exceptions'[x] = exceptions[x]
    BY <1>2, <2>1, NoneIsReopened
  <2>3. receipts'[r] = receipts[r]
    BY <1>2, <2>1, <2>2, OpenCaseFreezesReceipt
  <2>4. QED
    BY <1>2, <2>2, <2>3 DEF ResolversCameAfter
<1>3. CASE calls'[c] # calls[c]
  <2>1. calls'[c].now = clock /\ UNCHANGED store
    BY <1>1, <1>3, CallsKeepTheirTime DEF IInv
  <2>2. QED
    BY <2>1 DEF store, StampedInThePast
<1>4. QED
  BY <1>2, <1>3

\* An event of resolution is stamped last, and closes the receipt.
LEMMA ResolutionComesLastStep ==
  ASSUME IInv, TimesInv, [Next]_vars
  PROVE  ResolutionComesLast'
<1> SUFFICES ASSUME NEW r \in RequestId, NEW e \in receipts'[r], e.type = "exception.resolved",
                    NEW f \in receipts'[r]
             PROVE  f.at <= e.at
  BY DEF ResolutionComesLast, EventsOf
<1>1. \A g \in receipts[r] : g.at \in Nat
  BY DEF IInv, TypeOK, Event
<1>2. CASE receipts'[r] = receipts[r]
  BY <1>2 DEF TimesInv, ResolutionComesLast, EventsOf
<1>3. ASSUME NEW now, CreationStamped(r, now)
      PROVE  FALSE
  BY <1>3 DEF CreationStamped, Stamps, TimesInv, Timelines, Timeline, Expected
<1>4. ASSUME NEW t, NEW o \in Outcome, NEW now, SettlementStamped(r, t, o, now)
      PROVE  FALSE
  <2>1. Expected(r) = {"payment_request.created"}
    BY <1>4 DEF SettlementStamped, Expected
  <2>2. e \notin receipts[r]
    BY <2>1 DEF TimesInv, Timelines, Timeline
  <2>3. e \in SettlementEvents(t, o, now)
    BY <1>4, <2>2 DEF SettlementStamped, Stamps
  <2>4. QED
    BY <2>3 DEF SettlementEvents
<1>5. ASSUME NEW c \in Caller, calls[c] \in ResolveCall,
             ResolutionStamped(calls[c].exception, r, calls[c].now)
      PROVE  f.at <= e.at
  <2> DEFINE x == calls[c].exception
             now == calls[c].now
             n == ResolvedEvent(exceptions[x], now)
  <2>1. n.at = now
    BY DEF ResolvedEvent
  <2>2. receipts'[r] = receipts[r] \cup {n}
    BY <1>5 DEF ResolutionStamped, Stamps
  <2> HIDE DEF n
  <2>3. now \in Nat /\ \A g \in receipts[r] : g.at <= now
    BY <1>5 DEF ResolutionStamped, TimesInv, ResolversCameAfter, ResolveCall
  <2>4. x \in ExceptionId
    BY <1>5 DEF ResolveCall
  <2>5. requests[r] # Absent /\ requests[r].status \in {"underpaid", "overpaid", "expired"}
    BY <1>5, <2>4, AbsentAssumption DEF ResolutionStamped, IInv, OneDisputePerRequest
  <2>6. "exception.resolved" \notin Expected(r)
    BY <2>5 DEF Expected, SettlementTypes
  <2>7. e = n
    BY <2>2, <2>6 DEF TimesInv, Timelines, Timeline
  <2>8. QED
    BY <2>1, <2>2, <2>3, <2>7
<1>6. QED
  <2>1. CASE UNCHANGED <<requests, receipts>>
    BY <1>2, <2>1
  <2>2. ASSUME NEW q \in RequestId, NEW N, Stamps(q, N), q # r
        PROVE  receipts'[r] = receipts[r]
    BY <2>2 DEF Stamps
  <2>3. ASSUME NEW c \in Caller, NEW q \in RequestId, CreationStamped(q, calls[c].now)
        PROVE  f.at <= e.at
    BY <1>2, <1>3, <2>2, <2>3 DEF CreationStamped
  <2>4. ASSUME NEW c \in Caller, NEW q \in RequestId, NEW t \in TxnId, NEW o \in Outcome,
               SettlementStamped(q, t, o, calls[c].now)
        PROVE  f.at <= e.at
    BY <1>2, <1>4, <2>2, <2>4 DEF SettlementStamped
  <2>5. ASSUME NEW c \in Caller, NEW q \in RequestId, calls[c] \in ResolveCall,
               ResolutionStamped(calls[c].exception, q, calls[c].now)
        PROVE  f.at <= e.at
    BY <1>2, <1>5, <2>2, <2>5 DEF ResolutionStamped
  <2>6. QED
    BY <2>1, <2>3, <2>4, <2>5, StepStamps

\* Every step keeps the receipts in order.
LEMMA TimesStep ==
  ASSUME IInv, TimesInv, [Next]_vars
  PROVE  TimesInv'
BY TimelinesStep, StampedInThePastStep, ResolversCameAfterStep, ResolutionComesLastStep
   DEF TimesInv

\* Empty receipts are in order.
LEMMA TimesInit == Init => TimesInv
BY DEF Init, TimesInv, Timelines, Timeline, Expected, StampedInThePast,
       ResolversCameAfter, ResolutionComesLast, EventsOf

\* However long a resolution waits for the lock, no event of the receipt is
\* stamped later than it.
THEOREM ResolutionsComeLast == Spec => []ResolutionComesLast
<1>1. IInv /\ TimesInv /\ [Next]_vars => TimesInv'
  BY TimesStep
<1>2. TimesInv => ResolutionComesLast
  BY DEF TimesInv
<1>3. QED
  BY Inductive, TimesInit, <1>1, <1>2, PTL DEF Spec
-------------------------------------------------------------------------------
(* The whole invariant *)

\* All that the tables say of each other, at whatever time.
Sound ==
  /\ IInv
  /\ TablesInv
  /\ StoryInv
  /\ Timelines
  /\ ResolversCameAfter
  /\ ResolutionComesLast

\* Every step of the payment operations keeps the tables sound.
LEMMA SoundStep ==
  ASSUME Sound, StampedInThePast, [Next]_vars
  PROVE  Sound' /\ StampedInThePast'
<1>1. IInv'
  BY TypeStep, ResolvesNameStep, TablesClosedStep, SettledOnceStep, OneDisputeStep
     DEF Sound, IInv, NoDanglingId
<1>2. QED
  BY <1>1, TablesStep, StoryStep, TimesStep DEF Sound, TimesInv, IInv

\* Empty tables are sound.
LEMMA SoundInit == Init => Sound /\ StampedInThePast
BY InitIInv, TablesInit, StoryInit, TimesInit DEF Sound, TimesInv

\* The promises of PaymentTruth, together.
Promises ==
  /\ TypeOK
  /\ VerdictsAreJust
  /\ SettledOnce
  /\ StatusTellsTheEvidence
  /\ EveryPaymentAccountedFor
  /\ SignatureIndexExact
  /\ OneRequestPerKey
  /\ TimelineTellsTheStatus
  /\ ResolutionComesLast

\* Sound tables keep them.
LEMMA SoundKeepsPromises == Sound => Promises
<1> SUFFICES ASSUME Sound PROVE Promises
  OBVIOUS
<1>1. IInv /\ TypeOK /\ NoDanglingId /\ TablesInv /\ StoryInv /\ Timelines
  BY DEF Sound, IInv
<1>2. VerdictsAreJust /\ StatusTellsTheEvidence /\ EveryPaymentAccountedFor
  BY <1>1, TablesAreJust, StoryOfRequests, StoryOfPayments
<1>3. TimelineTellsTheStatus
  BY <1>1, TimelinesTell
<1>4. QED
  BY <1>1, <1>2, <1>3 DEF Sound, IInv, TablesInv, Promises
===============================================================================
