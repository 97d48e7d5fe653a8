------------------------ MODULE WebhookDelivery_proofs ------------------------
(***************************************************************************)
(* What the webhook queue promises, proved for every set of subscriptions  *)
(* and operations.  The snapshot is written only when nothing is under     *)
(* way, so a restart finds a queue that agrees with its receipts; between  *)
(* two snapshots the queue lags behind the receipts by what the operation  *)
(* that holds the lock has still to send, and by nothing else.             *)
(***************************************************************************)
EXTENDS WebhookDelivery, FiniteSetTheorems, TLAPS

-------------------------------------------------------------------------------
(* The inductive invariant: of tables S, E and D, in memory or on disk *)

RowsOf(D, x, s) ==
  {d \in DeliveryId : D[d] # Absent /\ D[d].event = x /\ D[d].sub = s}

\* The event goes to the subscription.
Due(S, E, x, s) ==
  /\ s \in E[x].present
  /\ S[s].business = E[x].business
  /\ E[x].type \in S[s].types

\* It has gone there once, or not at all.
Settled(S, E, D, x, s) ==
  IF Due(S, E, x, s) THEN \E d \in DeliveryId : RowsOf(D, x, s) = {d}
  ELSE RowsOf(D, x, s) = {}

\* Rows are of events there are, events saw subscriptions there are.
Linked(S, E, D) ==
  /\ \A d \in DeliveryId : D[d] # Absent => E[D[d].event] # Absent
  /\ \A x \in EventId : E[x] # Absent => \A s \in E[x].present : S[s] # Absent

\* Every row is of an id handed out, so is every event and every subscription.
Minted(S, E, D) ==
  /\ \A s \in SubId : S[s] # Absent => s \in minted.subs
  /\ \A x \in EventId : E[x] # Absent => x <= minted.events
  /\ \A d \in DeliveryId : D[d] # Absent => d <= minted.deliveries

HonestRow(D, d) ==
  /\ D[d].status # "pending" /\ D[d].attempts > 0
  /\ D[d].status = "delivered" => D[d].delivered
  /\ D[d].status = "failed" <=> D[d].nextAttempt

Waiting(x, s) == holder # Absent /\ holder.event = x /\ s \in holder.waiting
Sending(d) == holder # Absent /\ holder.sending = d
Left == IF holder = Absent THEN {} ELSE holder.waiting

\* Ids do not run out: an event takes one, and one for each subscription at most.
EnoughIdsLeft ==
  /\ minted.deliveries + Cardinality(Left) <= minted.events * Cardinality(SubId)
  /\ holder # Absent => minted.events + Len(holder.todo) <= MaxEvents

\* Whom the lock's holder still has to tell is owed the event and has no row of it.
HolderInv ==
  holder # Absent =>
    /\ \A s \in holder.waiting :
         /\ holder.event # Absent /\ events[holder.event] # Absent
         /\ Due(subs, events, holder.event, s)
         /\ RowsOf(deliveries, holder.event, s) = {}
    /\ holder.sending # Absent => deliveries[holder.sending] # Absent

QueueInv ==
  /\ Linked(subs, events, deliveries)
  /\ \A x \in EventId, s \in SubId :
       events[x] # Absent /\ ~Waiting(x, s) => Settled(subs, events, deliveries, x, s)

HonestInv ==
  \A d \in DeliveryId :
    deliveries[d] # Absent =>
      /\ deliveries[d].delivered => d \in acked
      /\ ~Sending(d) => HonestRow(deliveries, d)

DiskInv ==
  /\ Minted(disk.subs, disk.events, disk.deliveries)
  /\ Linked(disk.subs, disk.events, disk.deliveries)
  /\ \A x \in EventId, s \in SubId :
       disk.events[x] # Absent => Settled(disk.subs, disk.events, disk.deliveries, x, s)
  /\ \A d \in DeliveryId :
       disk.deliveries[d] # Absent =>
         /\ disk.deliveries[d].delivered => d \in acked
         /\ HonestRow(disk.deliveries, d)

Inv ==
  /\ TypeOK
  /\ EnoughIdsLeft
  /\ Minted(subs, events, deliveries)
  /\ HolderInv
  /\ QueueInv
  /\ HonestInv
  /\ DiskInv

-------------------------------------------------------------------------------
(* Lemmas *)

\* Being settled depends on who is due and on which rows there are.
LEMMA SettledAlike ==
  ASSUME NEW S, NEW E, NEW D, NEW S2, NEW E2, NEW D2, NEW x, NEW s,
         Due(S2, E2, x, s) <=> Due(S, E, x, s),
         RowsOf(D2, x, s) = RowsOf(D, x, s),
         Settled(S, E, D, x, s)
  PROVE  Settled(S2, E2, D2, x, s)
BY DEF Settled

\* Rows that keep their event and subscription are rows of the same.
LEMMA RowsAlike ==
  ASSUME NEW D, NEW D2,
         \A d \in DeliveryId :
           /\ D2[d] # Absent <=> D[d] # Absent
           /\ D[d] # Absent => D2[d].event = D[d].event /\ D2[d].sub = D[d].sub,
         NEW x, NEW s
  PROVE  RowsOf(D2, x, s) = RowsOf(D, x, s)
BY DEF RowsOf

\* A disk that is left alone stays in order.
LEMMA DiskLeftAlone ==
  ASSUME DiskInv, UNCHANGED disk, acked \subseteq acked',
         minted.subs \subseteq minted'.subs, minted.events <= minted'.events,
         minted.deliveries <= minted'.deliveries,
         minted.events \in Nat, minted'.events \in Nat,
         minted.deliveries \in Nat, minted'.deliveries \in Nat
  PROVE  DiskInv'
<1>1. Minted(disk.subs, disk.events, disk.deliveries)'
  <2>1. \A x \in EventId : x \in Nat
    BY DEF EventId
  <2>2. \A d \in DeliveryId : d \in Int
    BY DEF DeliveryId
  <2>3. Minted(disk.subs, disk.events, disk.deliveries)
    BY DEF DiskInv
  <2>4. QED
    BY <2>1, <2>2, <2>3 DEF Minted
<1>2. QED
  BY <1>1 DEF DiskInv

\* A snapshot of tables in order is in order: only the secrets are gone.
LEMMA PersistKeepsOrder ==
  ASSUME Persist, DiskInv, UNCHANGED acked,
         minted.subs \subseteq minted'.subs, minted.events = minted'.events,
         minted.deliveries = minted'.deliveries,
         minted.events \in Nat, minted.deliveries \in Nat,
         holder' = Absent,
         subs' \in [SubId -> Sub \cup {Absent}],
         events' \in [EventId -> Event \cup {Absent}],
         deliveries' \in [DeliveryId -> Delivery \cup {Absent}],
         disk.subs \in [SubId -> Sub \cup {Absent}],
         disk.events \in [EventId -> Event \cup {Absent}],
         disk.deliveries \in [DeliveryId -> Delivery \cup {Absent}],
         Minted(subs, events, deliveries)', QueueInv', HonestInv'
  PROVE  /\ disk'.subs \in [SubId -> Sub \cup {Absent}]
         /\ disk'.events \in [EventId -> Event \cup {Absent}]
         /\ disk'.deliveries \in [DeliveryId -> Delivery \cup {Absent}]
         /\ DiskInv'
<1>1. CASE disk' = disk
  <2>1. DiskInv'
    BY <1>1, DiskLeftAlone
  <2>2. QED
    BY <1>1, <2>1
<1>2. CASE disk' = Snapshot'
  <2>1. /\ disk'.events = events' /\ disk'.deliveries = deliveries'
        /\ disk'.subs = [s \in SubId |-> IF subs'[s] = Absent THEN Absent
                                         ELSE [subs'[s] EXCEPT !.secret = NoSecret]]
    BY <1>2 DEF Snapshot
  <2>2. ASSUME NEW s \in SubId, subs'[s] # Absent
        PROVE  /\ disk'.subs[s] \in Sub
               /\ disk'.subs[s].business = subs'[s].business
               /\ disk'.subs[s].types = subs'[s].types
    <3>1. subs'[s] \in Sub
      BY <2>2
    <3>2. disk'.subs[s] = [subs'[s] EXCEPT !.secret = NoSecret]
      BY <2>1, <2>2
    <3>3. QED
      BY <3>1, <3>2 DEF Sub
  <2>3. \A s \in SubId : disk'.subs[s] # Absent <=> subs'[s] # Absent
    BY <2>1, <2>2, NamesAssumption
  <2>4. disk'.subs \in [SubId -> Sub \cup {Absent}]
    BY <2>1, <2>2
  <2>5. \A x \in EventId : events'[x] # Absent => events'[x].present \subseteq SubId
    BY DEF Event
  <2>6. Linked(subs, events, deliveries)'
    BY DEF QueueInv
  <2>7. \A x \in EventId, s \in SubId :
          events'[x] # Absent =>
            (Due(disk'.subs, disk'.events, x, s) <=> Due(subs', events', x, s))
    <3> SUFFICES ASSUME NEW x \in EventId, NEW s \in SubId, events'[x] # Absent
                 PROVE  Due(disk'.subs, disk'.events, x, s) <=> Due(subs', events', x, s)
      OBVIOUS
    <3>1. s \in events'[x].present => subs'[s] # Absent
      BY <2>6 DEF Linked
    <3>2. QED
      BY <2>1, <2>2, <3>1 DEF Due
  <2>8. Linked(disk.subs, disk.events, disk.deliveries)'
    BY <2>1, <2>3, <2>5, <2>6 DEF Linked
  <2>9. Minted(disk.subs, disk.events, disk.deliveries)'
    BY <2>1, <2>3 DEF Minted
  <2>10. ASSUME NEW x \in EventId, NEW s \in SubId, disk'.events[x] # Absent
         PROVE  Settled(disk.subs, disk.events, disk.deliveries, x, s)'
    <3>1. Settled(subs, events, deliveries, x, s)'
      BY <2>1, <2>10 DEF QueueInv, Waiting
    <3>2. QED
      BY <2>1, <2>7, <2>10, <3>1, SettledAlike
  <2>11. \A d \in DeliveryId :
           disk'.deliveries[d] # Absent =>
             /\ disk'.deliveries[d].delivered => d \in acked'
             /\ HonestRow(disk'.deliveries, d)
    BY <2>1 DEF HonestInv, Sending, HonestRow
  <2>12. QED
    BY <2>1, <2>4, <2>8, <2>9, <2>10, <2>11 DEF DiskInv
<1>3. QED
  BY <1>1, <1>2 DEF Persist

\* What is under way is of the right kinds.
LEMMA HolderFields ==
  ASSUME TypeOK, holder # Absent
  PROVE  /\ holder \in Holder
         /\ holder.business \in Business /\ holder.todo \in Seq(EventType)
         /\ holder.event \in EventId \cup {Absent}
         /\ holder.waiting \subseteq SubId
         /\ holder.sending \in DeliveryId \cup {Absent}
BY DEF TypeOK, Holder

\* So is what has been handed out.
LEMMA MintedFields ==
  ASSUME TypeOK
  PROVE  /\ minted.subs \subseteq SubId
         /\ minted.events \in Nat /\ minted.events <= MaxEvents
         /\ minted.deliveries \in Nat
BY ConstantsAssumption DEF TypeOK, DeliveryId

\* The subscriptions there are can be counted.
LEMMA SubsCount ==
  ASSUME NEW T \in SUBSET SubId
  PROVE  /\ IsFiniteSet(T) /\ Cardinality(T) \in Nat
         /\ Cardinality(T) <= Cardinality(SubId) /\ Cardinality(SubId) \in Nat
BY ConstantsAssumption, FS_Subset, FS_CardinalityType

-------------------------------------------------------------------------------
(* Operations keep the invariant *)

\* A new subscription is owed nothing: no event saw it.
LEMMA CreateSubscriptionKeepsInv ==
  ASSUME Inv, NEW b \in Business, NEW s \in SubId, NEW types \in Wanted,
         CreateWebhookSubscription(b, s, types)
  PROVE  Inv'
<1> DEFINE row == [business |-> b, types |-> types, secret |-> SecretOf[s]]
<1>1. /\ holder = Absent /\ s \notin minted.subs
      /\ subs' = [subs EXCEPT ![s] = row]
      /\ minted' = [minted EXCEPT !.subs = @ \cup {s}]
      /\ UNCHANGED <<events, deliveries, holder, crashes, acked>>
      /\ Persist
  BY DEF CreateWebhookSubscription
<1>2. row \in Sub
  BY ConstantsAssumption DEF Sub
<1> HIDE DEF row
<1>3. /\ subs' \in [SubId -> Sub \cup {Absent}]
      /\ subs'[s] = row /\ \A r \in SubId : r # s => subs'[r] = subs[r]
  BY <1>1, <1>2 DEF Inv, TypeOK
<1>4. subs[s] = Absent
  BY <1>1 DEF Inv, Minted
<1>5. /\ minted'.subs = minted.subs \cup {s} /\ minted'.events = minted.events
      /\ minted'.deliveries = minted.deliveries
  BY <1>1 DEF Inv, TypeOK
<1>6. minted' \in [subs : SUBSET SubId, events : 0..MaxEvents,
                   deliveries : {0} \cup DeliveryId]
  BY <1>1 DEF Inv, TypeOK
<1>7. Minted(subs, events, deliveries)'
  BY <1>1, <1>3, <1>5 DEF Inv, Minted
<1>8. Linked(subs, events, deliveries)
  BY DEF Inv, QueueInv
<1>9. \A x \in EventId : events[x] # Absent => events[x].present \subseteq SubId \ {s}
  BY <1>4, <1>8 DEF Inv, TypeOK, Event, Linked
<1>10. \A x \in EventId, r \in SubId :
         events[x] # Absent => (Due(subs', events, x, r) <=> Due(subs, events, x, r))
  BY <1>3, <1>9 DEF Due
<1>11. QueueInv'
  <2>1. Linked(subs, events, deliveries)'
    BY <1>1, <1>3, <1>8, <1>9 DEF Linked
  <2>2. ASSUME NEW x \in EventId, NEW r \in SubId, events'[x] # Absent
        PROVE  Settled(subs, events, deliveries, x, r)'
    <3>1. Settled(subs, events, deliveries, x, r)
      BY <1>1, <2>2 DEF Inv, QueueInv, Waiting
    <3>2. QED
      BY <1>1, <1>10, <2>2, <3>1, SettledAlike
  <2>3. QED
    BY <2>1, <2>2 DEF QueueInv
<1>12. HonestInv'
  BY <1>1 DEF Inv, HonestInv, Sending, HonestRow
<1>13. /\ disk'.subs \in [SubId -> Sub \cup {Absent}]
       /\ disk'.events \in [EventId -> Event \cup {Absent}]
       /\ disk'.deliveries \in [DeliveryId -> Delivery \cup {Absent}]
       /\ DiskInv'
  BY <1>1, <1>3, <1>5, <1>7, <1>11, <1>12, MintedFields, PersistKeepsOrder
     DEF Inv, TypeOK
<1>14. TypeOK'
  BY <1>1, <1>3, <1>6, <1>13 DEF Inv, TypeOK
<1>15. EnoughIdsLeft' /\ HolderInv'
  BY <1>1, <1>5 DEF Inv, EnoughIdsLeft, Left, HolderInv
<1>16. QED
  BY <1>7, <1>11, <1>12, <1>13, <1>14, <1>15 DEF Inv

\* An operation that begins has everything still to record.
LEMMA BeginKeepsInv ==
  ASSUME Inv, NEW b \in Business, NEW batch \in Batch, BeginPaymentOperation(b, batch)
  PROVE  Inv'
<1> DEFINE new == [business |-> b, todo |-> batch, event |-> Absent, waiting |-> {},
                   sending |-> Absent]
<1>1. /\ holder = Absent /\ EnoughIds(batch) /\ holder' = new
      /\ UNCHANGED <<subs, events, deliveries, disk, crashes, minted, acked>>
  BY DEF BeginPaymentOperation
<1>2. new \in Holder
  BY ConstantsAssumption DEF Holder
<1>3. /\ new # Absent
      /\ new.waiting = {} /\ new.sending = Absent /\ new.todo = batch
  BY <1>2, NamesAssumption
<1> HIDE DEF new
<1>4. TypeOK'
  BY <1>1, <1>2 DEF Inv, TypeOK
<1>5. EnoughIdsLeft'
  BY <1>1, <1>3 DEF Inv, EnoughIdsLeft, Left, EnoughIds
<1>6. Minted(subs, events, deliveries)' /\ HolderInv'
  BY <1>1, <1>3 DEF Inv, Minted, HolderInv
<1>7. QueueInv'
  BY <1>1 DEF Inv, QueueInv, Waiting, Linked, Settled, Due, RowsOf
<1>8. HonestInv'
  BY <1>1 DEF Inv, HonestInv, Sending, HonestRow
<1>9. DiskInv'
  BY <1>1, MintedFields, DiskLeftAlone DEF Inv
<1>10. QED
  BY <1>4, <1>5, <1>6, <1>7, <1>8, <1>9 DEF Inv

\* The next event is new; whoever it is due to waits for it.
LEMMA RecordEventKeepsInv ==
  ASSUME Inv, RecordEvent
  PROVE  Inv'
<1> DEFINE n == minted.events + 1
           row == [business |-> holder.business, type |-> Head(holder.todo),
                   present |-> {s \in SubId : subs[s] # Absent}]
           told == Subscribers(holder.business, Head(holder.todo))
<1>1. /\ holder # Absent /\ holder.waiting = {} /\ holder.sending = Absent
      /\ holder.todo # <<>>
      /\ events' = [events EXCEPT ![n] = row]
      /\ holder' = [holder EXCEPT !.todo = Tail(@), !.event = n, !.waiting = told]
      /\ minted' = [minted EXCEPT !.events = n]
      /\ UNCHANGED <<subs, deliveries, disk, crashes, acked>>
  BY DEF RecordEvent, Idle
<1>2. /\ holder \in Holder /\ holder.todo \in Seq(EventType)
      /\ holder.business \in Business
  BY <1>1, HolderFields DEF Inv
<1>3. /\ Head(holder.todo) \in EventType /\ Tail(holder.todo) \in Seq(EventType)
      /\ Len(Tail(holder.todo)) = Len(holder.todo) - 1 /\ Len(holder.todo) \in Nat \ {0}
  BY <1>1, <1>2
<1>4. row \in Event /\ told \subseteq SubId
  BY <1>2, <1>3 DEF Event, Subscribers
<1>5. \A s \in SubId : s \in told <=>
        /\ subs[s] # Absent
        /\ subs[s].business = row.business /\ row.type \in subs[s].types
  BY DEF Subscribers
<1>6. row.present = {s \in SubId : subs[s] # Absent}
  OBVIOUS
<1> HIDE DEF row, told
<1>7. n \in EventId /\ n \in 0..MaxEvents /\ n <= MaxEvents
  BY <1>1, <1>3, MintedFields, ConstantsAssumption DEF Inv, EnoughIdsLeft, EventId
<1> PICK x \in EventId : x = n
  BY <1>7
<1>8. events[x] = Absent
  BY MintedFields DEF Inv, Minted
<1>9. /\ events' \in [EventId -> Event \cup {Absent}]
      /\ events'[x] = row /\ \A y \in EventId : y # x => events'[y] = events[y]
  BY <1>1, <1>4 DEF Inv, TypeOK
<1>10. row # Absent
  BY <1>4, NamesAssumption
<1>11. /\ holder' \in Holder /\ holder' # Absent
       /\ holder'.todo = Tail(holder.todo) /\ holder'.event = x
       /\ holder'.waiting = told /\ holder'.sending = Absent
  BY ZenonT(60), <1>1, <1>2, <1>3, <1>4, NamesAssumption DEF Holder
<1>12. /\ minted'.subs = minted.subs /\ minted'.events = n
       /\ minted'.deliveries = minted.deliveries
       /\ minted' \in [subs : SUBSET SubId, events : 0..MaxEvents,
                       deliveries : {0} \cup DeliveryId]
  BY <1>1, <1>7 DEF Inv, TypeOK
<1>13. TypeOK'
  BY <1>1, <1>9, <1>11, <1>12 DEF Inv, TypeOK
<1>14. EnoughIdsLeft'
  <2>1. Cardinality(told) \in Nat /\ Cardinality(told) <= Cardinality(SubId)
        /\ Cardinality(SubId) \in Nat
    BY <1>4, SubsCount
  <2>2. Left = {} /\ Left' = told /\ Cardinality({}) = 0
    BY <1>1, <1>11, FS_EmptySet DEF Left
  <2>3. minted.deliveries <= minted.events * Cardinality(SubId)
    BY <2>2, MintedFields DEF Inv, EnoughIdsLeft
  <2>4. n * Cardinality(SubId) = minted.events * Cardinality(SubId) + Cardinality(SubId)
    BY <2>1, MintedFields DEF Inv
  <2>5. minted.events * Cardinality(SubId) \in Nat
    BY <2>1, MintedFields DEF Inv
  <2>6. minted.deliveries + Cardinality(told) <= n * Cardinality(SubId)
    BY <2>1, <2>3, <2>4, <2>5, MintedFields DEF Inv
  <2>7. n + Len(Tail(holder.todo)) <= MaxEvents
    BY <1>1, <1>3, MintedFields, ConstantsAssumption DEF Inv, EnoughIdsLeft
  <2>8. QED
    BY <1>11, <1>12, <2>2, <2>6, <2>7 DEF EnoughIdsLeft
<1>15. Minted(subs, events, deliveries)'
  <2>1. \A y \in EventId : y \in Nat
    BY DEF EventId
  <2>2. QED
    BY <1>1, <1>9, <1>12, <2>1, MintedFields DEF Inv, Minted
<1>16. Linked(subs, events, deliveries)
  BY DEF Inv, QueueInv
<1>17. \A s : RowsOf(deliveries, x, s) = {}
  BY <1>8, <1>16 DEF RowsOf, Linked
<1>18. \A s \in SubId : Due(subs, events', x, s) <=> s \in told
  BY <1>5, <1>6, <1>9 DEF Due
<1>19. HolderInv'
  <2>1. x # Absent
    BY NamesAssumption DEF EventId
  <2>2. \A s \in told : Due(subs', events', x, s) /\ RowsOf(deliveries', x, s) = {}
    BY <1>1, <1>4, <1>17, <1>18
  <2>3. QED
    BY <1>9, <1>10, <1>11, <2>1, <2>2 DEF HolderInv
<1>20. QueueInv'
  <2>1. Linked(subs, events, deliveries)'
    BY <1>1, <1>6, <1>8, <1>9, <1>10, <1>16 DEF Linked, Inv, TypeOK, Delivery
  <2>2. ASSUME NEW y \in EventId, NEW s \in SubId, events'[y] # Absent, ~Waiting(y, s)'
        PROVE  Settled(subs, events, deliveries, y, s)'
    <3>1. CASE y = x
      <4>1. ~Due(subs, events', x, s)
        BY <1>11, <1>18, <2>2, <3>1 DEF Waiting
      <4>2. QED
        BY <1>1, <1>17, <3>1, <4>1 DEF Settled
    <3>2. CASE y # x
      <4>1. events'[y] = events[y]
        BY <1>9, <3>2
      <4>2. Settled(subs, events, deliveries, y, s)
        BY <1>1, <2>2, <4>1 DEF Inv, QueueInv, Waiting
      <4>3. Due(subs', events', y, s) <=> Due(subs, events, y, s)
        BY <1>1, <4>1 DEF Due
      <4>4. QED
        BY <1>1, <4>2, <4>3, SettledAlike
    <3>3. QED
      BY <3>1, <3>2
  <2>3. QED
    BY <2>1, <2>2 DEF QueueInv
<1>21. HonestInv'
  BY <1>1, <1>11, NamesAssumption DEF Inv, HonestInv, Sending, HonestRow
<1>22. DiskInv'
  BY <1>1, <1>7, <1>12, MintedFields, DiskLeftAlone DEF Inv
<1>23. QED
  BY <1>13, <1>14, <1>15, <1>19, <1>20, <1>21, <1>22 DEF Inv

\* The delivery is the first of its event to its subscription.
LEMMA EnqueueKeepsInv ==
  ASSUME Inv, NEW s \in SubId, EnqueueDelivery(s)
  PROVE  Inv'
<1> DEFINE n == minted.deliveries + 1
           row == [sub |-> s, event |-> holder.event, signedWith |-> subs[s].secret,
                   status |-> "pending", attempts |-> 0, nextAttempt |-> FALSE,
                   delivered |-> FALSE]
<1>1. /\ holder # Absent /\ holder.sending = Absent /\ s \in holder.waiting
      /\ deliveries' = [deliveries EXCEPT ![n] = row]
      /\ holder' = [holder EXCEPT !.waiting = @ \ {s}, !.sending = n]
      /\ minted' = [minted EXCEPT !.deliveries = n]
      /\ UNCHANGED <<subs, events, disk, crashes, acked>>
  BY DEF EnqueueDelivery
<1>2. holder \in Holder /\ holder.waiting \subseteq SubId
  BY <1>1, HolderFields DEF Inv
<1>3. /\ holder.event \in EventId /\ events[holder.event] # Absent
      /\ Due(subs, events, holder.event, s)
      /\ RowsOf(deliveries, holder.event, s) = {}
  BY <1>1, HolderFields DEF Inv, HolderInv
<1> PICK x \in EventId : x = holder.event
  BY <1>3
<1>4. events[x].present \subseteq SubId /\ subs[s] # Absent
  BY <1>3 DEF Inv, TypeOK, Event, QueueInv, Linked, Due
<1>5. subs[s].secret \in Secret \cup {NoSecret}
  BY <1>4 DEF Inv, TypeOK, Sub
<1>6. row \in Delivery
  BY <1>3, <1>5 DEF Delivery
<1>7. row.event = x /\ row.sub = s /\ row.delivered = FALSE
  BY <1>3
<1> HIDE DEF row
<1>8. /\ IsFiniteSet(holder.waiting) /\ Cardinality(holder.waiting) \in Nat
      /\ Cardinality(SubId) \in Nat
      /\ Cardinality(holder.waiting \ {s}) = Cardinality(holder.waiting) - 1
      /\ Cardinality(holder.waiting \ {s}) \in Nat
  <2>1. IsFiniteSet(holder.waiting) /\ Cardinality(holder.waiting) \in Nat
        /\ Cardinality(SubId) \in Nat
    BY <1>2, SubsCount
  <2>2. Cardinality(holder.waiting \ {s}) = Cardinality(holder.waiting) - 1
    BY <1>1, <2>1, FS_RemoveElement
  <2>3. Cardinality(holder.waiting \ {s}) \in Nat
    BY <1>2, SubsCount
  <2>4. QED
    BY <2>1, <2>2, <2>3
<1>9. minted.deliveries + Cardinality(holder.waiting) <= minted.events * Cardinality(SubId)
  BY <1>1 DEF Inv, EnoughIdsLeft, Left
<1>10. n \in DeliveryId
  <2>1. minted.events * Cardinality(SubId) <= MaxEvents * Cardinality(SubId)
    BY <1>8, MintedFields, ConstantsAssumption DEF Inv
  <2>2. minted.events * Cardinality(SubId) \in Nat /\ MaxEvents * Cardinality(SubId) \in Nat
    BY <1>8, MintedFields, ConstantsAssumption DEF Inv
  <2>3. n <= minted.events * Cardinality(SubId)
    BY <1>8, <1>9, <2>2, MintedFields DEF Inv
  <2>4. QED
    BY <2>1, <2>2, <2>3, MintedFields DEF Inv, DeliveryId
<1> PICK d \in DeliveryId : d = n
  BY <1>10
<1>11. d \in Nat /\ d # Absent
  BY NamesAssumption DEF DeliveryId
<1>12. deliveries[d] = Absent
  BY MintedFields DEF Inv, Minted
<1>13. /\ deliveries' \in [DeliveryId -> Delivery \cup {Absent}]
       /\ deliveries'[d] = row
       /\ \A c \in DeliveryId : c # d => deliveries'[c] = deliveries[c]
  BY <1>1, <1>6 DEF Inv, TypeOK
<1>14. row # Absent
  BY <1>6, NamesAssumption
<1>15. [holder EXCEPT !.waiting = @ \ {s}, !.sending = d] \in Holder
  BY <1>2 DEF Holder
<1>16. /\ holder' \in Holder /\ holder' # Absent
       /\ holder'.todo = holder.todo /\ holder'.event = x
       /\ holder'.waiting = holder.waiting \ {s} /\ holder'.sending = d
  <2>1. holder' = [holder EXCEPT !.waiting = @ \ {s}, !.sending = d]
    BY <1>1
  <2>2. QED
    BY <1>2, <1>15, <2>1, NamesAssumption DEF Holder
<1>17. /\ minted'.subs = minted.subs /\ minted'.events = minted.events
       /\ minted'.deliveries = n
       /\ minted' \in [subs : SUBSET SubId, events : 0..MaxEvents,
                       deliveries : {0} \cup DeliveryId]
  BY <1>1, <1>10 DEF Inv, TypeOK
<1>18. TypeOK'
  BY <1>1, <1>13, <1>16, <1>17 DEF Inv, TypeOK
<1>19. EnoughIdsLeft'
  <2>1. Left' = holder.waiting \ {s}
    BY <1>16 DEF Left
  <2>2. n + Cardinality(holder.waiting \ {s}) <= minted.events * Cardinality(SubId)
    BY <1>8, <1>9, MintedFields DEF Inv
  <2>3. minted.events + Len(holder.todo) <= MaxEvents
    BY <1>1 DEF Inv, EnoughIdsLeft
  <2>4. QED
    BY <1>16, <1>17, <2>1, <2>2, <2>3 DEF EnoughIdsLeft
<1>20. Minted(subs, events, deliveries)'
  <2>1. \A c \in DeliveryId : c \in Nat
    BY DEF DeliveryId
  <2>2. QED
    BY <1>1, <1>13, <1>17, <2>1, MintedFields DEF Inv, Minted
<1>21. /\ RowsOf(deliveries', x, s) = {d}
       /\ \A y, r : y # x \/ r # s => RowsOf(deliveries', y, r) = RowsOf(deliveries, y, r)
  <2>1. ASSUME NEW y, NEW r, y # x \/ r # s
        PROVE  RowsOf(deliveries', y, r) = RowsOf(deliveries, y, r)
    BY <1>7, <1>12, <1>13, <1>14, <2>1 DEF RowsOf
  <2>2. RowsOf(deliveries', x, s) = {d}
    <3>1. \A c \in DeliveryId :
            ~(deliveries[c] # Absent /\ deliveries[c].event = x /\ deliveries[c].sub = s)
      BY <1>3 DEF RowsOf
    <3>2. \A c \in RowsOf(deliveries', x, s) : c = d
      BY <1>13, <3>1 DEF RowsOf
    <3>3. d \in RowsOf(deliveries', x, s)
      BY <1>7, <1>13, <1>14 DEF RowsOf
    <3>4. QED
      BY <3>2, <3>3
  <2>3. QED
    BY <2>1, <2>2
<1>22. \A y, r : Due(subs', events', y, r) <=> Due(subs, events, y, r)
  BY <1>1 DEF Due
<1>23. HolderInv'
  <2>1. ASSUME NEW r \in holder.waiting \ {s}
        PROVE  /\ x # Absent /\ events'[x] # Absent
               /\ Due(subs', events', x, r)
               /\ RowsOf(deliveries', x, r) = {}
    BY <1>1, <1>3, <1>21, <1>22 DEF Inv, HolderInv
  <2>2. deliveries'[d] # Absent
    BY <1>13, <1>14
  <2>3. QED
    BY <1>16, <2>1, <2>2 DEF HolderInv
<1>24. QueueInv'
  <2>1. Linked(subs, events, deliveries)'
    BY <1>1, <1>3, <1>7, <1>13 DEF Inv, QueueInv, Linked
  <2>2. ASSUME NEW y \in EventId, NEW r \in SubId, events'[y] # Absent, ~Waiting(y, r)'
        PROVE  Settled(subs, events, deliveries, y, r)'
    <3>1. CASE y = x /\ r = s
      <4>1. Due(subs', events', y, r) /\ RowsOf(deliveries', y, r) = {d}
        BY <1>3, <1>21, <1>22, <3>1
      <4>2. QED
        BY <4>1 DEF Settled
    <3>2. CASE ~(y = x /\ r = s)
      <4>1. RowsOf(deliveries', y, r) = RowsOf(deliveries, y, r)
        BY <1>21, <3>2
      <4>2. ~Waiting(y, r) /\ events[y] # Absent
        BY <1>1, <1>16, <2>2, <3>2 DEF Waiting
      <4>3. Settled(subs, events, deliveries, y, r)
        BY <4>2 DEF Inv, QueueInv
      <4>4. Settled(subs', events', deliveries', y, r)
        BY <1>22, <4>1, <4>3, SettledAlike
      <4>5. QED
        BY <4>4
    <3>3. QED
      BY <3>1, <3>2
  <2>3. QED
    BY <2>1, <2>2 DEF QueueInv
<1>25. HonestInv'
  <2>1. ASSUME NEW c \in DeliveryId, deliveries'[c] # Absent
        PROVE  /\ deliveries'[c].delivered => c \in acked'
               /\ ~Sending(c)' => HonestRow(deliveries', c)
    <3>1. CASE c = d
      BY <1>7, <1>13, <1>16, <3>1 DEF Sending
    <3>2. CASE c # d
      <4>1. deliveries'[c] = deliveries[c] /\ ~Sending(c)
        BY <1>1, <1>13, <3>2, NamesAssumption DEF Sending, DeliveryId
      <4>2. QED
        BY <1>1, <2>1, <4>1 DEF Inv, HonestInv, HonestRow
    <3>3. QED
      BY <3>1, <3>2
  <2>2. QED
    BY <2>1 DEF HonestInv
<1>26. DiskInv'
  BY <1>1, <1>17, MintedFields, DiskLeftAlone DEF Inv
<1>27. QED
  BY <1>18, <1>19, <1>20, <1>23, <1>24, <1>25, <1>26 DEF Inv

\* An attempt that ends, answered or not, leaves a row that says so.
LEMMA AttemptKeepsInv ==
  ASSUME Inv, holder # Absent, holder.sending # Absent, NEW ok \in BOOLEAN,
         deliveries' = Attempted(holder.sending, ok),
         holder' = [holder EXCEPT !.sending = Absent],
         acked' = (IF ok THEN acked \cup {holder.sending} ELSE acked),
         UNCHANGED <<subs, events, disk, crashes, minted>>
  PROVE  Inv'
<1>1. /\ holder \in Holder /\ holder.sending \in DeliveryId
      /\ deliveries[holder.sending] # Absent
  BY HolderFields DEF Inv, HolderInv
<1> PICK d \in DeliveryId : d = holder.sending
  BY <1>1
<1> DEFINE row == deliveries[d]
           new == [row EXCEPT !.status = IF ok THEN "delivered" ELSE "failed",
                              !.attempts = @ + 1, !.nextAttempt = ~ok,
                              !.delivered = @ \/ ok]
<1>2. row \in Delivery
  BY <1>1 DEF Inv, TypeOK
<1>3. deliveries' = [deliveries EXCEPT ![d] = new]
  BY DEF Attempted
<1>4. row.delivered \in BOOLEAN /\ row.attempts \in Nat
  BY <1>2 DEF Delivery
<1>5. PICK status, attempts, next, delivered :
        /\ status = IF ok THEN "delivered" ELSE "failed"
        /\ attempts = row.attempts + 1 /\ next = ~ok /\ delivered = (row.delivered \/ ok)
        /\ new = [row EXCEPT !.status = status, !.attempts = attempts,
                             !.nextAttempt = next, !.delivered = delivered]
  OBVIOUS
<1> HIDE DEF new
<1>6. /\ status \in {"delivered", "failed"} /\ attempts \in Nat /\ attempts > 0
      /\ next \in BOOLEAN /\ delivered \in BOOLEAN
  <2>1. attempts \in Nat /\ attempts > 0
    BY <1>4, <1>5
  <2>2. next \in BOOLEAN /\ delivered \in BOOLEAN
    BY <1>4, <1>5, Zenon
  <2>3. QED
    BY <1>5, <2>1, <2>2
<1>7. /\ new \in Delivery
      /\ new.event = row.event /\ new.sub = row.sub
      /\ new.status = status /\ new.attempts = attempts
      /\ new.nextAttempt = next /\ new.delivered = delivered
  BY <1>2, <1>5, <1>6 DEF Delivery
<1>8. new # Absent
  BY <1>7, NamesAssumption
<1>9. /\ deliveries' \in [DeliveryId -> Delivery \cup {Absent}]
      /\ deliveries'[d] = new
      /\ \A c \in DeliveryId : c # d => deliveries'[c] = deliveries[c]
  BY <1>3, <1>7 DEF Inv, TypeOK
<1>10. /\ holder' \in Holder /\ holder' # Absent
       /\ holder'.todo = holder.todo /\ holder'.event = holder.event
       /\ holder'.waiting = holder.waiting /\ holder'.sending = Absent
  BY <1>1, NamesAssumption DEF Holder
<1>11. \A x, s : RowsOf(deliveries', x, s) = RowsOf(deliveries, x, s)
  BY <1>1, <1>7, <1>8, <1>9, RowsAlike
<1>12. TypeOK'
  BY <1>9, <1>10 DEF Inv, TypeOK
<1>13. EnoughIdsLeft'
  BY <1>10 DEF Inv, EnoughIdsLeft, Left
<1>14. Minted(subs, events, deliveries)'
  BY <1>1, <1>9 DEF Inv, Minted
<1>15. \A x, s : Due(subs', events', x, s) <=> Due(subs, events, x, s)
  BY DEF Due
<1>16. HolderInv'
  BY <1>10, <1>11, <1>15 DEF Inv, HolderInv
<1>17. QueueInv'
  <2>1. Linked(subs, events, deliveries)'
    BY <1>1, <1>7, <1>9 DEF Inv, QueueInv, Linked
  <2>2. ASSUME NEW x \in EventId, NEW s \in SubId, events'[x] # Absent, ~Waiting(x, s)'
        PROVE  Settled(subs, events, deliveries, x, s)'
    <3>1. Settled(subs, events, deliveries, x, s)
      BY <1>10, <2>2 DEF Inv, QueueInv, Waiting
    <3>2. Settled(subs', events', deliveries', x, s)
      BY <1>11, <1>15, <3>1, SettledAlike
    <3>3. QED
      BY <3>2
  <2>3. QED
    BY <2>1, <2>2 DEF QueueInv
<1>18. HonestInv'
  <2>1. ASSUME NEW c \in DeliveryId, deliveries'[c] # Absent
        PROVE  /\ deliveries'[c].delivered => c \in acked'
               /\ HonestRow(deliveries', c)
    <3>1. CASE c = d
      <4>1. row.delivered => d \in acked
        BY <1>1 DEF Inv, HonestInv
      <4>2. delivered => d \in acked'
        BY <1>5, <4>1
      <4>3. /\ status # "pending"
            /\ status = "delivered" => delivered
            /\ status = "failed" <=> next
        BY <1>5
      <4>4. HonestRow(deliveries', c)
        BY <1>6, <1>7, <1>9, <3>1, <4>3 DEF HonestRow
      <4>5. QED
        BY <1>7, <1>9, <3>1, <4>2, <4>4
    <3>2. CASE c # d
      <4>1. deliveries'[c] = deliveries[c] /\ ~Sending(c)
        BY <1>9, <3>2 DEF Sending
      <4>2. QED
        BY <2>1, <4>1 DEF Inv, HonestInv, HonestRow
    <3>3. QED
      BY <3>1, <3>2
  <2>2. QED
    BY <2>1 DEF HonestInv
<1>19. DiskInv'
  BY MintedFields, DiskLeftAlone DEF Inv
<1>20. QED
  BY <1>12, <1>13, <1>14, <1>16, <1>17, <1>18, <1>19 DEF Inv

\* An operation that ends owes nothing, and that is what it writes down.
LEMMA FinishKeepsInv ==
  ASSUME Inv, FinishOperation
  PROVE  Inv'
<1>1. /\ holder # Absent /\ holder.waiting = {} /\ holder.sending = Absent
      /\ holder' = Absent
      /\ UNCHANGED <<subs, events, deliveries, crashes, minted, acked>>
      /\ Persist
  BY DEF FinishOperation, Idle
<1>2. Minted(subs, events, deliveries)'
  BY <1>1 DEF Inv, Minted
<1>3. QueueInv'
  <2>1. Linked(subs, events, deliveries)'
    BY <1>1 DEF Inv, QueueInv, Linked
  <2>2. ASSUME NEW x \in EventId, NEW s \in SubId, events'[x] # Absent
        PROVE  Settled(subs, events, deliveries, x, s)'
    <3>1. Settled(subs, events, deliveries, x, s)
      BY <1>1, <2>2 DEF Inv, QueueInv, Waiting
    <3>2. QED
      BY <1>1, <3>1 DEF Settled, Due, RowsOf
  <2>3. QED
    BY <2>1, <2>2 DEF QueueInv
<1>4. HonestInv'
  <2>1. \A d \in DeliveryId : ~Sending(d)
    BY <1>1, NamesAssumption DEF Sending, DeliveryId
  <2>2. QED
    BY <1>1, <2>1 DEF Inv, HonestInv, HonestRow
<1>5. /\ disk'.subs \in [SubId -> Sub \cup {Absent}]
      /\ disk'.events \in [EventId -> Event \cup {Absent}]
      /\ disk'.deliveries \in [DeliveryId -> Delivery \cup {Absent}]
      /\ DiskInv'
  BY <1>1, <1>2, <1>3, <1>4, MintedFields, PersistKeepsOrder DEF Inv, TypeOK
<1>6. TypeOK'
  BY <1>1, <1>5 DEF Inv, TypeOK
<1>7. EnoughIdsLeft' /\ HolderInv'
  BY <1>1 DEF Inv, EnoughIdsLeft, Left, HolderInv
<1>8. QED
  BY <1>2, <1>3, <1>4, <1>5, <1>6, <1>7 DEF Inv

\* A replay makes its row pending, which nobody sees before it is attempted.
LEMMA ReplayKeepsInv ==
  ASSUME Inv, NEW b \in Business, NEW d \in DeliveryId, ReplayWebhookDelivery(b, d)
  PROVE  Inv'
<1> DEFINE row == [deliveries[d] EXCEPT !.status = "pending", !.nextAttempt = FALSE]
           new == [business |-> b, todo |-> <<>>, event |-> Absent, waiting |-> {},
                   sending |-> d]
<1>1. /\ holder = Absent /\ deliveries[d] # Absent
      /\ deliveries' = [deliveries EXCEPT ![d] = row]
      /\ holder' = new
      /\ UNCHANGED <<subs, events, disk, crashes, minted, acked>>
  BY DEF ReplayWebhookDelivery
<1>2. deliveries[d] \in Delivery
  BY <1>1 DEF Inv, TypeOK
<1>3. /\ row \in Delivery
      /\ row.event = deliveries[d].event /\ row.sub = deliveries[d].sub
      /\ row.delivered = deliveries[d].delivered
  BY <1>2 DEF Delivery
<1>4. new \in Holder
  BY DEF Holder
<1>5. new # Absent /\ new.waiting = {} /\ new.sending = d /\ new.todo = <<>>
  BY <1>4, NamesAssumption
<1> HIDE DEF row, new
<1>6. row # Absent
  BY <1>3, NamesAssumption
<1>7. /\ deliveries' \in [DeliveryId -> Delivery \cup {Absent}]
      /\ deliveries'[d] = row
      /\ \A c \in DeliveryId : c # d => deliveries'[c] = deliveries[c]
  BY <1>1, <1>3 DEF Inv, TypeOK
<1>8. \A x, s : RowsOf(deliveries', x, s) = RowsOf(deliveries, x, s)
  <2>1. \A c \in DeliveryId :
          /\ deliveries'[c] # Absent <=> deliveries[c] # Absent
          /\ deliveries[c] # Absent =>
               /\ deliveries'[c].event = deliveries[c].event
               /\ deliveries'[c].sub = deliveries[c].sub
    BY <1>1, <1>3, <1>6, <1>7
  <2>2. QED
    BY <2>1, RowsAlike
<1>9. TypeOK'
  BY <1>1, <1>4, <1>7 DEF Inv, TypeOK
<1>10. EnoughIdsLeft'
  <2>1. minted.events + Len(<<>>) <= MaxEvents
    BY MintedFields DEF Inv
  <2>2. QED
    BY <1>1, <1>5, <2>1 DEF Inv, EnoughIdsLeft, Left
<1>11. Minted(subs, events, deliveries)'
  BY <1>1, <1>7 DEF Inv, Minted
<1>12. HolderInv'
  BY <1>1, <1>5, <1>6, <1>7 DEF HolderInv
<1>13. QueueInv'
  <2>1. Linked(subs, events, deliveries)'
    BY <1>1, <1>3, <1>7 DEF Inv, QueueInv, Linked
  <2>2. ASSUME NEW x \in EventId, NEW s \in SubId, events'[x] # Absent
        PROVE  Settled(subs, events, deliveries, x, s)'
    <3>1. Settled(subs, events, deliveries, x, s)
      BY <1>1, <2>2 DEF Inv, QueueInv, Waiting
    <3>2. Due(subs', events', x, s) <=> Due(subs, events, x, s)
      BY <1>1 DEF Due
    <3>3. Settled(subs', events', deliveries', x, s)
      BY <1>8, <3>1, <3>2, SettledAlike
    <3>4. QED
      BY <3>3
  <2>3. QED
    BY <2>1, <2>2 DEF QueueInv
<1>14. HonestInv'
  <2>1. ASSUME NEW c \in DeliveryId, deliveries'[c] # Absent
        PROVE  /\ deliveries'[c].delivered => c \in acked'
               /\ ~Sending(c)' => HonestRow(deliveries', c)
    <3>1. CASE c = d
      BY <1>1, <1>3, <1>5, <1>7, <3>1 DEF Inv, HonestInv, Sending
    <3>2. CASE c # d
      <4>1. deliveries'[c] = deliveries[c] /\ ~Sending(c)
        BY <1>1, <1>7, <3>2 DEF Sending
      <4>2. QED
        BY <1>1, <2>1, <4>1 DEF Inv, HonestInv, HonestRow
    <3>3. QED
      BY <3>1, <3>2
  <2>2. QED
    BY <2>1 DEF HonestInv
<1>15. DiskInv'
  BY <1>1, MintedFields, DiskLeftAlone DEF Inv
<1>16. QED
  BY <1>9, <1>10, <1>11, <1>12, <1>13, <1>14, <1>15 DEF Inv

\* A restart finds what the last snapshot says, which was in order.
LEMMA CrashKeepsInv ==
  ASSUME Inv, CrashAndRestart
  PROVE  Inv'
<1>1. /\ crashes < MaxCrashes /\ crashes' = crashes + 1 /\ holder' = Absent
      /\ subs' = disk.subs /\ events' = disk.events /\ deliveries' = disk.deliveries
      /\ UNCHANGED <<disk, minted, acked>>
  BY DEF CrashAndRestart
<1>2. TypeOK'
  BY <1>1, ConstantsAssumption DEF Inv, TypeOK
<1>3. EnoughIdsLeft'
  <2>1. Cardinality(Left) \in Nat
    BY HolderFields, SubsCount DEF Inv, Left
  <2>2. Cardinality(SubId) \in Nat /\ minted.events * Cardinality(SubId) \in Nat
    BY SubsCount, MintedFields DEF Inv
  <2>3. minted.deliveries <= minted.events * Cardinality(SubId)
    BY <2>1, <2>2, MintedFields DEF Inv, EnoughIdsLeft
  <2>4. Left' = {} /\ Cardinality({}) = 0
    BY <1>1, FS_EmptySet DEF Left
  <2>5. QED
    BY <1>1, <2>3, <2>4, MintedFields DEF Inv, EnoughIdsLeft
<1>4. Minted(subs, events, deliveries)' /\ HolderInv'
  BY <1>1 DEF Inv, DiskInv, Minted, HolderInv
<1>5. QueueInv'
  <2>1. Linked(subs, events, deliveries)'
    BY <1>1 DEF Inv, DiskInv, Linked
  <2>2. ASSUME NEW x \in EventId, NEW s \in SubId, events'[x] # Absent
        PROVE  Settled(subs, events, deliveries, x, s)'
    BY <1>1, <2>2 DEF Inv, DiskInv
  <2>3. QED
    BY <2>1, <2>2 DEF QueueInv
<1>6. HonestInv'
  BY <1>1 DEF Inv, DiskInv, HonestInv, HonestRow
<1>7. DiskInv'
  BY <1>1, MintedFields, DiskLeftAlone DEF Inv
<1>8. QED
  BY <1>2, <1>3, <1>4, <1>5, <1>6, <1>7 DEF Inv

\* A store that starts has no rows.
LEMMA InvInit == Init => Inv
<1> SUFFICES ASSUME Init PROVE Inv
  OBVIOUS
<1>1. /\ \A s \in SubId : subs[s] = Absent
      /\ \A x \in EventId : events[x] = Absent
      /\ \A d \in DeliveryId : deliveries[d] = Absent
      /\ disk.subs = subs /\ disk.events = events /\ disk.deliveries = deliveries
      /\ minted.subs = {} /\ minted.events = 0 /\ minted.deliveries = 0
      /\ holder = Absent
  BY DEF Init
<1>2. TypeOK
  BY <1>1, ConstantsAssumption DEF Init, TypeOK
<1>3. EnoughIdsLeft
  <2>1. Cardinality(SubId) \in Nat /\ Cardinality({}) = 0 /\ Left = {}
    BY <1>1, SubsCount, FS_EmptySet DEF Left
  <2>2. QED
    BY <1>1, <2>1 DEF EnoughIdsLeft
<1>4. Minted(subs, events, deliveries) /\ HolderInv /\ QueueInv /\ HonestInv
  BY <1>1 DEF Minted, HolderInv, QueueInv, Linked, HonestInv
<1>5. DiskInv
  BY <1>1 DEF DiskInv, Minted, Linked
<1>6. QED
  BY <1>2, <1>3, <1>4, <1>5 DEF Inv

\* Every step does.
LEMMA InvStep ==
  ASSUME Inv, [Next]_vars
  PROVE  Inv'
<1>1. CASE \E b \in Business, s \in SubId, types \in Wanted :
             CreateWebhookSubscription(b, s, types)
  BY <1>1, CreateSubscriptionKeepsInv
<1>2. CASE \E b \in Business, batch \in Batch : BeginPaymentOperation(b, batch)
  BY <1>2, BeginKeepsInv
<1>3. CASE \E b \in Business, d \in DeliveryId : ReplayWebhookDelivery(b, d)
  BY <1>3, ReplayKeepsInv
<1>4. CASE RecordEvent
  BY <1>4, RecordEventKeepsInv
<1>5. CASE \E s \in SubId : EnqueueDelivery(s)
  BY <1>5, EnqueueKeepsInv
<1>6. CASE \E ok \in BOOLEAN : ReceiverAnswers(ok)
  BY <1>6, AttemptKeepsInv DEF ReceiverAnswers
<1>7. CASE ClientTimesOut
  <2>1. acked' = IF FALSE THEN acked \cup {holder.sending} ELSE acked
    BY <1>7 DEF ClientTimesOut
  <2>2. QED
    BY <1>7, <2>1, AttemptKeepsInv DEF ClientTimesOut
<1>8. CASE FinishOperation
  BY <1>8, FinishKeepsInv
<1>9. CASE CrashAndRestart
  BY <1>9, CrashKeepsInv
<1>10. CASE UNCHANGED vars
  BY <1>10
     DEF vars, Inv, TypeOK, EnoughIdsLeft, Left, Minted, HolderInv, QueueInv, HonestInv,
         DiskInv, Linked, Settled, Due, RowsOf, Waiting, Sending, HonestRow
<1>11. QED
  BY <1>1, <1>2, <1>3, <1>4, <1>5, <1>6, <1>7, <1>8, <1>9, <1>10 DEF Next, UnderLock

-------------------------------------------------------------------------------
(* Theorems *)

\* The invariant holds in every reachable state.
THEOREM WebhooksInductive == Spec => []Inv
<1>1. Inv /\ [Next]_vars => Inv'
  BY InvStep
<1>2. QED
  BY InvInit, <1>1, PTL DEF Spec

\* Every row has its shape, in memory and on disk, and ids do not run out.
THEOREM WebhooksTypeCorrect == Spec => []TypeOK
<1>1. Inv => TypeOK
  BY DEF Inv
<1>2. QED
  BY WebhooksInductive, <1>1, PTL

\* Whenever the lock is free, also after a crash, every recorded event has one
\* delivery to each subscription it is due to, and none to any other.
THEOREM QueueMatchesReceipts == Spec => []QueueAgreesWithReceipts
<1>1. Inv => QueueAgreesWithReceipts
  <2> SUFFICES ASSUME Inv, holder = Absent PROVE QueueAgreesWithReceipts
    BY DEF QueueAgreesWithReceipts
  <2>1. \A x \in EventId, s \in SubId : DeliveriesOf(x, s) = RowsOf(deliveries, x, s)
    BY DEF DeliveriesOf, RowsOf
  <2>2. \A x \in EventId, s \in SubId :
          events[x] # Absent => Settled(subs, events, deliveries, x, s)
    BY DEF Inv, QueueInv, Waiting
  <2>3. \A d \in DeliveryId : deliveries[d] # Absent => events[deliveries[d].event] # Absent
    BY DEF Inv, QueueInv, Linked
  <2>4. QED
    BY <2>1, <2>2, <2>3 DEF QueueAgreesWithReceipts, Settled, Due
<1>2. QED
  BY WebhooksInductive, <1>1, PTL

\* No row seen outside the lock claims more than the receiver has answered.
THEOREM RowsNeverOverstate == Spec => []RowsAreHonest
<1>1. Inv => RowsAreHonest
  BY DEF Inv, HonestInv, Sending, HonestRow, RowsAreHonest
<1>2. QED
  BY WebhooksInductive, <1>1, PTL

===============================================================================
