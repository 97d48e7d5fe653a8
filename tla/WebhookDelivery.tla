---------------------------- MODULE WebhookDelivery ----------------------------
(***************************************************************************)
(* Webhook subscriptions and deliveries of MemoryStore                     *)
(* (src/internal/core/store.go).  A payment operation holds s.mu while it  *)
(* records its receipt events; each event is POSTed at once, still under   *)
(* the lock, to every subscription that wants it, and only then is the     *)
(* snapshot written and the lock released.  The HTTP client gives up after *)
(* two seconds.  An operator can replay a delivery.  The process can die   *)
(* at any step and comes back with the last snapshot, in which a           *)
(* subscription has no secret (its field is tagged json:"-").              *)
(*                                                                         *)
(* What payment operations decide is in PaymentTruth; here they are the    *)
(* batches of events they record.  The payload and its HMAC are reduced to *)
(* the secret the signature was made with.  Nothing disables or removes a  *)
(* subscription, so the branch for a missing one is left out.              *)
(***************************************************************************)
EXTENDS Integers, Sequences, FiniteSets

CONSTANTS
  Business,
  SubId,        \* ids newID("whs") can return
  EventType,    \* receipt event types
  Wanted,       \* the sets of event types clients subscribe to
  Batch,        \* what one payment operation records: sequences of event types
  Secret,       \* signing secrets
  SecretOf,     \* the secret each subscription is created with
  CallsBack,    \* subscriptions whose receiver calls the API before it answers
  MaxEvents,    \* bound on the events recorded
  MaxAttempts,  \* bound on the attempts at one delivery
  MaxCrashes,   \* bound on the crashes
  NoSecret,     \* the empty secret
  Absent        \* stands for a missing map entry

ASSUME ConstantsAssumption ==
  /\ IsFiniteSet(SubId)
  /\ \A batch \in Batch : batch \in Seq(EventType) /\ batch # <<>>
  /\ SecretOf \in [SubId -> Secret] /\ NoSecret \notin Secret
  /\ CallsBack \subseteq SubId
  /\ Wanted \subseteq SUBSET EventType /\ {} \notin Wanted
  /\ MaxEvents \in Nat /\ MaxAttempts \in Nat /\ MaxCrashes \in Nat

VARIABLES
  subs,        \* s.webhookSubscriptions
  events,      \* s.receiptEvents
  deliveries,  \* s.webhookDeliveries
  holder,      \* the operation that holds s.mu, Absent when it is free
  disk,        \* the snapshot file
  crashes,     \* crashes so far
  minted,      \* ids newID has handed out; it never repeats one, even after a crash
  acked        \* deliveries whose receiver has answered 2xx (history)

vars == <<subs, events, deliveries, holder, disk, crashes, minted, acked>>

\* Ids of events and deliveries are only ever compared for equality, so newID is
\* taken to hand them out in order.
EventId == 1..MaxEvents
DeliveryId == 1..(MaxEvents * Cardinality(SubId))

Sub == [business : Business, types : Wanted, secret : Secret \cup {NoSecret}]

\* "present" holds the subscriptions there were when the event was recorded.
Event == [business : Business, type : EventType, present : SUBSET SubId]

\* nextAttempt: NextAttemptAt is set; delivered: DeliveredAt is set.
Delivery ==
  [sub : SubId, event : EventId, signedWith : Secret \cup {NoSecret},
   status : {"pending", "delivered", "failed"}, attempts : Nat,
   nextAttempt : BOOLEAN, delivered : BOOLEAN]

\* Event types still to record, the event being sent, the subscriptions it is
\* still to be sent to, and the delivery whose HTTP call is open.
Holder ==
  [business : Business, todo : Seq(EventType), event : EventId \cup {Absent},
   waiting : SUBSET SubId, sending : DeliveryId \cup {Absent}]

\* A missing entry is none of the records, and no id.
ASSUME NamesAssumption ==
  Absent \notin Sub \cup Event \cup Delivery \cup Holder \cup Nat

-------------------------------------------------------------------------------
(* Persistence *)

\* What json.MarshalIndent writes: everything but the secrets.
Snapshot ==
  [subs |-> [s \in SubId |->
               IF subs[s] = Absent THEN Absent ELSE [subs[s] EXCEPT !.secret = NoSecret]],
   events |-> events,
   deliveries |-> deliveries]

\* The file is replaced as a whole by a rename, or an error is swallowed.
Persist == disk' = Snapshot' \/ disk' = disk

-------------------------------------------------------------------------------
(* Operations *)

Init ==
  /\ subs = [s \in SubId |-> Absent]
  /\ events = [x \in EventId |-> Absent]
  /\ deliveries = [d \in DeliveryId |-> Absent]
  /\ holder = Absent
  /\ disk = [subs |-> subs, events |-> events, deliveries |-> deliveries]
  /\ crashes = 0
  /\ minted = [subs |-> {}, events |-> 0, deliveries |-> 0]
  /\ acked = {}

CreateWebhookSubscription(b, s, types) ==
  /\ holder = Absent
  /\ s \notin minted.subs
  /\ subs' = [subs EXCEPT ![s] = [business |-> b, types |-> types, secret |-> SecretOf[s]]]
  /\ minted' = [minted EXCEPT !.subs = @ \cup {s}]
  /\ UNCHANGED <<events, deliveries, holder, crashes, acked>>
  /\ Persist

\* Bound on the events recorded: ids are left for the whole batch.
EnoughIds(batch) == minted.events + Len(batch) <= MaxEvents

BeginPaymentOperation(b, batch) ==
  /\ holder = Absent
  /\ EnoughIds(batch)
  /\ holder' = [business |-> b, todo |-> batch, event |-> Absent, waiting |-> {},
                sending |-> Absent]
  /\ UNCHANGED <<subs, events, deliveries, disk, crashes, minted, acked>>

\* Bug: another business's subscription is told too.
SubscribersOfAll(b, type) == {s \in SubId : subs[s] # Absent /\ type \in subs[s].types}

Subscribers(b, type) ==
  {s \in SubId : /\ subs[s] # Absent
                 /\ subs[s].business = b
                 /\ type \in subs[s].types}

Idle == holder.waiting = {} /\ holder.sending = Absent

\* createReceiptEventLocked: the next event, and whom it is sent to.
RecordEvent ==
  LET x == minted.events + 1 IN
  /\ holder # Absent /\ Idle /\ holder.todo # <<>>
  /\ events' = [events EXCEPT ![x] =
       [business |-> holder.business, type |-> Head(holder.todo),
        present |-> {s \in SubId : subs[s] # Absent}]]
  /\ holder' = [holder EXCEPT !.todo = Tail(@), !.event = x,
                              !.waiting = Subscribers(holder.business, Head(holder.todo))]
  /\ minted' = [minted EXCEPT !.events = x]
  /\ UNCHANGED <<subs, deliveries, disk, crashes, acked>>

\* enqueueWebhookDeliveriesLocked, one subscription: the delivery is stored as
\* pending with its signature, and the HTTP call is opened.
EnqueueDelivery(s) ==
  LET d == minted.deliveries + 1 IN
  /\ holder # Absent
  /\ holder.sending = Absent
  /\ s \in holder.waiting
  /\ deliveries' = [deliveries EXCEPT ![d] =
       [sub |-> s, event |-> holder.event, signedWith |-> subs[s].secret,
        status |-> "pending", attempts |-> 0, nextAttempt |-> FALSE, delivered |-> FALSE]]
  /\ holder' = [holder EXCEPT !.waiting = @ \ {s}, !.sending = d]
  /\ minted' = [minted EXCEPT !.deliveries = d]
  /\ UNCHANGED <<subs, events, disk, crashes, acked>>

\* Bug: a failed attempt is recorded, but not when to try again.
ForgetNextAttempt(d, ok) ==
  [deliveries EXCEPT ![d].status = IF ok THEN "delivered" ELSE "failed",
                     ![d].attempts = @ + 1,
                     ![d].nextAttempt = FALSE,
                     ![d].delivered = @ \/ ok]

\* Bug: a failed attempt gets a status the API does not have.
RetryingStatus(d, ok) ==
  [deliveries EXCEPT ![d].status = IF ok THEN "delivered" ELSE "retrying",
                     ![d].attempts = @ + 1,
                     ![d].nextAttempt = ~ok,
                     ![d].delivered = @ \/ ok]

\* The row after an attempt that was answered 2xx (ok) or was not.
Attempted(d, ok) ==
  [deliveries EXCEPT ![d].status = IF ok THEN "delivered" ELSE "failed",
                     ![d].attempts = @ + 1,
                     ![d].nextAttempt = ~ok,
                     ![d].delivered = @ \/ ok]

\* The receiver answers, 2xx or not, or refuses the connection.  One that calls
\* the API first waits for s.mu, which this very call holds.
ReceiverAnswers(ok) ==
  /\ holder # Absent
  /\ holder.sending # Absent
  /\ deliveries[holder.sending].sub \notin CallsBack
  /\ deliveries' = Attempted(holder.sending, ok)
  /\ holder' = [holder EXCEPT !.sending = Absent]
  /\ acked' = IF ok THEN acked \cup {holder.sending} ELSE acked
  /\ UNCHANGED <<subs, events, disk, crashes, minted>>

\* Bug: the HTTP client has no timeout; only answers end an attempt.
NeverTimesOut == FALSE

\* http.Client{Timeout: 2 * time.Second}.
ClientTimesOut ==
  /\ holder # Absent
  /\ holder.sending # Absent
  /\ deliveries' = Attempted(holder.sending, FALSE)
  /\ holder' = [holder EXCEPT !.sending = Absent]
  /\ UNCHANGED <<subs, events, disk, crashes, minted, acked>>

FinishOperation ==
  /\ holder # Absent /\ Idle /\ holder.todo = <<>>
  /\ holder' = Absent
  /\ UNCHANGED <<subs, events, deliveries, crashes, minted, acked>>
  /\ Persist

\* Replay of a delivery of the caller's business: the row is reset to pending
\* and attempted again with the signature it was created with.
ReplayWebhookDelivery(b, d) ==
  /\ holder = Absent
  /\ deliveries[d] # Absent
  /\ events[deliveries[d].event].business = b
  /\ deliveries[d].attempts < MaxAttempts
  /\ deliveries' = [deliveries EXCEPT ![d].status = "pending", ![d].nextAttempt = FALSE]
  /\ holder' = [business |-> b, todo |-> <<>>, event |-> Absent, waiting |-> {},
                sending |-> d]
  /\ UNCHANGED <<subs, events, disk, crashes, minted, acked>>

\* The process dies and NewPersistentStore loads the file.
CrashAndRestart ==
  /\ crashes < MaxCrashes
  /\ crashes' = crashes + 1
  /\ subs' = disk.subs
  /\ events' = disk.events
  /\ deliveries' = disk.deliveries
  /\ holder' = Absent
  /\ UNCHANGED <<disk, minted, acked>>

\* Steps of the operation that holds the lock.
UnderLock ==
  \/ RecordEvent
  \/ \E s \in SubId : EnqueueDelivery(s)
  \/ \E ok \in BOOLEAN : ReceiverAnswers(ok)
  \/ ClientTimesOut
  \/ FinishOperation

Next ==
  \/ \E b \in Business, s \in SubId, types \in Wanted :
       CreateWebhookSubscription(b, s, types)
  \/ \E b \in Business, batch \in Batch : BeginPaymentOperation(b, batch)
  \/ \E b \in Business, d \in DeliveryId : ReplayWebhookDelivery(b, d)
  \/ UnderLock
  \/ CrashAndRestart

\* The goroutine that holds the lock keeps running, and its HTTP calls end.
Fairness == WF_vars(UnderLock)

Spec == Init /\ [][Next]_vars /\ Fairness

-------------------------------------------------------------------------------
(* Properties *)

\* Every table holds rows of its shape, in memory and on disk.
TypeOK ==
  /\ subs \in [SubId -> Sub \cup {Absent}]
  /\ events \in [EventId -> Event \cup {Absent}]
  /\ deliveries \in [DeliveryId -> Delivery \cup {Absent}]
  /\ holder \in Holder \cup {Absent}
  /\ disk.subs \in [SubId -> Sub \cup {Absent}]
  /\ disk.events \in [EventId -> Event \cup {Absent}]
  /\ disk.deliveries \in [DeliveryId -> Delivery \cup {Absent}]
  /\ crashes \in 0..MaxCrashes
  /\ minted \in [subs : SUBSET SubId, events : 0..MaxEvents, deliveries : {0} \cup DeliveryId]
  /\ acked \subseteq DeliveryId

DeliveriesOf(x, s) ==
  {d \in DeliveryId : /\ deliveries[d] # Absent
                      /\ deliveries[d].event = x
                      /\ deliveries[d].sub = s}

\* Whenever the lock is free, and so also right after a restart, each recorded
\* event has exactly one delivery to each subscription that was there, is of the
\* same business and wants its type - and none to any other.
QueueAgreesWithReceipts ==
  holder = Absent =>
    /\ \A x \in EventId, s \in SubId :
         events[x] # Absent =>
           IF /\ s \in events[x].present
              /\ subs[s].business = events[x].business
              /\ events[x].type \in subs[s].types
             THEN \E d \in DeliveryId : DeliveriesOf(x, s) = {d}
             ELSE DeliveriesOf(x, s) = {}
    /\ \A d \in DeliveryId : deliveries[d] # Absent => events[deliveries[d].event] # Absent

\* A row seen outside the lock never overstates: none is pending, "delivered"
\* and DeliveredAt mean that the receiver did answer 2xx, and a failed row, only
\* a failed row, carries a time to try again.
RowsAreHonest ==
  holder = Absent =>
    \A d \in DeliveryId :
      deliveries[d] # Absent =>
        LET row == deliveries[d] IN
        /\ row.status # "pending" /\ row.attempts > 0
        /\ row.status = "delivered" => row.delivered
        /\ row.delivered => d \in acked
        /\ row.status = "failed" <=> row.nextAttempt

\* No receiver can hold the store: even one that calls the API from inside its
\* webhook handler, and so waits for the lock its own delivery holds, lets the
\* lock go when the client times out.
LockIsReleased == (holder # Absent) ~> (holder = Absent)

-------------------------------------------------------------------------------
(* What documents say and the code does not do *)

\* docs/v1-milestones.md: "Businesses receive signed webhooks when payment
\* status changes" - a receiver can check a signature with the secret it was
\* given.
SignaturesVerify ==
  \A d \in DeliveryId :
    deliveries[d] # Absent => deliveries[d].signedWith = SecretOf[deliveries[d].sub]
===============================================================================
