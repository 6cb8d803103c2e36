------------------------------ MODULE EventBus ------------------------------
(***************************************************************************)
(* fie_events: the Redis Streams event bus with idempotent handling.       *)
(*                                                                         *)
(* One product stream, one consumer group and the consumers of that group. *)
(* Every `await` of RedisStreamEventBus.run is an action of its own, so    *)
(* consumers interleave between any two round trips to Redis.  A message   *)
(* id is the position of the entry in the stream; a handler run is the     *)
(* time between a won idempotency claim and the handler's outcome.         *)
(***************************************************************************)
EXTENDS Naturals, Sequences, FiniteSets

CONSTANTS
  Consumers,            \* consumer names registered in the group
  Events,               \* event identities (DomainEvent.event_id)
  Malformed,            \* events whose wire form from_wire refuses
  Unaccepted,           \* events the subscription's prefixes do not accept
  BatchSize,            \* EventSettings.batch_size
  MaxDeliveryAttempts,  \* EventSettings.max_delivery_attempts
  MaxStreamLength,      \* EventSettings.max_stream_length
  PatientReclaim,       \* TRUE: reclaim_idle_ms outlasts a whole batch (not so by default)
  MaxPublished,         \* bound: entries ever appended to the stream
  MaxStops,             \* bound: consumer stops
  MaxStoreErrors,       \* bound: failed calls to the idempotency store
  MaxExpiries           \* bound: times one event's claim may expire

ASSUME ConsumersAssumption == IsFiniteSet(Consumers) /\ Consumers # {}
ASSUME EventsAssumption ==
  Malformed \subseteq Events /\ Unaccepted \subseteq Events
ASSUME SettingsAssumption ==
  /\ BatchSize \in Nat \ {0}
  /\ MaxDeliveryAttempts \in Nat \ {0}
  /\ MaxStreamLength \in Nat \ {0}
  /\ PatientReclaim \in BOOLEAN
ASSUME BoundsAssumption ==
  /\ MaxPublished \in Nat /\ MaxExpiries \in Nat
  /\ MaxStops \in Nat /\ MaxStoreErrors \in Nat

VARIABLES
  stream,      \* every event ever appended, in message id order
  trimmed,     \* entries up to this id were removed by MAXLEN
  delivered,   \* the group's last-delivered id
  pending,     \* the group's pending entries list
  idle,        \* pending entries idle for reclaim_idle_ms
  deliveries,  \* times_delivered of each entry
  dlq,         \* what the dead-letter stream holds of each message
  claims,      \* events whose idempotency key exists
  pc,          \* where each consumer's run loop is
  phase,       \* the loop a dispatch returns to: "reclaim" or "drain"
  cur,         \* the message a consumer is dispatching
  todo,        \* rest of the XPENDING reply a consumer is walking
  seen,        \* times_delivered as that reply reported it
  inbox,       \* rest of the XREADGROUP reply a consumer is walking
  handled,     \* history: successful handler runs of each event
  orphaned,    \* history: events whose claim outlived an unfinished run
  overtaken,   \* history: events whose last message went while a run went on
  expiries,    \* history: expirations of each event's claim
  stops,       \* history: consumer stops so far
  storeErrors  \* history: failed store calls so far

brokerVars   == <<stream, trimmed, delivered, pending, idle, deliveries, dlq>>
consumerVars == <<pc, phase, cur, todo, seen, inbox>>
historyVars  == <<handled, orphaned, overtaken, expiries, stops, storeErrors>>
vars == <<brokerVars, claims, consumerVars, historyVars>>

MsgIds == 1..MaxPublished

(***************************************************************************)
(* Helpers                                                                 *)
(***************************************************************************)

\* A mistake for Lowest: the pending list is not consulted.
MutLowest(S, k) == {m \in MsgIds : m <= k}

\* The k smallest ids of a set: what a COUNT argument makes Redis return.
Lowest(S, k) == {m \in S : Cardinality({n \in S : n < m}) < k}

\* m is the next entry of a reply, which lists entries in id order.
IsFirst(m, S) == m \in S /\ \A n \in S : m <= n

\* Where _dispatch goes after decoding the message and consulting accepts().
FirstStep(e) ==
  IF e \in Malformed THEN "deadLetterFull"
  ELSE IF e \in Unaccepted THEN "ack" ELSE "claim"

Dispatching ==
  {"claim", "handle", "release", "ack", "lookUp", "deadLetterFull", "deadLetterBlank"}
Locations == Dispatching \cup {"poll", "reclaim", "read", "drain", "down"}

EventAt(c) == stream[cur[c]]

\* c is between winning the claim and releasing it or succeeding.
Running(c) == pc[c] \in {"handle", "release"}

\* Entries whose fields a consumer holds in memory.
Held(c) == inbox[c] \cup (IF pc[c] \in Dispatching THEN {cur[c]} ELSE {})

\* Messages of e the group can still deliver.
Outstanding(e) ==
  {m \in 1..Len(stream) : stream[m] = e /\ (m \in pending \/ m > delivered)}

DeadLettered(e) == \E m \in 1..Len(stream) : stream[m] = e /\ dlq[m] # {}

AboutToAck(m) == \E c \in Consumers : pc[c] = "ack" /\ cur[c] = m

GoTo(c, location) == pc' = [pc EXCEPT ![c] = location]
Resume(c) == GoTo(c, phase[c])

(***************************************************************************)
(* Plausible mistakes.  No behaviour of the specification takes these      *)
(* steps: each stands in for the definition it names when the sensitivity  *)
(* of a property is measured.                                              *)
(***************************************************************************)

\* WithinBudget: the delivery budget is never consulted.
MutWithinBudget(c, m) == TRUE

\* SkipDuplicate: the outcome of the claim is ignored.
MutSkipDuplicate(c) ==
  /\ pc[c] = "claim" /\ EventAt(c) \in claims
  /\ GoTo(c, "handle")
  /\ UNCHANGED <<brokerVars, claims, phase, cur, todo, seen, inbox, historyVars>>

\* HandlerSucceeds: the claim is released in a `finally`.
MutHandlerSucceeds(c) ==
  /\ pc[c] = "handle"
  /\ handled' = [handled EXCEPT ![EventAt(c)] = @ + 1]
  /\ GoTo(c, "release")
  /\ UNCHANGED <<brokerVars, claims, phase, cur, todo, seen, inbox, orphaned, overtaken,
                 expiries, stops, storeErrors>>

\* HandlerFails: the exception is swallowed and the message acknowledged.
MutHandlerFails(c) ==
  /\ pc[c] = "handle"
  /\ GoTo(c, "ack")
  /\ UNCHANGED <<brokerVars, claims, phase, cur, todo, seen, inbox, historyVars>>

\* Release: the wrapper does not re-raise.
MutRelease(c) ==
  /\ pc[c] = "release"
  /\ claims' = claims \ {EventAt(c)}
  /\ GoTo(c, "ack")
  /\ UNCHANGED <<brokerVars, phase, cur, todo, seen, inbox, historyVars>>

\* DeadLetter: the parked message is not acknowledged.
MutDeadLetter(c) ==
  /\ pc[c] \in {"deadLetterFull", "deadLetterBlank"}
  /\ dlq' = [dlq EXCEPT ![cur[c]] = @ \cup {"full"}]
  /\ Resume(c)
  /\ UNCHANGED <<stream, trimmed, delivered, pending, idle, deliveries, claims, phase, cur,
                 todo, seen, inbox, historyVars>>

(***************************************************************************)
(* Initial state: the group exists from id 0 and nothing is published.     *)
(***************************************************************************)
Init ==
  /\ stream = <<>> /\ trimmed = 0 /\ delivered = 0
  /\ pending = {} /\ idle = {}
  /\ deliveries = [m \in MsgIds |-> 0]
  /\ dlq = [m \in MsgIds |-> {}]
  /\ claims = {}
  /\ pc = [c \in Consumers |-> "poll"]
  /\ phase = [c \in Consumers |-> "reclaim"]
  /\ cur = [c \in Consumers |-> 0]
  /\ todo = [c \in Consumers |-> {}]
  /\ seen = [c \in Consumers |-> [m \in MsgIds |-> 0]]
  /\ inbox = [c \in Consumers |-> {}]
  /\ handled = [e \in Events |-> 0]
  /\ orphaned = {} /\ overtaken = {}
  /\ expiries = [e \in Events |-> 0]
  /\ stops = 0 /\ storeErrors = 0

(***************************************************************************)
(* Publishing.  XADD with an approximate MAXLEN may leave old entries in   *)
(* place or remove them, never below MaxStreamLength.                      *)
(***************************************************************************)
Publish(e) ==
  /\ Len(stream) < MaxPublished
  /\ stream' = Append(stream, e)
  /\ \E t \in trimmed..(Len(stream) + 1) :
        /\ t = trimmed \/ t + MaxStreamLength <= Len(stream) + 1
        /\ trimmed' = t
  /\ UNCHANGED <<delivered, pending, idle, deliveries, dlq, claims, consumerVars, historyVars>>

(***************************************************************************)
(* The reclaim half of the loop: XPENDING, then XCLAIM or dead-letter for  *)
(* each entry of the reply.  The reply is stale from the moment it is      *)
(* received.                                                               *)
(***************************************************************************)
PollPending(c) ==
  /\ pc[c] = "poll"
  /\ LET batch == Lowest(pending \cap idle, BatchSize) IN
       /\ todo' = [todo EXCEPT ![c] = batch]
       /\ seen' = [seen EXCEPT ![c] = [m \in MsgIds |-> IF m \in batch THEN deliveries[m] ELSE 0]]
  /\ GoTo(c, "reclaim")
  /\ phase' = [phase EXCEPT ![c] = "reclaim"]
  /\ UNCHANGED <<brokerVars, claims, cur, inbox, historyVars>>

\* The first entry of the reply leaves it.
NextEntry(c, m) ==
  /\ pc[c] = "reclaim"
  /\ IsFirst(m, todo[c])
  /\ todo' = [todo EXCEPT ![c] = @ \ {m}]
  /\ seen' = [seen EXCEPT ![c][m] = 0]

WithinBudget(c, m) == seen[c][m] <= MaxDeliveryAttempts

\* Delivery budget exceeded: _dead_letter_by_id, without claiming the entry.
GiveUp(c) ==
  \E m \in MsgIds :
    /\ NextEntry(c, m)
    /\ ~WithinBudget(c, m)
    /\ cur' = [cur EXCEPT ![c] = m]
    /\ GoTo(c, "lookUp")
    /\ UNCHANGED <<brokerVars, claims, phase, inbox, historyVars>>

\* XCLAIM succeeds: one more delivery, idle time reset, message dispatched.
Reclaim(c) ==
  \E m \in MsgIds :
    /\ NextEntry(c, m)
    /\ WithinBudget(c, m)
    /\ m \in pending \cap idle
    /\ m > trimmed
    /\ deliveries' = [deliveries EXCEPT ![m] = @ + 1]
    /\ idle' = idle \ {m}
    /\ cur' = [cur EXCEPT ![c] = m]
    /\ GoTo(c, FirstStep(stream[m]))
    /\ UNCHANGED <<stream, trimmed, delivered, pending, dlq, claims, phase, inbox, historyVars>>

\* XCLAIM of an entry MAXLEN removed: Redis drops it from the pending list.
ReclaimTrimmed(c) ==
  \E m \in MsgIds :
    /\ NextEntry(c, m)
    /\ WithinBudget(c, m)
    /\ m \in pending \cap idle
    /\ m <= trimmed
    /\ pending' = pending \ {m}
    /\ idle' = idle \ {m}
    /\ UNCHANGED <<stream, trimmed, delivered, deliveries, dlq, claims, pc, phase, cur,
                   inbox, historyVars>>

\* XCLAIM returns nothing: acknowledged or claimed by another consumer since.
ReclaimMissed(c) ==
  \E m \in MsgIds :
    /\ NextEntry(c, m)
    /\ WithinBudget(c, m)
    /\ m \notin pending \cap idle
    /\ UNCHANGED <<brokerVars, claims, pc, phase, cur, inbox, historyVars>>

ReclaimDone(c) ==
  /\ pc[c] = "reclaim"
  /\ todo[c] = {}
  /\ GoTo(c, "read")
  /\ UNCHANGED <<brokerVars, claims, phase, cur, todo, seen, inbox, historyVars>>

(***************************************************************************)
(* The consuming half: XREADGROUP delivers a batch at once, the messages   *)
(* of which are then dispatched one after another.                         *)
(***************************************************************************)
ReadNew(c) ==
  /\ pc[c] = "read"
  /\ LET first == (IF delivered < trimmed THEN trimmed ELSE delivered) + 1
         last  == IF first + BatchSize - 1 < Len(stream) THEN first + BatchSize - 1
                                                         ELSE Len(stream)
         batch == first..last
     IN
       /\ inbox' = [inbox EXCEPT ![c] = batch]
       /\ pending' = pending \cup batch
       /\ deliveries' = [m \in MsgIds |-> IF m \in batch THEN 1 ELSE deliveries[m]]
       /\ delivered' = IF first <= last THEN last ELSE delivered
  /\ GoTo(c, "drain")
  /\ phase' = [phase EXCEPT ![c] = "drain"]
  /\ UNCHANGED <<stream, trimmed, idle, dlq, claims, cur, todo, seen, historyVars>>

DispatchNew(c) ==
  /\ pc[c] = "drain"
  /\ \E m \in MsgIds :
       /\ IsFirst(m, inbox[c])
       /\ cur' = [cur EXCEPT ![c] = m]
       /\ inbox' = [inbox EXCEPT ![c] = @ \ {m}]
       /\ GoTo(c, FirstStep(stream[m]))
  /\ UNCHANGED <<brokerVars, claims, phase, todo, seen, historyVars>>

DrainDone(c) ==
  /\ pc[c] = "drain"
  /\ inbox[c] = {}
  /\ GoTo(c, "poll")
  /\ UNCHANGED <<brokerVars, claims, phase, cur, todo, seen, inbox, historyVars>>

(***************************************************************************)
(* IdempotentHandler: claim, run, release on failure.                      *)
(***************************************************************************)
TakeClaim(c) ==
  /\ pc[c] = "claim"
  /\ EventAt(c) \notin claims
  /\ claims' = claims \cup {EventAt(c)}
  /\ GoTo(c, "handle")
  /\ UNCHANGED <<brokerVars, phase, cur, todo, seen, inbox, historyVars>>

\* c holds the last copy of an event that another consumer is still running.
Overtakes(c) ==
  /\ \E d \in Consumers : Running(d) /\ EventAt(d) = EventAt(c)
  /\ ~DeadLettered(EventAt(c))
  /\ \A m \in Outstanding(EventAt(c)) \ {cur[c]} : AboutToAck(m)

\* The key exists: the handler returns normally and the message is acknowledged.
SkipDuplicate(c) ==
  /\ pc[c] = "claim"
  /\ EventAt(c) \in claims
  /\ GoTo(c, "ack")
  /\ overtaken' = IF Overtakes(c) THEN overtaken \cup {EventAt(c)} ELSE overtaken
  /\ UNCHANGED <<brokerVars, claims, phase, cur, todo, seen, inbox, handled, orphaned,
                 expiries, stops, storeErrors>>

HandlerSucceeds(c) ==
  /\ pc[c] = "handle"
  /\ handled' = [handled EXCEPT ![EventAt(c)] = @ + 1]
  /\ GoTo(c, "ack")
  /\ UNCHANGED <<brokerVars, claims, phase, cur, todo, seen, inbox, orphaned, overtaken,
                 expiries, stops, storeErrors>>

\* The handler raises, or with_timeout cancels it.
HandlerFails(c) ==
  /\ pc[c] = "handle"
  /\ GoTo(c, "release")
  /\ UNCHANGED <<brokerVars, claims, phase, cur, todo, seen, inbox, historyVars>>

\* The key is deleted whoever holds it; the message stays unacknowledged.
Release(c) ==
  /\ pc[c] = "release"
  /\ claims' = claims \ {EventAt(c)}
  /\ Resume(c)
  /\ UNCHANGED <<brokerVars, phase, cur, todo, seen, inbox, historyVars>>

Ack(c) ==
  /\ pc[c] = "ack"
  /\ pending' = pending \ {cur[c]}
  /\ idle' = idle \ {cur[c]}
  /\ Resume(c)
  /\ UNCHANGED <<stream, trimmed, delivered, deliveries, dlq, claims, phase, cur, todo, seen,
                 inbox, historyVars>>

\* By id, the payload is re-read from the stream, where MAXLEN may have
\* removed it; a message that failed to decode is copied from memory.
LookUp(c) ==
  /\ pc[c] = "lookUp"
  /\ GoTo(c, IF cur[c] > trimmed THEN "deadLetterFull" ELSE "deadLetterBlank")
  /\ UNCHANGED <<brokerVars, claims, phase, cur, todo, seen, inbox, historyVars>>

DeadLetter(c) ==
  /\ pc[c] \in {"deadLetterFull", "deadLetterBlank"}
  /\ LET payload == IF pc[c] = "deadLetterFull" THEN "full" ELSE "blank"
     IN dlq' = [dlq EXCEPT ![cur[c]] = @ \cup {payload}]
  /\ GoTo(c, "ack")
  /\ UNCHANGED <<stream, trimmed, delivered, pending, idle, deliveries, claims, phase, cur,
                 todo, seen, inbox, historyVars>>

(***************************************************************************)
(* Faults.  A store call inside the handler wrapper that fails is caught   *)
(* by _dispatch and leaves the message unacknowledged; SET NX may have     *)
(* taken effect although its reply was lost.                               *)
(***************************************************************************)
StoreError == storeErrors < MaxStoreErrors /\ storeErrors' = storeErrors + 1

ClaimFails(c) ==
  /\ pc[c] = "claim"
  /\ StoreError
  /\ \/ UNCHANGED <<claims, orphaned>>
     \/ /\ EventAt(c) \notin claims
        /\ claims' = claims \cup {EventAt(c)}
        /\ orphaned' = orphaned \cup {EventAt(c)}
  /\ Resume(c)
  /\ UNCHANGED <<brokerVars, phase, cur, todo, seen, inbox, handled, overtaken, expiries, stops>>

ReleaseFails(c) ==
  /\ pc[c] = "release"
  /\ StoreError
  /\ orphaned' = orphaned \cup {EventAt(c)}
  /\ Resume(c)
  /\ UNCHANGED <<brokerVars, claims, phase, cur, todo, seen, inbox, handled, overtaken,
                 expiries, stops>>

\* The process dies, or a RedisError outside the handler escapes run().
Stop(c) ==
  /\ pc[c] # "down"
  /\ stops < MaxStops
  /\ stops' = stops + 1
  /\ orphaned' = IF Running(c) THEN orphaned \cup {EventAt(c)} ELSE orphaned
  /\ GoTo(c, "down")
  /\ todo' = [todo EXCEPT ![c] = {}]
  /\ seen' = [seen EXCEPT ![c] = [m \in MsgIds |-> 0]]
  /\ inbox' = [inbox EXCEPT ![c] = {}]
  /\ UNCHANGED <<brokerVars, claims, phase, cur, handled, overtaken, expiries, storeErrors>>

Restart(c) ==
  /\ pc[c] = "down"
  /\ GoTo(c, "poll")
  /\ UNCHANGED <<brokerVars, claims, phase, cur, todo, seen, inbox, historyVars>>

(***************************************************************************)
(* Time: reclaim_idle_ms passes for a pending entry, a claim's retention   *)
(* runs out.  Retention is longer than a handler may run (the defaults are *)
(* a day and a minute).                                                    *)
(***************************************************************************)
GoIdle(m) ==
  /\ m \in pending \ idle
  /\ PatientReclaim => \A c \in Consumers : m \notin Held(c)
  /\ idle' = idle \cup {m}
  /\ UNCHANGED <<stream, trimmed, delivered, pending, deliveries, dlq, claims, consumerVars,
                 historyVars>>

ExpireClaim(e) ==
  /\ e \in claims
  /\ expiries[e] < MaxExpiries
  /\ \A c \in Consumers : Running(c) => EventAt(c) # e
  /\ claims' = claims \ {e}
  /\ expiries' = [expiries EXCEPT ![e] = @ + 1]
  /\ UNCHANGED <<brokerVars, consumerVars, handled, orphaned, overtaken, stops, storeErrors>>

(***************************************************************************)
(* The specification                                                       *)
(***************************************************************************)
Step(c) ==
  \/ PollPending(c) \/ GiveUp(c) \/ Reclaim(c) \/ ReclaimTrimmed(c) \/ ReclaimMissed(c)
  \/ ReclaimDone(c) \/ ReadNew(c) \/ DispatchNew(c) \/ DrainDone(c)
  \/ TakeClaim(c) \/ SkipDuplicate(c) \/ HandlerSucceeds(c) \/ HandlerFails(c)
  \/ Release(c) \/ Ack(c) \/ LookUp(c) \/ DeadLetter(c)

Next ==
  \/ \E e \in Events : Publish(e) \/ ExpireClaim(e)
  \/ \E c \in Consumers :
       Step(c) \/ ClaimFails(c) \/ ReleaseFails(c) \/ Stop(c) \/ Restart(c)
  \/ \E m \in MsgIds : GoIdle(m)

Spec == Init /\ [][Next]_vars

\* A live consumer keeps executing run(), a stopped one is restarted by its
\* container's restart policy, and idle time passes.
Fairness ==
  /\ \A c \in Consumers : WF_vars(Step(c)) /\ WF_vars(Restart(c))
  /\ \A m \in MsgIds : WF_vars(GoIdle(m))

FairSpec == Spec /\ Fairness

(***************************************************************************)
(* Types                                                                   *)
(***************************************************************************)
BrokerTypes ==
  /\ stream \in Seq(Events) /\ Len(stream) <= MaxPublished
  /\ trimmed \in 0..Len(stream) /\ delivered \in 0..Len(stream)
  /\ pending \subseteq 1..delivered /\ idle \subseteq pending
  /\ deliveries \in [MsgIds -> Nat]
  /\ dlq \in [MsgIds -> SUBSET {"full", "blank"}]

ConsumerTypes ==
  /\ pc \in [Consumers -> Locations]
  /\ phase \in [Consumers -> {"reclaim", "drain"}]
  /\ cur \in [Consumers -> 0..delivered]
  /\ todo \in [Consumers -> SUBSET (1..delivered)]
  /\ seen \in [Consumers -> [MsgIds -> Nat]]
  /\ inbox \in [Consumers -> SUBSET (1..delivered)]
  /\ \A c \in Consumers : pc[c] \in Dispatching => cur[c] # 0

HistoryTypes ==
  /\ claims \subseteq Events /\ orphaned \subseteq Events /\ overtaken \subseteq Events
  /\ handled \in [Events -> Nat] /\ expiries \in [Events -> Nat]
  /\ stops \in Nat /\ storeErrors \in Nat

\* Every variable has its type, only delivered entries are pending, and a
\* consumer that dispatches a message holds one the group has delivered.
TypeOK == BrokerTypes /\ ConsumerTypes /\ HistoryTypes

(***************************************************************************)
(* Safety                                                                  *)
(***************************************************************************)

\* Two consumers never run the handler for one event at the same time, however
\* reclaim, redelivery, republication and failed releases interleave.
HandlerExclusive ==
  \A c, d \in Consumers :
    c # d /\ Running(c) /\ Running(d) => EventAt(c) # EventAt(d)

\* An event's handler succeeds at most once per lifetime of its claim: only
\* the expiry of the idempotency key can make it succeed again.
AtMostOnce == \A e \in Events : handled[e] <= 1 + expiries[e]

\* Stale XPENDING replies can overrun the delivery budget, but by no more than
\* one delivery for each consumer.
DeliveryBound ==
  \A m \in MsgIds : deliveries[m] <= MaxDeliveryAttempts + Cardinality(Consumers)

\* The subscription is owed e: it was published, decodes, is accepted, and
\* MAXLEN removed no copy of it.
Owed(e) ==
  /\ e \notin Malformed \cup Unaccepted
  /\ \E m \in 1..Len(stream) : stream[m] = e
  /\ \A m \in 1..trimmed : stream[m] # e

AccountedFor(e) == Outstanding(e) # {} \/ handled[e] > 0 \/ DeadLettered(e)

\* An event that is owed is still deliverable, being handled, handled, or in
\* the dead-letter stream: what at-least-once delivery promises.
NoEventLost ==
  \A e \in Events :
    Owed(e) => AccountedFor(e) \/ \E c \in Consumers : Running(c) /\ EventAt(c) = e

\* The bus loses an event in two ways only: its claim outlived a run that never
\* ended, or its last message was taken for a duplicate of a run that was still
\* going (and may yet fail), which takes an entry reclaimed from a live consumer.
NoSilentLoss ==
  \A e \in Events : Owed(e) => AccountedFor(e) \/ e \in orphaned \cup overtaken

\* Only a message that cannot be decoded, or one delivered more often than the
\* budget allows, is dead-lettered, and it loses its payload only to trimming:
\* no stale XPENDING reply buries a message early.
DeadLettersJustified ==
  \A m \in MsgIds :
    /\ dlq[m] # {} => stream[m] \in Malformed \/ deliveries[m] > MaxDeliveryAttempts
    /\ "blank" \in dlq[m] => m <= trimmed

\* Every event is accounted for: whatever crashes, fails, is reclaimed early or
\* trimmed, none is lost in a third way and none is given up early.
EventsAccountedFor == NoSilentLoss /\ DeadLettersJustified

(***************************************************************************)
(* Liveness                                                                *)
(***************************************************************************)

\* Every published message is delivered and leaves the pending list, by
\* success, as a duplicate or to the dead-letter stream: a poison message does
\* not block the partition and a stopped consumer's messages are taken over.
EventuallySettled ==
  \A m \in MsgIds :
    m <= Len(stream) ~> m \notin pending /\ (m <= delivered \/ m <= trimmed)

=============================================================================
