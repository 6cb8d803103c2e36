--------------------------- MODULE EventBusProofs ---------------------------
(***************************************************************************)
(* Theorems about EventBus for every value of its constants.               *)
(***************************************************************************)
EXTENDS EventBusRefinement, FiniteSetTheorems, TLAPS

USE DEF brokerVars, consumerVars, historyVars, GoTo, Resume, MsgIds

(***************************************************************************)
(* Types                                                                   *)
(***************************************************************************)

\* The message a consumer dispatches is in the stream.
LEMMA CurrentEvent ==
  ASSUME TypeOK, NEW c \in Consumers, pc[c] \in Dispatching
  PROVE  cur[c] \in 1..delivered /\ cur[c] \in MsgIds /\ EventAt(c) \in Events
<1>1. cur[c] \in 1..delivered
  BY DEF TypeOK, BrokerTypes, ConsumerTypes
<1>2. cur[c] \in 1..Len(stream) /\ cur[c] \in MsgIds
  BY <1>1, BoundsAssumption DEF TypeOK, BrokerTypes
<1> QED BY <1>1, <1>2 DEF TypeOK, BrokerTypes, EventAt

\* Walking an XPENDING reply keeps the reply well typed.
LEMMA NextEntryTypes ==
  ASSUME TypeOK, NEW c \in Consumers, NEW m \in MsgIds, NextEntry(c, m)
  PROVE  /\ m \in 1..delivered
         /\ todo' \in [Consumers -> SUBSET (1..delivered)]
         /\ seen' \in [Consumers -> [MsgIds -> Nat]]
<1>1. m \in todo[c] /\ todo[c] \subseteq 1..delivered
  BY DEF NextEntry, IsFirst, TypeOK, ConsumerTypes
<1>2. todo' \in [Consumers -> SUBSET (1..delivered)]
  BY DEF NextEntry, TypeOK, ConsumerTypes
<1>3. seen[c] \in [MsgIds -> Nat] /\ [seen[c] EXCEPT ![m] = 0] \in [MsgIds -> Nat]
  BY DEF TypeOK, ConsumerTypes
<1>4. seen' = [seen EXCEPT ![c] = [seen[c] EXCEPT ![m] = 0]]
  BY DEF NextEntry
<1>5. seen' \in [Consumers -> [MsgIds -> Nat]]
  BY <1>3, <1>4 DEF TypeOK, ConsumerTypes
<1> QED BY <1>1, <1>2, <1>5

\* Decoding and filtering lead to a location of the dispatch.
LEMMA FirstStepDispatches == \A e : FirstStep(e) \in Dispatching
  BY DEF FirstStep, Dispatching

LEMMA TypeInit == Init => TypeOK
  BY ConsumersAssumption, SettingsAssumption, BoundsAssumption
     DEF Init, TypeOK, BrokerTypes, ConsumerTypes, HistoryTypes, Locations, Dispatching

LEMMA TypeNext == TypeOK /\ [Next]_vars => TypeOK'
<1> SUFFICES ASSUME TypeOK, [Next]_vars PROVE TypeOK'
  OBVIOUS
<1> USE BoundsAssumption, SettingsAssumption
<1>1. ASSUME NEW e \in Events, Publish(e) PROVE TypeOK'
  <2>1. BrokerTypes'
    BY <1>1 DEF Publish, TypeOK, BrokerTypes, ConsumerTypes
  <2>2. ConsumerTypes'
    BY <1>1 DEF Publish, TypeOK, BrokerTypes, ConsumerTypes, Locations, Dispatching
  <2>3. HistoryTypes'
    BY <1>1 DEF Publish, TypeOK, BrokerTypes, ConsumerTypes, HistoryTypes
  <2> QED BY <2>1, <2>2, <2>3 DEF TypeOK
<1>2. ASSUME NEW e \in Events, ExpireClaim(e) PROVE TypeOK'
  <2>1. BrokerTypes'
    BY <1>2 DEF ExpireClaim, TypeOK, BrokerTypes, ConsumerTypes
  <2>2. ConsumerTypes'
    BY <1>2 DEF ExpireClaim, TypeOK, BrokerTypes, ConsumerTypes, Locations, Dispatching
  <2>3. HistoryTypes'
    BY <1>2 DEF ExpireClaim, TypeOK, BrokerTypes, ConsumerTypes, HistoryTypes
  <2> QED BY <2>1, <2>2, <2>3 DEF TypeOK
<1>3. ASSUME NEW c \in Consumers, Step(c) PROVE TypeOK'
  <2>1. CASE PollPending(c)
    <3>1. BrokerTypes'
      BY <2>1 DEF PollPending, TypeOK, BrokerTypes, ConsumerTypes
    <3>2. ConsumerTypes'
      BY <2>1 DEF PollPending, Lowest, TypeOK, BrokerTypes, ConsumerTypes, Locations, Dispatching
    <3>3. HistoryTypes'
      BY <2>1 DEF PollPending, TypeOK, BrokerTypes, ConsumerTypes, HistoryTypes
    <3> QED BY <3>1, <3>2, <3>3 DEF TypeOK
  <2>2. CASE GiveUp(c)
    <3>1. PICK m \in MsgIds : NextEntry(c, m) /\ cur' = [cur EXCEPT ![c] = m] /\ GoTo(c, "lookUp")
                             /\ UNCHANGED <<brokerVars, claims, phase, inbox, historyVars>>
      BY <2>2 DEF GiveUp
    <3>2. m \in 1..delivered /\ todo' \in [Consumers -> SUBSET (1..delivered)]
          /\ seen' \in [Consumers -> [MsgIds -> Nat]]
      BY <3>1, NextEntryTypes
    <3>3. BrokerTypes' /\ HistoryTypes'
      BY <3>1 DEF TypeOK, BrokerTypes, HistoryTypes
    <3>4. cur' \in [Consumers -> 0..delivered'] /\ pc' \in [Consumers -> Locations]
      BY <3>1, <3>2 DEF TypeOK, BrokerTypes, ConsumerTypes, Locations, Dispatching
    <3>5. \A d \in Consumers : pc'[d] \in Dispatching => cur'[d] # 0
      BY <3>1, <3>2 DEF TypeOK, BrokerTypes, ConsumerTypes
    <3>6. ConsumerTypes'
      BY <3>1, <3>2, <3>4, <3>5 DEF TypeOK, ConsumerTypes
    <3> QED BY <3>3, <3>6 DEF TypeOK
  <2>3. CASE Reclaim(c)
    <3>1. PICK m \in MsgIds :
            /\ NextEntry(c, m)
            /\ deliveries' = [deliveries EXCEPT ![m] = @ + 1] /\ idle' = idle \ {m}
            /\ cur' = [cur EXCEPT ![c] = m] /\ GoTo(c, FirstStep(stream[m]))
            /\ UNCHANGED <<stream, trimmed, delivered, pending, dlq, claims, phase, inbox, historyVars>>
      BY <2>3 DEF Reclaim
    <3>2. m \in 1..delivered /\ todo' \in [Consumers -> SUBSET (1..delivered)]
          /\ seen' \in [Consumers -> [MsgIds -> Nat]]
      BY <3>1, NextEntryTypes
    <3>3. BrokerTypes' /\ HistoryTypes'
      BY <3>1 DEF TypeOK, BrokerTypes, HistoryTypes
    <3>4. cur' \in [Consumers -> 0..delivered'] /\ pc' \in [Consumers -> Locations]
      BY <3>1, <3>2, FirstStepDispatches DEF TypeOK, BrokerTypes, ConsumerTypes, Locations
    <3>5. \A d \in Consumers : pc'[d] \in Dispatching => cur'[d] # 0
      BY <3>1, <3>2 DEF TypeOK, BrokerTypes, ConsumerTypes
    <3>6. ConsumerTypes'
      BY <3>1, <3>2, <3>4, <3>5 DEF TypeOK, ConsumerTypes
    <3> QED BY <3>3, <3>6 DEF TypeOK
  <2>4. CASE ReclaimTrimmed(c)
    <3>1. PICK m \in MsgIds :
            /\ NextEntry(c, m) /\ pending' = pending \ {m} /\ idle' = idle \ {m}
            /\ UNCHANGED <<stream, trimmed, delivered, deliveries, dlq, claims, pc, phase, cur,
                           inbox, historyVars>>
      BY <2>4 DEF ReclaimTrimmed
    <3>2. todo' \in [Consumers -> SUBSET (1..delivered)] /\ seen' \in [Consumers -> [MsgIds -> Nat]]
      BY <3>1, NextEntryTypes
    <3>3. BrokerTypes' /\ HistoryTypes'
      BY <3>1 DEF TypeOK, BrokerTypes, HistoryTypes
    <3>4. ConsumerTypes'
      BY <3>1, <3>2 DEF TypeOK, ConsumerTypes
    <3> QED BY <3>3, <3>4 DEF TypeOK
  <2>5. CASE ReclaimMissed(c)
    <3>1. PICK m \in MsgIds :
            NextEntry(c, m) /\ UNCHANGED <<brokerVars, claims, pc, phase, cur, inbox, historyVars>>
      BY <2>5 DEF ReclaimMissed
    <3>2. todo' \in [Consumers -> SUBSET (1..delivered)] /\ seen' \in [Consumers -> [MsgIds -> Nat]]
      BY <3>1, NextEntryTypes
    <3> QED BY <3>1, <3>2 DEF TypeOK, BrokerTypes, ConsumerTypes, HistoryTypes
  <2>6. CASE ReclaimDone(c)
    <3>1. BrokerTypes'
      BY <2>6 DEF ReclaimDone, TypeOK, BrokerTypes, ConsumerTypes
    <3>2. ConsumerTypes'
      BY <2>6 DEF ReclaimDone, TypeOK, BrokerTypes, ConsumerTypes, Locations, Dispatching
    <3>3. HistoryTypes'
      BY <2>6 DEF ReclaimDone, TypeOK, BrokerTypes, ConsumerTypes, HistoryTypes
    <3> QED BY <3>1, <3>2, <3>3 DEF TypeOK
  <2>7. CASE ReadNew(c)
    <3> DEFINE first == (IF delivered < trimmed THEN trimmed ELSE delivered) + 1
               last  == IF first + BatchSize - 1 < Len(stream) THEN first + BatchSize - 1
                                                               ELSE Len(stream)
    <3>1. first \in Nat \ {0} /\ last \in Nat /\ last <= Len(stream) /\ delivered < first
      BY DEF TypeOK, BrokerTypes
    <3>2. /\ inbox' = [inbox EXCEPT ![c] = first..last] /\ pending' = pending \cup (first..last)
          /\ deliveries' = [m \in MsgIds |-> IF m \in first..last THEN 1 ELSE deliveries[m]]
          /\ delivered' = IF first <= last THEN last ELSE delivered
          /\ pc' = [pc EXCEPT ![c] = "drain"] /\ phase' = [phase EXCEPT ![c] = "drain"]
          /\ UNCHANGED <<stream, trimmed, idle, dlq, claims, cur, todo, seen, historyVars>>
      BY <2>7 DEF ReadNew
    <3> HIDE DEF first, last
    <3>3. delivered' \in 0..Len(stream) /\ delivered <= delivered' /\ first..last \subseteq 1..delivered'
      BY <3>1, <3>2 DEF TypeOK, BrokerTypes
    <3>4. 0..delivered \subseteq 0..delivered' /\ 1..delivered \subseteq 1..delivered'
      BY <3>1, <3>2, <3>3 DEF TypeOK, BrokerTypes
    <3>5. pending' \subseteq 1..delivered' /\ idle' \subseteq pending'
      BY <3>2, <3>3, <3>4 DEF TypeOK, BrokerTypes
    <3>6. deliveries' \in [MsgIds -> Nat]
      BY <3>2 DEF TypeOK, BrokerTypes
    <3>7. BrokerTypes'
      BY <3>2, <3>3, <3>5, <3>6 DEF TypeOK, BrokerTypes
    <3>8. inbox' \in [Consumers -> SUBSET (1..delivered')]
      BY <3>2, <3>3, <3>4 DEF TypeOK, ConsumerTypes
    <3>9. todo' \in [Consumers -> SUBSET (1..delivered')] /\ cur' \in [Consumers -> 0..delivered']
      BY <3>2, <3>4 DEF TypeOK, ConsumerTypes
    <3>10. ConsumerTypes'
      BY <3>2, <3>8, <3>9 DEF TypeOK, ConsumerTypes, Locations, Dispatching
    <3>11. HistoryTypes'
      BY <3>2 DEF TypeOK, HistoryTypes
    <3> QED BY <3>7, <3>10, <3>11 DEF TypeOK
  <2>8. CASE DispatchNew(c)
    <3>1. PICK m \in inbox[c] :
            /\ cur' = [cur EXCEPT ![c] = m] /\ inbox' = [inbox EXCEPT ![c] = @ \ {m}]
            /\ GoTo(c, FirstStep(stream[m]))
            /\ UNCHANGED <<brokerVars, claims, phase, todo, seen, historyVars>>
      BY <2>8 DEF DispatchNew, IsFirst
    <3>2. m \in 1..delivered
      BY <3>1 DEF TypeOK, ConsumerTypes
    <3>3. ConsumerTypes'
      BY <3>1, <3>2, FirstStepDispatches DEF TypeOK, ConsumerTypes, Locations
    <3> QED BY <3>1, <3>3 DEF TypeOK, BrokerTypes, HistoryTypes
  <2>9. CASE DrainDone(c)
    <3>1. BrokerTypes'
      BY <2>9 DEF DrainDone, TypeOK, BrokerTypes, ConsumerTypes
    <3>2. ConsumerTypes'
      BY <2>9 DEF DrainDone, TypeOK, BrokerTypes, ConsumerTypes, Locations, Dispatching
    <3>3. HistoryTypes'
      BY <2>9 DEF DrainDone, TypeOK, BrokerTypes, ConsumerTypes, HistoryTypes
    <3> QED BY <3>1, <3>2, <3>3 DEF TypeOK
  <2>10. CASE TakeClaim(c)
    <3>0. EventAt(c) \in Events
      BY <2>10, CurrentEvent DEF TakeClaim, Running, Dispatching
    <3>1. BrokerTypes'
      BY <2>10 DEF TakeClaim, TypeOK, BrokerTypes, ConsumerTypes
    <3>2. ConsumerTypes'
      BY <2>10 DEF TakeClaim, TypeOK, BrokerTypes, ConsumerTypes, Locations, Dispatching
    <3>3. HistoryTypes'
      BY <2>10, <3>0 DEF TakeClaim, TypeOK, BrokerTypes, ConsumerTypes, HistoryTypes
    <3> QED BY <3>1, <3>2, <3>3 DEF TypeOK
  <2>11. CASE SkipDuplicate(c)
    <3>1. BrokerTypes'
      BY <2>11 DEF SkipDuplicate, TypeOK, BrokerTypes, ConsumerTypes
    <3>2. ConsumerTypes'
      BY <2>11 DEF SkipDuplicate, TypeOK, BrokerTypes, ConsumerTypes, Locations, Dispatching
    <3>3. HistoryTypes'
      BY <2>11 DEF SkipDuplicate, TypeOK, BrokerTypes, ConsumerTypes, HistoryTypes
    <3> QED BY <3>1, <3>2, <3>3 DEF TypeOK
  <2>12. CASE HandlerSucceeds(c)
    <3>0. EventAt(c) \in Events
      BY <2>12, CurrentEvent DEF HandlerSucceeds, Running, Dispatching
    <3>1. BrokerTypes'
      BY <2>12 DEF HandlerSucceeds, TypeOK, BrokerTypes, ConsumerTypes
    <3>2. ConsumerTypes'
      BY <2>12 DEF HandlerSucceeds, TypeOK, BrokerTypes, ConsumerTypes, Locations, Dispatching
    <3>3. HistoryTypes'
      BY <2>12, <3>0 DEF HandlerSucceeds, TypeOK, BrokerTypes, ConsumerTypes, HistoryTypes
    <3> QED BY <3>1, <3>2, <3>3 DEF TypeOK
  <2>13. CASE HandlerFails(c)
    <3>1. BrokerTypes'
      BY <2>13 DEF HandlerFails, TypeOK, BrokerTypes, ConsumerTypes
    <3>2. ConsumerTypes'
      BY <2>13 DEF HandlerFails, TypeOK, BrokerTypes, ConsumerTypes, Locations, Dispatching
    <3>3. HistoryTypes'
      BY <2>13 DEF HandlerFails, TypeOK, BrokerTypes, ConsumerTypes, HistoryTypes
    <3> QED BY <3>1, <3>2, <3>3 DEF TypeOK
  <2>14. CASE Release(c)
    <3>0. EventAt(c) \in Events
      BY <2>14, CurrentEvent DEF Release, Running, Dispatching
    <3>1. BrokerTypes'
      BY <2>14 DEF Release, TypeOK, BrokerTypes, ConsumerTypes
    <3>2. ConsumerTypes'
      BY <2>14 DEF Release, TypeOK, BrokerTypes, ConsumerTypes, Locations, Dispatching
    <3>3. HistoryTypes'
      BY <2>14, <3>0 DEF Release, TypeOK, BrokerTypes, ConsumerTypes, HistoryTypes
    <3> QED BY <3>1, <3>2, <3>3 DEF TypeOK
  <2>15. CASE Ack(c)
    <3>1. BrokerTypes'
      BY <2>15 DEF Ack, TypeOK, BrokerTypes, ConsumerTypes
    <3>2. ConsumerTypes'
      BY <2>15 DEF Ack, TypeOK, BrokerTypes, ConsumerTypes, Locations, Dispatching
    <3>3. HistoryTypes'
      BY <2>15 DEF Ack, TypeOK, BrokerTypes, ConsumerTypes, HistoryTypes
    <3> QED BY <3>1, <3>2, <3>3 DEF TypeOK
  <2>16. CASE LookUp(c)
    <3>1. BrokerTypes'
      BY <2>16 DEF LookUp, TypeOK, BrokerTypes, ConsumerTypes
    <3>2. ConsumerTypes'
      BY <2>16 DEF LookUp, TypeOK, BrokerTypes, ConsumerTypes, Locations, Dispatching
    <3>3. HistoryTypes'
      BY <2>16 DEF LookUp, TypeOK, BrokerTypes, ConsumerTypes, HistoryTypes
    <3> QED BY <3>1, <3>2, <3>3 DEF TypeOK
  <2>17. CASE DeadLetter(c)
    <3>1. BrokerTypes'
      BY <2>17 DEF DeadLetter, TypeOK, BrokerTypes, ConsumerTypes
    <3>2. ConsumerTypes'
      BY <2>17 DEF DeadLetter, TypeOK, BrokerTypes, ConsumerTypes, Locations, Dispatching
    <3>3. HistoryTypes'
      BY <2>17 DEF DeadLetter, TypeOK, BrokerTypes, ConsumerTypes, HistoryTypes
    <3> QED BY <3>1, <3>2, <3>3 DEF TypeOK
  <2> QED BY <1>3, <2>1, <2>2, <2>3, <2>4, <2>5, <2>6, <2>7, <2>8, <2>9, <2>10, <2>11, <2>12, <2>13, <2>14, <2>15, <2>16, <2>17 DEF Step
<1>4. ASSUME NEW c \in Consumers, ClaimFails(c) PROVE TypeOK'
  <2>0. EventAt(c) \in Events
    BY <1>4, CurrentEvent DEF ClaimFails, Running, Dispatching
  <2>1. BrokerTypes'
    BY <1>4 DEF ClaimFails, TypeOK, BrokerTypes, ConsumerTypes
  <2>2. ConsumerTypes'
    BY <1>4 DEF ClaimFails, TypeOK, BrokerTypes, ConsumerTypes, Locations, Dispatching
  <2>3. HistoryTypes'
    BY <1>4, <2>0 DEF ClaimFails, StoreError, TypeOK, BrokerTypes, ConsumerTypes, HistoryTypes
  <2> QED BY <2>1, <2>2, <2>3 DEF TypeOK
<1>5. ASSUME NEW c \in Consumers, ReleaseFails(c) PROVE TypeOK'
  <2>0. EventAt(c) \in Events
    BY <1>5, CurrentEvent DEF ReleaseFails, Running, Dispatching
  <2>1. BrokerTypes'
    BY <1>5 DEF ReleaseFails, TypeOK, BrokerTypes, ConsumerTypes
  <2>2. ConsumerTypes'
    BY <1>5 DEF ReleaseFails, TypeOK, BrokerTypes, ConsumerTypes, Locations, Dispatching
  <2>3. HistoryTypes'
    BY <1>5, <2>0 DEF ReleaseFails, StoreError, TypeOK, BrokerTypes, ConsumerTypes, HistoryTypes
  <2> QED BY <2>1, <2>2, <2>3 DEF TypeOK
<1>6. ASSUME NEW c \in Consumers, Stop(c) PROVE TypeOK'
  <2>0. Running(c) => EventAt(c) \in Events
    BY <1>6, CurrentEvent DEF Stop, Running, Dispatching
  <2>1. BrokerTypes'
    BY <1>6 DEF Stop, TypeOK, BrokerTypes, ConsumerTypes
  <2>2. ConsumerTypes'
    BY <1>6 DEF Stop, TypeOK, BrokerTypes, ConsumerTypes, Locations, Dispatching
  <2>3. HistoryTypes'
    BY <1>6, <2>0 DEF Stop, TypeOK, BrokerTypes, ConsumerTypes, HistoryTypes
  <2> QED BY <2>1, <2>2, <2>3 DEF TypeOK
<1>7. ASSUME NEW c \in Consumers, Restart(c) PROVE TypeOK'
  <2>1. BrokerTypes'
    BY <1>7 DEF Restart, TypeOK, BrokerTypes, ConsumerTypes
  <2>2. ConsumerTypes'
    BY <1>7 DEF Restart, TypeOK, BrokerTypes, ConsumerTypes, Locations, Dispatching
  <2>3. HistoryTypes'
    BY <1>7 DEF Restart, TypeOK, BrokerTypes, ConsumerTypes, HistoryTypes
  <2> QED BY <2>1, <2>2, <2>3 DEF TypeOK
<1>8. ASSUME NEW m \in MsgIds, GoIdle(m) PROVE TypeOK'
  <2>1. BrokerTypes'
    BY <1>8 DEF GoIdle, TypeOK, BrokerTypes, ConsumerTypes
  <2>2. ConsumerTypes'
    BY <1>8 DEF GoIdle, TypeOK, BrokerTypes, ConsumerTypes, Locations, Dispatching
  <2>3. HistoryTypes'
    BY <1>8 DEF GoIdle, TypeOK, BrokerTypes, ConsumerTypes, HistoryTypes
  <2> QED BY <2>1, <2>2, <2>3 DEF TypeOK
<1>9. CASE UNCHANGED vars
  BY <1>9 DEF vars, TypeOK, BrokerTypes, ConsumerTypes, HistoryTypes
<1> QED BY <1>1, <1>2, <1>3, <1>4, <1>5, <1>6, <1>7, <1>8, <1>9 DEF Next

\* Every reachable state is well typed: ids stay within what the group has
\* delivered, whatever consumers, faults and trimming do.
THEOREM TypeCorrect == Spec => []TypeOK
<1> QED BY TypeInit, TypeNext, PTL DEF Spec

(***************************************************************************)
(* Exclusive and at-most-once handling.  A run is covered by its event's   *)
(* claim, and a claim is good for one success: an event that is unclaimed  *)
(* or being run has not succeeded since its last expiry.                   *)
(***************************************************************************)
RunnersHoldClaim == \A c \in Consumers : Running(c) => EventAt(c) \in claims

BeingRun(e) == \E c \in Consumers : Running(c) /\ EventAt(c) = e

ClaimAccounting ==
  \A e \in Events :
    /\ handled[e] <= 1 + expiries[e]
    /\ e \notin claims \/ BeingRun(e) => handled[e] <= expiries[e]

ClaimInv == RunnersHoldClaim /\ HandlerExclusive /\ ClaimAccounting

\* A step that starts no run, ends no claim and counts nothing keeps ClaimInv.
LEMMA QuietStep ==
  ASSUME ClaimInv, claims \subseteq claims', UNCHANGED <<handled, expiries>>,
         \A d \in Consumers : Running(d)' => Running(d) /\ EventAt(d)' = EventAt(d)
  PROVE  ClaimInv'
<1>1. RunnersHoldClaim'
  BY DEF ClaimInv, RunnersHoldClaim
<1>2. HandlerExclusive'
  BY DEF ClaimInv, HandlerExclusive
<1>3. ASSUME NEW e \in Events, BeingRun(e)' PROVE BeingRun(e)
  BY <1>3 DEF BeingRun
<1>4. ClaimAccounting'
  BY <1>3 DEF ClaimInv, ClaimAccounting
<1> QED BY <1>1, <1>2, <1>4 DEF ClaimInv

LEMMA FirstStepStartsNoRun == \A e : FirstStep(e) \notin {"handle", "release"}
  BY DEF FirstStep

LEMMA ClaimInit == Init => ClaimInv
  BY DEF Init, ClaimInv, RunnersHoldClaim, HandlerExclusive, ClaimAccounting, BeingRun, Running

LEMMA ClaimNext == TypeOK /\ ClaimInv /\ [Next]_vars => ClaimInv'
<1> SUFFICES ASSUME TypeOK, ClaimInv, [Next]_vars PROVE ClaimInv'
  OBVIOUS
<1> DEFINE StartsNoRun ==
      \A d \in Consumers : Running(d)' => Running(d) /\ EventAt(d)' = EventAt(d)
<1>1. ASSUME NEW e \in Events, Publish(e) PROVE ClaimInv'
  <2>1. \A d \in Consumers : Running(d) => stream'[cur[d]] = stream[cur[d]]
    BY <1>1, CurrentEvent DEF Publish, Running, Dispatching, TypeOK, BrokerTypes
  <2>2. StartsNoRun
    BY <1>1, <2>1 DEF Publish, Running, EventAt
  <2> QED BY <1>1, <2>2, QuietStep DEF Publish
<1>2. ASSUME NEW e \in Events, ExpireClaim(e) PROVE ClaimInv'
  <2>1. ~BeingRun(e) /\ claims' = claims \ {e} /\ expiries' = [expiries EXCEPT ![e] = @ + 1]
        /\ UNCHANGED <<stream, pc, cur, handled>>
    BY <1>2 DEF ExpireClaim, BeingRun
  <2>2. RunnersHoldClaim' /\ HandlerExclusive'
    BY <2>1 DEF ClaimInv, RunnersHoldClaim, HandlerExclusive, Running, EventAt, BeingRun
  <2>3. \A f \in Events : BeingRun(f)' <=> BeingRun(f)
    BY <2>1 DEF BeingRun, Running, EventAt
  <2>4. ClaimAccounting'
    BY <2>1, <2>3 DEF ClaimInv, ClaimAccounting, TypeOK, HistoryTypes
  <2> QED BY <2>2, <2>4 DEF ClaimInv
<1>3. ASSUME NEW c \in Consumers, Step(c) PROVE ClaimInv'
  <2>1. CASE PollPending(c)
    <3>1. StartsNoRun
      BY <2>1 DEF PollPending, Running, EventAt, TypeOK, ConsumerTypes
    <3> QED BY <2>1, <3>1, QuietStep DEF PollPending
  <2>2. CASE GiveUp(c)
    <3>1. StartsNoRun
      BY <2>2 DEF GiveUp, Running, EventAt, TypeOK, ConsumerTypes, NextEntry
    <3> QED BY <2>2, <3>1, QuietStep DEF GiveUp
  <2>3. CASE Reclaim(c)
    <3>1. StartsNoRun
      BY <2>3, FirstStepStartsNoRun DEF Reclaim, Running, EventAt, TypeOK, ConsumerTypes, NextEntry
    <3> QED BY <2>3, <3>1, QuietStep DEF Reclaim
  <2>4. CASE ReclaimTrimmed(c)
    <3>1. StartsNoRun
      BY <2>4 DEF ReclaimTrimmed, Running, EventAt, TypeOK, ConsumerTypes, NextEntry
    <3> QED BY <2>4, <3>1, QuietStep DEF ReclaimTrimmed
  <2>5. CASE ReclaimMissed(c)
    <3>1. StartsNoRun
      BY <2>5 DEF ReclaimMissed, Running, EventAt, TypeOK, ConsumerTypes, NextEntry
    <3> QED BY <2>5, <3>1, QuietStep DEF ReclaimMissed
  <2>6. CASE ReclaimDone(c)
    <3>1. StartsNoRun
      BY <2>6 DEF ReclaimDone, Running, EventAt, TypeOK, ConsumerTypes
    <3> QED BY <2>6, <3>1, QuietStep DEF ReclaimDone
  <2>7. CASE ReadNew(c)
    <3>1. StartsNoRun
      BY <2>7 DEF ReadNew, Running, EventAt, TypeOK, ConsumerTypes
    <3> QED BY <2>7, <3>1, QuietStep DEF ReadNew
  <2>8. CASE DispatchNew(c)
    <3>1. StartsNoRun
      BY <2>8, FirstStepStartsNoRun DEF DispatchNew, Running, EventAt, TypeOK, ConsumerTypes
    <3> QED BY <2>8, <3>1, QuietStep DEF DispatchNew
  <2>9. CASE DrainDone(c)
    <3>1. StartsNoRun
      BY <2>9 DEF DrainDone, Running, EventAt, TypeOK, ConsumerTypes
    <3> QED BY <2>9, <3>1, QuietStep DEF DrainDone
  <2>10. CASE TakeClaim(c)
    <3>1. EventAt(c) \in Events
      BY <2>10, CurrentEvent DEF TakeClaim, Dispatching
    <3>2. EventAt(c) \notin claims /\ claims' = claims \cup {EventAt(c)} /\ pc' = [pc EXCEPT ![c] = "handle"]
          /\ UNCHANGED <<stream, cur, handled, expiries>>
      BY <2>10 DEF TakeClaim
    <3>3. \A d \in Consumers : EventAt(d)' = EventAt(d) /\ (d # c => (Running(d)' <=> Running(d)))
      BY <3>2 DEF Running, EventAt, TypeOK, ConsumerTypes
    <3>4. RunnersHoldClaim'
      BY <3>2, <3>3 DEF ClaimInv, RunnersHoldClaim
    <3>5. \A d \in Consumers : d # c /\ Running(d)' => EventAt(d)' # EventAt(c)'
      BY <3>2, <3>3 DEF ClaimInv, RunnersHoldClaim
    <3>6. HandlerExclusive'
      BY <3>3, <3>5 DEF ClaimInv, HandlerExclusive
    <3>7. \A f \in Events : f # EventAt(c) => (BeingRun(f)' <=> BeingRun(f))
      BY <3>3 DEF BeingRun
    <3>8. ClaimAccounting'
      BY <3>1, <3>2, <3>7 DEF ClaimInv, ClaimAccounting
    <3> QED BY <3>4, <3>6, <3>8 DEF ClaimInv
  <2>11. CASE SkipDuplicate(c)
    <3>1. StartsNoRun
      BY <2>11 DEF SkipDuplicate, Running, EventAt, TypeOK, ConsumerTypes
    <3> QED BY <2>11, <3>1, QuietStep DEF SkipDuplicate
  <2>12. CASE HandlerSucceeds(c)
    <3>1. EventAt(c) \in Events
      BY <2>12, CurrentEvent DEF HandlerSucceeds, Dispatching
    <3>2. Running(c) /\ ~Running(c)' /\ handled' = [handled EXCEPT ![EventAt(c)] = @ + 1]
          /\ UNCHANGED <<stream, cur, claims, expiries>>
      BY <2>12 DEF HandlerSucceeds, Running, TypeOK, ConsumerTypes
    <3>3. \A d \in Consumers : EventAt(d)' = EventAt(d) /\ (d # c => (Running(d)' <=> Running(d)))
      BY <2>12 DEF HandlerSucceeds, Running, EventAt, TypeOK, ConsumerTypes
    <3>4. RunnersHoldClaim' /\ HandlerExclusive'
      BY <3>2, <3>3 DEF ClaimInv, RunnersHoldClaim, HandlerExclusive
    <3>5. \A f \in Events : f = EventAt(c) => BeingRun(f) /\ ~BeingRun(f)' /\ f \in claims'
      BY <3>2, <3>3 DEF BeingRun, ClaimInv, HandlerExclusive, RunnersHoldClaim
    <3>6. \A f \in Events : f # EventAt(c) => (BeingRun(f)' <=> BeingRun(f))
      BY <3>2, <3>3 DEF BeingRun
    <3>7. ClaimAccounting'
      BY <3>1, <3>2, <3>5, <3>6 DEF ClaimInv, ClaimAccounting, TypeOK, HistoryTypes
    <3> QED BY <3>4, <3>7 DEF ClaimInv
  <2>13. CASE HandlerFails(c)
    <3>1. StartsNoRun
      BY <2>13 DEF HandlerFails, Running, EventAt, TypeOK, ConsumerTypes
    <3> QED BY <2>13, <3>1, QuietStep DEF HandlerFails
  <2>14. CASE Release(c)
    <3>1. Running(c) /\ ~Running(c)' /\ claims' = claims \ {EventAt(c)}
          /\ UNCHANGED <<stream, cur, handled, expiries>>
      BY <2>14 DEF Release, Running, TypeOK, ConsumerTypes
    <3>2. \A d \in Consumers : EventAt(d)' = EventAt(d) /\ (d # c => (Running(d)' <=> Running(d)))
      BY <2>14 DEF Release, Running, EventAt, TypeOK, ConsumerTypes
    <3>3. \A d \in Consumers : Running(d)' => EventAt(d) # EventAt(c)
      BY <3>1, <3>2 DEF ClaimInv, HandlerExclusive
    <3>4. RunnersHoldClaim' /\ HandlerExclusive'
      BY <3>1, <3>2, <3>3 DEF ClaimInv, RunnersHoldClaim, HandlerExclusive
    <3>5. BeingRun(EventAt(c)) /\ \A f \in Events : BeingRun(f)' => BeingRun(f)
      BY <3>1, <3>2 DEF BeingRun
    <3>6. ClaimAccounting'
      BY <3>1, <3>5 DEF ClaimInv, ClaimAccounting
    <3> QED BY <3>4, <3>6 DEF ClaimInv
  <2>15. CASE Ack(c)
    <3>1. StartsNoRun
      BY <2>15 DEF Ack, Running, EventAt, TypeOK, ConsumerTypes
    <3> QED BY <2>15, <3>1, QuietStep DEF Ack
  <2>16. CASE LookUp(c)
    <3>1. StartsNoRun
      BY <2>16 DEF LookUp, Running, EventAt, TypeOK, ConsumerTypes
    <3> QED BY <2>16, <3>1, QuietStep DEF LookUp
  <2>17. CASE DeadLetter(c)
    <3>1. StartsNoRun
      BY <2>17 DEF DeadLetter, Running, EventAt, TypeOK, ConsumerTypes
    <3> QED BY <2>17, <3>1, QuietStep DEF DeadLetter
  <2> QED BY <1>3, <2>1, <2>2, <2>3, <2>4, <2>5, <2>6, <2>7, <2>8, <2>9, <2>10, <2>11, <2>12, <2>13, <2>14, <2>15, <2>16, <2>17 DEF Step
<1>4. ASSUME NEW c \in Consumers, ClaimFails(c) PROVE ClaimInv'
  <2>1. StartsNoRun
    BY <1>4 DEF ClaimFails, Running, EventAt, TypeOK, ConsumerTypes
  <2> QED BY <1>4, <2>1, QuietStep DEF ClaimFails
<1>5. ASSUME NEW c \in Consumers, ReleaseFails(c) PROVE ClaimInv'
  <2>1. StartsNoRun
    BY <1>5 DEF ReleaseFails, Running, EventAt, TypeOK, ConsumerTypes
  <2> QED BY <1>5, <2>1, QuietStep DEF ReleaseFails
<1>6. ASSUME NEW c \in Consumers, Stop(c) PROVE ClaimInv'
  <2>1. StartsNoRun
    BY <1>6 DEF Stop, Running, EventAt, TypeOK, ConsumerTypes
  <2> QED BY <1>6, <2>1, QuietStep DEF Stop
<1>7. ASSUME NEW c \in Consumers, Restart(c) PROVE ClaimInv'
  <2>1. StartsNoRun
    BY <1>7 DEF Restart, Running, EventAt, TypeOK, ConsumerTypes
  <2> QED BY <1>7, <2>1, QuietStep DEF Restart
<1>8. ASSUME NEW m \in MsgIds, GoIdle(m) PROVE ClaimInv'
  <2>1. StartsNoRun
    BY <1>8 DEF GoIdle, Running, EventAt, TypeOK, ConsumerTypes
  <2> QED BY <1>8, <2>1, QuietStep DEF GoIdle
<1>9. CASE UNCHANGED vars
  <2>1. StartsNoRun
    BY <1>9 DEF vars, Running, EventAt, TypeOK, ConsumerTypes
  <2> QED BY <1>9, <2>1, QuietStep DEF vars
<1> QED BY <1>1, <1>2, <1>3, <1>4, <1>5, <1>6, <1>7, <1>8, <1>9 DEF Next

LEMMA ClaimInvariant == Spec => []ClaimInv
<1> QED BY ClaimInit, ClaimNext, TypeCorrect, PTL DEF Spec

\* No two consumers ever run the handler for the same event at once, for any
\* number of consumers and whatever reclaim, crashes and store errors do.
THEOREM ExclusiveHandling == Spec => []HandlerExclusive
<1>1. ClaimInv => HandlerExclusive
  BY DEF ClaimInv
<1> QED BY <1>1, ClaimInvariant, PTL

\* An event succeeds at most once per lifetime of its claim, so that only the
\* retention window can let it be processed twice.
THEOREM AtMostOnceHandling == Spec => []AtMostOnce
<1>1. ClaimInv => AtMostOnce
  BY DEF ClaimInv, ClaimAccounting, AtMostOnce
<1> QED BY <1>1, ClaimInvariant, PTL

(***************************************************************************)
(* The delivery budget.  A consumer is entitled to claim m once while an   *)
(* XPENDING reply it has not finished reports m within the budget; each    *)
(* delivery beyond the budget uses up one consumer's entitlement.          *)
(***************************************************************************)
Entitled(m) == {c \in Consumers : m \in todo[c] /\ WithinBudget(c, m)}

BudgetInv ==
  \A m \in MsgIds :
    deliveries[m] + Cardinality(Entitled(m)) <= MaxDeliveryAttempts + Cardinality(Consumers)

LEMMA EntitledFinite ==
  ASSUME NEW S \in SUBSET Consumers
  PROVE  IsFiniteSet(S) /\ Cardinality(S) \in Nat /\ Cardinality(S) <= Cardinality(Consumers)
         /\ Cardinality(Consumers) \in Nat
BY ConsumersAssumption, FS_Subset, FS_CardinalityType

\* A step that delivers nothing and entitles nobody keeps the bound.
LEMMA NoNewEntitlement ==
  ASSUME BudgetInv, TypeOK, TypeOK', UNCHANGED deliveries,
         \A m \in MsgIds : Entitled(m)' \subseteq Entitled(m)
  PROVE  BudgetInv'
<1> SUFFICES ASSUME NEW m \in MsgIds
             PROVE  deliveries[m] + Cardinality(Entitled(m)')
                      <= MaxDeliveryAttempts + Cardinality(Consumers)
  BY DEF BudgetInv
<1>1. Entitled(m) \subseteq Consumers /\ Entitled(m)' \subseteq Entitled(m)
  BY DEF Entitled
<1>2. Cardinality(Entitled(m)') <= Cardinality(Entitled(m))
      /\ Cardinality(Entitled(m)') \in Nat /\ Cardinality(Entitled(m)) \in Nat
  BY <1>1, EntitledFinite, FS_Subset, FS_CardinalityType
<1>3. deliveries[m] \in Nat
  BY DEF TypeOK, BrokerTypes
<1> QED BY <1>2, <1>3, EntitledFinite, SettingsAssumption DEF BudgetInv

\* Taking an entry off a reply entitles nobody, and uses up c's entitlement.
LEMMA NextEntryEntitles ==
  ASSUME TypeOK, NEW c \in Consumers, NEW m \in MsgIds, NextEntry(c, m)
  PROVE  /\ \A n \in MsgIds : Entitled(n)' \subseteq Entitled(n)
         /\ c \notin Entitled(m)'
         /\ WithinBudget(c, m) => c \in Entitled(m)
<1>1. todo' = [todo EXCEPT ![c] = todo[c] \ {m}] /\ m \in todo[c]
  BY DEF NextEntry, IsFirst
<1>2. seen' = [seen EXCEPT ![c] = [seen[c] EXCEPT ![m] = 0]]
  BY DEF NextEntry
<1>3. \A d \in Consumers, n \in MsgIds :
        n \in todo'[d] => n \in todo[d] /\ seen'[d][n] = seen[d][n]
  <2> SUFFICES ASSUME NEW d \in Consumers, NEW n \in MsgIds, n \in todo'[d]
               PROVE  n \in todo[d] /\ seen'[d][n] = seen[d][n]
    OBVIOUS
  <2>1. CASE d # c
    BY <2>1, <1>1, <1>2 DEF TypeOK, ConsumerTypes
  <2>2. CASE d = c
    <3>1. n # m /\ n \in todo[c]
      BY <2>2, <1>1 DEF TypeOK, ConsumerTypes
    <3>2. seen[c] \in [MsgIds -> Nat] /\ seen'[c] = [seen[c] EXCEPT ![m] = 0]
      BY <1>2 DEF TypeOK, ConsumerTypes
    <3> QED BY <2>2, <3>1, <3>2
  <2> QED BY <2>1, <2>2
<1>4. m \notin todo'[c]
  BY <1>1 DEF TypeOK, ConsumerTypes
<1> QED BY <1>1, <1>3, <1>4 DEF Entitled, WithinBudget

LEMMA BudgetInit == Init => BudgetInv
<1> SUFFICES ASSUME Init, NEW m \in MsgIds
             PROVE  deliveries[m] + Cardinality(Entitled(m))
                      <= MaxDeliveryAttempts + Cardinality(Consumers)
  BY DEF BudgetInv
<1>1. deliveries[m] = 0 /\ Entitled(m) \subseteq Consumers
  BY DEF Init, Entitled
<1> QED BY <1>1, EntitledFinite, SettingsAssumption

LEMMA BudgetNext == TypeOK /\ TypeOK' /\ BudgetInv /\ [Next]_vars => BudgetInv'
<1> SUFFICES ASSUME TypeOK, TypeOK', BudgetInv, [Next]_vars PROVE BudgetInv'
  OBVIOUS
<1> DEFINE EntitlesNobody == \A m \in MsgIds : Entitled(m)' \subseteq Entitled(m)
<1>1. ASSUME NEW e \in Events, Publish(e) PROVE BudgetInv'
  BY <1>1, NoNewEntitlement DEF Publish, Entitled, WithinBudget
<1>2. ASSUME NEW e \in Events, ExpireClaim(e) PROVE BudgetInv'
  BY <1>2, NoNewEntitlement DEF ExpireClaim, Entitled, WithinBudget
<1>3. ASSUME NEW c \in Consumers, Step(c) PROVE BudgetInv'
  <2>1. CASE PollPending(c)
    <3> SUFFICES ASSUME NEW m \in MsgIds
                 PROVE  deliveries'[m] + Cardinality(Entitled(m)')
                          <= MaxDeliveryAttempts + Cardinality(Consumers)
      BY DEF BudgetInv
    <3>1. deliveries[m] \in Nat /\ deliveries' = deliveries
      BY <2>1 DEF PollPending, TypeOK, BrokerTypes
    <3>2. Entitled(m)' \in SUBSET Consumers /\ Entitled(m) \in SUBSET Consumers
      BY DEF Entitled
    <3>3. CASE deliveries[m] <= MaxDeliveryAttempts
      BY <3>1, <3>2, <3>3, EntitledFinite, SettingsAssumption
    <3>4. CASE deliveries[m] > MaxDeliveryAttempts
      <4>1. PICK batch : /\ todo' = [todo EXCEPT ![c] = batch]
                         /\ seen' = [seen EXCEPT ![c] = [n \in MsgIds |-> IF n \in batch
                                                           THEN deliveries[n] ELSE 0]]
        BY <2>1 DEF PollPending
      <4>2. ASSUME NEW d \in Entitled(m)' PROVE d \in Entitled(m)
        <5>1. d \in Consumers /\ m \in todo'[d] /\ seen'[d][m] <= MaxDeliveryAttempts
          BY <4>2 DEF Entitled, WithinBudget
        <5>2. d # c
          BY <4>1, <5>1, <3>1, <3>4, SettingsAssumption DEF TypeOK, ConsumerTypes
        <5> QED BY <4>1, <5>1, <5>2 DEF TypeOK, ConsumerTypes, Entitled, WithinBudget
      <4>3. Cardinality(Entitled(m)') <= Cardinality(Entitled(m))
        BY <4>2, <3>2, EntitledFinite, FS_Subset
      <4> QED BY <3>1, <3>2, <4>3, EntitledFinite, SettingsAssumption DEF BudgetInv
    <3> QED BY <3>1, <3>3, <3>4, SettingsAssumption
  <2>2. CASE GiveUp(c)
    <3>1. PICK m \in MsgIds : NextEntry(c, m) /\ UNCHANGED deliveries
      BY <2>2 DEF GiveUp
    <3> QED BY <3>1, NextEntryEntitles, NoNewEntitlement
  <2>3. CASE Reclaim(c)
    <3>1. PICK m \in MsgIds : /\ NextEntry(c, m) /\ WithinBudget(c, m)
                               /\ deliveries' = [deliveries EXCEPT ![m] = @ + 1]
      BY <2>3 DEF Reclaim
    <3>2. /\ EntitlesNobody
          /\ c \in Entitled(m) /\ c \notin Entitled(m)'
      BY <3>1, NextEntryEntitles
    <3> SUFFICES ASSUME NEW n \in MsgIds
                 PROVE  deliveries'[n] + Cardinality(Entitled(n)')
                          <= MaxDeliveryAttempts + Cardinality(Consumers)
      BY DEF BudgetInv
    <3>3. Entitled(n) \in SUBSET Consumers /\ Entitled(n)' \subseteq Entitled(n)
      BY <3>2 DEF Entitled
    <3>4. deliveries[n] \in Nat /\ deliveries'[n] = IF n = m THEN deliveries[n] + 1 ELSE deliveries[n]
      BY <3>1 DEF TypeOK, BrokerTypes
    <3>5. CASE n # m
      <4>1. Cardinality(Entitled(n)') <= Cardinality(Entitled(n))
            /\ Cardinality(Entitled(n)') \in Nat
        BY <3>3, EntitledFinite, FS_Subset
      <4> QED BY <3>3, <3>4, <3>5, <4>1, EntitledFinite, SettingsAssumption DEF BudgetInv
    <3>6. CASE n = m
      <4>1. Entitled(n)' \subseteq Entitled(n) \ {c}
        BY <3>2, <3>3, <3>6
      <4>2. Cardinality(Entitled(n) \ {c}) = Cardinality(Entitled(n)) - 1
            /\ IsFiniteSet(Entitled(n) \ {c})
        BY <3>2, <3>3, <3>6, EntitledFinite, FS_RemoveElement
      <4>3. Cardinality(Entitled(n)') <= Cardinality(Entitled(n)) - 1
            /\ Cardinality(Entitled(n)') \in Nat
        BY <4>1, <4>2, <3>3, EntitledFinite, FS_Subset
      <4> QED BY <3>3, <3>4, <3>6, <4>3, EntitledFinite, SettingsAssumption DEF BudgetInv
    <3> QED BY <3>5, <3>6
  <2>4. CASE ReclaimTrimmed(c)
    <3>1. PICK m \in MsgIds : NextEntry(c, m) /\ UNCHANGED deliveries
      BY <2>4 DEF ReclaimTrimmed
    <3> QED BY <3>1, NextEntryEntitles, NoNewEntitlement
  <2>5. CASE ReclaimMissed(c)
    <3>1. PICK m \in MsgIds : NextEntry(c, m) /\ UNCHANGED deliveries
      BY <2>5 DEF ReclaimMissed
    <3> QED BY <3>1, NextEntryEntitles, NoNewEntitlement
  <2>6. CASE ReclaimDone(c)
    BY <2>6, NoNewEntitlement DEF ReclaimDone, Entitled, WithinBudget
  <2>7. CASE ReadNew(c)
    <3> SUFFICES ASSUME NEW m \in MsgIds
                 PROVE  deliveries'[m] + Cardinality(Entitled(m)')
                          <= MaxDeliveryAttempts + Cardinality(Consumers)
      BY DEF BudgetInv
    <3>1. PICK batch : deliveries' = [n \in MsgIds |-> IF n \in batch THEN 1 ELSE deliveries[n]]
      BY <2>7 DEF ReadNew
    <3>2. deliveries'[m] = 1 \/ deliveries'[m] = deliveries[m]
      BY <3>1
    <3>3. Entitled(m)' = Entitled(m)
      BY <2>7 DEF ReadNew, Entitled, WithinBudget
    <3>4. Entitled(m) \in SUBSET Consumers /\ deliveries[m] \in Nat
      BY DEF Entitled, TypeOK, BrokerTypes
    <3> QED BY <3>2, <3>3, <3>4, EntitledFinite, SettingsAssumption DEF BudgetInv
  <2>8. CASE DispatchNew(c)
    BY <2>8, NoNewEntitlement DEF DispatchNew, Entitled, WithinBudget
  <2>9. CASE DrainDone(c)
    BY <2>9, NoNewEntitlement DEF DrainDone, Entitled, WithinBudget
  <2>10. CASE TakeClaim(c)
    BY <2>10, NoNewEntitlement DEF TakeClaim, Entitled, WithinBudget
  <2>11. CASE SkipDuplicate(c)
    BY <2>11, NoNewEntitlement DEF SkipDuplicate, Entitled, WithinBudget
  <2>12. CASE HandlerSucceeds(c)
    BY <2>12, NoNewEntitlement DEF HandlerSucceeds, Entitled, WithinBudget
  <2>13. CASE HandlerFails(c)
    BY <2>13, NoNewEntitlement DEF HandlerFails, Entitled, WithinBudget
  <2>14. CASE Release(c)
    BY <2>14, NoNewEntitlement DEF Release, Entitled, WithinBudget
  <2>15. CASE Ack(c)
    BY <2>15, NoNewEntitlement DEF Ack, Entitled, WithinBudget
  <2>16. CASE LookUp(c)
    BY <2>16, NoNewEntitlement DEF LookUp, Entitled, WithinBudget
  <2>17. CASE DeadLetter(c)
    BY <2>17, NoNewEntitlement DEF DeadLetter, Entitled, WithinBudget
  <2> QED BY <1>3, <2>1, <2>2, <2>3, <2>4, <2>5, <2>6, <2>7, <2>8, <2>9, <2>10, <2>11, <2>12, <2>13, <2>14, <2>15, <2>16, <2>17 DEF Step
<1>4. ASSUME NEW c \in Consumers, ClaimFails(c) PROVE BudgetInv'
  BY <1>4, NoNewEntitlement DEF ClaimFails, Entitled, WithinBudget
<1>5. ASSUME NEW c \in Consumers, ReleaseFails(c) PROVE BudgetInv'
  BY <1>5, NoNewEntitlement DEF ReleaseFails, Entitled, WithinBudget
<1>6. ASSUME NEW c \in Consumers, Stop(c) PROVE BudgetInv'
  <2>1. todo' = [todo EXCEPT ![c] = {}] /\ UNCHANGED deliveries
        /\ \A d \in Consumers : d # c => seen'[d] = seen[d]
    BY <1>6 DEF Stop, TypeOK, ConsumerTypes
  <2>2. EntitlesNobody
    BY <2>1 DEF Entitled, WithinBudget, TypeOK, ConsumerTypes
  <2> QED BY <2>1, <2>2, NoNewEntitlement
<1>7. ASSUME NEW c \in Consumers, Restart(c) PROVE BudgetInv'
  BY <1>7, NoNewEntitlement DEF Restart, Entitled, WithinBudget
<1>8. ASSUME NEW m \in MsgIds, GoIdle(m) PROVE BudgetInv'
  BY <1>8, NoNewEntitlement DEF GoIdle, Entitled, WithinBudget
<1>9. CASE UNCHANGED vars
  BY <1>9, NoNewEntitlement DEF vars, Entitled, WithinBudget
<1> QED BY <1>1, <1>2, <1>3, <1>4, <1>5, <1>6, <1>7, <1>8, <1>9 DEF Next

\* No message is delivered more than MaxDeliveryAttempts times plus once for
\* each consumer, however stale the XPENDING replies the consumers act on.
THEOREM BoundedDelivery == Spec => []DeliveryBound
<1>1. TypeOK /\ BudgetInv => DeliveryBound
  <2> SUFFICES ASSUME TypeOK, BudgetInv, NEW m \in MsgIds
               PROVE  deliveries[m] <= MaxDeliveryAttempts + Cardinality(Consumers)
    BY DEF DeliveryBound
  <2>1. Entitled(m) \in SUBSET Consumers /\ deliveries[m] \in Nat
    BY DEF Entitled, TypeOK, BrokerTypes
  <2> QED BY <2>1, EntitledFinite, SettingsAssumption DEF BudgetInv
<1> QED BY <1>1, BudgetInit, BudgetNext, TypeCorrect, PTL DEF Spec

(***************************************************************************)
(* What no step undoes.  Trimming, delivery, burial, success and the mark  *)
(* of a run cut short are for good, and an entry never changes.            *)
(***************************************************************************)
Advances ==
  /\ trimmed <= trimmed' /\ delivered <= delivered' /\ Len(stream) <= Len(stream')
  /\ \A m \in 1..Len(stream) : stream'[m] = stream[m]
  /\ \A m \in 1..delivered : deliveries[m] <= deliveries'[m]
  /\ \A m \in MsgIds : dlq[m] \subseteq dlq'[m]
  /\ \A e \in Events : handled[e] <= handled'[e]
  /\ orphaned \subseteq orphaned' /\ overtaken \subseteq overtaken'

\* A step that changes no number and no history advances.
LEMMA IdleAdvance ==
  ASSUME TypeOK, UNCHANGED <<stream, trimmed, delivered, deliveries, dlq, handled, orphaned>>,
         overtaken \subseteq overtaken'
  PROVE  Advances
BY BoundsAssumption DEF Advances, TypeOK, BrokerTypes, HistoryTypes

LEMMA NextAdvances == TypeOK /\ [Next]_vars => Advances
<1> SUFFICES ASSUME TypeOK, [Next]_vars PROVE Advances
  OBVIOUS
<1> USE BoundsAssumption, SettingsAssumption
<1>0. ASSUME UNCHANGED <<trimmed, delivered, stream, dlq>>,
             orphaned \subseteq orphaned', overtaken \subseteq overtaken',
             \A m \in 1..delivered : deliveries[m] <= deliveries'[m],
             \A e \in Events : handled[e] <= handled'[e]
      PROVE  Advances
  BY <1>0 DEF Advances, TypeOK, BrokerTypes
<1>1. ASSUME NEW e \in Events, Publish(e) PROVE Advances
  BY <1>1 DEF Publish, Advances, TypeOK, BrokerTypes, HistoryTypes
<1>2. ASSUME NEW e \in Events, ExpireClaim(e) PROVE Advances
  BY <1>2, IdleAdvance DEF ExpireClaim
<1>3. ASSUME NEW c \in Consumers, Step(c) PROVE Advances
  <2>1. CASE PollPending(c) \/ GiveUp(c) \/ ReclaimTrimmed(c) \/ ReclaimMissed(c) \/ ReclaimDone(c)
    BY <2>1, IdleAdvance DEF PollPending, GiveUp, ReclaimTrimmed, ReclaimMissed, ReclaimDone
  <2>2. CASE DispatchNew(c) \/ DrainDone(c) \/ TakeClaim(c) \/ SkipDuplicate(c)
             \/ HandlerFails(c) \/ Release(c) \/ Ack(c) \/ LookUp(c)
    BY <2>2, IdleAdvance
       DEF DispatchNew, DrainDone, TakeClaim, SkipDuplicate, HandlerFails, Release, Ack, LookUp
  <2>3. CASE Reclaim(c)
    <3>1. PICK m \in MsgIds : deliveries' = [deliveries EXCEPT ![m] = @ + 1]
      BY <2>3 DEF Reclaim
    <3>2. \A n \in 1..delivered : n \in MsgIds /\ deliveries[n] \in Nat
      BY DEF TypeOK, BrokerTypes
    <3>3. \A n \in 1..delivered : deliveries[n] <= deliveries'[n]
      BY <3>1, <3>2 DEF TypeOK, BrokerTypes
    <3> QED BY <2>3, <3>3, <1>0 DEF Reclaim, TypeOK, HistoryTypes
  <2>4. CASE ReadNew(c)
    <3> DEFINE first == (IF delivered < trimmed THEN trimmed ELSE delivered) + 1
               last  == IF first + BatchSize - 1 < Len(stream) THEN first + BatchSize - 1
                                                               ELSE Len(stream)
    <3>1. /\ deliveries' = [m \in MsgIds |-> IF m \in first..last THEN 1 ELSE deliveries[m]]
          /\ delivered' = IF first <= last THEN last ELSE delivered
          /\ UNCHANGED <<stream, trimmed, dlq, historyVars>>
      BY <2>4 DEF ReadNew
    <3>2. delivered < first /\ first \in Nat /\ last \in Nat /\ delivered \in Nat
      BY DEF TypeOK, BrokerTypes
    <3> HIDE DEF first, last
    <3>3. \A n \in 1..delivered : n \in MsgIds /\ deliveries[n] \in Nat /\ n \notin first..last
      BY <3>2 DEF TypeOK, BrokerTypes
    <3>4. \A n \in 1..delivered : deliveries[n] <= deliveries'[n]
      BY <3>1, <3>3
    <3> QED BY <3>1, <3>2, <3>4 DEF Advances, TypeOK, BrokerTypes, HistoryTypes
  <2>5. CASE HandlerSucceeds(c)
    <3>1. \A e \in Events : handled[e] <= handled'[e]
      BY <2>5 DEF HandlerSucceeds, TypeOK, HistoryTypes
    <3> QED BY <2>5, <3>1, <1>0 DEF HandlerSucceeds, TypeOK, BrokerTypes
  <2>6. CASE DeadLetter(c)
    BY <2>6 DEF DeadLetter, Advances, TypeOK, BrokerTypes, HistoryTypes
  <2> QED BY <1>3, <2>1, <2>2, <2>3, <2>4, <2>5, <2>6 DEF Step
<1>4. ASSUME NEW c \in Consumers, ClaimFails(c) \/ ReleaseFails(c) \/ Stop(c) PROVE Advances
  <2>1. UNCHANGED <<brokerVars, handled, overtaken>> /\ orphaned \subseteq orphaned'
    BY <1>4 DEF ClaimFails, ReleaseFails, Stop
  <2>2. \A e \in Events : handled[e] <= handled'[e]
    BY <2>1 DEF TypeOK, HistoryTypes
  <2>3. \A m \in 1..delivered : deliveries[m] <= deliveries'[m]
    BY <2>1 DEF TypeOK, BrokerTypes
  <2> QED BY <2>1, <2>2, <2>3, <1>0
<1>5. ASSUME NEW c \in Consumers, Restart(c) PROVE Advances
  BY <1>5, IdleAdvance DEF Restart
<1>6. ASSUME NEW m \in MsgIds, GoIdle(m) PROVE Advances
  BY <1>6, IdleAdvance DEF GoIdle
<1>7. CASE UNCHANGED vars
  BY <1>7, IdleAdvance DEF vars
<1> QED BY <1>1, <1>2, <1>3, <1>4, <1>5, <1>6, <1>7 DEF Next

(***************************************************************************)
(* Dead letters.  A message is buried because it cannot be decoded or for  *)
(* a delivery count that an XPENDING reply once reported; the count only   *)
(* grows while the reply gets old, so the reason still holds.              *)
(***************************************************************************)
OverBudget(m) == deliveries[m] > MaxDeliveryAttempts

ReplyIsOld(c) == \A m \in todo[c] : seen[c][m] <= deliveries[m]

BurialJustified(c) ==
  /\ pc[c] = "lookUp" => OverBudget(cur[c])
  /\ pc[c] = "deadLetterFull" => EventAt(c) \in Malformed \/ OverBudget(cur[c])
  /\ pc[c] = "deadLetterBlank" => OverBudget(cur[c]) /\ cur[c] <= trimmed

BuriedWasDelivered == \A m \in MsgIds : dlq[m] # {} => m <= delivered

BurialInv ==
  /\ \A c \in Consumers : ReplyIsOld(c) /\ BurialJustified(c)
  /\ BuriedWasDelivered
  /\ DeadLettersJustified

\* A reason to bury a message stays one.
LEMMA ReasonsLast ==
  ASSUME TypeOK, TypeOK', Advances, NEW m \in 1..delivered
  PROVE  /\ m \in MsgIds /\ stream'[m] = stream[m]
         /\ OverBudget(m) => OverBudget(m)'
         /\ m <= trimmed => m <= trimmed'
<1>1. m \in 1..Len(stream) /\ m \in MsgIds
  BY BoundsAssumption DEF TypeOK, BrokerTypes
<1>2. deliveries[m] \in Nat /\ deliveries'[m] \in Nat /\ trimmed \in Nat /\ trimmed' \in Nat
  BY <1>1 DEF TypeOK, BrokerTypes
<1> QED BY <1>1, <1>2, SettingsAssumption DEF Advances, OverBudget

\* A step of the consumers in D that buries nothing keeps BurialInv when they
\* have old replies and good reasons after it.
LEMMA NoBurial ==
  ASSUME TypeOK, TypeOK', Advances, BurialInv, UNCHANGED dlq, NEW D \in SUBSET Consumers,
         \A d \in Consumers \ D :
            pc'[d] = pc[d] /\ cur'[d] = cur[d] /\ todo'[d] = todo[d] /\ seen'[d] = seen[d],
         \A d \in D : ReplyIsOld(d)' /\ BurialJustified(d)'
  PROVE  BurialInv'
<1>1. ASSUME NEW d \in Consumers \ D PROVE ReplyIsOld(d)'
  <2> SUFFICES ASSUME NEW m \in todo[d] PROVE seen[d][m] <= deliveries'[m]
    BY DEF ReplyIsOld
  <2>1. m \in 1..delivered /\ m \in MsgIds
    BY BoundsAssumption DEF TypeOK, BrokerTypes, ConsumerTypes
  <2>2. seen[d] \in [MsgIds -> Nat] /\ deliveries[m] \in Nat /\ deliveries'[m] \in Nat
    BY <2>1 DEF TypeOK, BrokerTypes, ConsumerTypes
  <2>3. seen[d][m] \in Nat
    BY <2>1, <2>2
  <2> QED BY <2>1, <2>2, <2>3 DEF BurialInv, ReplyIsOld, Advances
<1>2. ASSUME NEW d \in Consumers \ D PROVE BurialJustified(d)'
  <2>1. CASE pc[d] \in Dispatching
    <3>1. cur[d] \in 1..delivered
      BY <2>1, CurrentEvent
    <3> QED BY <3>1, ReasonsLast DEF BurialInv, BurialJustified, EventAt
  <2>2. CASE pc[d] \notin Dispatching
    BY <2>2 DEF BurialJustified, Dispatching
  <2> QED BY <2>1, <2>2
<1>3. BuriedWasDelivered'
  BY DEF BurialInv, BuriedWasDelivered, Advances, TypeOK, BrokerTypes
<1>4. DeadLettersJustified'
  <2> SUFFICES ASSUME NEW m \in MsgIds, dlq[m] # {}
               PROVE  /\ stream'[m] \in Malformed \/ OverBudget(m)'
                      /\ "blank" \in dlq[m] => m <= trimmed'
    BY DEF DeadLettersJustified, OverBudget
  <2>1. m \in 1..delivered
    BY DEF BurialInv, BuriedWasDelivered
  <2> QED BY <2>1, ReasonsLast DEF BurialInv, DeadLettersJustified, OverBudget
<1> QED BY <1>1, <1>2, <1>3, <1>4 DEF BurialInv

\* Walking a reply leaves the rest of it as it was.
LEMMA NextEntryIsOld ==
  ASSUME TypeOK, TypeOK', Advances, NEW c \in Consumers, NEW m \in MsgIds, NextEntry(c, m), ReplyIsOld(c)
  PROVE  ReplyIsOld(c)' /\ seen[c][m] <= deliveries[m] /\ m \in 1..delivered
<1>1. /\ todo' = [todo EXCEPT ![c] = todo[c] \ {m}] /\ m \in todo[c]
      /\ seen' = [seen EXCEPT ![c] = [seen[c] EXCEPT ![m] = 0]]
  BY DEF NextEntry, IsFirst
<1>2. ASSUME NEW n \in todo'[c] PROVE seen'[c][n] <= deliveries'[n]
  <2>1. n \in todo[c] /\ n # m /\ n \in 1..delivered /\ n \in MsgIds
    BY <1>1, <1>2, BoundsAssumption DEF TypeOK, BrokerTypes, ConsumerTypes
  <2>2. seen[c] \in [MsgIds -> Nat] /\ seen'[c] = [seen[c] EXCEPT ![m] = 0]
    BY <1>1 DEF TypeOK, ConsumerTypes
  <2>3. seen'[c][n] = seen[c][n] /\ seen[c][n] <= deliveries[n] /\ deliveries[n] <= deliveries'[n]
    BY <2>1, <2>2 DEF ReplyIsOld, Advances
  <2>4. seen[c][n] \in Nat /\ deliveries[n] \in Nat /\ deliveries'[n] \in Nat
    BY <2>1, <2>2 DEF TypeOK, BrokerTypes
  <2> QED BY <2>3, <2>4
<1> QED BY <1>1, <1>2 DEF ReplyIsOld, TypeOK, ConsumerTypes

LEMMA BurialInit == Init => BurialInv
BY DEF Init, BurialInv, ReplyIsOld, BurialJustified, BuriedWasDelivered, DeadLettersJustified

LEMMA BurialNext == TypeOK /\ TypeOK' /\ BurialInv /\ [Next]_vars => BurialInv'
<1> SUFFICES ASSUME TypeOK, TypeOK', BurialInv, [Next]_vars PROVE BurialInv'
  OBVIOUS
<1>0. Advances
  BY NextAdvances
<1>1. ASSUME UNCHANGED <<dlq, pc, cur, todo, seen>> PROVE BurialInv'
  <2>1. {} \in SUBSET Consumers
    OBVIOUS
  <2> QED BY <1>0, <1>1, <2>1, NoBurial
\* A consumer leaves what it walks alone and gets no new reason to bury.
<1>2. ASSUME NEW c \in Consumers, UNCHANGED <<dlq, todo, seen>>, BurialJustified(c)',
             \A d \in Consumers \ {c} : pc'[d] = pc[d] /\ cur'[d] = cur[d]
      PROVE  BurialInv'
  <2>1. ReplyIsOld(c)'
    <3> SUFFICES ASSUME NEW m \in todo[c] PROVE seen[c][m] <= deliveries'[m]
      BY <1>2 DEF ReplyIsOld
    <3>1. m \in 1..delivered /\ m \in MsgIds
      BY BoundsAssumption DEF TypeOK, BrokerTypes, ConsumerTypes
    <3>2. seen[c] \in [MsgIds -> Nat] /\ deliveries[m] \in Nat /\ deliveries'[m] \in Nat
      BY <3>1 DEF TypeOK, BrokerTypes, ConsumerTypes
    <3>3. seen[c][m] \in Nat
      BY <3>1, <3>2
    <3> QED BY <3>1, <3>2, <3>3, <1>0 DEF BurialInv, ReplyIsOld, Advances
  <2>2. {c} \in SUBSET Consumers
    OBVIOUS
  <2> QED BY <1>0, <1>2, <2>1, <2>2, NoBurial
\* A consumer takes an entry off its reply.
<1>3. ASSUME NEW c \in Consumers, NEW m \in MsgIds, NextEntry(c, m), UNCHANGED dlq, BurialJustified(c)',
             \A d \in Consumers \ {c} : pc'[d] = pc[d] /\ cur'[d] = cur[d]
      PROVE  BurialInv'
  <2>1. ReplyIsOld(c)'
    BY <1>0, <1>3, NextEntryIsOld DEF BurialInv
  <2>2. \A d \in Consumers \ {c} : todo'[d] = todo[d] /\ seen'[d] = seen[d]
    BY <1>3 DEF NextEntry, TypeOK, ConsumerTypes
  <2>3. {c} \in SUBSET Consumers
    OBVIOUS
  <2> QED BY <1>0, <1>3, <2>1, <2>2, <2>3, NoBurial
<1>4. ASSUME NEW e \in Events, Publish(e) \/ ExpireClaim(e) PROVE BurialInv'
  BY <1>4, <1>1 DEF Publish, ExpireClaim
<1>5. ASSUME NEW c \in Consumers, Step(c) PROVE BurialInv'
  <2>1. CASE PollPending(c)
    <3>1. PICK batch : /\ todo' = [todo EXCEPT ![c] = batch] /\ batch \subseteq MsgIds
                       /\ seen' = [seen EXCEPT ![c] = [n \in MsgIds |-> IF n \in batch
                                                         THEN deliveries[n] ELSE 0]]
      <4>1. pending \subseteq MsgIds
        BY BoundsAssumption DEF TypeOK, BrokerTypes
      <4> QED BY <2>1, <4>1 DEF PollPending, Lowest
    <3>2. ReplyIsOld(c)'
      BY <2>1, <3>1 DEF PollPending, ReplyIsOld, TypeOK, BrokerTypes, ConsumerTypes
    <3>3. BurialJustified(c)'
      BY <2>1 DEF PollPending, BurialJustified, TypeOK, ConsumerTypes
    <3>4. \A d \in Consumers \ {c} :
            pc'[d] = pc[d] /\ cur'[d] = cur[d] /\ todo'[d] = todo[d] /\ seen'[d] = seen[d]
      BY <2>1, <3>1 DEF PollPending, TypeOK, ConsumerTypes
    <3>5. UNCHANGED dlq /\ {c} \in SUBSET Consumers
      BY <2>1 DEF PollPending
    <3> QED BY <1>0, <3>2, <3>3, <3>4, <3>5, NoBurial
  <2>2. CASE GiveUp(c)
    <3>1. PICK m \in MsgIds :
            /\ NextEntry(c, m) /\ ~WithinBudget(c, m) /\ cur' = [cur EXCEPT ![c] = m]
            /\ pc' = [pc EXCEPT ![c] = "lookUp"] /\ UNCHANGED brokerVars
      BY <2>2 DEF GiveUp
    <3>2. seen[c][m] <= deliveries[m]
      BY <1>0, <3>1, NextEntryIsOld DEF BurialInv
    <3>3. seen[c][m] \in Nat /\ deliveries[m] \in Nat
      <4>1. seen[c] \in [MsgIds -> Nat] /\ deliveries \in [MsgIds -> Nat]
        BY DEF TypeOK, BrokerTypes, ConsumerTypes
      <4> QED BY <4>1
    <3>4. OverBudget(m)'
      BY <3>1, <3>2, <3>3, SettingsAssumption DEF WithinBudget, OverBudget
    <3>5. BurialJustified(c)'
      BY <3>1, <3>4 DEF BurialJustified, OverBudget, TypeOK, ConsumerTypes
    <3> QED BY <3>1, <3>5, <1>3 DEF TypeOK, ConsumerTypes
  <2>3. CASE Reclaim(c)
    <3>1. PICK m \in MsgIds :
            /\ NextEntry(c, m) /\ cur' = [cur EXCEPT ![c] = m]
            /\ pc' = [pc EXCEPT ![c] = FirstStep(stream[m])] /\ UNCHANGED <<stream, dlq>>
      BY <2>3 DEF Reclaim
    <3>2. BurialJustified(c)'
      BY <3>1 DEF BurialJustified, FirstStep, EventAt, TypeOK, ConsumerTypes
    <3> QED BY <3>1, <3>2, <1>3 DEF TypeOK, ConsumerTypes
  <2>4. CASE ReclaimTrimmed(c)
    <3>1. PICK m \in MsgIds : NextEntry(c, m) /\ UNCHANGED <<dlq, pc, cur>>
      BY <2>4 DEF ReclaimTrimmed
    <3>2. BurialJustified(c)'
      BY <3>1 DEF BurialJustified, NextEntry
    <3> QED BY <3>1, <3>2, <1>3
  <2>5. CASE ReclaimMissed(c)
    <3>1. PICK m \in MsgIds : NextEntry(c, m) /\ UNCHANGED <<dlq, pc, cur>>
      BY <2>5 DEF ReclaimMissed
    <3>2. BurialJustified(c)'
      BY <3>1 DEF BurialJustified, NextEntry
    <3> QED BY <3>1, <3>2, <1>3
  <2>6. CASE DispatchNew(c)
    <3>1. PICK m \in MsgIds :
            /\ cur' = [cur EXCEPT ![c] = m] /\ pc' = [pc EXCEPT ![c] = FirstStep(stream[m])]
            /\ UNCHANGED <<brokerVars, todo, seen>>
      BY <2>6 DEF DispatchNew
    <3>2. BurialJustified(c)'
      BY <3>1 DEF BurialJustified, FirstStep, EventAt, TypeOK, ConsumerTypes
    <3> QED BY <3>1, <3>2, <1>2 DEF TypeOK, ConsumerTypes
  <2>7. CASE LookUp(c)
    <3>1. BurialJustified(c)'
      BY <2>7, CurrentEvent
         DEF LookUp, BurialInv, BurialJustified, OverBudget, Dispatching, TypeOK, BrokerTypes, ConsumerTypes
    <3> QED BY <2>7, <3>1, <1>2 DEF LookUp, TypeOK, ConsumerTypes
  <2>8. CASE DeadLetter(c)
    <3>1. cur[c] \in 1..delivered /\ cur[c] \in MsgIds /\ EventAt(c) = stream[cur[c]]
      BY <2>8, CurrentEvent DEF DeadLetter, Dispatching, EventAt
    <3> DEFINE payload == IF pc[c] = "deadLetterFull" THEN "full" ELSE "blank"
    <3>2. /\ dlq' = [dlq EXCEPT ![cur[c]] = @ \cup {payload}]
          /\ pc[c] \in {"deadLetterFull", "deadLetterBlank"} /\ payload \in {"full", "blank"}
      BY <2>8 DEF DeadLetter
    <3>3. /\ stream[cur[c]] \in Malformed \/ OverBudget(cur[c])
          /\ payload = "blank" => cur[c] <= trimmed
      BY <3>1, <3>2 DEF BurialInv, BurialJustified
    <3> HIDE DEF payload
    <3>4. UNCHANGED <<stream, trimmed, delivered, deliveries, cur, todo, seen>>
          /\ pc' = [pc EXCEPT ![c] = "ack"]
      BY <2>8 DEF DeadLetter
    <3>5. DeadLettersJustified'
      BY <3>1, <3>2, <3>3, <3>4 DEF BurialInv, DeadLettersJustified, OverBudget, TypeOK, BrokerTypes
    <3>6. BuriedWasDelivered'
      BY <3>1, <3>2, <3>4 DEF BurialInv, BuriedWasDelivered, TypeOK, BrokerTypes
    <3>7. \A d \in Consumers : ReplyIsOld(d)' /\ BurialJustified(d)'
      BY <3>4 DEF BurialInv, ReplyIsOld, BurialJustified, OverBudget, EventAt, TypeOK, ConsumerTypes
    <3> QED BY <3>5, <3>6, <3>7 DEF BurialInv
  <2>9. CASE ReclaimDone(c) \/ DrainDone(c) \/ TakeClaim(c) \/ SkipDuplicate(c)
             \/ HandlerSucceeds(c) \/ HandlerFails(c) \/ Release(c) \/ Ack(c)
    <3>1. \/ pc' = [pc EXCEPT ![c] = phase[c]]
          \/ \E location \in {"read", "poll", "handle", "ack", "release"} :
               pc' = [pc EXCEPT ![c] = location]
      BY <2>9 DEF ReclaimDone, DrainDone, TakeClaim, SkipDuplicate, HandlerSucceeds,
                  HandlerFails, Release, Ack
    <3>2. UNCHANGED <<dlq, cur, todo, seen>>
      BY <2>9 DEF ReclaimDone, DrainDone, TakeClaim, SkipDuplicate, HandlerSucceeds,
                  HandlerFails, Release, Ack
    <3>3. pc'[c] \notin {"lookUp", "deadLetterFull", "deadLetterBlank"}
          /\ \A d \in Consumers \ {c} : pc'[d] = pc[d]
      BY <3>1 DEF TypeOK, ConsumerTypes
    <3>4. BurialJustified(c)'
      BY <3>3 DEF BurialJustified
    <3> QED BY <3>2, <3>3, <3>4, <1>2
  <2>10. CASE ReadNew(c)
    <3>1. BurialJustified(c)'
      BY <2>10 DEF ReadNew, BurialJustified, TypeOK, ConsumerTypes
    <3> QED BY <2>10, <3>1, <1>2 DEF ReadNew, TypeOK, ConsumerTypes
  <2> QED BY <1>5, <2>1, <2>2, <2>3, <2>4, <2>5, <2>6, <2>7, <2>8, <2>9, <2>10 DEF Step
<1>6. ASSUME NEW c \in Consumers, ClaimFails(c) \/ ReleaseFails(c) \/ Restart(c) PROVE BurialInv'
  <2>1. /\ pc' = [pc EXCEPT ![c] = phase[c]] \/ pc' = [pc EXCEPT ![c] = "poll"]
        /\ UNCHANGED <<dlq, cur, todo, seen>>
    BY <1>6 DEF ClaimFails, ReleaseFails, Restart
  <2>2. BurialJustified(c)' /\ \A d \in Consumers \ {c} : pc'[d] = pc[d]
    BY <2>1 DEF BurialJustified, TypeOK, ConsumerTypes
  <2> QED BY <2>1, <2>2, <1>2
<1>7. ASSUME NEW c \in Consumers, Stop(c) PROVE BurialInv'
  <2>1. /\ pc' = [pc EXCEPT ![c] = "down"] /\ todo' = [todo EXCEPT ![c] = {}]
        /\ UNCHANGED <<dlq, cur>> /\ \A d \in Consumers \ {c} : seen'[d] = seen[d]
    BY <1>7 DEF Stop, TypeOK, ConsumerTypes
  <2>2. /\ ReplyIsOld(c)' /\ BurialJustified(c)'
        /\ \A d \in Consumers \ {c} : pc'[d] = pc[d] /\ cur'[d] = cur[d] /\ todo'[d] = todo[d]
    BY <2>1 DEF ReplyIsOld, BurialJustified, TypeOK, ConsumerTypes
  <2>3. {c} \in SUBSET Consumers
    OBVIOUS
  <2> QED BY <1>0, <2>1, <2>2, <2>3, NoBurial
<1>8. ASSUME NEW m \in MsgIds, GoIdle(m) PROVE BurialInv'
  BY <1>8, <1>1 DEF GoIdle
<1>9. CASE UNCHANGED vars
  BY <1>9, <1>1 DEF vars
<1> QED BY <1>4, <1>5, <1>6, <1>7, <1>8, <1>9 DEF Next

LEMMA BurialInvariant == Spec => []BurialInv
<1> QED BY BurialInit, BurialNext, TypeCorrect, PTL DEF Spec

\* No stale XPENDING reply buries a message early: what the dead-letter stream
\* holds could not be decoded or was delivered more often than the budget
\* allows, and is blank only when MAXLEN had removed it.
THEOREM BurialsAreJustified == Spec => []DeadLettersJustified
<1>1. BurialInv => DeadLettersJustified
  BY DEF BurialInv
<1> QED BY <1>1, BurialInvariant, PTL

(***************************************************************************)
(* No event is lost unnoticed.  Of an event that is not settled the group  *)
(* keeps a copy that no consumer is about to acknowledge: when one takes   *)
(* the last copy for a duplicate, its claim was orphaned or the event is   *)
(* overtaken.  A consumer owns the messages delivered to it that it has    *)
(* neither acknowledged nor given up; with a patient reclaim nobody else   *)
(* owns them, and no event is ever overtaken.                              *)
(***************************************************************************)
Owned(c) ==
  inbox[c] \cup (IF pc[c] \in {"claim", "handle", "release", "ack"} THEN {cur[c]} ELSE {})

InboxUse(c) ==
  /\ pc[c] \in {"poll", "reclaim", "read", "down"} => inbox[c] = {}
  /\ pc[c] = "drain" => phase[c] = "drain"
  /\ pc[c] \in Dispatching => cur[c] \notin inbox[c]
  /\ pc[c] \in Dispatching /\ phase[c] = "reclaim" => inbox[c] = {}

InboxInv == \A c \in Consumers : InboxUse(c)

ClaimsExplained == \A e \in claims : handled[e] > 0 \/ e \in orphaned \/ BeingRun(e)

TrimmingKeeps == trimmed = 0 \/ trimmed + MaxStreamLength <= Len(stream)

\* m was buried, or c alone owns it, is known to own it and is not late with it.
OwnedWell(c, m) ==
  \/ dlq[m] # {}
  \/ m \in pending \ idle /\ \A d \in Consumers \ {c} : m \notin Owned(d)

Possession == \A c \in Consumers : \A m \in Owned(c) : OwnedWell(c, m)

Settled(e) ==
  \/ handled[e] > 0 \/ e \in orphaned \cup overtaken \cup Unaccepted
  \/ \E m \in 1..Len(stream) : stream[m] = e /\ (dlq[m] # {} \/ m <= trimmed)

Kept(m) == (m \in pending \/ m > delivered) /\ ~AboutToAck(m)

SettledOrKept ==
  \A m \in 1..Len(stream) :
    Settled(stream[m]) \/ \E n \in 1..Len(stream) : stream[n] = stream[m] /\ Kept(n)

(* Consumers work through one reply at a time. *)

LEMMA InboxInit == Init => InboxInv
BY DEF Init, InboxInv, InboxUse, Dispatching

LEMMA InboxNext == TypeOK /\ InboxInv /\ [Next]_vars => InboxInv'
<1> SUFFICES ASSUME TypeOK, InboxInv, [Next]_vars PROVE InboxInv'
  OBVIOUS
<1>0. ASSUME UNCHANGED <<pc, phase, cur, inbox>> PROVE InboxInv'
  BY <1>0 DEF InboxInv, InboxUse
<1>1. ASSUME NEW c \in Consumers, InboxUse(c)',
             \A d \in Consumers \ {c} :
               pc'[d] = pc[d] /\ phase'[d] = phase[d] /\ cur'[d] = cur[d] /\ inbox'[d] = inbox[d]
      PROVE  InboxInv'
  BY <1>1 DEF InboxInv, InboxUse
\* c goes on with its dispatch, goes back to the loop that called it, or stops.
<1>2. ASSUME NEW c \in Consumers, UNCHANGED <<phase, cur, inbox>>, pc[c] \in Dispatching,
             \/ pc' = [pc EXCEPT ![c] = phase[c]]
             \/ \E location \in Dispatching : pc' = [pc EXCEPT ![c] = location]
      PROVE  InboxInv'
  <2>1. InboxUse(c)
    BY DEF InboxInv
  <2>2. phase[c] \in {"reclaim", "drain"}
    BY DEF TypeOK, ConsumerTypes
  <2>3. InboxUse(c)'
    BY <1>2, <2>1, <2>2 DEF InboxUse, Dispatching, TypeOK, ConsumerTypes
  <2> QED BY <1>2, <2>3, <1>1 DEF TypeOK, ConsumerTypes
<1>3. ASSUME NEW e \in Events, Publish(e) \/ ExpireClaim(e) PROVE InboxInv'
  BY <1>3, <1>0 DEF Publish, ExpireClaim
<1>4. ASSUME NEW c \in Consumers, Step(c) PROVE InboxInv'
  <2>0. InboxUse(c)
    BY DEF InboxInv
  <2>1. CASE PollPending(c)
    <3>1. InboxUse(c)'
      BY <2>0, <2>1 DEF PollPending, InboxUse, Dispatching, TypeOK, ConsumerTypes
    <3> QED BY <2>1, <3>1, <1>1 DEF PollPending, TypeOK, ConsumerTypes
  <2>2. CASE GiveUp(c)
    <3>1. pc[c] = "reclaim" /\ pc' = [pc EXCEPT ![c] = "lookUp"] /\ UNCHANGED <<phase, inbox>>
          /\ \A d \in Consumers \ {c} : cur'[d] = cur[d]
      BY <2>2 DEF GiveUp, NextEntry, TypeOK, ConsumerTypes
    <3>2. InboxUse(c)'
      BY <2>0, <3>1 DEF InboxUse, Dispatching, TypeOK, ConsumerTypes
    <3> QED BY <3>1, <3>2, <1>1 DEF TypeOK, ConsumerTypes
  <2>3. CASE Reclaim(c)
    <3>1. pc[c] = "reclaim" /\ UNCHANGED <<phase, inbox>> /\ pc'[c] \in Dispatching
          /\ \A d \in Consumers \ {c} : cur'[d] = cur[d] /\ pc'[d] = pc[d]
      BY <2>3, FirstStepDispatches DEF Reclaim, NextEntry, TypeOK, ConsumerTypes
    <3>2. InboxUse(c)'
      BY <2>0, <3>1 DEF InboxUse, Dispatching
    <3> QED BY <3>1, <3>2, <1>1
  <2>4. CASE ReclaimTrimmed(c) \/ ReclaimMissed(c)
    BY <2>4, <1>0 DEF ReclaimTrimmed, ReclaimMissed
  <2>5. CASE ReclaimDone(c) \/ DrainDone(c)
    <3>1. InboxUse(c)'
      BY <2>0, <2>5 DEF ReclaimDone, DrainDone, InboxUse, Dispatching, TypeOK, ConsumerTypes
    <3> QED BY <2>5, <3>1, <1>1 DEF ReclaimDone, DrainDone, TypeOK, ConsumerTypes
  <2>6. CASE ReadNew(c)
    <3>1. /\ pc' = [pc EXCEPT ![c] = "drain"] /\ phase' = [phase EXCEPT ![c] = "drain"]
          /\ UNCHANGED cur /\ \A d \in Consumers \ {c} : inbox'[d] = inbox[d]
      BY <2>6 DEF ReadNew, TypeOK, ConsumerTypes
    <3>2. InboxUse(c)'
      BY <3>1 DEF InboxUse, Dispatching, TypeOK, ConsumerTypes
    <3> QED BY <3>1, <3>2, <1>1 DEF TypeOK, ConsumerTypes
  <2>7. CASE DispatchNew(c)
    <3>1. PICK m \in inbox[c] :
            /\ pc[c] = "drain" /\ cur' = [cur EXCEPT ![c] = m]
            /\ inbox' = [inbox EXCEPT ![c] = inbox[c] \ {m}]
            /\ pc' = [pc EXCEPT ![c] = FirstStep(stream[m])] /\ UNCHANGED phase
      BY <2>7 DEF DispatchNew, IsFirst
    <3>2. InboxUse(c)'
      BY <2>0, <3>1, FirstStepDispatches DEF InboxUse, Dispatching, TypeOK, ConsumerTypes
    <3> QED BY <3>1, <3>2, <1>1 DEF TypeOK, ConsumerTypes
  <2>8. CASE TakeClaim(c) \/ SkipDuplicate(c) \/ HandlerSucceeds(c) \/ HandlerFails(c) \/ Release(c)
             \/ Ack(c) \/ DeadLetter(c)
    BY <2>8, <1>2 DEF TakeClaim, SkipDuplicate, HandlerSucceeds, HandlerFails, Release, Ack,
                      DeadLetter, Dispatching
  <2>9. CASE LookUp(c)
    BY <2>9, <1>2 DEF LookUp, Dispatching
  <2> QED BY <1>4, <2>1, <2>2, <2>3, <2>4, <2>5, <2>6, <2>7, <2>8, <2>9 DEF Step
<1>5. ASSUME NEW c \in Consumers, ClaimFails(c) \/ ReleaseFails(c) PROVE InboxInv'
  BY <1>5, <1>2 DEF ClaimFails, ReleaseFails, Dispatching
<1>6. ASSUME NEW c \in Consumers, Stop(c) \/ Restart(c) PROVE InboxInv'
  <2>1. InboxUse(c)'
    BY <1>6 DEF Stop, Restart, InboxInv, InboxUse, Dispatching, TypeOK, ConsumerTypes
  <2> QED BY <1>6, <2>1, <1>1 DEF Stop, Restart, TypeOK, ConsumerTypes
<1>7. ASSUME NEW m \in MsgIds, GoIdle(m) PROVE InboxInv'
  BY <1>7, <1>0 DEF GoIdle
<1>8. CASE UNCHANGED vars
  BY <1>8, <1>0 DEF vars
<1> QED BY <1>3, <1>4, <1>5, <1>6, <1>7, <1>8 DEF Next

(* A claim without a success or an orphaned run is being run. *)

LEMMA ExplainedInit == Init => ClaimsExplained
BY DEF Init, ClaimsExplained

LEMMA ExplainedNext ==
  TypeOK /\ TypeOK' /\ ClaimsExplained /\ [Next]_vars => ClaimsExplained'
<1> SUFFICES ASSUME TypeOK, TypeOK', ClaimsExplained, [Next]_vars PROVE ClaimsExplained'
  OBVIOUS
<1>0. Advances
  BY NextAdvances
\* Runs end only for events that are done with.
<1>1. ASSUME \A e \in claims' : e \in claims \/ BeingRun(e)' \/ e \in orphaned',
             \A d \in Consumers : Running(d) /\ EventAt(d) \in claims' =>
               \/ Running(d)' /\ EventAt(d)' = EventAt(d)
               \/ handled'[EventAt(d)] > 0
               \/ EventAt(d) \in orphaned'
      PROVE  ClaimsExplained'
  <2> SUFFICES ASSUME NEW e \in claims', e \in claims
               PROVE  handled'[e] > 0 \/ e \in orphaned' \/ BeingRun(e)'
    BY <1>1 DEF ClaimsExplained
  <2>1. CASE handled[e] > 0
    <3>1. e \in Events /\ handled[e] \in Nat /\ handled'[e] \in Nat
      BY DEF TypeOK, HistoryTypes
    <3> QED BY <2>1, <3>1, <1>0 DEF Advances
  <2>2. CASE e \in orphaned
    BY <2>2, <1>0 DEF Advances
  <2>3. CASE BeingRun(e)
    <3>1. PICK d \in Consumers : Running(d) /\ EventAt(d) = e
      BY <2>3 DEF BeingRun
    <3> QED BY <3>1, <1>1 DEF BeingRun
  <2> QED BY <2>1, <2>2, <2>3 DEF ClaimsExplained
<1>2. ASSUME NEW c \in Consumers, UNCHANGED <<stream, claims>>, ~Running(c),
             \A d \in Consumers \ {c} : pc'[d] = pc[d] /\ cur'[d] = cur[d]
      PROVE  ClaimsExplained'
  BY <1>2, <1>1 DEF Running, EventAt
<1>3. ASSUME UNCHANGED <<pc, cur>>, claims' \subseteq claims PROVE ClaimsExplained'
  <2>1. ASSUME NEW d \in Consumers, Running(d) PROVE Running(d)' /\ EventAt(d)' = EventAt(d)
    <3>1. cur[d] \in 1..Len(stream)
      BY <2>1, CurrentEvent DEF Running, Dispatching, TypeOK, BrokerTypes
    <3> QED BY <1>3, <2>1, <3>1, <1>0 DEF Running, EventAt, Advances
  <2> QED BY <1>3, <2>1, <1>1
<1>4. ASSUME NEW e \in Events, Publish(e) \/ ExpireClaim(e) PROVE ClaimsExplained'
  BY <1>4, <1>3 DEF Publish, ExpireClaim
<1>5. ASSUME NEW c \in Consumers, Step(c) PROVE ClaimsExplained'
  <2>1. CASE PollPending(c) \/ GiveUp(c) \/ Reclaim(c)
    BY <2>1, <1>2 DEF PollPending, GiveUp, Reclaim, NextEntry, Running, TypeOK, ConsumerTypes
  <2>2. CASE ReclaimTrimmed(c) \/ ReclaimMissed(c)
    BY <2>2, <1>3 DEF ReclaimTrimmed, ReclaimMissed
  <2>3. CASE ReclaimDone(c) \/ ReadNew(c) \/ DrainDone(c)
    BY <2>3, <1>2 DEF ReclaimDone, ReadNew, DrainDone, Running, TypeOK, ConsumerTypes
  <2>4. CASE DispatchNew(c)
    <3>1. PICK m \in MsgIds : cur' = [cur EXCEPT ![c] = m] /\ pc' = [pc EXCEPT ![c] = FirstStep(stream[m])]
      BY <2>4 DEF DispatchNew
    <3> QED BY <2>4, <3>1, <1>2 DEF DispatchNew, Running, TypeOK, ConsumerTypes
  <2>5. CASE TakeClaim(c)
    <3>1. /\ claims' = claims \cup {EventAt(c)} /\ pc' = [pc EXCEPT ![c] = "handle"]
          /\ UNCHANGED <<stream, cur>> /\ pc[c] = "claim"
      BY <2>5 DEF TakeClaim
    <3>2. \A e \in Events : e = EventAt(c) => BeingRun(e)'
      BY <3>1 DEF BeingRun, Running, EventAt, TypeOK, ConsumerTypes
    <3>3. \A d \in Consumers : Running(d) => Running(d)' /\ EventAt(d)' = EventAt(d)
      BY <3>1 DEF Running, EventAt, TypeOK, ConsumerTypes
    <3>4. EventAt(c) \in Events
      BY <3>1, CurrentEvent DEF Dispatching
    <3> QED BY <3>1, <3>2, <3>3, <3>4, <1>1
  <2>6. CASE SkipDuplicate(c) \/ Ack(c) \/ LookUp(c) \/ DeadLetter(c)
    BY <2>6, <1>2 DEF SkipDuplicate, Ack, LookUp, DeadLetter, Running, TypeOK, ConsumerTypes
  <2>7. CASE HandlerSucceeds(c)
    <3>1. /\ handled' = [handled EXCEPT ![EventAt(c)] = @ + 1] /\ pc' = [pc EXCEPT ![c] = "ack"]
          /\ UNCHANGED <<stream, cur, claims>> /\ pc[c] = "handle"
      BY <2>7 DEF HandlerSucceeds
    <3>2. EventAt(c) \in Events
      BY <3>1, CurrentEvent DEF Dispatching
    <3>3. handled'[EventAt(c)] > 0
      BY <3>1, <3>2 DEF TypeOK, HistoryTypes
    <3>4. \A d \in Consumers \ {c} : Running(d) => Running(d)' /\ EventAt(d)' = EventAt(d)
      BY <3>1 DEF Running, EventAt, TypeOK, ConsumerTypes
    <3> QED BY <3>1, <3>3, <3>4, <1>1
  <2>8. CASE HandlerFails(c)
    <3>1. \A d \in Consumers : Running(d) => Running(d)' /\ EventAt(d)' = EventAt(d)
      BY <2>8 DEF HandlerFails, Running, EventAt, TypeOK, ConsumerTypes
    <3> QED BY <2>8, <3>1, <1>1 DEF HandlerFails
  <2>9. CASE Release(c)
    <3>1. /\ claims' = claims \ {EventAt(c)} /\ UNCHANGED <<stream, cur>>
          /\ \A d \in Consumers \ {c} : pc'[d] = pc[d]
      BY <2>9 DEF Release, TypeOK, ConsumerTypes
    <3> QED BY <3>1, <1>1 DEF Running, EventAt
  <2> QED BY <1>5, <2>1, <2>2, <2>3, <2>4, <2>5, <2>6, <2>7, <2>8, <2>9 DEF Step
<1>6. ASSUME NEW c \in Consumers, ClaimFails(c) PROVE ClaimsExplained'
  <2>1. UNCHANGED <<stream, cur>> /\ pc[c] = "claim" /\ \A d \in Consumers \ {c} : pc'[d] = pc[d]
    BY <1>6 DEF ClaimFails, TypeOK, ConsumerTypes
  <2>2. \A e \in claims' : e \in claims \/ e \in orphaned'
    BY <1>6 DEF ClaimFails
  <2> QED BY <2>1, <2>2, <1>1 DEF Running, EventAt
<1>7. ASSUME NEW c \in Consumers, ReleaseFails(c) \/ Stop(c) PROVE ClaimsExplained'
  <2>1. UNCHANGED <<stream, cur, claims>> /\ \A d \in Consumers \ {c} : pc'[d] = pc[d]
    BY <1>7 DEF ReleaseFails, Stop, TypeOK, ConsumerTypes
  <2>2. Running(c) => EventAt(c) \in orphaned'
    BY <1>7 DEF ReleaseFails, Stop
  <2> QED BY <2>1, <2>2, <1>1 DEF Running, EventAt
<1>8. ASSUME NEW c \in Consumers, Restart(c) PROVE ClaimsExplained'
  BY <1>8, <1>2 DEF Restart, Running, TypeOK, ConsumerTypes
<1>9. ASSUME NEW m \in MsgIds, GoIdle(m) PROVE ClaimsExplained'
  BY <1>9, <1>3 DEF GoIdle
<1>10. CASE UNCHANGED vars
  BY <1>10, <1>3 DEF vars
<1> QED BY <1>4, <1>5, <1>6, <1>7, <1>8, <1>9, <1>10 DEF Next

(* MAXLEN never removes the newest MaxStreamLength entries. *)

LEMMA TrimmingInit == Init => TrimmingKeeps
BY DEF Init, TrimmingKeeps

LEMMA TrimmingNext == TypeOK /\ TrimmingKeeps /\ [Next]_vars => TrimmingKeeps'
<1> SUFFICES ASSUME TypeOK, TrimmingKeeps, [Next]_vars PROVE TrimmingKeeps'
  OBVIOUS
<1>0. ASSUME UNCHANGED <<stream, trimmed>> PROVE TrimmingKeeps'
  BY <1>0 DEF TrimmingKeeps
<1>1. ASSUME NEW e \in Events, Publish(e) PROVE TrimmingKeeps'
  <2>1. /\ stream' = Append(stream, e)
        /\ trimmed' = trimmed \/ trimmed' + MaxStreamLength <= Len(stream) + 1
    BY <1>1 DEF Publish
  <2>2. Len(stream') = Len(stream) + 1 /\ Len(stream) \in Nat /\ trimmed \in Nat
    BY <2>1 DEF TypeOK, BrokerTypes
  <2> QED BY <2>1, <2>2, SettingsAssumption DEF TrimmingKeeps
<1>2. ASSUME NEW e \in Events, ExpireClaim(e) PROVE TrimmingKeeps'
  BY <1>2, <1>0 DEF ExpireClaim
<1>3. ASSUME NEW c \in Consumers, Step(c) PROVE TrimmingKeeps'
  BY <1>3, <1>0 DEF Step, PollPending, GiveUp, Reclaim, ReclaimTrimmed, ReclaimMissed, ReclaimDone,
     ReadNew, DispatchNew, DrainDone, TakeClaim, SkipDuplicate, HandlerSucceeds, HandlerFails,
     Release, Ack, LookUp, DeadLetter
<1>4. ASSUME NEW c \in Consumers, ClaimFails(c) \/ ReleaseFails(c) \/ Stop(c) \/ Restart(c)
      PROVE  TrimmingKeeps'
  BY <1>4, <1>0 DEF ClaimFails, ReleaseFails, Stop, Restart
<1>5. ASSUME NEW m \in MsgIds, GoIdle(m) PROVE TrimmingKeeps'
  BY <1>5, <1>0 DEF GoIdle
<1>6. CASE UNCHANGED vars
  BY <1>6, <1>0 DEF vars
<1> QED BY <1>1, <1>2, <1>3, <1>4, <1>5, <1>6 DEF Next

(* A message is owned by one consumer at a time. *)

LEMMA OwnedIsDelivered ==
  ASSUME TypeOK, NEW c \in Consumers, NEW m \in Owned(c)
  PROVE  m \in 1..delivered /\ m \in MsgIds
<1>1. CASE m \in inbox[c]
  BY <1>1, BoundsAssumption DEF TypeOK, BrokerTypes, ConsumerTypes
<1>2. CASE m \notin inbox[c]
  <2>1. m = cur[c] /\ pc[c] \in Dispatching
    BY <1>2 DEF Owned, Dispatching
  <2> QED BY <2>1, CurrentEvent
<1> QED BY <1>1, <1>2

\* A step that lets only c own more, and only messages that nobody else owns,
\* keeps Possession.
LEMMA PossessionKept ==
  ASSUME TypeOK, Possession, Advances, NEW c \in Consumers,
         \A d \in Consumers \ {c} : Owned(d)' \subseteq Owned(d),
         \A m \in Owned(c)' \ Owned(c) :
            \/ dlq'[m] # {}
            \/ m \in pending' \ idle' /\ \A d \in Consumers \ {c} : m \notin Owned(d),
         \A d \in Consumers : \A m \in Owned(d) \cap Owned(d)' :
            m \in pending \ idle => m \in pending' \ idle' \/ dlq[m] # {}
  PROVE  Possession'
<1> SUFFICES ASSUME NEW d \in Consumers, NEW m \in Owned(d)', dlq'[m] = {}
             PROVE  m \in pending' \ idle' /\ \A x \in Consumers \ {d} : m \notin Owned(x)'
  BY DEF Possession, OwnedWell
<1>1. CASE m \in Owned(d)
  <2>1. dlq[m] = {}
    BY <1>1, OwnedIsDelivered DEF Advances
  <2>2. m \in pending \ idle /\ \A x \in Consumers \ {d} : m \notin Owned(x)
    BY <1>1, <2>1 DEF Possession, OwnedWell
  <2>3. m \in pending' \ idle'
    BY <1>1, <2>1, <2>2
  <2>4. ASSUME NEW x \in Consumers \ {d} PROVE m \notin Owned(x)'
    BY <1>1, <2>2, <2>4
  <2> QED BY <2>3, <2>4
<1>2. CASE m \notin Owned(d)
  BY <1>2
<1> QED BY <1>1, <1>2

LEMMA PossessionInit == Init => Possession
BY DEF Init, Possession, Owned

LEMMA PossessionNext ==
  ASSUME PatientReclaim
  PROVE  TypeOK /\ TypeOK' /\ InboxInv /\ Possession /\ [Next]_vars => Possession'
<1> SUFFICES ASSUME TypeOK, TypeOK', InboxInv, Possession, [Next]_vars PROVE Possession'
  OBVIOUS
<1>0. Advances
  BY NextAdvances
\* Nobody owns more, and what leaves the pending list is not owned any more.
<1>1. ASSUME \A d \in Consumers : Owned(d)' \subseteq Owned(d),
             \A d \in Consumers : \A m \in Owned(d) \cap Owned(d)' :
                m \in pending \ idle => m \in pending' \ idle' \/ dlq[m] # {}
      PROVE  Possession'
  <2>1. PICK c \in Consumers : TRUE
    BY ConsumersAssumption
  <2> QED BY <1>0, <1>1, <2>1, PossessionKept
<1>2. ASSUME NEW c \in Consumers, UNCHANGED <<pending, idle, inbox, cur>>,
             pc'[c] \in {"claim", "handle", "release", "ack"} =>
               pc[c] \in {"claim", "handle", "release", "ack"},
             \A d \in Consumers \ {c} : pc'[d] = pc[d]
      PROVE  Possession'
  <2>1. \A d \in Consumers : Owned(d)' \subseteq Owned(d)
    BY <1>2 DEF Owned
  <2> QED BY <1>1, <1>2, <2>1
<1>3. ASSUME NEW e \in Events, Publish(e) \/ ExpireClaim(e) PROVE Possession'
  BY <1>3, <1>1 DEF Publish, ExpireClaim, Owned
<1>4. ASSUME NEW c \in Consumers, Step(c) PROVE Possession'
  <2>1. CASE PollPending(c) \/ ReclaimDone(c) \/ DrainDone(c) \/ LookUp(c) \/ Release(c)
             \/ TakeClaim(c) \/ SkipDuplicate(c) \/ HandlerSucceeds(c) \/ HandlerFails(c)
    <3>1. UNCHANGED <<pending, idle, inbox, cur>> /\ \A d \in Consumers \ {c} : pc'[d] = pc[d]
      BY <2>1 DEF PollPending, ReclaimDone, DrainDone, LookUp, Release, TakeClaim, SkipDuplicate,
                  HandlerSucceeds, HandlerFails, TypeOK, ConsumerTypes
    <3>2. pc'[c] \in {"claim", "handle", "release", "ack"} =>
            pc[c] \in {"claim", "handle", "release", "ack"}
      BY <2>1 DEF PollPending, ReclaimDone, DrainDone, LookUp, Release, TakeClaim, SkipDuplicate,
                  HandlerSucceeds, HandlerFails, TypeOK, ConsumerTypes
    <3> QED BY <3>1, <3>2, <1>2
  <2>2. CASE GiveUp(c)
    <3>1. pc' = [pc EXCEPT ![c] = "lookUp"] /\ pc[c] = "reclaim" /\ UNCHANGED <<pending, idle, inbox>>
          /\ \A d \in Consumers \ {c} : cur'[d] = cur[d]
      BY <2>2 DEF GiveUp, NextEntry, TypeOK, ConsumerTypes
    <3>2. \A d \in Consumers : Owned(d)' \subseteq Owned(d)
      BY <3>1 DEF Owned, TypeOK, ConsumerTypes
    <3> QED BY <3>1, <3>2, <1>1
  <2>3. CASE Reclaim(c)
    <3>1. PICK m \in MsgIds :
            /\ m \in pending \cap idle /\ pc[c] = "reclaim"
            /\ idle' = idle \ {m} /\ cur' = [cur EXCEPT ![c] = m]
            /\ pc' = [pc EXCEPT ![c] = FirstStep(stream[m])] /\ UNCHANGED <<pending, inbox, dlq>>
      BY <2>3 DEF Reclaim, NextEntry
    <3>2. \A d \in Consumers \ {c} : Owned(d)' = Owned(d)
      BY <3>1 DEF Owned, TypeOK, ConsumerTypes
    <3>3. Owned(c)' \subseteq Owned(c) \cup {m}
      BY <3>1 DEF Owned, TypeOK, ConsumerTypes
    <3>4. \A d \in Consumers \ {c} : m \in Owned(d) => dlq'[m] # {}
      BY <3>1 DEF Possession, OwnedWell
    <3>5. \/ dlq'[m] # {}
          \/ m \in pending' \ idle' /\ \A d \in Consumers \ {c} : m \notin Owned(d)
      <4>1. m \in pending' \ idle'
        BY <3>1
      <4>2. dlq'[m] # {} \/ \A d \in Consumers \ {c} : m \notin Owned(d)
        BY <3>4
      <4> QED BY <4>1, <4>2
    <3>6. \A n : n \in pending \ idle => n \in pending' \ idle'
      BY <3>1
    <3> QED BY <1>0, <3>2, <3>3, <3>5, <3>6, PossessionKept
  <2>4. CASE ReclaimTrimmed(c)
    <3>1. PICK m \in MsgIds : m \in idle /\ pending' = pending \ {m} /\ idle' = idle \ {m}
                              /\ UNCHANGED <<pc, cur, inbox>>
      BY <2>4 DEF ReclaimTrimmed
    <3> QED BY <3>1, <1>1 DEF Owned
  <2>5. CASE ReclaimMissed(c)
    BY <2>5, <1>1 DEF ReclaimMissed, Owned
  <2>6. CASE ReadNew(c)
    <3> DEFINE first == (IF delivered < trimmed THEN trimmed ELSE delivered) + 1
               last  == IF first + BatchSize - 1 < Len(stream) THEN first + BatchSize - 1
                                                               ELSE Len(stream)
    <3>1. /\ inbox' = [inbox EXCEPT ![c] = first..last] /\ pending' = pending \cup (first..last)
          /\ pc' = [pc EXCEPT ![c] = "drain"] /\ UNCHANGED <<idle, cur, dlq>>
      BY <2>6 DEF ReadNew
    <3>2. delivered < first /\ first \in Nat /\ last \in Nat /\ delivered \in Nat
      BY SettingsAssumption DEF TypeOK, BrokerTypes
    <3> HIDE DEF first, last
    <3>3. \A d \in Consumers \ {c} : Owned(d)' = Owned(d)
      BY <3>1 DEF Owned, TypeOK, ConsumerTypes
    <3>4. Owned(c)' \subseteq Owned(c) \cup (first..last)
      BY <3>1 DEF Owned, TypeOK, ConsumerTypes
    <3>5. \A m \in first..last : m \notin 1..delivered
      BY <3>2
    <3>6. idle \subseteq 1..delivered
      BY DEF TypeOK, BrokerTypes
    <3>7. \A m \in first..last : m \in pending' \ idle' /\ \A d \in Consumers \ {c} : m \notin Owned(d)
      BY <3>1, <3>5, <3>6, OwnedIsDelivered
    <3> QED BY <1>0, <3>1, <3>3, <3>4, <3>7, PossessionKept
  <2>7. CASE DispatchNew(c)
    <3>1. PICK m \in inbox[c] :
            /\ cur' = [cur EXCEPT ![c] = m] /\ inbox' = [inbox EXCEPT ![c] = inbox[c] \ {m}]
            /\ pc' = [pc EXCEPT ![c] = FirstStep(stream[m])] /\ UNCHANGED brokerVars
      BY <2>7 DEF DispatchNew, IsFirst
    <3>2. \A d \in Consumers : Owned(d)' \subseteq Owned(d)
      BY <3>1 DEF Owned, TypeOK, ConsumerTypes
    <3> QED BY <3>1, <3>2, <1>1
  <2>8. CASE Ack(c)
    <3>1. /\ pc[c] = "ack" /\ pending' = pending \ {cur[c]} /\ idle' = idle \ {cur[c]}
          /\ pc' = [pc EXCEPT ![c] = phase[c]] /\ UNCHANGED <<cur, inbox>>
      BY <2>8 DEF Ack
    <3>2. phase[c] \in {"reclaim", "drain"} /\ cur[c] \notin inbox[c]
      BY <3>1 DEF InboxInv, InboxUse, Dispatching, TypeOK, ConsumerTypes
    <3>3. \A d \in Consumers : Owned(d)' \subseteq Owned(d)
      BY <3>1, <3>2 DEF Owned, TypeOK, ConsumerTypes
    <3>4. cur[c] \notin Owned(c)'
      BY <3>1, <3>2 DEF Owned, TypeOK, ConsumerTypes
    <3>5. \A d \in Consumers \ {c} : cur[c] \in Owned(d) => dlq[cur[c]] # {}
      <4>1. cur[c] \in Owned(c)
        BY <3>1 DEF Owned
      <4> QED BY <4>1 DEF Possession, OwnedWell
    <3> QED BY <3>1, <3>3, <3>4, <3>5, <1>1
  <2>9. CASE DeadLetter(c)
    <3>1. /\ pc' = [pc EXCEPT ![c] = "ack"] /\ UNCHANGED <<pending, idle, cur, inbox>>
          /\ pc[c] \in Dispatching
      BY <2>9 DEF DeadLetter, Dispatching
    <3>2. dlq'[cur[c]] # {}
      BY <2>9, <3>1, CurrentEvent DEF DeadLetter, TypeOK, BrokerTypes
    <3>3. \A d \in Consumers \ {c} : Owned(d)' = Owned(d)
      BY <3>1 DEF Owned, TypeOK, ConsumerTypes
    <3>4. Owned(c)' \subseteq Owned(c) \cup {cur[c]}
      BY <3>1 DEF Owned, TypeOK, ConsumerTypes
    <3>5. \A m \in Owned(c)' \ Owned(c) : dlq'[m] # {}
      BY <3>2, <3>4
    <3>6. \A d \in Consumers : \A m \in Owned(d) \cap Owned(d)' :
            m \in pending \ idle => m \in pending' \ idle'
      BY <3>1
    <3> QED BY <1>0, <3>3, <3>5, <3>6, PossessionKept
  <2> QED BY <1>4, <2>1, <2>2, <2>3, <2>4, <2>5, <2>6, <2>7, <2>8, <2>9 DEF Step
<1>5. ASSUME NEW c \in Consumers, ClaimFails(c) \/ ReleaseFails(c) \/ Restart(c) PROVE Possession'
  <2>1. UNCHANGED <<pending, idle, inbox, cur>> /\ \A d \in Consumers \ {c} : pc'[d] = pc[d]
    BY <1>5 DEF ClaimFails, ReleaseFails, Restart, TypeOK, ConsumerTypes
  <2>2. pc'[c] \notin {"claim", "handle", "release", "ack"}
    BY <1>5 DEF ClaimFails, ReleaseFails, Restart, TypeOK, ConsumerTypes
  <2> QED BY <2>1, <2>2, <1>2
<1>6. ASSUME NEW c \in Consumers, Stop(c) PROVE Possession'
  <2>1. /\ pc' = [pc EXCEPT ![c] = "down"] /\ inbox' = [inbox EXCEPT ![c] = {}]
        /\ UNCHANGED <<pending, idle, cur>>
    BY <1>6 DEF Stop
  <2>2. \A d \in Consumers : Owned(d)' \subseteq Owned(d)
    BY <2>1 DEF Owned, TypeOK, ConsumerTypes
  <2> QED BY <2>1, <2>2, <1>1
<1>7. ASSUME NEW m \in MsgIds, GoIdle(m) PROVE Possession'
  <2>1. \A d \in Consumers : m \notin Held(d)
    BY <1>7 DEF GoIdle
  <2>2. \A d \in Consumers : m \notin Owned(d)
    BY <2>1 DEF Held, Owned, Dispatching
  <2>3. \A d \in Consumers : Owned(d)' = Owned(d)
    BY <1>7 DEF GoIdle, Owned
  <2> QED BY <1>7, <2>2, <2>3, <1>1 DEF GoIdle
<1>8. CASE UNCHANGED vars
  BY <1>8, <1>1 DEF vars, Owned
<1> QED BY <1>3, <1>4, <1>5, <1>6, <1>7, <1>8 DEF Next

(* What is not settled is kept. *)

\* An event that is settled stays settled.
LEMMA SettledLasts ==
  ASSUME TypeOK, TypeOK', Advances, NEW e \in Events, Settled(e)
  PROVE  Settled(e)'
<1>1. handled[e] \in Nat /\ handled'[e] \in Nat
  BY DEF TypeOK, HistoryTypes
<1>2. CASE \E m \in 1..Len(stream) : stream[m] = e /\ (dlq[m] # {} \/ m <= trimmed)
  <2>1. PICK m \in 1..Len(stream) : stream[m] = e /\ (dlq[m] # {} \/ m <= trimmed)
    BY <1>2
  <2>2. m \in MsgIds /\ m \in 1..Len(stream') /\ stream'[m] = e
    BY <2>1, BoundsAssumption DEF Advances, TypeOK, BrokerTypes
  <2>3. dlq'[m] # {} \/ m <= trimmed'
    BY <2>1, <2>2 DEF Advances, TypeOK, BrokerTypes
  <2> QED BY <2>2, <2>3 DEF Settled
<1> QED BY <1>1, <1>2 DEF Settled, Advances

LEMMA KeptInit == Init => SettledOrKept
BY DEF Init, SettledOrKept

LEMMA KeptNext ==
  TypeOK /\ TypeOK' /\ ClaimsExplained /\ SettledOrKept /\ [Next]_vars => SettledOrKept'
<1> SUFFICES ASSUME TypeOK, TypeOK', ClaimsExplained, SettledOrKept, [Next]_vars
             PROVE  SettledOrKept'
  OBVIOUS
<1>0. Advances
  BY NextAdvances
\* A copy that is not kept any more leaves another one, or a settled event.
<1>1. ASSUME UNCHANGED stream,
             \A m \in 1..Len(stream) : Kept(m) =>
               \/ Settled(stream[m])'
               \/ \E n \in 1..Len(stream) : stream[n] = stream[m] /\ Kept(n)'
      PROVE  SettledOrKept'
  <2> SUFFICES ASSUME NEW m \in 1..Len(stream), ~Settled(stream[m])'
               PROVE  \E n \in 1..Len(stream) : stream[n] = stream[m] /\ Kept(n)'
    BY <1>1 DEF SettledOrKept
  <2>1. stream[m] \in Events
    BY DEF TypeOK, BrokerTypes
  <2>2. \A e \in Events : e = stream[m] => ~Settled(e)
    BY <1>0, <1>1, SettledLasts
  <2>3. PICK n \in 1..Len(stream) : stream[n] = stream[m] /\ Kept(n)
    BY <2>1, <2>2 DEF SettledOrKept
  <2> QED BY <1>1, <2>3
<1>2. ASSUME UNCHANGED stream, \A m \in 1..Len(stream) : Kept(m) => Kept(m)' PROVE SettledOrKept'
  BY <1>1, <1>2
\* c starts no acknowledgement and no message is let go.
<1>3. ASSUME NEW c \in Consumers, UNCHANGED <<stream, pending, delivered>>, pc'[c] # "ack",
             \A d \in Consumers \ {c} : pc'[d] = pc[d] /\ cur'[d] = cur[d]
      PROVE  SettledOrKept'
  BY <1>2, <1>3 DEF Kept, AboutToAck
\* c starts to acknowledge a message whose event is settled.
<1>4. ASSUME NEW c \in Consumers, NEW m \in 1..Len(stream), UNCHANGED <<stream, pending, delivered>>,
             cur'[c] = m, Settled(stream[m])',
             \A d \in Consumers \ {c} : pc'[d] = pc[d] /\ cur'[d] = cur[d]
      PROVE  SettledOrKept'
  <2>1. ASSUME NEW n \in 1..Len(stream), Kept(n), n # m PROVE Kept(n)'
    BY <1>4, <2>1 DEF Kept, AboutToAck
  <2> QED BY <1>1, <1>4, <2>1
<1>5. ASSUME NEW e \in Events, Publish(e) PROVE SettledOrKept'
  <2>1. /\ Len(stream') = Len(stream) + 1 /\ \A m \in 1..Len(stream) : stream'[m] = stream[m]
        /\ stream'[Len(stream) + 1] = e
        /\ UNCHANGED <<delivered, pending, pc, cur>>
    BY <1>5 DEF Publish, TypeOK, BrokerTypes
  <2>2. Len(stream) \in Nat /\ delivered \in 0..Len(stream)
    BY DEF TypeOK, BrokerTypes
  <2>3. \A m : m = Len(stream) + 1 => Kept(m)'
    BY <2>1, <2>2 DEF Kept, AboutToAck, TypeOK, ConsumerTypes
  <2> SUFFICES ASSUME NEW m \in 1..Len(stream'), ~Settled(stream[m])'
               PROVE  \E n \in 1..Len(stream') : stream'[n] = stream'[m] /\ Kept(n)'
    BY DEF SettledOrKept
  <2>4. CASE m = Len(stream) + 1
    <3>1. m \in 1..Len(stream') /\ Kept(m)'
      BY <2>3, <2>4
    <3> QED BY <3>1
  <2>5. CASE m # Len(stream) + 1
    <3>1. m \in 1..Len(stream) /\ stream[m] \in Events /\ stream'[m] = stream[m]
      BY <2>1, <2>2, <2>5 DEF TypeOK, BrokerTypes
    <3>2. \A f \in Events : f = stream[m] => ~Settled(f)
      BY <1>0, <3>1, SettledLasts
    <3>3. PICK n \in 1..Len(stream) : stream[n] = stream[m] /\ Kept(n)
      BY <3>1, <3>2 DEF SettledOrKept
    <3>4. Kept(n)' /\ n \in 1..Len(stream') /\ stream'[n] = stream'[m]
      BY <2>1, <2>2, <3>1, <3>3 DEF Kept, AboutToAck
    <3> QED BY <3>4
  <2> QED BY <2>4, <2>5
<1>6. ASSUME NEW e \in Events, ExpireClaim(e) PROVE SettledOrKept'
  BY <1>6, <1>2 DEF ExpireClaim, Kept, AboutToAck
<1>7. ASSUME NEW c \in Consumers, Step(c) PROVE SettledOrKept'
  <2>1. CASE PollPending(c) \/ ReclaimDone(c) \/ DrainDone(c) \/ TakeClaim(c) \/ HandlerFails(c)
             \/ Release(c) \/ LookUp(c)
    <3>1. phase[c] \in {"reclaim", "drain"}
      BY DEF TypeOK, ConsumerTypes
    <3>2. pc'[c] # "ack" /\ \A d \in Consumers \ {c} : pc'[d] = pc[d]
      BY <2>1, <3>1 DEF PollPending, ReclaimDone, DrainDone, TakeClaim, HandlerFails, Release, LookUp,
                        TypeOK, ConsumerTypes
    <3>3. UNCHANGED <<stream, pending, delivered, cur>>
      BY <2>1 DEF PollPending, ReclaimDone, DrainDone, TakeClaim, HandlerFails, Release, LookUp
    <3> QED BY <3>2, <3>3, <1>3
  <2>2. CASE GiveUp(c)
    <3>1. /\ pc' = [pc EXCEPT ![c] = "lookUp"] /\ UNCHANGED <<stream, pending, delivered>>
          /\ \A d \in Consumers \ {c} : cur'[d] = cur[d]
      BY <2>2 DEF GiveUp, TypeOK, ConsumerTypes
    <3> QED BY <3>1, <1>3 DEF TypeOK, ConsumerTypes
  <2>3. CASE Reclaim(c) \/ DispatchNew(c)
    <3>1. PICK m \in MsgIds :
            /\ cur' = [cur EXCEPT ![c] = m] /\ pc' = [pc EXCEPT ![c] = FirstStep(stream[m])]
            /\ UNCHANGED <<stream, pending, delivered>>
            /\ m \in todo[c] \/ m \in inbox[c]
      BY <2>3 DEF Reclaim, DispatchNew, NextEntry, IsFirst
    <3>2. m \in 1..Len(stream)
      BY <3>1 DEF TypeOK, BrokerTypes, ConsumerTypes
    <3>3. \A d \in Consumers \ {c} : pc'[d] = pc[d] /\ cur'[d] = cur[d]
      BY <3>1 DEF TypeOK, ConsumerTypes
    <3>4. CASE FirstStep(stream[m]) = "ack"
      <4>1. Settled(stream[m])'
        BY <3>1, <3>4 DEF FirstStep, Settled
      <4> QED BY <3>1, <3>2, <3>3, <4>1, <1>4 DEF TypeOK, ConsumerTypes
    <3>5. CASE FirstStep(stream[m]) # "ack"
      BY <3>1, <3>3, <3>5, <1>3 DEF TypeOK, ConsumerTypes
    <3> QED BY <3>4, <3>5
  <2>4. CASE ReclaimTrimmed(c)
    <3>1. PICK m \in MsgIds : /\ m <= trimmed /\ pending' = pending \ {m}
                              /\ UNCHANGED <<stream, trimmed, delivered, pc, cur>>
      BY <2>4 DEF ReclaimTrimmed
    <3>2. ASSUME NEW n \in 1..Len(stream), Kept(n), n # m PROVE Kept(n)'
      BY <3>1, <3>2 DEF Kept, AboutToAck
    <3>3. m \in 1..Len(stream) => Settled(stream[m])'
      BY <3>1 DEF Settled
    <3> QED BY <3>1, <3>2, <3>3, <1>1
  <2>5. CASE ReclaimMissed(c)
    BY <2>5, <1>2 DEF ReclaimMissed, Kept, AboutToAck
  <2>6. CASE ReadNew(c)
    <3> DEFINE first == (IF delivered < trimmed THEN trimmed ELSE delivered) + 1
               last  == IF first + BatchSize - 1 < Len(stream) THEN first + BatchSize - 1
                                                               ELSE Len(stream)
    <3>1. /\ pending' = pending \cup (first..last) /\ pc' = [pc EXCEPT ![c] = "drain"]
          /\ delivered' = IF first <= last THEN last ELSE delivered
          /\ UNCHANGED <<stream, trimmed, cur>>
      BY <2>6 DEF ReadNew
    <3>2. /\ first \in Nat /\ last \in Nat /\ delivered \in Nat /\ Len(stream) \in Nat
          /\ \A n \in 1..Len(stream) : n > delivered => n <= trimmed \/ first <= n
          /\ \A n \in 1..Len(stream) : first <= n => first <= last
      BY SettingsAssumption DEF TypeOK, BrokerTypes
    <3> HIDE DEF first, last
    <3>3. ASSUME NEW n \in 1..Len(stream), Kept(n), n > trimmed PROVE Kept(n)'
      <4>1. ~AboutToAck(n)'
        BY <3>1, <3>3 DEF Kept, AboutToAck, TypeOK, ConsumerTypes
      <4>2. n \in pending' \/ n > delivered'
        BY <3>1, <3>2, <3>3 DEF Kept, TypeOK, BrokerTypes
      <4> QED BY <4>1, <4>2 DEF Kept
    <3>4. ASSUME NEW n \in 1..Len(stream), n <= trimmed PROVE Settled(stream[n])'
      BY <3>1, <3>4 DEF Settled
    <3>5. \A n \in 1..Len(stream) : n > trimmed \/ n <= trimmed
      BY DEF TypeOK, BrokerTypes
    <3> QED BY <3>1, <3>3, <3>4, <3>5, <1>1
  <2>7. CASE SkipDuplicate(c)
    <3>1. /\ pc[c] = "claim" /\ EventAt(c) \in claims /\ pc' = [pc EXCEPT ![c] = "ack"]
          /\ UNCHANGED <<brokerVars, cur, handled, orphaned>>
          /\ overtaken' = IF Overtakes(c) THEN overtaken \cup {EventAt(c)} ELSE overtaken
      BY <2>7 DEF SkipDuplicate
    <3>2. cur[c] \in 1..Len(stream) /\ EventAt(c) = stream[cur[c]] /\ EventAt(c) \in Events
      BY <3>1, CurrentEvent DEF Dispatching, EventAt, TypeOK, BrokerTypes
    <3>3. \A d \in Consumers \ {c} : pc'[d] = pc[d]
      BY <3>1 DEF TypeOK, ConsumerTypes
    <3>4. CASE Settled(EventAt(c))
      <4>1. \A m \in 1..Len(stream) : m = cur[c] => Settled(stream[m])'
        BY <3>1, <3>2, <3>4 DEF Settled
      <4> QED BY <3>1, <3>2, <3>3, <4>1, <1>4
    <3>5. CASE ~Settled(EventAt(c))
      <4>1. PICK d \in Consumers : Running(d) /\ EventAt(d) = EventAt(c)
        BY <3>1, <3>5 DEF ClaimsExplained, Settled, BeingRun
      <4>2. CASE Overtakes(c)
        <5>1. \A m \in 1..Len(stream) : m = cur[c] => Settled(stream[m])'
          BY <3>1, <3>2, <4>2 DEF Settled
        <5> QED BY <3>1, <3>2, <3>3, <5>1, <1>4
      <4>3. CASE ~Overtakes(c)
        <5>1. ~DeadLettered(EventAt(c))
          BY <3>5 DEF Settled, DeadLettered
        <5>2. PICK m \in Outstanding(EventAt(c)) \ {cur[c]} : ~AboutToAck(m)
          BY <4>1, <4>3, <5>1 DEF Overtakes
        <5>3. m \in 1..Len(stream) /\ stream[m] = EventAt(c) /\ Kept(m)'
          BY <3>1, <3>3, <5>2 DEF Outstanding, Kept, AboutToAck
        <5>4. ASSUME NEW n \in 1..Len(stream), Kept(n), n # cur[c] PROVE Kept(n)'
          BY <3>1, <3>3, <5>4 DEF Kept, AboutToAck
        <5> QED BY <3>1, <3>2, <5>3, <5>4, <1>1
      <4> QED BY <4>2, <4>3
    <3> QED BY <3>4, <3>5
  <2>8. CASE HandlerSucceeds(c)
    <3>1. /\ pc[c] = "handle" /\ handled' = [handled EXCEPT ![EventAt(c)] = @ + 1]
          /\ pc' = [pc EXCEPT ![c] = "ack"] /\ UNCHANGED <<brokerVars, cur>>
      BY <2>8 DEF HandlerSucceeds
    <3>2. cur[c] \in 1..Len(stream) /\ EventAt(c) = stream[cur[c]] /\ EventAt(c) \in Events
      BY <3>1, CurrentEvent DEF Dispatching, EventAt, TypeOK, BrokerTypes
    <3>3. handled'[EventAt(c)] > 0
      BY <3>1, <3>2 DEF TypeOK, HistoryTypes
    <3>4. \A m \in 1..Len(stream) : m = cur[c] => Settled(stream[m])'
      BY <3>1, <3>2, <3>3 DEF Settled
    <3> QED BY <3>1, <3>2, <3>4, <1>4 DEF TypeOK, ConsumerTypes
  <2>9. CASE Ack(c)
    <3>1. /\ pc[c] = "ack" /\ pending' = pending \ {cur[c]} /\ pc' = [pc EXCEPT ![c] = phase[c]]
          /\ UNCHANGED <<stream, delivered, cur>>
      BY <2>9 DEF Ack
    <3>2. phase[c] # "ack" /\ \A d \in Consumers \ {c} : pc'[d] = pc[d]
      BY <3>1 DEF TypeOK, ConsumerTypes
    <3>3. ASSUME NEW n \in 1..Len(stream), Kept(n) PROVE Kept(n)'
      <4>1. n # cur[c]
        BY <3>1, <3>3 DEF Kept, AboutToAck
      <4> QED BY <3>1, <3>2, <3>3, <4>1 DEF Kept, AboutToAck, TypeOK, ConsumerTypes
    <3> QED BY <3>1, <3>3, <1>2
  <2>10. CASE DeadLetter(c)
    <3>1. /\ pc[c] \in Dispatching /\ pc' = [pc EXCEPT ![c] = "ack"]
          /\ UNCHANGED <<stream, pending, delivered, cur>>
      BY <2>10 DEF DeadLetter, Dispatching
    <3>2. cur[c] \in 1..Len(stream) /\ cur[c] \in MsgIds
      BY <3>1, CurrentEvent DEF TypeOK, BrokerTypes
    <3>3. dlq'[cur[c]] # {}
      BY <2>10, <3>2 DEF DeadLetter, TypeOK, BrokerTypes
    <3>4. \A m \in 1..Len(stream) : m = cur[c] => Settled(stream[m])'
      BY <3>1, <3>3 DEF Settled
    <3> QED BY <3>1, <3>2, <3>4, <1>4 DEF TypeOK, ConsumerTypes
  <2> QED BY <1>7, <2>1, <2>2, <2>3, <2>4, <2>5, <2>6, <2>7, <2>8, <2>9, <2>10 DEF Step
<1>8. ASSUME NEW c \in Consumers, ClaimFails(c) \/ ReleaseFails(c) \/ Stop(c) \/ Restart(c)
      PROVE  SettledOrKept'
  <2>1. UNCHANGED <<stream, pending, delivered, cur>>
    BY <1>8 DEF ClaimFails, ReleaseFails, Stop, Restart
  <2>2. pc'[c] # "ack" /\ \A d \in Consumers \ {c} : pc'[d] = pc[d]
    BY <1>8 DEF ClaimFails, ReleaseFails, Stop, Restart, TypeOK, ConsumerTypes
  <2> QED BY <2>1, <2>2, <1>3
<1>9. ASSUME NEW m \in MsgIds, GoIdle(m) PROVE SettledOrKept'
  BY <1>9, <1>2 DEF GoIdle, Kept, AboutToAck
<1>10. CASE UNCHANGED vars
  BY <1>10, <1>2 DEF vars, Kept, AboutToAck
<1> QED BY <1>5, <1>6, <1>7, <1>8, <1>9, <1>10 DEF Next

DeliveryInv == ClaimsExplained /\ TrimmingKeeps /\ SettledOrKept

LEMMA DeliveryInvariant == Spec => []DeliveryInv
<1>1. Init => DeliveryInv
  BY ExplainedInit, TrimmingInit, KeptInit DEF DeliveryInv
<1>2. TypeOK /\ TypeOK' /\ DeliveryInv /\ [Next]_vars => DeliveryInv'
  BY ExplainedNext, TrimmingNext, KeptNext DEF DeliveryInv
<1> QED BY <1>1, <1>2, TypeCorrect, PTL DEF Spec

\* However idle times pass, no event is lost unnoticed and none is given up
\* early: one that is owed is still deliverable, handled, in the dead-letter
\* stream, was being run when its consumer or its store failed, or was being run
\* by one consumer when another acknowledged its last message as a duplicate.
THEOREM NoEventUnaccounted == Spec => []EventsAccountedFor
<1>1. TypeOK /\ DeliveryInv => NoSilentLoss
  <2> SUFFICES ASSUME TypeOK, DeliveryInv, NEW e \in Events, Owed(e), ~AccountedFor(e)
               PROVE  e \in orphaned \cup overtaken
    BY DEF NoSilentLoss
  <2>1. PICK m \in 1..Len(stream) : stream[m] = e
    BY DEF Owed
  <2>2. ASSUME NEW n \in 1..Len(stream), stream[n] = e PROVE ~Kept(n)
    BY <2>2 DEF AccountedFor, Outstanding, Kept
  <2>3. Settled(e)
    BY <2>1, <2>2 DEF DeliveryInv, SettledOrKept
  <2>4. \A n \in 1..Len(stream) : n <= trimmed => n \in 1..trimmed
    BY DEF TypeOK, BrokerTypes
  <2>5. e \in orphaned \cup overtaken \/ \E n \in 1..Len(stream) : stream[n] = e /\ dlq[n] # {}
    BY <2>3, <2>4 DEF Settled, Owed, AccountedFor
  <2> QED BY <2>5 DEF AccountedFor, DeadLettered
<1> QED BY <1>1, DeliveryInvariant, TypeCorrect, BurialsAreJustified, PTL DEF EventsAccountedFor

(* What a patient reclaim adds. *)

PatienceInv == InboxInv /\ Possession /\ overtaken = {}

\* The message of a run is owned by the runner alone, so no other consumer
\* can hold the last copy.
LEMMA NothingOvertaken ==
  ASSUME TypeOK, Possession, overtaken = {}, [Next]_vars
  PROVE  overtaken' = {}
<1>1. ASSUME NEW c \in Consumers, pc[c] = "claim" PROVE ~Overtakes(c)
  <2> SUFFICES ASSUME Overtakes(c) PROVE FALSE
    OBVIOUS
  <2>1. PICK d \in Consumers : Running(d) /\ EventAt(d) = EventAt(c)
    BY DEF Overtakes
  <2>2. d # c /\ cur[d] \in Owned(d) /\ cur[c] \in Owned(c) /\ cur[d] \in 1..Len(stream)
        /\ stream[cur[d]] = EventAt(c)
    BY <1>1, <2>1, CurrentEvent DEF Running, Owned, Dispatching, EventAt, TypeOK, BrokerTypes
  <2>3. cur[d] \in pending /\ \A x \in Consumers \ {d} : cur[d] \notin Owned(x)
    BY <2>2 DEF Possession, OwnedWell, Overtakes, DeadLettered
  <2>4. cur[d] \in Outstanding(EventAt(c)) \ {cur[c]}
    BY <2>2, <2>3 DEF Outstanding
  <2>5. PICK x \in Consumers : pc[x] = "ack" /\ cur[x] = cur[d]
    BY <2>4 DEF Overtakes, AboutToAck
  <2>6. x # d /\ cur[d] \in Owned(x)
    BY <2>1, <2>5 DEF Running, Owned
  <2> QED BY <2>3, <2>6
<1>2. ASSUME NEW c \in Consumers, SkipDuplicate(c) PROVE overtaken' = {}
  BY <1>1, <1>2 DEF SkipDuplicate
<1>3. ASSUME NEW c \in Consumers, Step(c), ~SkipDuplicate(c) PROVE overtaken' = {}
  BY <1>3 DEF Step, PollPending, GiveUp, Reclaim, ReclaimTrimmed, ReclaimMissed, ReclaimDone,
     ReadNew, DispatchNew, DrainDone, TakeClaim, HandlerSucceeds, HandlerFails, Release, Ack,
     LookUp, DeadLetter
<1>4. ASSUME NEW c \in Consumers, ClaimFails(c) \/ ReleaseFails(c) \/ Stop(c) \/ Restart(c)
      PROVE  overtaken' = {}
  BY <1>4 DEF ClaimFails, ReleaseFails, Stop, Restart
<1>5. ASSUME NEW e \in Events, Publish(e) \/ ExpireClaim(e) PROVE overtaken' = {}
  BY <1>5 DEF Publish, ExpireClaim
<1>6. ASSUME NEW m \in MsgIds, GoIdle(m) PROVE overtaken' = {}
  BY <1>6 DEF GoIdle
<1>7. CASE UNCHANGED vars
  BY <1>7 DEF vars
<1> QED BY <1>2, <1>3, <1>4, <1>5, <1>6, <1>7 DEF Next

\* When an entry goes idle only while nobody holds it, no event is overtaken:
\* with NoEventUnaccounted, only a run that never ended can then lose one.
THEOREM PatienceSuffices ==
  ASSUME PatientReclaim
  PROVE  Spec => [](overtaken = {})
<1>1. Init => PatienceInv
  BY InboxInit, PossessionInit DEF PatienceInv, Init
<1>2. TypeOK /\ TypeOK' /\ PatienceInv /\ [Next]_vars => PatienceInv'
  BY InboxNext, PossessionNext, NothingOvertaken DEF PatienceInv
<1>3. PatienceInv => overtaken = {}
  BY DEF PatienceInv
<1> QED BY <1>1, <1>2, <1>3, TypeCorrect, PTL DEF Spec

(***************************************************************************)
(* The bus implements EventDelivery.  Publishing, handling, cutting a run  *)
(* short and burying are steps of that specification; an acknowledgement,  *)
(* or an XCLAIM of a removed entry, closes a message that may be closed;   *)
(* everything else stutters.                                               *)
(***************************************************************************)
Handled == {e \in Events : handled[e] > 0}
Dead    == {m \in MsgIds : dlq[m] # {}}

LEMMA ImplementsInit == Init => Delivery!Init
BY DEF Init, Delivery!Init, OpenMessages

\* A step that leaves the mapped state alone stutters.
LEMMA Stutters ==
  ASSUME UNCHANGED <<stream, OpenMessages, Handled, orphaned, overtaken, Dead>>
  PROVE  UNCHANGED Delivery!vars
BY DEF Delivery!vars, Handled, Dead

\* A message whose copy is kept, or whose event is settled, may be closed.
LEMMA ClosingAllowed ==
  ASSUME TypeOK, DeliveryInv, NEW m \in 1..Len(stream), ~Kept(m)
  PROVE  Delivery!MayClose(m)
<1>1. stream[m] \in Events
  BY DEF TypeOK, BrokerTypes
<1>2. ASSUME NEW n \in 1..Len(stream), n <= trimmed PROVE n \in Delivery!Forgettable(stream)
  <2>1. n + MaxStreamLength <= Len(stream)
    BY <1>2, SettingsAssumption DEF DeliveryInv, TrimmingKeeps, TypeOK, BrokerTypes
  <2> QED BY <2>1 DEF Delivery!Forgettable
<1>3. CASE Settled(stream[m])
  <2>1. CASE \E n \in 1..Len(stream) : stream[n] = stream[m] /\ (dlq[n] # {} \/ n <= trimmed)
    <3>1. PICK n \in 1..Len(stream) : stream[n] = stream[m] /\ (dlq[n] # {} \/ n <= trimmed)
      BY <2>1
    <3>2. n \in Dead \/ n \in Delivery!Forgettable(stream)
      BY <3>1, <1>2, BoundsAssumption DEF Dead, TypeOK, BrokerTypes
    <3> QED BY <3>1, <3>2 DEF Delivery!MayClose, Dead
  <2>2. CASE handled[stream[m]] > 0 \/ stream[m] \in orphaned \cup overtaken \cup Unaccepted
    BY <2>2, <1>1 DEF Delivery!MayClose
  <2> QED BY <1>3, <2>1, <2>2 DEF Settled
<1>4. CASE ~Settled(stream[m])
  <2>1. PICK n \in 1..Len(stream) : stream[n] = stream[m] /\ Kept(n)
    BY <1>4 DEF DeliveryInv, SettledOrKept
  <2>2. n # m /\ (n \in OpenMessages \/ n \in Delivery!Forgettable(stream))
    <3>1. CASE n <= trimmed
      BY <2>1, <3>1, <1>2
    <3>2. CASE n > trimmed
      BY <2>1, <3>2 DEF Kept, OpenMessages
    <3> QED BY <2>1, <3>1, <3>2 DEF TypeOK, BrokerTypes
  <2> QED BY <2>1, <2>2 DEF Delivery!MayClose
<1> QED BY <1>3, <1>4

\* What leaves the pending list is closed, when it was not closed before.
LEMMA Closes ==
  ASSUME TypeOK, NEW m \in 1..delivered, Delivery!MayClose(m), pending' = pending \ {m},
         UNCHANGED <<stream, trimmed, delivered, Handled, orphaned, overtaken, Dead>>
  PROVE  [Delivery!Next]_Delivery!vars
<1>1. OpenMessages' = OpenMessages \ {m} /\ m \in 1..Len(stream)
  BY DEF OpenMessages, TypeOK, BrokerTypes
<1>2. CASE m \in OpenMessages
  <2>1. Delivery!Close(m)
    BY <1>1, <1>2 DEF Delivery!Close, Handled, Dead
  <2> QED BY <1>1, <2>1 DEF Delivery!Next
<1>3. CASE m \notin OpenMessages
  BY <1>1, <1>3, Stutters
<1> QED BY <1>2, <1>3

LEMMA ImplementsNext ==
  TypeOK /\ DeliveryInv /\ [Next]_vars => [Delivery!Next]_Delivery!vars
<1> SUFFICES ASSUME TypeOK, DeliveryInv, [Next]_vars PROVE [Delivery!Next]_Delivery!vars
  OBVIOUS
<1>0. ASSUME UNCHANGED <<stream, trimmed, delivered, pending, handled, orphaned, overtaken, dlq>>
      PROVE  [Delivery!Next]_Delivery!vars
  BY <1>0, Stutters DEF OpenMessages, Handled, Dead
\* A run that is cut short or lost sight of.
<1>1. ASSUME NEW c \in Consumers, pc[c] \in Dispatching, UNCHANGED <<brokerVars, handled>>,
             orphaned' \cup overtaken' = orphaned \cup overtaken \cup {EventAt(c)}
      PROVE  [Delivery!Next]_Delivery!vars
  <2>1. cur[c] \in 1..Len(stream) /\ stream[cur[c]] = EventAt(c) /\ EventAt(c) \in Events
    BY <1>1, CurrentEvent DEF EventAt, TypeOK, BrokerTypes
  <2>2. \A e \in Events : e = EventAt(c) => Delivery!CutShort(e)
    BY <1>1, <2>1 DEF Delivery!CutShort, OpenMessages
  <2> QED BY <2>1, <2>2 DEF Delivery!Next
<1>2. ASSUME NEW e \in Events, Publish(e) PROVE [Delivery!Next]_Delivery!vars
  <2>1. /\ stream' = Append(stream, e) /\ trimmed <= trimmed'
        /\ trimmed' = trimmed \/ trimmed' + MaxStreamLength <= Len(stream) + 1
        /\ UNCHANGED <<delivered, pending, handled, orphaned, overtaken, dlq>>
    BY <1>2 DEF Publish, TypeOK, BrokerTypes
  <2>2. /\ Len(stream) \in Nat /\ trimmed \in 0..Len(stream) /\ delivered \in 0..Len(stream)
        /\ trimmed' \in Nat /\ pending \subseteq 1..delivered
    BY <1>2 DEF Publish, TypeOK, BrokerTypes
  <2>3. Len(stream') = Len(stream) + 1
    BY <2>1 DEF TypeOK, BrokerTypes
  <2> DEFINE lost == OpenMessages \ OpenMessages'
  <2>4. lost \subseteq OpenMessages \cap Delivery!Forgettable(stream')
    <3> SUFFICES ASSUME NEW m \in lost PROVE m \in 1..Len(stream') /\ m + MaxStreamLength <= Len(stream')
      BY DEF Delivery!Forgettable
    <3>1. m \in 1..Len(stream) /\ m > trimmed /\ m <= trimmed'
      BY <2>1, <2>2, <2>3 DEF OpenMessages
    <3> QED BY <2>1, <2>2, <2>3, <3>1, SettingsAssumption
  <2>5. OpenMessages' = (OpenMessages \ lost) \cup {Len(stream')}
    <3>1. trimmed' < Len(stream) + 1
      BY <2>1, <2>2, SettingsAssumption
    <3> QED BY <2>1, <2>2, <2>3, <3>1 DEF OpenMessages
  <2> HIDE DEF lost
  <2>6. Delivery!Publish(e)
    BY <2>1, <2>4, <2>5 DEF Delivery!Publish
  <2> QED BY <2>6 DEF Delivery!Next
<1>3. ASSUME NEW e \in Events, ExpireClaim(e) PROVE [Delivery!Next]_Delivery!vars
  BY <1>3, <1>0 DEF ExpireClaim
<1>4. ASSUME NEW c \in Consumers, Step(c) PROVE [Delivery!Next]_Delivery!vars
  <2>1. CASE PollPending(c) \/ GiveUp(c) \/ Reclaim(c) \/ ReclaimMissed(c) \/ ReclaimDone(c)
             \/ DispatchNew(c) \/ DrainDone(c)
    BY <2>1, <1>0 DEF PollPending, GiveUp, Reclaim, ReclaimMissed, ReclaimDone, DispatchNew, DrainDone
  <2>2. CASE TakeClaim(c) \/ HandlerFails(c) \/ Release(c) \/ LookUp(c)
    BY <2>2, <1>0 DEF TakeClaim, HandlerFails, Release, LookUp
  <2>8. CASE SkipDuplicate(c)
    <3>1. /\ pc[c] \in Dispatching /\ UNCHANGED <<brokerVars, handled, orphaned>>
          /\ overtaken' = overtaken \/ overtaken' = overtaken \cup {EventAt(c)}
      BY <2>8 DEF SkipDuplicate, Dispatching
    <3> QED BY <3>1, <1>0, <1>1
  <2>3. CASE ReclaimTrimmed(c)
    <3>1. PICK m \in MsgIds :
            /\ m \in todo[c] /\ m <= trimmed /\ pending' = pending \ {m}
            /\ UNCHANGED <<stream, trimmed, delivered, handled, orphaned, overtaken, dlq>>
      BY <2>3 DEF ReclaimTrimmed, NextEntry, IsFirst
    <3>2. m \in 1..delivered /\ m \in 1..Len(stream)
      BY <3>1 DEF TypeOK, BrokerTypes, ConsumerTypes
    <3>3. m \in Delivery!Forgettable(stream)
      BY <3>1, <3>2, SettingsAssumption
         DEF Delivery!Forgettable, DeliveryInv, TrimmingKeeps, TypeOK, BrokerTypes
    <3>4. Delivery!MayClose(m)
      BY <3>3 DEF Delivery!MayClose
    <3> QED BY <3>1, <3>2, <3>4, Closes DEF Handled, Dead
  <2>4. CASE ReadNew(c)
    <3> DEFINE first == (IF delivered < trimmed THEN trimmed ELSE delivered) + 1
               last  == IF first + BatchSize - 1 < Len(stream) THEN first + BatchSize - 1
                                                               ELSE Len(stream)
    <3>1. /\ pending' = pending \cup (first..last)
          /\ delivered' = IF first <= last THEN last ELSE delivered
          /\ UNCHANGED <<stream, trimmed, dlq, handled, orphaned, overtaken>>
      BY <2>4 DEF ReadNew
    <3>2. /\ first \in Nat \ {0} /\ last \in Nat /\ last <= Len(stream)
          /\ delivered \in Nat /\ trimmed \in Nat /\ Len(stream) \in Nat
          /\ delivered < first /\ trimmed < first
          /\ \A n \in 1..Len(stream) : n > delivered /\ n > trimmed => first <= n
      BY SettingsAssumption DEF TypeOK, BrokerTypes
    <3> HIDE DEF first, last
    <3>3. OpenMessages' = OpenMessages
      <4>1. ASSUME NEW m \in OpenMessages' PROVE m \in OpenMessages
        BY <3>1, <3>2, <4>1 DEF OpenMessages
      <4>2. ASSUME NEW m \in OpenMessages PROVE m \in OpenMessages'
        BY <3>1, <3>2, <4>2 DEF OpenMessages
      <4> QED BY <4>1, <4>2
    <3> QED BY <3>1, <3>3, Stutters DEF Handled, Dead
  <2>5. CASE HandlerSucceeds(c)
    <3>1. /\ pc[c] = "handle" /\ handled' = [handled EXCEPT ![EventAt(c)] = @ + 1]
          /\ UNCHANGED <<brokerVars, orphaned, overtaken>>
      BY <2>5 DEF HandlerSucceeds
    <3>2. cur[c] \in 1..Len(stream) /\ stream[cur[c]] = EventAt(c) /\ EventAt(c) \in Events
      BY <3>1, CurrentEvent DEF Dispatching, EventAt, TypeOK, BrokerTypes
    <3>3. Handled' = Handled \cup {EventAt(c)}
      BY <3>1, <3>2 DEF Handled, TypeOK, HistoryTypes
    <3>4. \A e \in Events : e = EventAt(c) => Delivery!Handle(e)
      BY <3>1, <3>2, <3>3 DEF Delivery!Handle, OpenMessages, Handled
    <3> QED BY <3>2, <3>4 DEF Delivery!Next
  <2>6. CASE Ack(c)
    <3>1. /\ pc[c] = "ack" /\ pending' = pending \ {cur[c]}
          /\ UNCHANGED <<stream, trimmed, delivered, handled, orphaned, overtaken, dlq>>
      BY <2>6 DEF Ack
    <3>2. cur[c] \in 1..delivered /\ cur[c] \in 1..Len(stream)
      BY <3>1, CurrentEvent DEF Dispatching, TypeOK, BrokerTypes
    <3>3. Delivery!MayClose(cur[c])
      BY <3>1, <3>2, ClosingAllowed DEF Kept, AboutToAck
    <3> QED BY <3>1, <3>2, <3>3, Closes DEF Handled, Dead
  <2>7. CASE DeadLetter(c)
    <3>1. pc[c] \in Dispatching /\ UNCHANGED <<stream, trimmed, delivered, pending, handled, orphaned, overtaken>>
      BY <2>7 DEF DeadLetter, Dispatching
    <3>2. cur[c] \in 1..Len(stream) /\ cur[c] \in MsgIds
      BY <3>1, CurrentEvent DEF TypeOK, BrokerTypes
    <3>3. Dead' = Dead \cup {cur[c]}
      BY <2>7, <3>2 DEF DeadLetter, Dead, TypeOK, BrokerTypes
    <3>4. \A m \in 1..Len(stream) : m = cur[c] => Delivery!Bury(m)
      BY <3>1, <3>2, <3>3 DEF Delivery!Bury, OpenMessages, Dead
    <3> QED BY <3>2, <3>4 DEF Delivery!Next
  <2> QED BY <1>4, <2>1, <2>2, <2>3, <2>4, <2>5, <2>6, <2>7, <2>8 DEF Step
<1>5. ASSUME NEW c \in Consumers, ClaimFails(c) \/ ReleaseFails(c) \/ Stop(c)
      PROVE  [Delivery!Next]_Delivery!vars
  <2>1. UNCHANGED <<brokerVars, handled, overtaken>>
        /\ (orphaned' = orphaned \/ (pc[c] \in Dispatching /\ orphaned' = orphaned \cup {EventAt(c)}))
    BY <1>5 DEF ClaimFails, ReleaseFails, Stop, Running, Dispatching
  <2> QED BY <2>1, <1>0, <1>1
<1>6. ASSUME NEW c \in Consumers, Restart(c) PROVE [Delivery!Next]_Delivery!vars
  BY <1>6, <1>0 DEF Restart
<1>7. ASSUME NEW m \in MsgIds, GoIdle(m) PROVE [Delivery!Next]_Delivery!vars
  BY <1>7, <1>0 DEF GoIdle
<1>8. CASE UNCHANGED vars
  BY <1>8, <1>0 DEF vars
<1> QED BY <1>2, <1>3, <1>4, <1>5, <1>6, <1>7, <1>8 DEF Next

\* However idle times pass, consumers, pending lists, claims and their faults
\* amount to at-least-once delivery, but for runs cut short or lost sight of.
THEOREM DeliveryImplemented == Spec => ImplementsDelivery
<1> QED BY ImplementsInit, ImplementsNext, DeliveryInvariant, TypeCorrect, PTL
        DEF Spec, ImplementsDelivery, Delivery!Spec
=============================================================================
