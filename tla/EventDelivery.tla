---------------------------- MODULE EventDelivery ----------------------------
(***************************************************************************)
(* What the event bus promises one consumer group, without consumers,      *)
(* pending lists or claims: at-least-once delivery over a stream that may  *)
(* forget all but its newest entries, except for events whose handler run  *)
(* was cut short or lost sight of.                                         *)
(***************************************************************************)
EXTENDS Naturals, Sequences

CONSTANTS
  Events,           \* event identities
  Uninteresting,    \* events the group wants no handler run for
  MaxStreamLength   \* entries the stream always keeps

VARIABLES
  stream,    \* every event published, in order
  open,      \* messages the group is still responsible for
  handled,   \* events whose handler succeeded
  cut,       \* events whose handler run was cut short or lost sight of
  dead       \* messages parked in the dead-letter stream

vars == <<stream, open, handled, cut, dead>>

Init == stream = <<>> /\ open = {} /\ handled = {} /\ cut = {} /\ dead = {}

\* Entries the stream may have forgotten.
Forgettable(s) == {m \in 1..Len(s) : m + MaxStreamLength <= Len(s)}

\* A new message becomes the group's; old ones may fall off the stream.
Publish(e) ==
  /\ stream' = Append(stream, e)
  /\ \E lost \in SUBSET (open \cap Forgettable(stream')) :
        open' = (open \ lost) \cup {Len(stream')}
  /\ UNCHANGED <<handled, cut, dead>>

Handle(e) ==
  /\ \E m \in 1..Len(stream) : stream[m] = e
  /\ handled' = handled \cup {e}
  /\ UNCHANGED <<stream, open, cut, dead>>

\* The run stops without its outcome being recorded (a crash, or a failure of
\* the store that holds the claims), or goes on with no message to retry it by.
CutShort(e) ==
  /\ \E m \in 1..Len(stream) : stream[m] = e
  /\ cut' = cut \cup {e}
  /\ UNCHANGED <<stream, open, handled, dead>>

Bury(m) ==
  /\ m \in 1..Len(stream)
  /\ dead' = dead \cup {m}
  /\ UNCHANGED <<stream, open, handled, cut>>

\* A message may be let go once its event was handled, is in cut or is unwanted,
\* or while a copy of it is still open, in the dead-letter stream or forgotten.
MayClose(m) ==
  \/ stream[m] \in handled \cup cut \cup Uninteresting
  \/ \E n \in (open \ {m}) \cup dead \cup Forgettable(stream) : stream[n] = stream[m]

Close(m) ==
  /\ m \in open
  /\ MayClose(m)
  /\ open' = open \ {m}
  /\ UNCHANGED <<stream, handled, cut, dead>>

Next ==
  \/ \E e \in Events : Publish(e) \/ Handle(e) \/ CutShort(e)
  \/ \E m \in 1..Len(stream) : Bury(m) \/ Close(m)

Spec == Init /\ [][Next]_vars
=============================================================================
