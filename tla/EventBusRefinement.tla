-------------------------- MODULE EventBusRefinement -------------------------
(***************************************************************************)
(* The bus implements EventDelivery.  A message is open while it is on the *)
(* pending list or still in the stream beyond the last delivered entry.    *)
(***************************************************************************)
EXTENDS EventBus

OpenMessages == pending \cup {m \in 1..Len(stream) : m > delivered /\ m > trimmed}

Delivery == INSTANCE EventDelivery WITH
  Uninteresting <- Unaccepted,
  open          <- OpenMessages,
  handled       <- {e \in Events : handled[e] > 0},
  cut           <- orphaned \cup overtaken,
  dead          <- {m \in MsgIds : dlq[m] # {}}

\* Every behaviour of the bus, seen through the mapping, is one that
\* at-least-once delivery with two exceptions allows: a message is let go before
\* its event is settled only if a run of that event never ended, or is still
\* going while another consumer acknowledges the last copy as its duplicate.
\* The module docstring of redis_bus.py names neither exception.  Crashes, failed
\* store calls, trimming and reclaims from live consumers included.
ImplementsDelivery == Delivery!Spec
=============================================================================
