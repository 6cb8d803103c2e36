----------------------------- MODULE MCEventBus -----------------------------
(***************************************************************************)
(* EventBus for TLC: consumers are interchangeable.                        *)
(***************************************************************************)
EXTENDS EventBusRefinement, TLC

ConsumerSymmetry == Permutations(Consumers)

\* States that differ only in what a consumer dispatched last are one: neither
\* phase nor cur is read again before the next dispatch sets it.
InScope ==
  <<brokerVars, claims, pc, todo, seen, inbox, historyVars,
    [c \in Consumers |-> IF pc[c] \in Dispatching THEN <<phase[c], cur[c]>> ELSE <<>>]>>
=============================================================================
