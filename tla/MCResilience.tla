---------------------------- MODULE MCResilience ----------------------------
(***************************************************************************)
(* Resilience for TLC: the callers are the elements of a small set.        *)
(***************************************************************************)
EXTENDS Resilience

MCCallers == {"a", "b", "c", "d"}
=============================================================================
