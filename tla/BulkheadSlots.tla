--------------------------- MODULE BulkheadSlots ---------------------------
(***************************************************************************)
(* What a bulkhead promises: a set of slots in use, never more than Limit, *)
(* taken one at a time by workers that have none and given up freely.      *)
(***************************************************************************)
EXTENDS Integers, FiniteSets

CONSTANTS Workers, Limit
VARIABLE slots

Init == slots = {}

Take(w) ==
  /\ w \notin slots /\ Cardinality(slots) < Limit
  /\ slots' = slots \cup {w}

(* Holders leave: one releases its slot, or stale ones are forgotten.      *)
Vacate == slots' \in SUBSET slots

Next == (\E w \in Workers : Take(w)) \/ Vacate

Spec == Init /\ [][Next]_slots
=============================================================================
