-------------------------- MODULE BreakerProtocol --------------------------
(***************************************************************************)
(* What a circuit breaker promises to a process that has it to itself: the *)
(* state diagram in the docstring of CircuitBreaker, as one atomic step    *)
(* per recorded outcome.                                                   *)
(***************************************************************************)
EXTENDS Integers

CONSTANTS Threshold,  (* failures in a row that open a closed circuit      *)
          Wait        (* ticks an open circuit stays open at the least     *)

VARIABLES circuit,    (* "closed", "open" or "half_open"                   *)
          streak,     (* failures in a row of a closed circuit, else 0     *)
          waited      (* ticks since the circuit last opened               *)

protocol == <<circuit, streak, waited>>

Init == circuit = "closed" /\ streak = 0 /\ waited \in Nat

Fail ==
  /\ circuit = "closed" /\ streak + 1 < Threshold
  /\ streak' = streak + 1
  /\ UNCHANGED <<circuit, waited>>

Trip ==
  /\ \/ circuit = "closed" /\ streak + 1 = Threshold
     \/ circuit = "half_open"
  /\ circuit' = "open" /\ streak' = 0 /\ waited' = 0

Succeed ==
  /\ circuit \in {"closed", "half_open"}
  /\ circuit' = "closed" /\ streak' = 0
  /\ UNCHANGED waited

Probe ==
  /\ circuit = "open" /\ waited >= Wait
  /\ circuit' = "half_open"
  /\ UNCHANGED <<streak, waited>>

Elapse == waited' \in {waited, waited + 1} /\ UNCHANGED <<circuit, streak>>

Next == Elapse \/ Fail \/ Trip \/ Succeed \/ Probe

Spec == Init /\ [][Next]_protocol
=============================================================================
