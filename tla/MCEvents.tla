------------------------------ MODULE MCEvents ------------------------------
(***************************************************************************)
(* Model-checking instance of the event pipeline: a first delivery and a   *)
(* redelivery of one event, the second straight to the endpoint, and an    *)
(* event of a type nobody handles.                                         *)
(***************************************************************************)
EXTENDS EventProcessor, TLC

CONSTANTS first, again, other, paid, unknown

MCEventOf == first :> paid @@ again :> paid @@ other :> unknown

ProcessSymmetry == Permutations(Processes)
=============================================================================
