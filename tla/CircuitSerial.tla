---------------------------- MODULE CircuitSerial ---------------------------
(***************************************************************************)
(* The circuit breaker used by one worker at a time (a single process that *)
(* runs kit_task), shown to implement BreakerProtocol.  Two history        *)
(* variables observe what happened, from outside the breaker's keys; no    *)
(* action of the breaker depends on them.                                  *)
(***************************************************************************)
EXTENDS CircuitBreaker

VARIABLES
  elapsed,   (* ticks since the state key last became "open", saturated    *)
  row        (* failures recorded against a closed circuit since the last  *)
             (*   call that returned; the one that trips is not counted    *)

SerialInit == Init /\ elapsed = RecoveryTicks /\ row = 0

Returned == \E c \in Clients : CallReturns(c)
Recorded == \E c \in Clients : IncrFailures(c) /\ pc'[c] # "set_open"
Opened == state # "open" /\ state' = "open"

SerialNext ==
  /\ Next
  /\ elapsed' = IF Opened THEN 0
                ELSE IF Tick THEN AtMost(elapsed + 1, RecoveryTicks) ELSE elapsed
  /\ row' = IF Opened \/ Returned THEN 0
            ELSE IF Recorded THEN row + 1 ELSE row

SerialSpec == SerialInit /\ [][SerialNext]_<<vars, elapsed, row>>

Protocol == INSTANCE BreakerProtocol WITH
  Threshold <- FailureThreshold,
  Wait <- RecoveryTicks - Second + 1,
  circuit <- state, streak <- row, waited <- elapsed

(* One worker sees the documented state diagram: the circuit opens exactly *)
(* on failure_threshold failures with no success between them or on a      *)
(* failed trial, half-opens no sooner than recovery_timeout (less the      *)
(* fraction of a second opened_at drops), and closes only on a success.    *)
ImplementsProtocol == Protocol!Spec
=============================================================================
