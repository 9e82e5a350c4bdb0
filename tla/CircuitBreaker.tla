--------------------------- MODULE CircuitBreaker ---------------------------
(***************************************************************************)
(* The distributed circuit breaker of kit-api (kit_api/circuit_breaker.py) *)
(* together with the two ways the repository drives it: the decorator      *)
(* circuit_breaker() and the Celery wrapper kit_task(), which puts a       *)
(* RetryEngine around the guarded call.                                    *)
(*                                                                         *)
(* All state lives in four Redis keys (state, failures, opened_at,         *)
(* ho_calls) shared by every process.  Each Redis command is atomic, and   *)
(* nothing makes two of them atomic together, so every action below is one *)
(* command, and the clients interleave between them.                       *)
(*                                                                         *)
(* A missing key reads as its default: no state is "closed", a missing     *)
(* counter is 0, a missing opened_at is the epoch (long ago).              *)
(***************************************************************************)
EXTENDS Integers, FiniteSets

CONSTANTS
  Callers,           (* processes that make guarded calls                   *)
  Monitors,          (* processes that only read the `state` property       *)
  FailureThreshold,  (* failure_threshold                                   *)
  RecoveryTicks,     (* recovery_timeout, in clock ticks                    *)
  Second,            (* ticks per second: opened_at drops what is below it  *)
  HalfOpenMaxCalls,  (* half_open_max_calls                                 *)
  MaxRetries,        (* max_retries of kit_task; 0 is the plain decorator   *)
  CrashLimit,        (* bound: clients killed in the middle of an operation *)
  ResetLimit         (* bound: calls of reset()                             *)

ASSUME BreakerAssumption ==
  /\ Callers \cap Monitors = {}
  /\ FailureThreshold \in Nat \ {0}
  /\ RecoveryTicks \in Nat \ {0}
  /\ Second \in 1 .. RecoveryTicks
  /\ HalfOpenMaxCalls \in Nat \ {0}
  /\ MaxRetries \in Nat
  /\ CrashLimit \in Nat
  /\ ResetLimit \in Nat

Clients == Callers \cup Monitors

VARIABLES
  state,     (* key state                                                   *)
  failures,  (* key failures, saturated at FailureThreshold                 *)
  hoCalls,   (* key ho_calls, saturated at HalfOpenMaxCalls + 1             *)
  age,       (* now - opened_at, saturated at RecoveryTicks                 *)
  phase,     (* now modulo one second                                       *)
  pc,        (* the Redis command each client issues next                   *)
  op,        (* the operation that command belongs to                       *)
  tries,     (* failed attempts of the retry loop a caller is in            *)
  dependency, (* "flaky" until it recovers for good, then "healthy"             *)
  crashes,   (* clients killed so far                                       *)
  resets     (* reset() calls so far                                        *)

keys == <<state, failures, hoCalls, age, phase>>
budgets == <<dependency, crashes, resets>>
vars == <<state, failures, hoCalls, age, phase, pc, op, tries,
          dependency, crashes, resets>>

States == {"closed", "open", "half_open"}
Ops == {"none", "status", "allow", "trial", "success", "failure"}
Steps == {"idle", "get_state", "get_opened_at", "set_half_open",
          "zero_ho_calls", "incr_ho_calls", "call", "set_closed",
          "zero_failures_closing", "del_ho_calls", "zero_failures",
          "incr_failures", "set_open", "set_opened_at"}

AtMost(n, bound) == IF n < bound THEN n ELSE bound

TypeOK ==
  /\ state \in States
  /\ failures \in 0 .. FailureThreshold
  /\ hoCalls \in 0 .. HalfOpenMaxCalls + 1
  /\ age \in 0 .. RecoveryTicks
  /\ phase \in 0 .. Second - 1
  /\ pc \in [Clients -> Steps]
  /\ op \in [Clients -> Ops]
  /\ tries \in [Clients -> Nat]
  /\ dependency \in {"flaky", "healthy"}
  /\ crashes \in 0 .. CrashLimit
  /\ resets \in 0 .. ResetLimit

Init ==
  /\ state = "closed" /\ failures = 0 /\ hoCalls = 0
  /\ age = RecoveryTicks /\ phase = 0
  /\ pc = [c \in Clients |-> "idle"]
  /\ op = [c \in Clients |-> "none"]
  /\ tries = [c \in Clients |-> 0]
  /\ dependency = "flaky" /\ crashes = 0 /\ resets = 0

-----------------------------------------------------------------------------
(* What a client does next, once the command at `step` has been answered.  *)

Goto(c, step) == pc' = [pc EXCEPT ![c] = step]

Enter(c, o, step) ==
  /\ pc' = [pc EXCEPT ![c] = step]
  /\ op' = [op EXCEPT ![c] = o]

(* A caller leaves record_failure: the exception propagates into the retry *)
(* loop, which calls again (with no new allow_request) while it has tries. *)
AfterFailure(c) ==
  IF tries[c] <= MaxRetries THEN Enter(c, "none", "call")
                            ELSE Enter(c, "none", "idle")

(* allow_request, given the state: proceed, ask for a trial, CircuitOpen.   *)
AllowRequest(c, st) ==
  \/ st = "closed" /\ Enter(c, "none", "call")
  \/ st = "half_open" /\ Enter(c, "allow", "incr_ho_calls")
  \/ st = "open" /\ Enter(c, "none", "idle")

(* Mutant: a success in the half-open state does not close the circuit.    *)
RecordSuccessKeepsHalfOpen(c, st) ==
  \/ st = "closed" /\ Enter(c, "success", "zero_failures")
  \/ st \in {"open", "half_open"} /\ Enter(c, "none", "idle")

(* record_success, given the state.                                        *)
RecordSuccess(c, st) ==
  \/ st = "closed" /\ Enter(c, "success", "zero_failures")
  \/ st = "half_open" /\ Enter(c, "success", "set_closed")
  \/ st = "open" /\ Enter(c, "none", "idle")

(* record_failure, given the state.                                        *)
RecordFailure(c, st) ==
  \/ st = "closed" /\ Enter(c, "failure", "incr_failures")
  \/ st = "half_open" /\ Enter(c, "failure", "set_open")
  \/ st = "open" /\ AfterFailure(c)

(* The `state` getter returns st to the operation that asked for it.       *)
Resume(c, st) ==
  \/ op[c] = "status" /\ Enter(c, "none", "idle")
  \/ op[c] = "allow" /\ AllowRequest(c, st)
  \/ op[c] = "success" /\ RecordSuccess(c, st)
  \/ op[c] = "failure" /\ RecordFailure(c, st)

-----------------------------------------------------------------------------
(* Calls begin and end.                                                    *)

(* A request or a task arrives: the wrapper starts with allow_request().   *)
StartCall(c) ==
  /\ c \in Callers /\ pc[c] = "idle"
  /\ Enter(c, "allow", "get_state")
  /\ tries' = [tries EXCEPT ![c] = 0]
  /\ UNCHANGED <<keys, budgets>>

(* Someone reads the `state` property, e.g. the status endpoint.           *)
StartStatus(c) ==
  /\ c \in Monitors /\ pc[c] = "idle"
  /\ Enter(c, "status", "get_state")
  /\ UNCHANGED <<keys, budgets, tries>>

(* The guarded function returns: record_success() follows.                 *)
CallReturns(c) ==
  /\ pc[c] = "call"
  /\ Enter(c, "success", "get_state")
  /\ UNCHANGED <<keys, budgets, tries>>

(* The guarded function raises: record_failure() follows.  An exception    *)
(* outside retryable_exceptions leaves the retry loop at once.             *)
CallRaises(c) ==
  /\ pc[c] = "call" /\ dependency = "flaky"
  /\ \E retryable \in BOOLEAN :
       tries' = [tries EXCEPT ![c] = IF retryable THEN @ + 1 ELSE MaxRetries + 1]
  /\ Enter(c, "failure", "get_state")
  /\ UNCHANGED <<keys, budgets>>

-----------------------------------------------------------------------------
(* The `state` getter: read, and promote an expired open circuit.          *)

GetState(c) ==
  /\ pc[c] = "get_state"
  /\ IF state = "open" THEN Goto(c, "get_opened_at") /\ UNCHANGED op
                       ELSE Resume(c, state)
  /\ UNCHANGED <<keys, budgets, tries>>

(* The clock is read together with opened_at.                              *)
GetOpenedAt(c) ==
  /\ pc[c] = "get_opened_at"
  /\ IF age >= RecoveryTicks THEN Goto(c, "set_half_open") /\ UNCHANGED op
                             ELSE Resume(c, "open")
  /\ UNCHANGED <<keys, budgets, tries>>

SetHalfOpen(c) ==
  /\ pc[c] = "set_half_open"
  /\ state' = "half_open"
  /\ Goto(c, "zero_ho_calls")
  /\ UNCHANGED <<failures, hoCalls, age, phase, op, tries, budgets>>

(* Mutant: the promotion leaves the trial counter as it was.               *)
KeepHoCalls(c) ==
  /\ pc[c] = "zero_ho_calls"
  /\ Resume(c, "half_open")
  /\ UNCHANGED <<keys, tries, budgets>>

ZeroHoCalls(c) ==
  /\ pc[c] = "zero_ho_calls"
  /\ hoCalls' = 0
  /\ Resume(c, "half_open")
  /\ UNCHANGED <<state, failures, age, phase, tries, budgets>>

-----------------------------------------------------------------------------
(* allow_request on a half-open circuit: the trial counter decides.        *)

IncrHoCalls(c) ==
  /\ pc[c] = "incr_ho_calls"
  /\ hoCalls' = AtMost(hoCalls + 1, HalfOpenMaxCalls + 1)
  /\ IF hoCalls' <= HalfOpenMaxCalls
       THEN Enter(c, "trial", "call")
       ELSE Enter(c, "none", "idle")
  /\ UNCHANGED <<state, failures, age, phase, tries, budgets>>

-----------------------------------------------------------------------------
(* record_success.                                                         *)

SetClosed(c) ==
  /\ pc[c] = "set_closed"
  /\ state' = "closed"
  /\ Goto(c, "zero_failures_closing")
  /\ UNCHANGED <<failures, hoCalls, age, phase, op, tries, budgets>>

(* Mutant: closing the circuit keeps the failures that opened it.          *)
KeepFailuresClosing(c) ==
  /\ pc[c] = "zero_failures_closing"
  /\ Goto(c, "del_ho_calls")
  /\ UNCHANGED <<keys, op, tries, budgets>>

ZeroFailuresClosing(c) ==
  /\ pc[c] = "zero_failures_closing"
  /\ failures' = 0
  /\ Goto(c, "del_ho_calls")
  /\ UNCHANGED <<state, hoCalls, age, phase, op, tries, budgets>>

DelHoCalls(c) ==
  /\ pc[c] = "del_ho_calls"
  /\ hoCalls' = 0
  /\ Enter(c, "none", "idle")
  /\ UNCHANGED <<state, failures, age, phase, tries, budgets>>

(* Mutant: a success between two failures does not end the streak.         *)
KeepFailures(c) ==
  /\ pc[c] = "zero_failures"
  /\ Enter(c, "none", "idle")
  /\ UNCHANGED <<keys, tries, budgets>>

ZeroFailures(c) ==
  /\ pc[c] = "zero_failures"
  /\ failures' = 0
  /\ Enter(c, "none", "idle")
  /\ UNCHANGED <<state, hoCalls, age, phase, tries, budgets>>

-----------------------------------------------------------------------------
(* record_failure and _trip.                                               *)

IncrFailures(c) ==
  /\ pc[c] = "incr_failures"
  /\ failures' = AtMost(failures + 1, FailureThreshold)
  /\ IF failures' >= FailureThreshold
       THEN Goto(c, "set_open") /\ UNCHANGED op
       ELSE AfterFailure(c)
  /\ UNCHANGED <<state, hoCalls, age, phase, tries, budgets>>

SetOpen(c) ==
  /\ pc[c] = "set_open"
  /\ state' = "open"
  /\ Goto(c, "set_opened_at")
  /\ UNCHANGED <<failures, hoCalls, age, phase, op, tries, budgets>>

(* opened_at becomes int(now), which is up to a second in the past.        *)
SetOpenedAt(c) ==
  /\ pc[c] = "set_opened_at"
  /\ age' = AtMost(phase, RecoveryTicks)
  /\ AfterFailure(c)
  /\ UNCHANGED <<state, failures, hoCalls, phase, tries, budgets>>

-----------------------------------------------------------------------------
(* The rest of the world.                                                  *)

(* reset(): one pipeline that deletes the four keys.                       *)
Reset ==
  /\ resets < ResetLimit
  /\ resets' = resets + 1
  /\ state' = "closed" /\ failures' = 0 /\ hoCalls' = 0
  /\ age' = RecoveryTicks
  /\ UNCHANGED <<phase, pc, op, tries, dependency, crashes>>

(* The process dies, or the call raises what `except Exception` does not   *)
(* catch: the commands still to come are never issued.                     *)
Crash(c) ==
  /\ crashes < CrashLimit /\ pc[c] # "idle"
  /\ crashes' = crashes + 1
  /\ Enter(c, "none", "idle")
  /\ UNCHANGED <<keys, tries, dependency, resets>>

(* The dependency recovers and stays up: calls return from now on.         *)
Heal ==
  /\ dependency = "flaky" /\ dependency' = "healthy"
  /\ UNCHANGED <<keys, pc, op, tries, crashes, resets>>

Tick ==
  /\ phase' = (phase + 1) % Second
  /\ age' = AtMost(age + 1, RecoveryTicks)
  /\ UNCHANGED <<state, failures, hoCalls, pc, op, tries, budgets>>

Getter(c) == GetState(c) \/ GetOpenedAt(c) \/ SetHalfOpen(c) \/ ZeroHoCalls(c)
Success(c) == SetClosed(c) \/ ZeroFailuresClosing(c) \/ DelHoCalls(c) \/ ZeroFailures(c)
Failure(c) == IncrFailures(c) \/ SetOpen(c) \/ SetOpenedAt(c)

(* What a live client does next, apart from beginning to read the status.  *)
Work(c) ==
  \/ StartCall(c) \/ CallReturns(c) \/ CallRaises(c)
  \/ Getter(c) \/ IncrHoCalls(c) \/ Success(c) \/ Failure(c)

Next ==
  \/ \E c \in Clients : Work(c) \/ StartStatus(c) \/ Crash(c)
  \/ Reset \/ Heal \/ Tick

Spec == Init /\ [][Next]_vars

(* Live processes keep running, requests keep arriving at each caller, the *)
(* guarded call ends, and time passes.                                     *)
Fairness == WF_vars(Tick) /\ \A c \in Clients : WF_vars(Work(c))
FairSpec == Spec /\ Fairness

-----------------------------------------------------------------------------
TestCalls == {c \in Clients : pc[c] = "call" /\ op[c] = "trial"}


Settled == crashes = 0 /\ \A c \in Clients : pc[c] = "idle"

(* A half-open circuit at rest always has a trial to give: no order of     *)
(* promotions, trials and outcomes leaves it rejecting everyone.           *)
HalfOpenHasTrial == Settled /\ state = "half_open" => hoCalls < HalfOpenMaxCalls

(* A closed circuit at rest tolerates at least one more failure: the count *)
(* that tripped it before is gone.                                         *)
ClosedIsArmed == Settled /\ state = "closed" => failures < FailureThreshold

(* Auto-recovery: once the dependency has recovered for good the circuit   *)
(* ends up closed and stays closed, unless a client was killed mid-way.    *)
Recovers == <>(crashes > 0) \/ (dependency = "healthy" ~> [](state = "closed"))
=============================================================================
