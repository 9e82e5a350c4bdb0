------------------------ MODULE CircuitBreakerProofs ------------------------
(***************************************************************************)
(* What the circuit breaker guarantees to any number of clients, for every *)
(* threshold, timeout and trial limit.                                     *)
(*                                                                         *)
(* HalfOpenHasTrial and ClosedIsArmed are not inductive: they speak of     *)
(* settled states only.  The strengthening names, for each way a state     *)
(* could be stuck, the client that is still on its way to undo it.         *)
(***************************************************************************)
EXTENDS CircuitSerial, TLAPS

(* A client whose coming commands move a half-open circuit on: it zeroes   *)
(* ho_calls, or it leaves the half-open state, or it is in a guarded call  *)
(* (or about to record one) that will do so.                               *)
Rescuing(c) ==
  \/ pc[c] \in {"set_half_open", "zero_ho_calls", "call", "set_closed",
                "zero_failures_closing", "del_ho_calls", "set_open"}
  \/ pc[c] = "get_state" /\ op[c] \in {"success", "failure"}

(* A client about to open the circuit or to clear the failure counter.     *)
Disarming(c) == pc[c] \in {"set_open", "zero_failures_closing"}

HalfOpenInv ==
  crashes = 0 /\ state = "half_open" /\ hoCalls >= HalfOpenMaxCalls
    => \E c \in Clients : Rescuing(c)

ClosedInv ==
  crashes = 0 /\ state = "closed" /\ failures >= FailureThreshold
    => \E c \in Clients : Disarming(c)

(* The program counter and the operation fit together where it matters: a  *)
(* client that records a success or a failure reads the state for that.    *)
OpInv ==
  \A c \in Clients :
    pc[c] = "get_state" => op[c] \in {"status", "allow", "success", "failure"}

BreakerInv == TypeOK /\ OpInv /\ HalfOpenInv /\ ClosedInv

-----------------------------------------------------------------------------

(* Whatever a client goes on to do, it stays in the declared steps.        *)
LEMMA EnterType ==
  ASSUME TypeOK, NEW c \in Clients, NEW o \in Ops, NEW step \in Steps,
         Enter(c, o, step)
  PROVE  pc' \in [Clients -> Steps] /\ op' \in [Clients -> Ops]
BY DEF TypeOK, Enter

(* The end of a recorded failure is a declared step.                       *)
LEMMA AfterFailureType ==
  ASSUME TypeOK, NEW c \in Clients, AfterFailure(c)
  PROVE  pc' \in [Clients -> Steps] /\ op' \in [Clients -> Ops]
BY EnterType DEF AfterFailure, Ops, Steps

(* The return from the state getter is a declared step.                    *)
LEMMA ResumeType ==
  ASSUME TypeOK, NEW c \in Clients, NEW st, Resume(c, st)
  PROVE  pc' \in [Clients -> Steps] /\ op' \in [Clients -> Ops]
<1>1. CASE \E o \in Ops, step \in Steps : Enter(c, o, step)
  BY <1>1, EnterType
<1>2. CASE AfterFailure(c)
  BY <1>2, AfterFailureType
<1>3. (\E o \in Ops, step \in Steps : Enter(c, o, step)) \/ AfterFailure(c)
  BY DEF Resume, AllowRequest, RecordSuccess, RecordFailure, Ops, Steps
<1> QED
  BY <1>1, <1>2, <1>3

(* A fresh breaker is well typed.                                          *)
LEMMA InitType == Init => TypeOK
BY BreakerAssumption
   DEF Init, TypeOK, States, Ops, Steps

(* Every step keeps the types.                                             *)
LEMMA StepType == TypeOK /\ [Next]_vars => TypeOK'
<1> SUFFICES ASSUME TypeOK, [Next]_vars PROVE TypeOK'
  OBVIOUS
<1> USE BreakerAssumption
<1>1. ASSUME NEW c \in Clients, Work(c)
      PROVE  TypeOK'
  <2>1. CASE StartCall(c)
    BY <2>1, EnterType DEF StartCall, TypeOK, keys, budgets, Ops, Steps
  <2>2. CASE CallReturns(c)
    BY <2>2, EnterType DEF CallReturns, TypeOK, keys, budgets, Ops, Steps
  <2>3. CASE CallRaises(c)
    BY <2>3, EnterType DEF CallRaises, TypeOK, keys, budgets, Ops, Steps
  <2>4. CASE GetState(c)
    BY <2>4, ResumeType DEF GetState, Goto, TypeOK, keys, budgets, Steps
  <2>5. CASE GetOpenedAt(c)
    BY <2>5, ResumeType DEF GetOpenedAt, Goto, TypeOK, keys, budgets, Steps
  <2>6. CASE SetHalfOpen(c)
    BY <2>6 DEF SetHalfOpen, Goto, TypeOK, budgets, Steps, States
  <2>7. CASE ZeroHoCalls(c)
    BY <2>7, ResumeType DEF ZeroHoCalls, TypeOK, budgets
  <2>8. CASE IncrHoCalls(c)
    BY <2>8, EnterType DEF IncrHoCalls, AtMost, TypeOK, budgets, Ops, Steps
  <2>9. CASE Success(c)
    BY <2>9, EnterType
       DEF Success, SetClosed, ZeroFailuresClosing, DelHoCalls, ZeroFailures,
           Goto, TypeOK, budgets, Ops, Steps, States
  <2>10. CASE Failure(c)
    <3>1. CASE IncrFailures(c)
      BY <3>1, AfterFailureType
         DEF IncrFailures, AtMost, Goto, TypeOK, budgets, Steps
    <3>2. CASE SetOpen(c)
      BY <3>2 DEF SetOpen, Goto, TypeOK, budgets, Steps, States
    <3>3. CASE SetOpenedAt(c)
      BY <3>3, AfterFailureType DEF SetOpenedAt, AtMost, TypeOK, budgets
    <3> QED
      BY <2>10, <3>1, <3>2, <3>3 DEF Failure
  <2> QED
    BY <1>1, <2>1, <2>2, <2>3, <2>4, <2>5, <2>6, <2>7, <2>8, <2>9, <2>10
       DEF Work, Getter
<1>2. ASSUME NEW c \in Clients, StartStatus(c)
      PROVE  TypeOK'
  BY <1>2, EnterType DEF StartStatus, TypeOK, keys, budgets, Ops, Steps
<1>3. ASSUME NEW c \in Clients, Crash(c)
      PROVE  TypeOK'
  BY <1>3, EnterType DEF Crash, TypeOK, keys, Ops, Steps
<1>4. CASE Reset
  BY <1>4 DEF Reset, TypeOK, States
<1>5. CASE Heal
  BY <1>5 DEF Heal, TypeOK, keys
<1>6. CASE Tick
  BY <1>6 DEF Tick, AtMost, TypeOK, budgets
<1>7. CASE UNCHANGED vars
  BY <1>7 DEF vars, TypeOK
<1> QED
  BY <1>1, <1>2, <1>3, <1>4, <1>5, <1>6, <1>7 DEF Next

(* Every reachable state is well typed; in particular the counters stay    *)
(* within their saturation bounds under any interleaving.                  *)
THEOREM TypeCorrect == Spec => []TypeOK
BY InitType, StepType, PTL DEF Spec

-----------------------------------------------------------------------------
(* The step of one client leaves the others where they are.                *)
LEMMA OthersStay ==
  ASSUME TypeOK, NEW c \in Clients, Work(c) \/ StartStatus(c) \/ Crash(c),
         NEW d \in Clients, d # c
  PROVE  pc'[d] = pc[d] /\ op'[d] = op[d]
<1> USE DEF TypeOK, Enter, Goto
<1>1. ASSUME NEW o, NEW step, Enter(c, o, step)
      PROVE  pc'[d] = pc[d] /\ op'[d] = op[d]
  BY <1>1
<1>2. CASE AfterFailure(c)
  BY <1>1, <1>2 DEF AfterFailure
<1>3. ASSUME NEW st, Resume(c, st)
      PROVE  pc'[d] = pc[d] /\ op'[d] = op[d]
  BY <1>1, <1>2, <1>3 DEF Resume, AllowRequest, RecordSuccess, RecordFailure
<1>4. CASE StartCall(c) \/ CallReturns(c) \/ CallRaises(c) \/ StartStatus(c) \/ Crash(c)
  BY <1>4, <1>1 DEF StartCall, CallReturns, CallRaises, StartStatus, Crash
<1>5. CASE GetState(c)
  BY <1>5, <1>3 DEF GetState
<1>6. CASE GetOpenedAt(c)
  BY <1>6, <1>3 DEF GetOpenedAt
<1>7. CASE SetHalfOpen(c) \/ ZeroHoCalls(c)
  BY <1>7, <1>3 DEF SetHalfOpen, ZeroHoCalls
<1>8. CASE IncrHoCalls(c) \/ Success(c)
  BY <1>8, <1>1
     DEF IncrHoCalls, Success, SetClosed, ZeroFailuresClosing, DelHoCalls, ZeroFailures
<1>9. CASE Failure(c)
  BY <1>9, <1>2 DEF Failure, IncrFailures, SetOpen, SetOpenedAt
<1> QED
  BY <1>4, <1>5, <1>6, <1>7, <1>8, <1>9 DEF Work, Getter

(* Where the getter sends a client that records an outcome.                *)
LEMMA ResumeOutcome ==
  ASSUME TypeOK, NEW c \in Clients, NEW st, Resume(c, st)
  PROVE  /\ pc'[c] # "get_state"
         /\ op[c] \in {"success", "failure"} /\ st = "half_open"
              => pc'[c] \in {"set_closed", "set_open"}
<1> USE DEF TypeOK, Enter
<1>1. CASE op[c] = "status" /\ Enter(c, "none", "idle")
  BY <1>1
<1>2. CASE op[c] = "allow" /\ AllowRequest(c, st)
  BY <1>2 DEF AllowRequest
<1>3. CASE op[c] = "success" /\ RecordSuccess(c, st)
  BY <1>3 DEF RecordSuccess
<1>4. CASE op[c] = "failure" /\ RecordFailure(c, st)
  BY <1>4 DEF RecordFailure, AfterFailure
<1> QED
  BY <1>1, <1>2, <1>3, <1>4 DEF Resume

(* Every step keeps commands and operations together.                      *)
LEMMA StepOp == TypeOK /\ OpInv /\ [Next]_vars => OpInv'
<1> SUFFICES ASSUME TypeOK, OpInv, [Next]_vars, NEW d \in Clients, pc'[d] = "get_state"
             PROVE  op'[d] \in {"status", "allow", "success", "failure"}
  BY DEF OpInv
<1>1. ASSUME NEW c \in Clients, Work(c) \/ StartStatus(c) \/ Crash(c)
      PROVE  op'[d] \in {"status", "allow", "success", "failure"}
  <2>1. CASE d # c
    BY <1>1, <2>1, OthersStay DEF OpInv
  <2>2. CASE d = c
    <3> USE <2>2 DEF TypeOK, Enter, Goto
    <3>1. CASE StartCall(c) \/ CallReturns(c) \/ CallRaises(c) \/ StartStatus(c) \/ Crash(c)
      BY <3>1 DEF StartCall, CallReturns, CallRaises, StartStatus, Crash
    <3>2. CASE Getter(c)
      BY <3>2, ResumeOutcome DEF Getter, GetState, GetOpenedAt, SetHalfOpen, ZeroHoCalls
    <3>3. CASE IncrHoCalls(c) \/ Success(c) \/ Failure(c)
      BY <3>3
         DEF IncrHoCalls, Success, SetClosed, ZeroFailuresClosing, DelHoCalls,
             ZeroFailures, Failure, IncrFailures, SetOpen, SetOpenedAt, AfterFailure
    <3> QED
      BY <1>1, <3>1, <3>2, <3>3 DEF Work
  <2> QED
    BY <2>1, <2>2
<1>2. CASE Reset \/ Heal \/ Tick \/ UNCHANGED vars
  BY <1>2 DEF Reset, Heal, Tick, vars, OpInv
<1> QED
  BY <1>1, <1>2 DEF Next

(* A step into a half-open state with no trial left is taken either by a   *)
(* client that will undo it, or by one that was not going to.              *)
LEMMA OwnRescue ==
  ASSUME TypeOK, OpInv, NEW c \in Clients, Work(c) \/ StartStatus(c),
         state' = "half_open", hoCalls' >= HalfOpenMaxCalls
  PROVE  \/ Rescuing(c)'
         \/ state = "half_open" /\ hoCalls >= HalfOpenMaxCalls /\ ~Rescuing(c)
<1> USE BreakerAssumption DEF TypeOK, Rescuing, Enter, Goto, keys, budgets
<1>1. CASE StartCall(c) \/ StartStatus(c) \/ CallReturns(c) \/ CallRaises(c)
  BY <1>1 DEF StartCall, StartStatus, CallReturns, CallRaises
<1>2. CASE GetState(c)
  BY <1>2, ResumeOutcome DEF GetState, OpInv
<1>3. CASE GetOpenedAt(c)
  BY <1>3 DEF GetOpenedAt
<1>4. CASE SetHalfOpen(c) \/ ZeroHoCalls(c)
  BY <1>4 DEF SetHalfOpen, ZeroHoCalls
<1>5. CASE IncrHoCalls(c)
  BY <1>5 DEF IncrHoCalls, AtMost
<1>6. CASE Success(c)
  BY <1>6 DEF Success, SetClosed, ZeroFailuresClosing, DelHoCalls, ZeroFailures
<1>7. CASE Failure(c)
  BY <1>7 DEF Failure, IncrFailures, SetOpen, SetOpenedAt
<1> QED
  BY <1>1, <1>2, <1>3, <1>4, <1>5, <1>6, <1>7 DEF Work, Getter

(* An exhausted half-open circuit always has a rescuer.                    *)
LEMMA StepHalfOpen == TypeOK /\ OpInv /\ HalfOpenInv /\ [Next]_vars => HalfOpenInv'
<1> SUFFICES ASSUME TypeOK, OpInv, HalfOpenInv, [Next]_vars, crashes' = 0,
                    state' = "half_open", hoCalls' >= HalfOpenMaxCalls
             PROVE  \E d \in Clients : Rescuing(d)'
  BY DEF HalfOpenInv
<1>1. ASSUME NEW c \in Clients, Work(c) \/ StartStatus(c)
      PROVE  \E d \in Clients : Rescuing(d)'
  <2>1. crashes = 0
    BY <1>1
       DEF Work, StartStatus, StartCall, CallReturns, CallRaises, Getter, GetState,
           GetOpenedAt, SetHalfOpen, ZeroHoCalls, IncrHoCalls, Success, SetClosed,
           ZeroFailuresClosing, DelHoCalls, ZeroFailures, Failure, IncrFailures,
           SetOpen, SetOpenedAt, budgets
  <2>2. CASE Rescuing(c)'
    BY <2>2
  <2>3. CASE state = "half_open" /\ hoCalls >= HalfOpenMaxCalls /\ ~Rescuing(c)
    <3>1. PICK r \in Clients : Rescuing(r)
      BY <2>1, <2>3 DEF HalfOpenInv
    <3>2. pc'[r] = pc[r] /\ op'[r] = op[r]
      BY <1>1, <2>3, <3>1, OthersStay
    <3> QED
      BY <3>1, <3>2 DEF Rescuing
  <2> QED
    BY <1>1, <2>2, <2>3, OwnRescue
<1>2. ASSUME NEW c \in Clients, Crash(c)
      PROVE  FALSE
  BY <1>2 DEF Crash, TypeOK
<1>3. CASE Reset
  BY <1>3 DEF Reset
<1>4. CASE Heal \/ Tick \/ UNCHANGED vars
  BY <1>4 DEF Heal, Tick, vars, keys, budgets, HalfOpenInv, Rescuing
<1> QED
  BY <1>1, <1>2, <1>3, <1>4 DEF Next

(* The same argument for a closed circuit whose failure count is full.     *)
LEMMA OwnDisarm ==
  ASSUME TypeOK, NEW c \in Clients, Work(c) \/ StartStatus(c),
         state' = "closed", failures' >= FailureThreshold
  PROVE  \/ Disarming(c)'
         \/ state = "closed" /\ failures >= FailureThreshold /\ ~Disarming(c)
<1> USE BreakerAssumption DEF TypeOK, Disarming, Enter, Goto, keys, budgets
<1>1. CASE StartCall(c) \/ StartStatus(c) \/ CallReturns(c) \/ CallRaises(c)
  BY <1>1 DEF StartCall, StartStatus, CallReturns, CallRaises
<1>2. CASE Getter(c)
  BY <1>2 DEF Getter, GetState, GetOpenedAt, SetHalfOpen, ZeroHoCalls
<1>3. CASE IncrHoCalls(c)
  BY <1>3 DEF IncrHoCalls
<1>4. CASE Success(c)
  BY <1>4 DEF Success, SetClosed, ZeroFailuresClosing, DelHoCalls, ZeroFailures
<1>5. CASE Failure(c)
  BY <1>5 DEF Failure, IncrFailures, SetOpen, SetOpenedAt, AtMost
<1> QED
  BY <1>1, <1>2, <1>3, <1>4, <1>5 DEF Work, Getter

(* A closed circuit at its threshold is always being disarmed.             *)
LEMMA StepClosed == TypeOK /\ ClosedInv /\ [Next]_vars => ClosedInv'
<1> SUFFICES ASSUME TypeOK, ClosedInv, [Next]_vars, crashes' = 0,
                    state' = "closed", failures' >= FailureThreshold
             PROVE  \E d \in Clients : Disarming(d)'
  BY DEF ClosedInv
<1>1. ASSUME NEW c \in Clients, Work(c) \/ StartStatus(c)
      PROVE  \E d \in Clients : Disarming(d)'
  <2>1. crashes = 0
    BY <1>1
       DEF Work, StartStatus, StartCall, CallReturns, CallRaises, Getter, GetState,
           GetOpenedAt, SetHalfOpen, ZeroHoCalls, IncrHoCalls, Success, SetClosed,
           ZeroFailuresClosing, DelHoCalls, ZeroFailures, Failure, IncrFailures,
           SetOpen, SetOpenedAt, budgets
  <2>2. CASE Disarming(c)'
    BY <2>2
  <2>3. CASE state = "closed" /\ failures >= FailureThreshold /\ ~Disarming(c)
    <3>1. PICK r \in Clients : Disarming(r)
      BY <2>1, <2>3 DEF ClosedInv
    <3>2. pc'[r] = pc[r]
      BY <1>1, <2>3, <3>1, OthersStay
    <3> QED
      BY <3>1, <3>2 DEF Disarming
  <2> QED
    BY <1>1, <2>2, <2>3, OwnDisarm
<1>2. ASSUME NEW c \in Clients, Crash(c)
      PROVE  FALSE
  BY <1>2 DEF Crash, TypeOK
<1>3. CASE Reset
  BY <1>3, BreakerAssumption DEF Reset
<1>4. CASE Heal \/ Tick \/ UNCHANGED vars
  BY <1>4 DEF Heal, Tick, vars, keys, budgets, ClosedInv, Disarming
<1> QED
  BY <1>1, <1>2, <1>3, <1>4 DEF Next

-----------------------------------------------------------------------------

(* The inductive invariant of the circuit breaker.                         *)
THEOREM BreakerInvariant == Spec => []BreakerInv
<1>1. Init => BreakerInv
  <2>1. Init => TypeOK
    BY InitType
  <2>2. Init => OpInv /\ HalfOpenInv /\ ClosedInv
    BY BreakerAssumption DEF Init, OpInv, HalfOpenInv, ClosedInv
  <2> QED
    BY <2>1, <2>2 DEF BreakerInv
<1>2. BreakerInv /\ [Next]_vars => BreakerInv'
  BY StepType, StepOp, StepHalfOpen, StepClosed DEF BreakerInv
<1> QED
  BY <1>1, <1>2, PTL DEF Spec

(* With no client killed, a half-open circuit nobody is working on always  *)
(* has a trial call to grant: it cannot be left rejecting every request.   *)
THEOREM HalfOpenNotStuck == Spec => []HalfOpenHasTrial
<1>1. BreakerInv => HalfOpenHasTrial
  <2> SUFFICES ASSUME BreakerInv, Settled, state = "half_open"
               PROVE  hoCalls < HalfOpenMaxCalls
    BY DEF HalfOpenHasTrial
  <2>1. ~\E c \in Clients : Rescuing(c)
    BY DEF Settled, Rescuing
  <2> QED
    BY <2>1, BreakerAssumption DEF BreakerInv, HalfOpenInv, Settled, TypeOK
<1> QED
  BY <1>1, BreakerInvariant, PTL

(* With no client killed, a closed circuit nobody is working on has fewer  *)
(* than failure_threshold failures on its counter.                         *)
THEOREM ClosedStaysArmed == Spec => []ClosedIsArmed
<1>1. BreakerInv => ClosedIsArmed
  <2> SUFFICES ASSUME BreakerInv, Settled, state = "closed"
               PROVE  failures < FailureThreshold
    BY DEF ClosedIsArmed
  <2>1. ~\E c \in Clients : Disarming(c)
    BY DEF Settled, Disarming
  <2> QED
    BY <2>1, BreakerAssumption DEF BreakerInv, ClosedInv, Settled, TypeOK
<1> QED
  BY <1>1, BreakerInvariant, PTL
-----------------------------------------------------------------------------
(* One worker that has the breaker to itself implements BreakerProtocol.   *)
(* Nobody else writes the keys, so the state that a step of it has read is *)
(* the state when the next one writes; the streak is the count of failures *)
(* unless a success is about to zero that, or the last one to trip; and    *)
(* opened_at is ahead of the opening by less than a second.                *)
Alone(c) == Callers = {c} /\ Monitors = {} /\ CrashLimit = 0 /\ ResetLimit = 0

HeldInv(c) ==
  /\ pc[c] \in {"get_opened_at", "set_half_open", "set_opened_at"} => state = "open"
  /\ pc[c] \in {"zero_ho_calls", "incr_ho_calls", "set_closed"} => state = "half_open"
  /\ pc[c] \in {"incr_failures", "zero_failures", "zero_failures_closing", "del_ho_calls"}
       => state = "closed"
  /\ pc[c] = "set_open" => state \in {"closed", "half_open"}

Succeeding(c) ==
  \/ pc[c] \in {"zero_failures", "zero_failures_closing"}
  \/ pc[c] = "get_state" /\ op[c] = "success"

RowInv(c) ==
  /\ row \in Nat
  /\ state # "closed" \/ Succeeding(c) => row = 0
  /\ state = "closed" /\ pc[c] = "set_open" => row + 1 = FailureThreshold
  /\ state = "closed" /\ ~ Succeeding(c) /\ pc[c] # "set_open"
       => failures = row /\ row < FailureThreshold

AgeInv(c) ==
  /\ elapsed \in 0 .. RecoveryTicks
  /\ state = "open" /\ pc[c] # "set_opened_at" => age < elapsed + Second
  /\ pc[c] = "set_half_open" => age = RecoveryTicks

SerialInv(c) == TypeOK /\ HeldInv(c) /\ RowInv(c) /\ AgeInv(c)

(* What the histories do in a step of the worker, and in one that is not.  *)
LEMMA Observed ==
  ASSUME NEW c, Alone(c), TypeOK, SerialNext
  PROVE  /\ Opened => elapsed' = 0 /\ row' = 0
         /\ ~ Opened /\ pc' # pc => elapsed' = elapsed
         /\ ~ Opened => elapsed' \in {elapsed, AtMost(elapsed + 1, RecoveryTicks)}
         /\ ~ Opened /\ pc[c] \notin {"call", "incr_failures"} => row' = row
         /\ ~ Opened /\ pc' = pc => row' = row
         /\ CallReturns(c) => row' = 0
         /\ CallRaises(c) => row' = row
         /\ ~ Opened /\ IncrFailures(c) =>
              row' = IF pc'[c] # "set_open" THEN row + 1 ELSE row
<1>1. Clients = {c} BY DEF Alone, Clients
<1>2. /\ elapsed' = IF Opened THEN 0
                    ELSE IF Tick THEN AtMost(elapsed + 1, RecoveryTicks) ELSE elapsed
      /\ row' = IF Opened \/ CallReturns(c) THEN 0
                ELSE IF IncrFailures(c) /\ pc'[c] # "set_open" THEN row + 1 ELSE row
  BY <1>1 DEF SerialNext, Returned, Recorded
<1>3. CallReturns(c) => pc[c] = "call" /\ pc' # pc /\ op'[c] = "success"
  BY <1>1 DEF CallReturns, Enter, TypeOK
<1>4. IncrFailures(c) => pc[c] = "incr_failures" /\ pc' # pc
  BY <1>1 DEF IncrFailures, Enter, Goto, AfterFailure, TypeOK
<1>5. Tick => pc' = pc BY DEF Tick
<1>6. CallRaises(c) => pc[c] = "call" /\ ~ Opened /\ op'[c] = "failure"
  BY <1>1 DEF CallRaises, Enter, TypeOK, Opened, keys
<1> QED BY <1>2, <1>3, <1>4, <1>5, <1>6, Zenon

(* What is the same before and after a step that leaves the circuit alone. *)
LEMMA Stutter ==
  ASSUME UNCHANGED <<state, row, elapsed>>
  PROVE  [Protocol!Next]_(Protocol!protocol)
BY DEF Protocol!protocol

(* A call begins, ends or runs its next trial: the circuit is not touched, *)
(* but a call that returns ends the streak.                                *)
LEMMA SerialCall ==
  ASSUME NEW c, Alone(c), SerialInv(c), SerialNext,
         StartCall(c) \/ CallReturns(c) \/ CallRaises(c) \/ IncrHoCalls(c)
  PROVE  /\ HeldInv(c)' /\ RowInv(c)' /\ AgeInv(c)'
         /\ [Protocol!Next]_(Protocol!protocol)
<1>1. c \in Clients BY DEF Alone, Clients
<1>2. TypeOK /\ HeldInv(c) /\ RowInv(c) /\ AgeInv(c) BY DEF SerialInv
<1>3. UNCHANGED <<state, failures, age>> /\ ~ Opened
  BY DEF StartCall, CallReturns, CallRaises, IncrHoCalls, keys, Opened
<1>4. /\ pc[c] \in {"idle", "call", "incr_ho_calls"}
      /\ pc' # pc
      /\ pc'[c] \in {"get_state", "call", "idle"}
      /\ pc'[c] = "get_state" => op'[c] = IF CallReturns(c) THEN "success"
                                          ELSE IF StartCall(c) THEN "allow" ELSE "failure"
  BY <1>1, <1>2 DEF StartCall, CallReturns, CallRaises, IncrHoCalls, Enter, TypeOK
<1>5. elapsed' = elapsed BY <1>2, <1>3, <1>4, Observed
<1>6. CASE CallReturns(c)
  <2>1. row' = 0 BY <1>2, <1>6, Observed
  <2>2. HeldInv(c)' /\ AgeInv(c)'
    BY <1>2, <1>3, <1>4, <1>5 DEF HeldInv, AgeInv
  <2>3. pc'[c] = "get_state" /\ op'[c] = "success"
    BY <1>1, <1>2, <1>4, <1>6 DEF CallReturns, Enter, TypeOK
  <2>4. RowInv(c)' BY <2>1, <2>3 DEF RowInv, Succeeding
  <2>5. CASE state = "closed"
    BY <1>3, <1>5, <2>1, <2>2, <2>4, <2>5 DEF Protocol!Next, Protocol!Succeed
  <2>6. CASE state # "closed"
    <3>1. row' = row BY <1>2, <2>1, <2>6 DEF RowInv
    <3> QED BY <1>3, <1>5, <2>2, <2>4, <3>1, Stutter
  <2> QED BY <2>5, <2>6
<1>7. CASE ~ CallReturns(c)
  <2>1. row' = row
    <3>1. CASE CallRaises(c) BY <1>2, <3>1, Observed
    <3>2. CASE StartCall(c) \/ IncrHoCalls(c)
      <4>1. pc[c] \in {"idle", "incr_ho_calls"} BY <3>2 DEF StartCall, IncrHoCalls
      <4> QED BY <1>2, <1>3, <4>1, Observed
    <3> QED BY <1>7, <3>1, <3>2
  <2>2. HeldInv(c)' /\ AgeInv(c)'
    BY <1>2, <1>3, <1>4, <1>5 DEF HeldInv, AgeInv
  <2>3. ~ Succeeding(c) /\ pc[c] # "set_open" BY <1>4 DEF Succeeding
  <2>4. ~ Succeeding(c)' /\ pc'[c] # "set_open" BY <1>4, <1>7 DEF Succeeding
  <2>5. RowInv(c)' BY <1>2, <1>3, <2>1, <2>3, <2>4 DEF RowInv
  <2> QED BY <1>3, <1>5, <2>1, <2>2, <2>5, Stutter
<1> QED BY <1>6, <1>7

(* The state getter: what it promotes has been open for long enough.       *)
LEMMA SerialGetter ==
  ASSUME NEW c, Alone(c), SerialInv(c), SerialNext, Getter(c)
  PROVE  /\ HeldInv(c)' /\ RowInv(c)' /\ AgeInv(c)'
         /\ [Protocol!Next]_(Protocol!protocol)
<1>1. c \in Clients BY DEF Alone, Clients
<1>2. TypeOK /\ HeldInv(c) /\ RowInv(c) /\ AgeInv(c) BY DEF SerialInv
<1>3. UNCHANGED <<failures, age>> /\ ~ Opened
  BY DEF Getter, GetState, GetOpenedAt, SetHalfOpen, ZeroHoCalls, keys, Opened
<1>4. pc[c] \in {"get_state", "get_opened_at", "set_half_open", "zero_ho_calls"} /\ pc' # pc
  <2>1. ASSUME NEW o, NEW step, Enter(c, o, step) PROVE pc'[c] = step
    BY <1>1, <1>2, <2>1 DEF Enter, TypeOK
  <2>2. ASSUME NEW st, Resume(c, st)
        PROVE  pc'[c] \notin {"get_state", "get_opened_at", "zero_ho_calls"}
    BY <2>1, <2>2 DEF Resume, AllowRequest, RecordSuccess, RecordFailure, AfterFailure
  <2> QED
    BY <1>1, <1>2, <2>2
       DEF Getter, GetState, GetOpenedAt, SetHalfOpen, ZeroHoCalls, Goto, TypeOK
<1>5. elapsed' = elapsed /\ row' = row BY <1>2, <1>3, <1>4, Observed
<1>6. CASE SetHalfOpen(c)
  <2>1. pc[c] = "set_half_open" /\ state = "open" /\ state' = "half_open"
        /\ pc'[c] = "zero_ho_calls"
    BY <1>1, <1>2, <1>6 DEF SetHalfOpen, Goto, HeldInv, TypeOK
  <2>2. elapsed >= RecoveryTicks - Second + 1
    BY <1>2, <2>1, BreakerAssumption DEF AgeInv, TypeOK
  <2>3. row = 0 BY <1>2, <2>1 DEF RowInv
  <2> QED
    BY <1>2, <1>5, <2>1, <2>2, <2>3
       DEF HeldInv, RowInv, AgeInv, Succeeding, Protocol!Next, Protocol!Probe
<1>7. ASSUME NEW st, Resume(c, st), st = state, UNCHANGED state,
             pc[c] # "get_state" => op[c] # "success" \/ state # "closed"
      PROVE  HeldInv(c)' /\ RowInv(c)' /\ AgeInv(c)'
  <2>1. ASSUME NEW o, NEW step, Enter(c, o, step) PROVE pc'[c] = step /\ op'[c] = o
    BY <1>1, <1>2, <2>1 DEF Enter, TypeOK
  <2>2. \/ pc'[c] \in {"idle", "call"} /\ (op[c] = "success" => state = "open")
        \/ pc'[c] = "incr_ho_calls" /\ state = "half_open"
        \/ pc'[c] = "zero_failures" /\ state = "closed" /\ op[c] = "success"
        \/ pc'[c] = "set_closed" /\ state = "half_open"
        \/ pc'[c] = "incr_failures" /\ state = "closed" /\ op[c] # "success"
        \/ pc'[c] = "set_open" /\ state = "half_open"
    BY <1>7, <2>1
       DEF Resume, AllowRequest, RecordSuccess, RecordFailure, AfterFailure
  <2>3. HeldInv(c)' BY <1>7, <2>2 DEF HeldInv
  <2>4. AgeInv(c)' BY <1>2, <1>3, <1>4, <1>5, <1>7, <2>2 DEF AgeInv
  <2>5. RowInv(c)' BY <1>2, <1>3, <1>4, <1>5, <1>7, <2>2 DEF RowInv, Succeeding
  <2> QED BY <2>3, <2>4, <2>5
<1>8. CASE GetState(c)
  <2>1. pc[c] = "get_state" /\ UNCHANGED state BY <1>8 DEF GetState, keys
  <2>2. CASE state = "open"
    <3>1. pc'[c] = "get_opened_at"
      BY <1>1, <1>2, <1>8, <2>2 DEF GetState, Goto, TypeOK
    <3> QED
      BY <1>2, <1>3, <1>5, <2>1, <2>2, <3>1, Stutter DEF HeldInv, RowInv, AgeInv
  <2>3. CASE state # "open"
    BY <1>5, <1>7, <1>8, <2>1, <2>3, Stutter DEF GetState
  <2> QED BY <2>2, <2>3
<1>9. CASE GetOpenedAt(c)
  <2>1. pc[c] = "get_opened_at" /\ state = "open" /\ UNCHANGED state
    BY <1>2, <1>9 DEF GetOpenedAt, keys, HeldInv
  <2>2. CASE age >= RecoveryTicks
    <3>1. pc'[c] = "set_half_open" /\ age = RecoveryTicks
      BY <1>1, <1>2, <1>9, <2>2, BreakerAssumption DEF GetOpenedAt, Goto, TypeOK
    <3> QED
      BY <1>2, <1>3, <1>5, <2>1, <3>1, Stutter DEF HeldInv, RowInv, AgeInv
  <2>3. CASE ~ (age >= RecoveryTicks)
    BY <1>5, <1>7, <1>9, <2>1, <2>3, Stutter DEF GetOpenedAt
  <2> QED BY <2>2, <2>3
<1>10. CASE ZeroHoCalls(c)
  <2>1. pc[c] = "zero_ho_calls" /\ state = "half_open" /\ UNCHANGED state
    BY <1>2, <1>10 DEF ZeroHoCalls, HeldInv
  <2> QED BY <1>5, <1>7, <1>10, <2>1, Stutter DEF ZeroHoCalls
<1> QED BY <1>6, <1>8, <1>9, <1>10 DEF Getter

(* The failures of a closed circuit are counted one by one, and the one    *)
(* that reaches the threshold, or a failed trial, opens it.                *)
LEMMA SerialFailure ==
  ASSUME NEW c, Alone(c), SerialInv(c), SerialNext, Failure(c)
  PROVE  /\ HeldInv(c)' /\ RowInv(c)' /\ AgeInv(c)'
         /\ [Protocol!Next]_(Protocol!protocol)
<1>1. c \in Clients BY DEF Alone, Clients
<1>2. TypeOK /\ HeldInv(c) /\ RowInv(c) /\ AgeInv(c) BY DEF SerialInv
<1>3. AfterFailure(c) => pc'[c] \in {"call", "idle"} /\ op'[c] = "none"
  BY <1>1, <1>2 DEF AfterFailure, Enter, TypeOK
<1>4. CASE IncrFailures(c)
  <2>1. /\ pc[c] = "incr_failures" /\ state = "closed"
        /\ failures = row /\ row \in Nat /\ row < FailureThreshold
    BY <1>2, <1>4 DEF IncrFailures, HeldInv, RowInv, Succeeding
  <2>2. UNCHANGED <<state, age>> /\ ~ Opened BY <1>4 DEF IncrFailures, Opened
  <2>3. failures' = row + 1 BY <1>4, <2>1, BreakerAssumption DEF IncrFailures, AtMost
  <2>4. /\ pc'[c] \in {"set_open", "call", "idle"}
        /\ pc'[c] = "set_open" <=> row + 1 = FailureThreshold
    <3>1. CASE failures' >= FailureThreshold
      BY <1>1, <1>2, <1>4, <2>1, <2>3, <3>1, BreakerAssumption
         DEF IncrFailures, Goto, TypeOK
    <3>2. CASE ~ (failures' >= FailureThreshold)
      BY <1>3, <1>4, <2>3, <3>2, BreakerAssumption DEF IncrFailures
    <3> QED BY <3>1, <3>2
  <2>5. elapsed' = elapsed
    <3>1. pc' # pc BY <2>1, <2>4
    <3> QED BY <1>2, <2>2, <3>1, Observed
  <2>6. row' = IF pc'[c] # "set_open" THEN row + 1 ELSE row
    BY <1>2, <1>4, <2>2, Observed
  <2>7. HeldInv(c)' /\ AgeInv(c)'
    BY <1>2, <2>1, <2>2, <2>4, <2>5 DEF HeldInv, AgeInv
  <2>8. RowInv(c)'
    BY <2>1, <2>2, <2>3, <2>4, <2>6, BreakerAssumption DEF RowInv, Succeeding
  <2>9. [Protocol!Next]_(Protocol!protocol)
    <3>1. CASE pc'[c] = "set_open" BY <2>2, <2>5, <2>6, <3>1, Stutter
    <3>2. CASE pc'[c] # "set_open"
      <4>1. row + 1 < FailureThreshold BY <2>1, <2>4, <3>2, BreakerAssumption
      <4> QED
        BY <2>1, <2>2, <2>5, <2>6, <3>2, <4>1 DEF Protocol!Next, Protocol!Fail
    <3> QED BY <3>1, <3>2
  <2> QED BY <2>7, <2>8, <2>9
<1>5. CASE SetOpen(c)
  <2>1. /\ pc[c] = "set_open" /\ state \in {"closed", "half_open"}
        /\ state' = "open" /\ pc'[c] = "set_opened_at" /\ Opened
    BY <1>1, <1>2, <1>5 DEF SetOpen, Goto, HeldInv, TypeOK, Opened
  <2>2. elapsed' = 0 /\ row' = 0 BY <1>2, <2>1, Observed
  <2>3. HeldInv(c)' /\ RowInv(c)' /\ AgeInv(c)'
    BY <2>1, <2>2, BreakerAssumption DEF HeldInv, RowInv, AgeInv, Succeeding
  <2>4. state = "closed" => row + 1 = FailureThreshold BY <1>2, <2>1 DEF RowInv
  <2> QED BY <2>1, <2>2, <2>3, <2>4 DEF Protocol!Next, Protocol!Trip
<1>6. CASE SetOpenedAt(c)
  <2>1. /\ pc[c] = "set_opened_at" /\ state = "open" /\ UNCHANGED <<state, failures>>
        /\ pc'[c] \in {"call", "idle"} /\ ~ Opened
    BY <1>2, <1>3, <1>6 DEF SetOpenedAt, HeldInv, Opened
  <2>2. row' = row /\ elapsed' = elapsed
    <3>1. pc' # pc BY <2>1
    <3> QED BY <1>2, <2>1, <3>1, Observed
  <2>3. age' < elapsed + Second
    BY <1>2, <1>6, BreakerAssumption DEF SetOpenedAt, AtMost, TypeOK, AgeInv
  <2>4. HeldInv(c)' /\ RowInv(c)' /\ AgeInv(c)'
    BY <1>2, <2>1, <2>2, <2>3 DEF HeldInv, RowInv, AgeInv, Succeeding
  <2> QED BY <2>1, <2>2, <2>4, Stutter
<1> QED BY <1>4, <1>5, <1>6 DEF Failure

(* A success closes the circuit, or has already ended the streak.          *)
LEMMA SerialSuccess ==
  ASSUME NEW c, Alone(c), SerialInv(c), SerialNext, Success(c)
  PROVE  /\ HeldInv(c)' /\ RowInv(c)' /\ AgeInv(c)'
         /\ [Protocol!Next]_(Protocol!protocol)
<1>1. c \in Clients BY DEF Alone, Clients
<1>2. TypeOK /\ HeldInv(c) /\ RowInv(c) /\ AgeInv(c) BY DEF SerialInv
<1>3. UNCHANGED age /\ ~ Opened
  BY DEF Success, SetClosed, ZeroFailuresClosing, DelHoCalls, ZeroFailures, Opened
<1>4. CASE SetClosed(c)
  <2>1. /\ pc[c] = "set_closed" /\ state = "half_open" /\ state' = "closed"
        /\ pc'[c] = "zero_failures_closing"
    BY <1>1, <1>2, <1>4 DEF SetClosed, Goto, HeldInv, TypeOK
  <2>2. elapsed' = elapsed /\ row' = row
    <3>1. pc' # pc BY <2>1
    <3> QED BY <1>2, <1>3, <2>1, <3>1, Observed
  <2>3. row = 0 BY <1>2, <2>1 DEF RowInv
  <2>4. HeldInv(c)' /\ RowInv(c)' /\ AgeInv(c)'
    BY <1>2, <1>3, <2>1, <2>2, <2>3 DEF HeldInv, RowInv, AgeInv, Succeeding
  <2> QED BY <2>1, <2>2, <2>3, <2>4 DEF Protocol!Next, Protocol!Succeed
<1>5. CASE ZeroFailuresClosing(c) \/ DelHoCalls(c) \/ ZeroFailures(c)
  <2>1. /\ pc[c] \in {"zero_failures_closing", "del_ho_calls", "zero_failures"}
        /\ state = "closed" /\ UNCHANGED state
    BY <1>2, <1>5 DEF ZeroFailuresClosing, DelHoCalls, ZeroFailures, HeldInv
  <2>2. /\ pc'[c] \in {"del_ho_calls", "idle"} /\ pc'[c] # pc[c]
        /\ failures' = IF pc[c] = "del_ho_calls" THEN failures ELSE 0
    BY <1>1, <1>2, <1>5 DEF ZeroFailuresClosing, DelHoCalls, ZeroFailures, Goto, Enter, TypeOK
  <2>3. elapsed' = elapsed /\ row' = row
    <3>1. pc' # pc BY <2>2
    <3> QED BY <1>2, <1>3, <2>1, <3>1, Observed
  <2>4. RowInv(c)'
    BY <1>2, <2>1, <2>2, <2>3, BreakerAssumption DEF RowInv, Succeeding
  <2>5. HeldInv(c)' /\ AgeInv(c)'
    BY <1>2, <1>3, <2>1, <2>2, <2>3 DEF HeldInv, AgeInv
  <2> QED BY <2>1, <2>3, <2>4, <2>5, Stutter
<1> QED BY <1>4, <1>5 DEF Success

(* What the worker does not do itself only lets time pass.                 *)
LEMMA SerialRest ==
  ASSUME NEW c, Alone(c), SerialInv(c), SerialNext, Heal \/ Tick
  PROVE  /\ HeldInv(c)' /\ RowInv(c)' /\ AgeInv(c)'
         /\ [Protocol!Next]_(Protocol!protocol)
<1>1. TypeOK /\ HeldInv(c) /\ RowInv(c) /\ AgeInv(c) BY DEF SerialInv
<1>2. UNCHANGED <<state, failures, pc, op>> /\ ~ Opened BY DEF Heal, Tick, keys, Opened
<1>3. row' = row /\ elapsed' \in {elapsed, AtMost(elapsed + 1, RecoveryTicks)}
  BY <1>1, <1>2, Observed
<1>4. HeldInv(c)' /\ RowInv(c)' BY <1>1, <1>2, <1>3 DEF HeldInv, RowInv, Succeeding
<1>5. AgeInv(c)'
  <2>1. CASE Tick
    <3>1. age' = AtMost(age + 1, RecoveryTicks) BY <2>1 DEF Tick
    <3>2. elapsed' = AtMost(elapsed + 1, RecoveryTicks)
      BY <1>2, <2>1 DEF SerialNext
    <3> QED
      BY <1>1, <1>2, <3>1, <3>2, BreakerAssumption DEF AgeInv, AtMost, TypeOK
  <2>2. CASE Heal
    <3>1. UNCHANGED age BY <2>2 DEF Heal, keys
    <3>2. ~ Tick BY <1>1, <2>2 DEF Heal, Tick, budgets
    <3>3. elapsed' = elapsed BY <1>2, <3>2 DEF SerialNext
    <3> QED BY <1>1, <1>2, <3>1, <3>3 DEF AgeInv
  <2> QED BY <2>1, <2>2
<1>6. elapsed' \in {elapsed, elapsed + 1}
  BY <1>1, <1>3, BreakerAssumption DEF AgeInv, AtMost
<1> QED
  BY <1>2, <1>3, <1>4, <1>5, <1>6 DEF Protocol!Next, Protocol!Elapse

(* Every step of the worker's breaker is a step of the protocol, or none.  *)
LEMMA SerialStep ==
  ASSUME NEW c, Alone(c), SerialInv(c), [SerialNext]_<<vars, elapsed, row>>
  PROVE  SerialInv(c)' /\ [Protocol!Next]_(Protocol!protocol)
<1>1. TypeOK' BY StepType DEF SerialInv, SerialNext, vars
<1>2. CASE UNCHANGED <<vars, elapsed, row>>
  <2>1. HeldInv(c)' /\ RowInv(c)' /\ AgeInv(c)'
    BY <1>2 DEF SerialInv, vars, HeldInv, RowInv, AgeInv, Succeeding
  <2> QED BY <1>1, <1>2, <2>1, Stutter DEF SerialInv, vars
<1>3. CASE SerialNext
  <2>1. Clients = {c} /\ c \notin Monitors BY DEF Alone, Clients
  <2>2. ~ Reset /\ ~ Crash(c) /\ ~ StartStatus(c)
    BY <2>1, BreakerAssumption DEF SerialInv, TypeOK, Alone, Reset, Crash, StartStatus
  <2>3. Work(c) \/ Heal \/ Tick BY <1>3, <2>1, <2>2 DEF SerialNext, Next
  <2>4. CASE Work(c)
    BY <1>1, <1>3, <2>4, SerialCall, SerialGetter, SerialFailure, SerialSuccess
       DEF Work, SerialInv
  <2>5. CASE Heal \/ Tick BY <1>1, <1>3, <2>5, SerialRest DEF SerialInv
  <2> QED BY <2>3, <2>4, <2>5
<1> QED BY <1>2, <1>3

(* A worker that has the breaker to itself sees the state diagram of the   *)
(* class docstring, whatever the threshold, the timeout, the trial limit   *)
(* and the retries: opened by failure_threshold failures with no success   *)
(* between them or by a failed trial, half-open no sooner than             *)
(* recovery_timeout less the fraction of a second opened_at drops, closed  *)
(* only by a success.                                                      *)
THEOREM SerialRefinement ==
  ASSUME NEW c, Alone(c)
  PROVE  SerialSpec => ImplementsProtocol
<1>1. SerialInit => SerialInv(c) /\ Protocol!Init
  <2>1. Init => TypeOK BY InitType
  <2>2. c \in Clients BY DEF Alone, Clients
  <2> QED
    BY <2>1, <2>2, BreakerAssumption
       DEF SerialInit, Init, SerialInv, HeldInv, RowInv, AgeInv, Succeeding, Protocol!Init
<1>2. SerialInv(c) /\ [SerialNext]_<<vars, elapsed, row>>
        => SerialInv(c)' /\ [Protocol!Next]_(Protocol!protocol)
  BY SerialStep
<1> QED BY <1>1, <1>2, PTL DEF SerialSpec, ImplementsProtocol, Protocol!Spec
=============================================================================
