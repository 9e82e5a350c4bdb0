------------------------------ MODULE RetryDemo ------------------------------
(***************************************************************************)
(* RetryEngine of kit-api (kit_api/retry_engine.py) as the example app's   *)
(* retry endpoint runs it (example-app/main.py): every request retries a   *)
(* function that fails fail_times times, and the requests count their      *)
(* attempts in one global variable of the module.                          *)
(***************************************************************************)
EXTENDS Integers

CONSTANTS
  Demos,         (* requests to the endpoint, each in a thread of its own  *)
  MaxRetries

VARIABLES
  count,         (* _retry_call_count                                      *)
  failTimes,     (* fail_times of each request                             *)
  attempt,       (* the attempt that execute() is at                       *)
  loaded,        (* the count a thread has loaded to add one to            *)
  line,          (* where each thread is                                   *)
  mixed          (* history: requests that ran beside another one          *)

vars == <<count, failTimes, attempt, loaded, line, mixed>>

Init ==
  /\ count = 0
  /\ failTimes \in [Demos -> 0 .. MaxRetries + 1]
  /\ attempt = [d \in Demos |-> 0] /\ loaded = [d \in Demos |-> 0]
  /\ line = [d \in Demos |-> "start"]
  /\ mixed = {}

Running == {d \in Demos : line[d] \notin {"start", "success", "exhausted"}}
At(d, l) == line' = [line EXCEPT ![d] = l]

(* Mutant: the count goes on from the last request.                        *)
KeepCount == UNCHANGED count

ZeroCount == count' = 0

Start(d) ==
  /\ line[d] = "start" /\ ZeroCount
  /\ At(d, "load")
  /\ mixed' = IF Running = {} THEN mixed ELSE mixed \cup Running \cup {d}
  /\ UNCHANGED <<failTimes, attempt, loaded>>

(* += on a global is a load and a store, and threads switch in between.    *)
LoadCount(d) ==
  /\ line[d] = "load" /\ loaded' = [loaded EXCEPT ![d] = count]
  /\ At(d, "store")
  /\ UNCHANGED <<count, failTimes, attempt, mixed>>

StoreCount(d) ==
  /\ line[d] = "store" /\ count' = loaded[d] + 1
  /\ At(d, "test")
  /\ UNCHANGED <<failTimes, attempt, loaded, mixed>>

(* The function returns or raises by the count as it is now.  execute()    *)
(* repeats it after a delay, up to max_retries times.                      *)
Returns(d) ==
  /\ line[d] = "test" /\ count > failTimes[d]
  /\ At(d, "success")
  /\ UNCHANGED <<count, failTimes, attempt, loaded, mixed>>

Raises(d) ==
  /\ line[d] = "test" /\ count <= failTimes[d]
  /\ IF attempt[d] = MaxRetries
       THEN At(d, "exhausted") /\ UNCHANGED attempt
       ELSE /\ attempt' = [attempt EXCEPT ![d] = @ + 1]
            /\ At(d, "load")
  /\ UNCHANGED <<count, failTimes, loaded, mixed>>

Next ==
  \E d \in Demos :
    Start(d) \/ LoadCount(d) \/ StoreCount(d) \/ Returns(d) \/ Raises(d)

Spec == Init /\ [][Next]_vars

(* "Max retries is 3, so fail_times <= 3 will succeed": and more will not. *)
(* That is so for a request that ran alone; the count of one that ran      *)
(* beside another is set back, or runs ahead, under it.                    *)
DemoIsTrue ==
  \A d \in Demos \ mixed :
    /\ line[d] = "success" => failTimes[d] <= MaxRetries
    /\ line[d] = "exhausted" => failTimes[d] > MaxRetries
=============================================================================
