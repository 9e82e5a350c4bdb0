--------------------------- MODULE EventProcessor ---------------------------
(***************************************************************************)
(* EventProcessor (kit_pay/event_processor.py) around WebhookReceiver:     *)
(* enqueue, process_batch and retry_failed over the Redis lists `queue`,   *)
(* `failed` and `dead_letter` and their five metric counters, and the      *)
(* webhook endpoint, which calls process() without the queue.  Every       *)
(* process may run any of them; every Redis command is one action.         *)
(***************************************************************************)
EXTENDS WebhookReceiver

CONSTANTS
  Queued,       (* the deliveries that are enqueued; the endpoint gets the *)
                (*   others                                                *)
  MaxRetries,   (* MAX_RETRIES                                             *)
  CrashLimit    (* bound: processes killed, or a Redis error outside       *)
                (*   process()'s try, in the middle of an operation        *)

ASSUME ProcessorAssumption ==
  /\ Processes \cap {"queue", "failed", "dead", "done", "lost"} = {}
  /\ Queued \subseteq Deliveries
  /\ MaxRetries \in Nat \ {0}
  /\ CrashLimit \in Nat

VARIABLES
  queue, failed,  (* the lists, oldest record first (LPUSH and RPOP)       *)
  dead,           (* the dead-letter list, which nothing reads             *)
  attempts,       (* the attempts field of the record of each delivery     *)
  metrics,        (* the counters get_metrics() reports                    *)
  tally,          (* the counter each process increments next              *)
  sent,           (* history: deliveries enqueued or received              *)
  done,           (* history: deliveries counted completed or answered     *)
  lost,           (* history: deliveries a crash took with it              *)
  crashes         (* what CrashLimit counts                                *)

lists == <<queue, failed, dead>>
books == <<attempts, metrics, tally>>
history == <<sent, done, lost, crashes>>
vars == <<receiver, pc, hand, lists, books, history>>

Metrics == {"enqueued", "completed", "failed", "retried", "dead_letter"}
Steps == {"idle", "lookup", "handle", "mark", "returned", "requeue", "incr"}

TypeOK ==
  /\ seen \subseteq Events /\ excused \subseteq Events
  /\ pc \in [Processes -> Steps]
  /\ hand \in [Processes -> Deliveries \cup {NoDelivery}]
  /\ ran \in [Processes -> 0 .. Handlers]
  /\ result \in [Processes -> Results]
  /\ runs \in [Events -> 0 .. 2]
  /\ faults \in 0 .. FaultLimit /\ expiries \in 0 .. ExpiryLimit
  /\ queue \in Seq(Queued) /\ failed \in Seq(Queued) /\ dead \subseteq Queued
  /\ attempts \in [Queued -> 0 .. MaxRetries]
  /\ metrics \in [Metrics -> Nat]
  /\ tally \in [Processes -> Metrics \cup {"none"}]
  /\ sent \subseteq Deliveries /\ done \subseteq Deliveries
  /\ lost \subseteq Deliveries
  /\ crashes \in 0 .. CrashLimit

Init ==
  /\ ReceiverInit
  /\ queue = <<>> /\ failed = <<>> /\ dead = {}
  /\ attempts = [d \in Queued |-> 0]
  /\ metrics = [m \in Metrics |-> 0]
  /\ tally = [p \in Processes |-> "none"]
  /\ sent = {} /\ done = {} /\ lost = {} /\ crashes = 0

(* The call is over: its local variables are gone.                         *)
Drop(p) ==
  /\ hand' = [hand EXCEPT ![p] = NoDelivery]
  /\ ran' = [ran EXCEPT ![p] = 0]
  /\ result' = [result EXCEPT ![p] = "none"]

(* The record has been pushed; _incr_metric(m) is still to come.           *)
ThenIncr(p, m) ==
  /\ Goto(p, "incr")
  /\ tally' = [tally EXCEPT ![p] = m]

-----------------------------------------------------------------------------
(* Deliveries arrive.                                                      *)

(* enqueue(): the LPUSH.                                                   *)
Enqueue(p, d) ==
  /\ pc[p] = "idle" /\ d \in Queued \ sent
  /\ sent' = sent \cup {d}
  /\ queue' = Append(queue, d)
  /\ ThenIncr(p, "enqueued")
  /\ UNCHANGED <<receiver, hand, failed, dead, attempts, metrics, done, lost, crashes>>

(* The webhook endpoint calls process() on what it was sent.               *)
Receive(p, d) ==
  /\ pc[p] = "idle" /\ d \in Deliveries \ (Queued \cup sent)
  /\ sent' = sent \cup {d}
  /\ hand' = [hand EXCEPT ![p] = d]
  /\ Goto(p, "lookup")
  /\ UNCHANGED <<receiver, lists, books, done, lost, crashes>>

(* The endpoint answers with the status, whatever it is.                   *)
Answer(p) ==
  /\ pc[p] = "returned" /\ hand[p] \notin Queued
  /\ done' = done \cup {hand[p]}
  /\ Drop(p) /\ Goto(p, "idle")
  /\ UNCHANGED <<marks, lists, books, sent, lost, crashes>>

-----------------------------------------------------------------------------
(* process_batch().                                                        *)

(* RPOP: from here to its next push the record is in this process only.    *)
Pop(p) ==
  /\ pc[p] = "idle" /\ queue # <<>>
  /\ queue' = Tail(queue)
  /\ hand' = [hand EXCEPT ![p] = Head(queue)]
  /\ attempts' = [attempts EXCEPT ![Head(queue)] = @ + 1]
  /\ Goto(p, "lookup")
  /\ UNCHANGED <<receiver, failed, dead, metrics, tally, history>>

(* Mutant: one attempt too many before the dead-letter list.               *)
PushFailureLate(p) ==
  /\ pc[p] = "returned" /\ hand[p] \in Queued /\ result[p] = "failed"
  /\ IF attempts[hand[p]] > MaxRetries
       THEN dead' = dead \cup {hand[p]} /\ ThenIncr(p, "dead_letter") /\ UNCHANGED failed
       ELSE failed' = Append(failed, hand[p]) /\ ThenIncr(p, "failed") /\ UNCHANGED dead
  /\ Drop(p)
  /\ UNCHANGED <<marks, queue, attempts, metrics, history>>

(* Mutant: an exhausted event is put on both lists.                        *)
PushFailureTwice(p) ==
  /\ pc[p] = "returned" /\ hand[p] \in Queued /\ result[p] = "failed"
  /\ failed' = Append(failed, hand[p])
  /\ IF attempts[hand[p]] >= MaxRetries
       THEN dead' = dead \cup {hand[p]} /\ ThenIncr(p, "dead_letter")
       ELSE ThenIncr(p, "failed") /\ UNCHANGED dead
  /\ Drop(p)
  /\ UNCHANGED <<marks, queue, attempts, metrics, history>>

(* _handle_failure(): the push to `failed`, or at last to `dead_letter`.   *)
PushFailure(p) ==
  /\ pc[p] = "returned" /\ hand[p] \in Queued /\ result[p] = "failed"
  /\ IF attempts[hand[p]] >= MaxRetries
       THEN dead' = dead \cup {hand[p]} /\ ThenIncr(p, "dead_letter") /\ UNCHANGED failed
       ELSE failed' = Append(failed, hand[p]) /\ ThenIncr(p, "failed") /\ UNCHANGED dead
  /\ Drop(p)
  /\ UNCHANGED <<marks, queue, attempts, metrics, history>>

(* Everything else counts as completed: a success, a skipped duplicate,    *)
(* and a failure whose error text is empty (`if result.error and ...`).    *)
Complete(p) ==
  /\ pc[p] = "returned" /\ hand[p] \in Queued /\ result[p] # "failed"
  /\ done' = done \cup {hand[p]}
  /\ ThenIncr(p, "completed")
  /\ Drop(p)
  /\ UNCHANGED <<marks, lists, attempts, metrics, sent, lost, crashes>>

-----------------------------------------------------------------------------
(* retry_failed(), and the counters.                                       *)

PopFailed(p) ==
  /\ pc[p] = "idle" /\ failed # <<>>
  /\ failed' = Tail(failed)
  /\ hand' = [hand EXCEPT ![p] = Head(failed)]
  /\ Goto(p, "requeue")
  /\ UNCHANGED <<receiver, queue, dead, books, history>>

(* Mutant: the record is counted as retried, and forgotten.                *)
RequeueForgets(p) ==
  /\ pc[p] = "requeue"
  /\ ThenIncr(p, "retried")
  /\ Drop(p)
  /\ UNCHANGED <<marks, lists, attempts, metrics, history>>

(* One record goes back to the queue (the test for the dead-letter list is *)
(* the code's; no record on `failed` has come to that many attempts).      *)
Requeue(p) ==
  /\ pc[p] = "requeue"
  /\ IF attempts[hand[p]] >= MaxRetries
       THEN dead' = dead \cup {hand[p]} /\ ThenIncr(p, "dead_letter") /\ UNCHANGED queue
       ELSE queue' = Append(queue, hand[p]) /\ ThenIncr(p, "retried") /\ UNCHANGED dead
  /\ Drop(p)
  /\ UNCHANGED <<marks, failed, attempts, metrics, history>>

(* Mutant: a dead letter is also counted as failed.                        *)
IncrBoth(p) ==
  /\ pc[p] = "incr"
  /\ metrics' = [m \in Metrics |->
       IF m = tally[p] \/ (m = "failed" /\ tally[p] = "dead_letter")
         THEN metrics[m] + 1 ELSE metrics[m]]
  /\ tally' = [tally EXCEPT ![p] = "none"]
  /\ Goto(p, "idle")
  /\ UNCHANGED <<receiver, hand, lists, attempts, history>>

(* _incr_metric(): INCR.                                                   *)
IncrMetric(p) ==
  /\ pc[p] = "incr"
  /\ metrics' = [metrics EXCEPT ![tally[p]] = @ + 1]
  /\ tally' = [tally EXCEPT ![p] = "none"]
  /\ Goto(p, "idle")
  /\ UNCHANGED <<receiver, hand, lists, attempts, history>>

-----------------------------------------------------------------------------
(* The process dies, or Redis fails where no try catches it: the record in *)
(* its hand goes with it.                                                  *)
Crash(p) ==
  /\ pc[p] # "idle"
  /\ crashes < CrashLimit /\ crashes' = crashes + 1
  /\ lost' = IF hand[p] = NoDelivery THEN lost ELSE lost \cup {hand[p]}
  /\ excused' = IF pc[p] = "mark" THEN excused \cup {Event(p)} ELSE excused
  /\ tally' = [tally EXCEPT ![p] = "none"]
  /\ Drop(p) /\ Goto(p, "idle")
  /\ UNCHANGED <<seen, runs, faults, expiries, lists,
                 attempts, metrics, sent, done>>

Batch(p) == Pop(p) \/ PushFailure(p) \/ Complete(p)
Retry(p) == PopFailed(p) \/ Requeue(p)

(* What a live process does with the work there is.                        *)
Work(p) ==
  \/ Batch(p) \/ Retry(p) \/ Answer(p) \/ IncrMetric(p)
  \/ Process(p) /\ UNCHANGED <<lists, books, history>>

Next ==
  \/ \E p \in Processes :
       Work(p) \/ Crash(p) \/ \E d \in Deliveries : Enqueue(p, d) \/ Receive(p, d)
  \/ \E e \in Events : SeenExpires(e) /\ UNCHANGED <<lists, books, history>>

Spec == Init /\ [][Next]_vars

(* Batches and retries keep being run, and handlers end.                   *)
FairSpec == Spec /\ \A p \in Processes : WF_vars(Work(p))

-----------------------------------------------------------------------------
InList(d, list) == \E i \in 1 .. Len(list) : list[i] = d
Once(list) == \A i, j \in 1 .. Len(list) : list[i] = list[j] => i = j

Places(d) ==
  (IF InList(d, queue) THEN {"queue"} ELSE {}) \cup
  (IF InList(d, failed) THEN {"failed"} ELSE {}) \cup
  (IF d \in dead THEN {"dead"} ELSE {}) \cup
  (IF d \in done THEN {"done"} ELSE {}) \cup
  (IF d \in lost THEN {"lost"} ELSE {}) \cup
  {p \in Processes : hand[p] = d}

(* Nothing is lost or doubled but by a crash: every event that was sent is *)
(* in exactly one place, a list, one process, or one of the ends it can    *)
(* come to, whatever batches and retries run at the same time.             *)
OnePlace ==
  /\ Once(queue) /\ Once(failed)
  /\ \A d \in sent : Cardinality(Places(d)) = 1

(* Only an event that has used up its attempts is dead, and such an event  *)
(* is never tried again.                                                   *)
ExhaustedIsDead ==
  \A d \in Queued :
    /\ d \in dead => attempts[d] = MaxRetries
    /\ InList(d, queue) \/ InList(d, failed) => attempts[d] < MaxRetries

(* The verdict process() returns is true: whoever is told "success" or     *)
(* "skipped", all handlers of that event have returned, in this call or in *)
(* the one that marked it, however often earlier attempts stopped half way.*)
Handled(d) == EventOf[d] \in Unhandled \/ runs[EventOf[d]] > 0
VerdictIsTrue ==
  \A p \in Processes :
    pc[p] = "returned" /\ result[p] \in {"success", "skipped"} => Handled(hand[p])

(* At rest the metrics tell where the events are.                          *)
MetricsAgree ==
  crashes = 0 /\ (\A p \in Processes : pc[p] = "idle") =>
    /\ metrics["enqueued"] = Cardinality(sent \cap Queued)
    /\ metrics["completed"] = Cardinality(done \cap Queued)
    /\ metrics["dead_letter"] = Cardinality(dead)
    /\ metrics["failed"] - metrics["retried"] = Len(failed)

(* Every enqueued event is completed or dead in the end, or a crash took   *)
(* it: no interleaving of batches and retries leaves one behind.           *)
Settles == \A d \in Queued : d \in sent ~> d \in done \cup dead \cup lost

(* "Event queue with retry and dead-letter handling": an event is only     *)
(* completed once its handlers have run.  It fails.                        *)
CompletedIsHandled == \A d \in done \cap Queued : Handled(d)
=============================================================================
