------------------------ MODULE EventProcessorProofs ------------------------
(***************************************************************************)
(* Proofs about EventProcessor, for every set of processes, deliveries and *)
(* events and every number of handlers, retries, faults and crashes.       *)
(***************************************************************************)
EXTENDS EventProcessor, SequenceTheorems, FiniteSetTheorems, TLAPS

(* The part of the types the argument needs, and that a process inside     *)
(* process() has a delivery in its hand, one in retry_failed a queued one. *)
TypeInv ==
  /\ pc \in [Processes -> Steps]
  /\ hand \in [Processes -> Deliveries \cup {NoDelivery}]
  /\ result \in [Processes -> Results]
  /\ runs \in [Events -> 0 .. 2]
  /\ queue \in Seq(Queued) /\ failed \in Seq(Queued)

HandInv ==
  \A p \in Processes :
    /\ pc[p] \in {"lookup", "handle", "mark", "returned"} => hand[p] \in Deliveries
    /\ pc[p] = "requeue" => hand[p] \in Queued

(* A mark that stands, or is about to be set, stands for a handled event.  *)
SeenInv == seen \subseteq Events /\ \A e \in seen : e \in Unhandled \/ runs[e] > 0
MarkInv == \A p \in Processes : pc[p] = "mark" => Handled(hand[p])

EventInv == TypeInv /\ HandInv /\ SeenInv /\ MarkInv /\ VerdictIsTrue

(* With nothing delivered the invariant holds.                             *)
LEMMA InitInv == Init => EventInv
BY ReceiverAssumption DEF Init, ReceiverInit, EventInv, TypeInv, HandInv, SeenInv,
   MarkInv, VerdictIsTrue, Steps, Results

-----------------------------------------------------------------------------
(* process(): the only actions that touch `seen` and `runs`.  Handlers     *)
(* that have all returned make the event handled before the mark is set,   *)
(* and an event once handled stays handled.                                *)
LEMMA ProcessStep ==
  ASSUME EventInv, NEW p \in Processes, Process(p), UNCHANGED <<lists, books, history>>
  PROVE  EventInv'
<1> USE ReceiverAssumption DEF EventInv, TypeInv, HandInv, SeenInv, MarkInv,
        VerdictIsTrue, Handled, Event, Goto, Return, Steps, Results, lists
<1>1. CASE Lookup(p) BY <1>1 DEF Lookup
<1>2. CASE HandlerReturns(p)
  <2> DEFINE e == EventOf[hand[p]]
  <2>1. hand[p] \in Deliveries /\ e \in Events /\ UNCHANGED <<hand, seen, result>>
    BY <1>2 DEF HandlerReturns
  <2>a. \/ pc' = [pc EXCEPT ![p] = "mark"] /\ runs' = [runs EXCEPT ![e] = IF @ < 2 THEN @ + 1 ELSE 2]
        \/ pc' = [pc EXCEPT ![p] = "handle"] /\ runs' = runs
    BY <1>2 DEF HandlerReturns
  <2>b. /\ runs \in [Events -> 0 .. 2]
        /\ \A n \in 0 .. 2 : (IF n < 2 THEN n + 1 ELSE 2) \in 1 .. 2
    OBVIOUS
  <2> HIDE DEF e
  <2>c. ASSUME runs' = [runs EXCEPT ![e] = IF @ < 2 THEN @ + 1 ELSE 2]
        PROVE  /\ runs' \in [Events -> 0 .. 2] /\ runs'[e] > 0
               /\ \A x \in Events : runs[x] > 0 => runs'[x] > 0
    <3> DEFINE n == IF runs[e] < 2 THEN runs[e] + 1 ELSE 2
    <3>1. n \in 1 .. 2 BY <2>1, <2>b
    <3>2. runs' = [runs EXCEPT ![e] = n] BY <2>c
    <3> HIDE DEF n
    <3> QED BY <3>1, <3>2, <2>1, <2>b
  <2>2. runs' \in [Events -> 0 .. 2] /\ \A x \in Events : runs[x] > 0 => runs'[x] > 0
    BY <2>a, <2>b, <2>c
  <2>3. pc'[p] = "mark" => runs'[e] > 0
    BY <2>a, <2>b, <2>c
  <2>4. /\ pc' \in [Processes -> Steps] /\ pc'[p] \in {"handle", "mark"}
        /\ \A q \in Processes : q # p => pc'[q] = pc[q]
    BY <2>a
  <2>5. ASSUME NEW d \in Deliveries, Handled(d) PROVE Handled(d)'
    BY <2>2, <2>5
  <2>6. SeenInv'
    <3> SUFFICES ASSUME NEW x \in seen', x \notin Unhandled PROVE runs'[x] > 0
      BY <2>1
    <3> QED BY <2>1, <2>2
  <2>7. MarkInv'
    <3> SUFFICES ASSUME NEW q \in Processes, pc'[q] = "mark" PROVE Handled(hand[q])'
      BY <2>1
    <3>1. CASE q = p BY <3>1, <2>1, <2>3 DEF e
    <3>2. CASE q # p BY <3>2, <2>1, <2>4, <2>5
    <3> QED BY <3>1, <3>2
  <2>8. VerdictIsTrue'
    <3> SUFFICES ASSUME NEW q \in Processes, pc'[q] = "returned",
                        result'[q] \in {"success", "skipped"}
                 PROVE  Handled(hand[q])'
      BY <2>1
    <3> QED BY <2>1, <2>4, <2>5
  <2>9. TypeInv' /\ HandInv'
    BY <1>2, <2>1, <2>2, <2>4 DEF HandlerReturns
  <2> QED BY <2>6, <2>7, <2>8, <2>9
<1>3. CASE HandlerRaises(p) BY <1>3 DEF HandlerRaises
<1>4. CASE MarkSeen(p) BY <1>4 DEF MarkSeen
<1>5. CASE MarkRaises(p) BY <1>5 DEF MarkRaises
<1> QED BY <1>1, <1>2, <1>3, <1>4, <1>5 DEF Process

(* Every other step leaves `runs` alone, adds nothing to `seen`, and puts  *)
(* no process between a mark and its verdict.                              *)
LEMMA QueueStep ==
  ASSUME EventInv, NEW p \in Processes,
         \/ Batch(p) \/ Retry(p) \/ Answer(p) \/ IncrMetric(p) \/ Crash(p)
         \/ \E d \in Deliveries : Enqueue(p, d) \/ Receive(p, d)
  PROVE  EventInv'
<1> USE ReceiverAssumption, ProcessorAssumption DEF EventInv, TypeInv, HandInv, SeenInv,
        MarkInv, VerdictIsTrue, Handled, Goto, ThenIncr, Drop, Steps, Results, marks,
        receiver, lists, books, history
<1>1. CASE Pop(p)
  <2>1. Head(queue) \in Queued /\ Tail(queue) \in Seq(Queued)
    BY <1>1 DEF Pop
  <2> QED BY <1>1, <2>1 DEF Pop
<1>2. CASE PushFailure(p)
  <2>a. hand[p] \in Queued /\ (failed' = failed \/ failed' = Append(failed, hand[p]))
    BY <1>2 DEF PushFailure
  <2>1. failed' \in Seq(Queued)
    <3>1. failed \in Seq(Queued) OBVIOUS
    <3>2. Append(failed, hand[p]) \in Seq(Queued)
      BY <3>1, <2>a, AppendProperties
    <3> QED BY <3>1, <3>2, <2>a
  <2> QED BY <1>2, <2>1 DEF PushFailure
<1>3. CASE Complete(p) BY <1>3 DEF Complete
<1>4. CASE PopFailed(p)
  <2>1. Head(failed) \in Queued /\ Tail(failed) \in Seq(Queued)
    BY <1>4 DEF PopFailed
  <2> QED BY <1>4, <2>1 DEF PopFailed
<1>5. CASE Requeue(p)
  <2>a. hand[p] \in Queued /\ (queue' = queue \/ queue' = Append(queue, hand[p]))
    BY <1>5 DEF Requeue
  <2>1. queue' \in Seq(Queued)
    <3>1. queue \in Seq(Queued) OBVIOUS
    <3>2. Append(queue, hand[p]) \in Seq(Queued)
      BY <3>1, <2>a, AppendProperties
    <3> QED BY <3>1, <3>2, <2>a
  <2> QED BY <1>5, <2>1 DEF Requeue
<1>6. CASE Answer(p) BY <1>6 DEF Answer
<1>7. CASE IncrMetric(p) BY <1>7 DEF IncrMetric
<1>8. CASE Crash(p) BY <1>8 DEF Crash
<1>9. ASSUME NEW d \in Deliveries, Enqueue(p, d) PROVE EventInv'
  BY <1>9 DEF Enqueue
<1>10. ASSUME NEW d \in Deliveries, Receive(p, d) PROVE EventInv'
  BY <1>10 DEF Receive
<1> QED BY <1>1, <1>2, <1>3, <1>4, <1>5, <1>6, <1>7, <1>8, <1>9, <1>10 DEF Batch, Retry

-----------------------------------------------------------------------------
(* The inductive invariant holds in every reachable state.                 *)
THEOREM EventInvariant == Spec => []EventInv
<1>1. EventInv /\ [Next]_vars => EventInv'
  <2> SUFFICES ASSUME EventInv, [Next]_vars PROVE EventInv'
    OBVIOUS
  <2>1. ASSUME NEW p \in Processes,
               \/ Work(p) \/ Crash(p)
               \/ \E d \in Deliveries : Enqueue(p, d) \/ Receive(p, d)
        PROVE  EventInv'
    BY <2>1, ProcessStep, QueueStep DEF Work
  <2>2. ASSUME NEW e \in Events, SeenExpires(e), UNCHANGED <<lists, books, history>>
        PROVE  EventInv'
    BY <2>2 DEF SeenExpires, EventInv, TypeInv, HandInv, SeenInv, MarkInv,
       VerdictIsTrue, Handled, lists
  <2>3. CASE UNCHANGED vars
    BY <2>3 DEF vars, receiver, marks, lists, EventInv, TypeInv, HandInv, SeenInv,
       MarkInv, VerdictIsTrue, Handled
  <2> QED BY <2>1, <2>2, <2>3 DEF Next
<1> QED BY InitInv, <1>1, PTL DEF Spec

(* The verdict of process() is true: no retry, redelivery, partial failure *)
(* or crash makes it report an event handled whose handlers never all ran. *)
THEOREM VerdictHolds == Spec => []VerdictIsTrue
<1>1. EventInv => VerdictIsTrue
  BY DEF EventInv
<1> QED BY <1>1, EventInvariant, PTL

-----------------------------------------------------------------------------
(* The rest of the types, places and attempts.  A process at rest has      *)
(* nothing in its hand; one in process() has handlers to run only while    *)
(* some have not returned.                                                 *)
RestInv ==
  \A p \in Processes :
    /\ pc[p] \in {"idle", "incr"} => hand[p] = NoDelivery
    /\ pc[p] = "incr" => tally[p] \in Metrics
    /\ pc[p] \notin {"handle", "mark", "returned"} => ran[p] = 0
    /\ pc[p] = "handle" => ran[p] < Handlers /\ Event(p) \notin Unhandled

(* A delivery that was sent is in one place, any other in none.            *)
PlaceInv ==
  /\ Once(queue) /\ Once(failed)
  /\ \A d \in Deliveries :
       /\ d \in sent => \E x : Places(d) = {x}
       /\ d \notin sent => Places(d) = {}

(* A record on its way from `failed` to `queue` has attempts left, too.    *)
AttemptInv ==
  /\ ExhaustedIsDead
  /\ \A d \in Queued \ sent : attempts[d] = 0
  /\ \A p \in Processes : pc[p] = "requeue" => attempts[hand[p]] < MaxRetries

(* An event that is not excused is handled by one process at a time, which *)
(* starts when no handlers have run; it stays marked, or about to be, once *)
(* they have.                                                              *)
DedupInv ==
  \A e \in Events \ excused :
    /\ runs[e] <= 1
    /\ \A p, q \in Handling(e) : p = q
    /\ \A p \in Processes : pc[p] = "handle" /\ Event(p) = e => runs[e] = 0
    /\ runs[e] > 0 => e \in seen \/ \E p \in Processes : pc[p] = "mark" /\ Event(p) = e

WholeInv == EventInv /\ TypeOK /\ RestInv /\ PlaceInv /\ AttemptInv /\ DedupInv

-----------------------------------------------------------------------------
(* The lists: what LPUSH and RPOP do to who is in one, and how often.      *)
LEMMA AppendedList ==
  ASSUME NEW S, NEW list \in Seq(S), NEW e \in S
  PROVE  /\ \A d : InList(d, Append(list, e)) <=> InList(d, list) \/ d = e
         /\ Once(list) /\ ~InList(e, list) => Once(Append(list, e))
<1>1. /\ Len(Append(list, e)) = Len(list) + 1 /\ Len(list) \in Nat
      /\ \A i \in 1 .. Len(list) : Append(list, e)[i] = list[i]
      /\ Append(list, e)[Len(list) + 1] = e
  BY AppendProperties
<1> QED BY <1>1 DEF InList, Once

(* RPOP takes the head, and the tail has whatever else the list had.       *)
LEMMA PoppedList ==
  ASSUME NEW S, NEW list \in Seq(S), list # <<>>
  PROVE  /\ Head(list) \in S /\ Tail(list) \in Seq(S)
         /\ \A d : InList(d, list) <=> d = Head(list) \/ InList(d, Tail(list))
         /\ Once(list) => Once(Tail(list)) /\ ~InList(Head(list), Tail(list))
<1>1. /\ Len(Tail(list)) = Len(list) - 1 /\ Len(list) \in Nat \ {0}
      /\ \A i \in 1 .. Len(list) - 1 : Tail(list)[i] = list[i + 1]
      /\ Head(list) = list[1]
      /\ Head(list) \in S /\ Tail(list) \in Seq(S)
  BY HeadTailProperties
<1>2. ASSUME NEW d, InList(d, list) PROVE d = Head(list) \/ InList(d, Tail(list))
  <2>1. PICK i \in 1 .. Len(list) : list[i] = d BY <1>2 DEF InList
  <2>2. CASE i = 1 BY <2>1, <2>2, <1>1
  <2>3. CASE i # 1
    <3>1. i - 1 \in 1 .. Len(Tail(list)) /\ Tail(list)[i - 1] = d BY <2>1, <2>3, <1>1
    <3> QED BY <3>1 DEF InList
  <2> QED BY <2>2, <2>3
<1>3. ASSUME NEW d, d = Head(list) \/ InList(d, Tail(list)) PROVE InList(d, list)
  BY <1>1, <1>3 DEF InList
<1>4. ASSUME Once(list) PROVE Once(Tail(list)) /\ ~InList(Head(list), Tail(list))
  BY <1>1, <1>4 DEF Once, InList
<1> QED BY <1>1, <1>2, <1>3, <1>4

-----------------------------------------------------------------------------
(* Types, and what a process has in its hand, step by step.                *)
LEMMA TypeProcess ==
  ASSUME EventInv, TypeOK, RestInv, NEW p \in Processes, Process(p),
         UNCHANGED <<lists, books, history>>
  PROVE  TypeOK' /\ RestInv'
<1> USE ReceiverAssumption, ProcessorAssumption DEF TypeOK, RestInv, Event, Goto, Return,
        Steps, Results, Metrics, lists, books, history
<1>1. (hand[p] \in Deliveries /\ Event(p) \in Events) \/ pc[p] \notin {"lookup", "handle", "mark"}
  BY DEF EventInv, HandInv
<1>2. CASE Lookup(p)
  <2>1. CASE Event(p) \in seen
    <3>1. /\ pc[p] = "lookup" /\ pc' = [pc EXCEPT ![p] = "returned"]
          /\ result' = [result EXCEPT ![p] = "skipped"]
          /\ UNCHANGED <<seen, hand, ran, runs, excused, faults, expiries>>
      BY <1>2, <2>1 DEF Lookup
    <3> QED BY <1>1, <3>1
  <2>2. CASE Event(p) \notin seen
    <3>1. excused' \subseteq Events /\ result' = result BY <1>1, <1>2, <2>2 DEF Lookup
    <3>2. /\ pc' = [pc EXCEPT ![p] = IF Event(p) \in Unhandled THEN "mark" ELSE "handle"]
          /\ pc[p] = "lookup"
      BY <1>2, <2>2 DEF Lookup
    <3> QED BY <1>1, <1>2, <3>1, <3>2 DEF Lookup
  <2> QED BY <2>1, <2>2
<1>3. CASE HandlerReturns(p)
  <2>1. runs' \in [Events -> 0 .. 2]
    BY <1>3, ProcessStep DEF EventInv, TypeInv, Process
  <2>2. /\ ran' \in [Processes -> 0 .. Handlers]
        /\ pc' \in [Processes -> Steps]
        /\ pc'[p] = "handle" => ran'[p] < Handlers
        /\ pc'[p] \in {"handle", "mark"}
        /\ \A q \in Processes : q # p => pc'[q] = pc[q] /\ ran'[q] = ran[q]
    <3>1. /\ ran[p] \in 0 .. Handlers /\ ran[p] < Handlers /\ Handlers \in Nat
          /\ ran' = [ran EXCEPT ![p] = ran[p] + 1]
      BY <1>3 DEF HandlerReturns
    <3>2. /\ ran' \in [Processes -> 0 .. Handlers] /\ ran'[p] = ran[p] + 1
          /\ \A q \in Processes : q # p => ran'[q] = ran[q]
      BY <3>1
    <3>3. \/ pc' = [pc EXCEPT ![p] = "mark"]
          \/ pc' = [pc EXCEPT ![p] = "handle"] /\ ran'[p] # Handlers
      BY <1>3 DEF HandlerReturns
    <3>4. pc \in [Processes -> Steps]
      OBVIOUS
    <3> HIDE DEF TypeOK, RestInv
    <3> QED BY <3>1, <3>2, <3>3, <3>4
  <2>3. UNCHANGED <<seen, hand, result, excused, faults, expiries>> /\ pc[p] = "handle"
    BY <1>3 DEF HandlerReturns
  <2> QED BY <2>1, <2>2, <2>3
<1>4. CASE HandlerRaises(p) BY <1>4 DEF HandlerRaises
<1>5. CASE MarkSeen(p) BY <1>1, <1>5 DEF MarkSeen
<1>6. CASE MarkRaises(p) BY <1>1, <1>6 DEF MarkRaises
<1> QED BY <1>2, <1>3, <1>4, <1>5, <1>6 DEF Process

(* So does a step of the queues, of the endpoint or of a killed process.   *)
LEMMA TypeQueue ==
  ASSUME EventInv, TypeOK, RestInv, AttemptInv, NEW p \in Processes,
         \/ Batch(p) \/ Retry(p) \/ Answer(p) \/ IncrMetric(p) \/ Crash(p)
         \/ \E d \in Deliveries : Enqueue(p, d) \/ Receive(p, d)
  PROVE  TypeOK' /\ RestInv'
<1> USE ReceiverAssumption, ProcessorAssumption DEF TypeOK, RestInv, Event, Goto, ThenIncr,
        Drop, Steps, Results, Metrics, marks, receiver, lists, books, history
<1>0. queue' \in Seq(Queued) /\ failed' \in Seq(Queued)
  BY QueueStep DEF EventInv, TypeInv
<1>1. CASE Pop(p)
  <2>1. Head(queue) \in Queued /\ InList(Head(queue), queue)
    BY <1>1, PoppedList DEF Pop
  <2>2. attempts[Head(queue)] < MaxRetries
    BY <2>1 DEF AttemptInv, ExhaustedIsDead
  <2>3. attempts' \in [Queued -> 0 .. MaxRetries]
    BY <1>1, <2>1, <2>2 DEF Pop
  <2> QED BY <1>0, <1>1, <2>1, <2>3 DEF Pop
<1>2. CASE PushFailure(p)
  <2>1. /\ dead' \subseteq Queued
        /\ \E m \in {"failed", "dead_letter"} : ThenIncr(p, m)
    BY <1>2 DEF PushFailure
  <2> QED BY <1>0, <1>2, <2>1 DEF PushFailure
<1>3. CASE Complete(p) BY <1>3 DEF Complete
<1>4. CASE PopFailed(p)
  <2>1. Head(failed) \in Queued
    BY <1>4, PoppedList DEF PopFailed
  <2> QED BY <1>0, <1>4, <2>1 DEF PopFailed
<1>5. CASE Requeue(p)
  <2>1. /\ dead' \subseteq Queued
        /\ \E m \in {"retried", "dead_letter"} : ThenIncr(p, m)
    BY <1>5 DEF Requeue, EventInv, HandInv
  <2> QED BY <1>0, <1>5, <2>1 DEF Requeue
<1>6. CASE Answer(p) BY <1>6 DEF Answer, EventInv, HandInv
<1>7. CASE IncrMetric(p) BY <1>7 DEF IncrMetric
<1>8. CASE Crash(p) BY <1>8 DEF Crash, EventInv, HandInv
<1>9. ASSUME NEW d \in Deliveries, Enqueue(p, d) PROVE TypeOK' /\ RestInv'
  BY <1>0, <1>9 DEF Enqueue
<1>10. ASSUME NEW d \in Deliveries, Receive(p, d) PROVE TypeOK' /\ RestInv'
  BY <1>10 DEF Receive
<1> QED BY <1>1, <1>2, <1>3, <1>4, <1>5, <1>6, <1>7, <1>8, <1>9, <1>10 DEF Batch, Retry

-----------------------------------------------------------------------------
(* Places.  Each step takes one delivery from one place to another, and    *)
(* leaves all others where they are; process() leaves them all.            *)
LEMMA PlaceMembers ==
  \A d, x : x \in Places(d) <=>
    \/ x = "queue" /\ InList(d, queue)
    \/ x = "failed" /\ InList(d, failed)
    \/ x = "dead" /\ d \in dead
    \/ x = "done" /\ d \in done
    \/ x = "lost" /\ d \in lost
    \/ x \in Processes /\ hand[x] = d
BY DEF Places

(* A delivery found somewhere is nowhere else.                             *)
LEMMA Alone ==
  ASSUME PlaceInv, NEW d \in Deliveries, NEW x, x \in Places(d)
  PROVE  /\ d \in sent
         /\ InList(d, queue) <=> x = "queue"
         /\ InList(d, failed) <=> x = "failed"
         /\ d \in dead <=> x = "dead"
         /\ d \in done <=> x = "done"
         /\ d \in lost <=> x = "lost"
         /\ \A q \in Processes : hand[q] = d <=> x = q
<1>1. d \in sent /\ \A y : y \in Places(d) <=> y = x
  BY DEF PlaceInv
<1> QED BY <1>1, PlaceMembers, ProcessorAssumption

(* While nothing moves, every delivery stays in its place.                 *)
LEMMA PlaceKept ==
  ASSUME PlaceInv, UNCHANGED <<queue, failed, dead, done, lost, hand, sent>>
  PROVE  PlaceInv'
<1>1. ASSUME NEW d PROVE Places(d)' = Places(d) BY DEF Places
<1> QED BY <1>1 DEF PlaceInv

(* process() moves no delivery: it stays in the hand it is in.             *)
LEMMA PlaceProcess ==
  ASSUME PlaceInv, NEW p \in Processes, Process(p), UNCHANGED <<lists, books, history>>
  PROVE  PlaceInv'
<1>1. UNCHANGED <<queue, failed, dead, done, lost, hand, sent>>
  BY DEF Process, Lookup, HandlerReturns, HandlerRaises, MarkSeen, MarkRaises, lists, history
<1> QED BY <1>1, PlaceKept

(* A step of the queues takes its delivery from one place to one other.    *)
LEMMA PlaceQueue ==
  ASSUME EventInv, TypeOK, RestInv, PlaceInv, NEW p \in Processes,
         \/ Batch(p) \/ Retry(p) \/ Answer(p) \/ IncrMetric(p) \/ Crash(p)
         \/ \E d \in Deliveries : Enqueue(p, d) \/ Receive(p, d)
  PROVE  PlaceInv'
<1> USE ReceiverAssumption, ProcessorAssumption DEF ThenIncr, marks, receiver, lists,
        books, history
<1>0. /\ queue \in Seq(Queued) /\ failed \in Seq(Queued)
      /\ hand \in [Processes -> Deliveries \cup {NoDelivery}]
      /\ \A q \in Processes :
           /\ pc[q] \in {"idle", "incr"} => hand[q] = NoDelivery
           /\ pc[q] = "requeue" => hand[q] \in Queued
           /\ pc[q] \in {"lookup", "handle", "mark", "returned"} => hand[q] \in Deliveries
  BY DEF TypeOK, EventInv, HandInv, RestInv
<1>1. Once(queue) /\ Once(failed) BY DEF PlaceInv
<1>2. \A d, x : x \in Places(d)' <=>
        \/ x = "queue" /\ InList(d, queue')
        \/ x = "failed" /\ InList(d, failed')
        \/ x = "dead" /\ d \in dead'
        \/ x = "done" /\ d \in done'
        \/ x = "lost" /\ d \in lost'
        \/ x \in Processes /\ hand'[x] = d
  BY DEF Places
(* What is to be shown of a step that takes d to x.                        *)
<1>3. ASSUME NEW d \in Deliveries, NEW x, Once(queue'), Once(failed'),
             sent' = sent \cup {d},
             \A y : y \in Places(d)' <=> y = x,
             \A c \in Deliveries : c # d => \A y : y \in Places(c)' <=> y \in Places(c)
      PROVE  PlaceInv'
  <2>1. Places(d)' = {x} BY <1>3
  <2>2. \A c \in Deliveries : c # d => Places(c)' = Places(c) BY <1>3
  <2> QED BY <1>3, <2>1, <2>2 DEF PlaceInv
<1>4. CASE Pop(p)
  <2>1. PICK d \in Queued : d = Head(queue) BY <1>4, <1>0, PoppedList DEF Pop
  <2>2. /\ InList(d, queue) /\ Once(queue') /\ ~InList(d, queue')
        /\ \A c : c # d => (InList(c, queue') <=> InList(c, queue))
    BY <1>4, <1>0, <1>1, <2>1, PoppedList DEF Pop
  <2>3. /\ hand' = [hand EXCEPT ![p] = d] /\ hand[p] = NoDelivery
        /\ UNCHANGED <<failed, dead, done, lost, sent>>
    BY <1>4, <1>0, <2>1 DEF Pop
  <2>4. "queue" \in Places(d) BY <2>2, PlaceMembers
  <2>5. \A y : y \in Places(d)' <=> y = p
    BY <1>0, <1>2, <2>2, <2>3, <2>4, Alone
  <2>7. \A c \in Deliveries : c # d => \A q \in Processes : hand'[q] = c <=> hand[q] = c
    BY <1>0, <2>3, ReceiverAssumption
  <2>6. \A c \in Deliveries : c # d => \A y : y \in Places(c)' <=> y \in Places(c)
    BY <1>2, <2>2, <2>3, <2>7, PlaceMembers
  <2> QED BY <1>1, <1>3, <2>2, <2>3, <2>4, <2>5, <2>6, Alone
<1>5. CASE PopFailed(p)
  <2>1. PICK d \in Queued : d = Head(failed) BY <1>5, <1>0, PoppedList DEF PopFailed
  <2>2. /\ InList(d, failed) /\ Once(failed') /\ ~InList(d, failed')
        /\ \A c : c # d => (InList(c, failed') <=> InList(c, failed))
    BY <1>5, <1>0, <1>1, <2>1, PoppedList DEF PopFailed
  <2>3. /\ hand' = [hand EXCEPT ![p] = d] /\ hand[p] = NoDelivery
        /\ UNCHANGED <<queue, dead, done, lost, sent>>
    BY <1>5, <1>0, <2>1 DEF PopFailed
  <2>4. "failed" \in Places(d) BY <2>2, PlaceMembers
  <2>5. \A y : y \in Places(d)' <=> y = p
    BY <1>0, <1>2, <2>2, <2>3, <2>4, Alone
  <2>7. \A c \in Deliveries : c # d => \A q \in Processes : hand'[q] = c <=> hand[q] = c
    BY <1>0, <2>3, ReceiverAssumption
  <2>6. \A c \in Deliveries : c # d => \A y : y \in Places(c)' <=> y \in Places(c)
    BY <1>2, <2>2, <2>3, <2>7, PlaceMembers
  <2> QED BY <1>1, <1>3, <2>2, <2>3, <2>4, <2>5, <2>6, Alone
(* Here p gives up the delivery in its hand.                               *)
<1> DEFINE Ends == {"queue", "failed", "dead", "done", "lost"}
<1>6. ASSUME NEW d \in Deliveries, NEW x \in Ends,
             hand[p] = d, hand' = [hand EXCEPT ![p] = NoDelivery],
             sent' = sent, Once(queue'), Once(failed'),
             \A c \in Deliveries, y \in Ends :
               y \in Places(c)' <=> y \in Places(c) \/ (y = x /\ c = d)
      PROVE  PlaceInv'
  <2>1. d \in sent /\ \A y : y \in Places(d) <=> y = p
    BY <1>6, PlaceMembers DEF PlaceInv
  <2>2. \A c \in Deliveries, q \in Processes :
          hand'[q] = c <=> hand[q] = c /\ q # p
    BY <1>0, <1>6, <2>1, ReceiverAssumption
  <2>3. \A c \in Deliveries, y \in Processes :
          y \in Places(c)' <=> y \in Places(c) /\ y # p
    BY <1>2, <2>2, PlaceMembers, ProcessorAssumption
  <2>4. \A c \in Deliveries : \A y :
          y \in Places(c) \/ y \in Places(c)' => y \in Processes \cup Ends
    BY <1>2, PlaceMembers
  <2>5. \A c \in Deliveries : c # d => p \notin Places(c)
    BY <1>6, PlaceMembers, ProcessorAssumption
  <2>6. \A y : y \in Places(d)' <=> y = x
    BY <1>6, <2>1, <2>3, <2>4, ProcessorAssumption
  <2>7. \A c \in Deliveries : c # d => \A y : y \in Places(c)' <=> y \in Places(c)
    BY <1>6, <2>3, <2>4, <2>5
  <2>8. sent' = sent \cup {d} BY <1>6, <2>1
  <2> HIDE DEF Ends
  <2> QED BY <1>3, <1>6, <2>6, <2>7, <2>8
<1>7. ASSUME hand[p] \in Deliveries
      PROVE  ~InList(hand[p], queue) /\ ~InList(hand[p], failed)
  <2>1. p \in Places(hand[p]) BY PlaceMembers
  <2> QED BY <1>7, <2>1, Alone
<1>8. CASE PushFailure(p)
  <2>1. /\ hand[p] \in Queued /\ hand' = [hand EXCEPT ![p] = NoDelivery]
        /\ UNCHANGED <<queue, done, lost, sent>>
    BY <1>0, <1>8 DEF PushFailure, Drop
  <2>2. PICK d \in Queued : d = hand[p] BY <2>1
  <2>3. CASE dead' = dead \cup {d} /\ UNCHANGED failed
    <3>1. \A c \in Deliveries, y \in Ends :
            y \in Places(c)' <=> y \in Places(c) \/ (y = "dead" /\ c = d)
      BY <1>2, <2>1, <2>3, PlaceMembers
    <3> QED BY <1>1, <1>6, <2>1, <2>2, <2>3, <3>1
  <2>4. CASE failed' = Append(failed, d) /\ UNCHANGED dead
    <3>1. Once(failed') /\ \A c : InList(c, failed') <=> InList(c, failed) \/ c = d
      BY <1>0, <1>1, <1>7, <2>2, <2>4, AppendedList
    <3>2. \A c \in Deliveries, y \in Ends :
            y \in Places(c)' <=> y \in Places(c) \/ (y = "failed" /\ c = d)
      BY <1>2, <2>1, <2>4, <3>1, PlaceMembers
    <3> QED BY <1>1, <1>6, <2>1, <2>2, <3>1, <3>2
  <2> QED BY <1>8, <2>2, <2>3, <2>4 DEF PushFailure
<1>9. CASE Requeue(p)
  <2>1. /\ hand[p] \in Queued /\ hand' = [hand EXCEPT ![p] = NoDelivery]
        /\ UNCHANGED <<failed, done, lost, sent>>
    BY <1>0, <1>9 DEF Requeue, Drop
  <2>2. PICK d \in Queued : d = hand[p] BY <2>1
  <2>3. CASE dead' = dead \cup {d} /\ UNCHANGED queue
    <3>1. \A c \in Deliveries, y \in Ends :
            y \in Places(c)' <=> y \in Places(c) \/ (y = "dead" /\ c = d)
      BY <1>2, <2>1, <2>3, PlaceMembers
    <3> QED BY <1>1, <1>6, <2>1, <2>2, <2>3, <3>1
  <2>4. CASE queue' = Append(queue, d) /\ UNCHANGED dead
    <3>1. Once(queue') /\ \A c : InList(c, queue') <=> InList(c, queue) \/ c = d
      BY <1>0, <1>1, <1>7, <2>2, <2>4, AppendedList
    <3>2. \A c \in Deliveries, y \in Ends :
            y \in Places(c)' <=> y \in Places(c) \/ (y = "queue" /\ c = d)
      BY <1>2, <2>1, <2>4, <3>1, PlaceMembers
    <3> QED BY <1>1, <1>6, <2>1, <2>2, <3>1, <3>2
  <2> QED BY <1>9, <2>2, <2>3, <2>4 DEF Requeue
<1>10. CASE Complete(p) \/ Answer(p)
  <2>1. /\ hand[p] \in Deliveries /\ hand' = [hand EXCEPT ![p] = NoDelivery]
        /\ done' = done \cup {hand[p]}
        /\ UNCHANGED <<queue, failed, dead, lost, sent>>
    BY <1>0, <1>10 DEF Complete, Answer, Drop
  <2>2. PICK d \in Deliveries : d = hand[p] BY <2>1
  <2>3. \A c \in Deliveries, y \in Ends :
          y \in Places(c)' <=> y \in Places(c) \/ (y = "done" /\ c = d)
    BY <1>2, <2>1, <2>2, PlaceMembers
  <2> QED BY <1>1, <1>6, <2>1, <2>2, <2>3
<1>11. CASE Crash(p)
  <2>1. /\ hand' = [hand EXCEPT ![p] = NoDelivery]
        /\ UNCHANGED <<queue, failed, dead, done, sent>>
    BY <1>11 DEF Crash, Drop
  <2>2. CASE hand[p] = NoDelivery
    <3>1. hand' = hand /\ lost' = lost BY <1>0, <1>11, <2>1, <2>2 DEF Crash
    <3> QED BY <2>1, <3>1, PlaceKept
  <2>3. CASE hand[p] # NoDelivery
    <3>1. PICK d \in Deliveries : d = hand[p] BY <1>0, <2>3
    <3>2. lost' = lost \cup {d} BY <1>11, <2>3, <3>1 DEF Crash
    <3>3. \A c \in Deliveries, y \in Ends :
            y \in Places(c)' <=> y \in Places(c) \/ (y = "lost" /\ c = d)
      BY <1>2, <2>1, <3>2, PlaceMembers
    <3> QED BY <1>1, <1>6, <2>1, <3>1, <3>3
  <2> QED BY <2>2, <2>3
<1>12. CASE IncrMetric(p)
  <2>1. UNCHANGED <<queue, failed, dead, done, lost, hand, sent>>
    BY <1>12 DEF IncrMetric
  <2> QED BY <2>1, PlaceKept
<1>13. ASSUME NEW d \in Deliveries, Enqueue(p, d) PROVE PlaceInv'
  <2>1. /\ d \in Queued /\ d \notin sent /\ queue' = Append(queue, d)
        /\ sent' = sent \cup {d} /\ UNCHANGED <<failed, dead, done, lost, hand>>
    BY <1>13 DEF Enqueue
  <2>2. Places(d) = {} BY <2>1 DEF PlaceInv
  <2>3. ~InList(d, queue) BY <2>2, PlaceMembers
  <2>4. Once(queue') /\ \A c : InList(c, queue') <=> InList(c, queue) \/ c = d
    BY <1>0, <1>1, <2>1, <2>3, AppendedList
  <2>5. \A y : y \in Places(d)' <=> y = "queue"
    BY <1>2, <2>1, <2>2, <2>4, PlaceMembers
  <2>6. \A c \in Deliveries : c # d => \A y : y \in Places(c)' <=> y \in Places(c)
    BY <1>2, <2>1, <2>4, PlaceMembers
  <2> QED BY <1>1, <1>3, <2>1, <2>4, <2>5, <2>6
<1>14. ASSUME NEW d \in Deliveries, Receive(p, d) PROVE PlaceInv'
  <2>1. /\ d \notin sent /\ sent' = sent \cup {d} /\ hand' = [hand EXCEPT ![p] = d]
        /\ hand[p] = NoDelivery /\ UNCHANGED <<queue, failed, dead, done, lost>>
    BY <1>0, <1>14 DEF Receive
  <2>2. Places(d) = {} BY <2>1 DEF PlaceInv
  <2>5. /\ ~InList(d, queue) /\ ~InList(d, failed)
        /\ d \notin dead /\ d \notin done /\ d \notin lost
        /\ \A q \in Processes : hand[q] # d
    BY <2>2, PlaceMembers
  <2>6. \A q \in Processes : hand'[q] = d <=> q = p
    BY <1>0, <2>1, <2>5
  <2>3. \A y : y \in Places(d)' <=> y = p
    BY <1>2, <2>1, <2>5, <2>6
  <2>7. \A c \in Deliveries : c # d => \A q \in Processes : hand'[q] = c <=> hand[q] = c
    BY <1>0, <2>1, ReceiverAssumption
  <2>4. \A c \in Deliveries : c # d => \A y : y \in Places(c)' <=> y \in Places(c)
    BY <1>2, <2>1, <2>7, PlaceMembers
  <2> QED BY <1>1, <1>3, <2>1, <2>3, <2>4
<1> QED BY <1>4, <1>5, <1>8, <1>9, <1>10, <1>11, <1>12, <1>13, <1>14 DEF Batch, Retry

-----------------------------------------------------------------------------
(* Attempts.  Only a pop adds one, to a record that is nowhere else; and   *)
(* it is a record with attempts left that goes on a list.                  *)
LEMMA AttemptProcess ==
  ASSUME TypeOK, AttemptInv, NEW p \in Processes, Process(p), UNCHANGED <<lists, books, history>>
  PROVE  AttemptInv'
<1>1. /\ UNCHANGED <<queue, failed, dead, attempts, hand, sent>>
      /\ \A q \in Processes : pc'[q] = "requeue" => pc[q] = "requeue"
  BY DEF Process, Lookup, HandlerReturns, HandlerRaises, MarkSeen, MarkRaises, Return, Goto,
     TypeOK, lists, books, history
<1> QED BY <1>1 DEF AttemptInv, ExhaustedIsDead

(* The queues add an attempt where a record is popped, and to no other.    *)
LEMMA AttemptQueue ==
  ASSUME EventInv, TypeOK, RestInv, PlaceInv, AttemptInv, NEW p \in Processes,
         \/ Batch(p) \/ Retry(p) \/ Answer(p) \/ IncrMetric(p) \/ Crash(p)
         \/ \E d \in Deliveries : Enqueue(p, d) \/ Receive(p, d)
  PROVE  AttemptInv'
<1> USE ReceiverAssumption, ProcessorAssumption DEF Goto, ThenIncr, marks, receiver, lists,
        books, history
<1>1. /\ queue \in Seq(Queued) /\ failed \in Seq(Queued)
      /\ hand \in [Processes -> Deliveries \cup {NoDelivery}]
      /\ pc \in [Processes -> Steps]
      /\ attempts \in [Queued -> 0 .. MaxRetries]
      /\ MaxRetries \in Nat \ {0}
      /\ \A d \in Queued \ sent : attempts[d] = 0
      /\ \A q \in Processes :
           /\ pc[q] = "requeue" => hand[q] \in Queued /\ attempts[hand[q]] < MaxRetries
           /\ pc[q] \in {"idle", "incr"} => hand[q] = NoDelivery
      /\ \A d \in Queued :
           /\ d \in dead => attempts[d] = MaxRetries
           /\ InList(d, queue) \/ InList(d, failed) => attempts[d] < MaxRetries
  BY DEF TypeOK, EventInv, HandInv, RestInv, AttemptInv, ExhaustedIsDead
<1>2. SUFFICES
        /\ \A d \in Queued \ sent' : attempts'[d] = 0
        /\ \A q \in Processes : pc'[q] = "requeue" => attempts'[hand'[q]] < MaxRetries
        /\ \A d \in Queued :
             /\ d \in dead' => attempts'[d] = MaxRetries
             /\ InList(d, queue') \/ InList(d, failed') => attempts'[d] < MaxRetries
  BY DEF AttemptInv, ExhaustedIsDead
<1>3. CASE Pop(p)
  <2>1. PICK d \in Queued : d = Head(queue) BY <1>1, <1>3, PoppedList DEF Pop
  <2>2. /\ InList(d, queue) /\ Once(queue)
        /\ \A c : InList(c, queue') => InList(c, queue) /\ c # d
    BY <1>1, <1>3, <2>1, PoppedList DEF Pop, PlaceInv
  <2>3. "queue" \in Places(d) BY <2>2, PlaceMembers
  <2>4. d \in sent /\ ~InList(d, failed) /\ d \notin dead /\ \A q \in Processes : hand[q] # d
    BY <2>3, Alone
  <2>5. /\ UNCHANGED <<failed, dead, sent>>
        /\ \A c \in Queued : c # d => attempts'[c] = attempts[c]
        /\ \A q \in Processes : pc'[q] = "requeue" => pc[q] = "requeue" /\ hand'[q] = hand[q]
    BY <1>1, <1>3, <2>1 DEF Pop
  <2> QED BY <1>1, <2>2, <2>4, <2>5
<1>4. CASE PopFailed(p)
  <2>1. PICK d \in Queued : d = Head(failed) BY <1>1, <1>4, PoppedList DEF PopFailed
  <2>2. InList(d, failed) /\ \A c : InList(c, failed') => InList(c, failed)
    BY <1>1, <1>4, <2>1, PoppedList DEF PopFailed
  <2>3. /\ UNCHANGED <<queue, dead, attempts, sent>>
        /\ pc' = [pc EXCEPT ![p] = "requeue"] /\ hand' = [hand EXCEPT ![p] = d]
    BY <1>4, <2>1 DEF PopFailed
  <2>4. \A q \in Processes : pc'[q] = "requeue" =>
          hand'[q] = d \/ (pc[q] = "requeue" /\ hand'[q] = hand[q])
    BY <1>1, <2>3
  <2> QED BY <1>1, <2>2, <2>3, <2>4
<1>5. CASE PushFailure(p)
  <2>1. /\ UNCHANGED <<queue, attempts, sent>> /\ hand[p] \in Queued
        /\ \A q \in Processes : pc'[q] = "requeue" => pc[q] = "requeue" /\ hand'[q] = hand[q]
    BY <1>1, <1>5 DEF PushFailure, Drop
  <2>2. CASE attempts[hand[p]] >= MaxRetries
    <3>1. dead' = dead \cup {hand[p]} /\ UNCHANGED failed BY <1>5, <2>2 DEF PushFailure
    <3> QED BY <1>1, <2>1, <2>2, <3>1
  <2>3. CASE ~(attempts[hand[p]] >= MaxRetries)
    <3>1. failed' = Append(failed, hand[p]) /\ UNCHANGED dead BY <1>5, <2>3 DEF PushFailure
    <3>2. \A c : InList(c, failed') <=> InList(c, failed) \/ c = hand[p]
      BY <1>1, <2>1, <3>1, AppendedList
    <3> QED BY <1>1, <2>1, <2>3, <3>1, <3>2
  <2> QED BY <2>2, <2>3
<1>6. CASE Requeue(p)
  <2>1. hand[p] \in Queued /\ attempts[hand[p]] < MaxRetries
    BY <1>1, <1>6 DEF Requeue
  <2>2. /\ queue' = Append(queue, hand[p]) /\ UNCHANGED <<failed, dead, attempts, sent>>
        /\ \A q \in Processes : pc'[q] = "requeue" => pc[q] = "requeue" /\ hand'[q] = hand[q]
    BY <1>1, <1>6, <2>1 DEF Requeue, Drop
  <2>3. \A c : InList(c, queue') <=> InList(c, queue) \/ c = hand[p]
    BY <1>1, <2>1, <2>2, AppendedList
  <2> QED BY <1>1, <2>1, <2>2, <2>3
<1>7. CASE Complete(p) \/ Answer(p) \/ Crash(p)
  <2>1. /\ UNCHANGED <<queue, failed, dead, attempts, sent>>
        /\ \A q \in Processes : pc'[q] = "requeue" => pc[q] = "requeue" /\ hand'[q] = hand[q]
    BY <1>1, <1>7 DEF Complete, Answer, Crash, Drop
  <2> QED BY <1>1, <2>1
<1>8. CASE IncrMetric(p)
  <2>1. /\ UNCHANGED <<queue, failed, dead, attempts, hand, sent>>
        /\ \A q \in Processes : pc'[q] = "requeue" => pc[q] = "requeue"
    BY <1>1, <1>8 DEF IncrMetric
  <2> QED BY <1>1, <2>1
<1>9. CASE \E d \in Deliveries : Enqueue(p, d)
  <2>1. PICK d \in Deliveries : Enqueue(p, d) BY <1>9
  <2>2. /\ d \in Queued \ sent /\ queue' = Append(queue, d) /\ sent' = sent \cup {d}
        /\ UNCHANGED <<failed, dead, attempts, hand>>
        /\ \A q \in Processes : pc'[q] = "requeue" => pc[q] = "requeue"
    BY <1>1, <2>1 DEF Enqueue
  <2>3. \A c : InList(c, queue') <=> InList(c, queue) \/ c = d
    BY <1>1, <2>2, AppendedList
  <2> QED BY <1>1, <2>2, <2>3
<1>10. CASE \E d \in Deliveries : Receive(p, d)
  <2>1. /\ sent \subseteq sent' /\ UNCHANGED <<queue, failed, dead, attempts>>
        /\ \A q \in Processes : pc'[q] = "requeue" => pc[q] = "requeue" /\ hand'[q] = hand[q]
    BY <1>1, <1>10 DEF Receive
  <2> QED BY <1>1, <2>1
<1> QED BY <1>3, <1>4, <1>5, <1>6, <1>7, <1>8, <1>9, <1>10 DEF Batch, Retry

-----------------------------------------------------------------------------
(* Deduplication.  Without an excuse nobody else handles the event that is *)
(* looked up, and its handlers have not run to the end before.             *)
LEMMA DedupProcess ==
  ASSUME EventInv, TypeOK, RestInv, DedupInv, NEW p \in Processes, Process(p)
  PROVE  DedupInv'
<1> USE ReceiverAssumption DEF Goto, Return
<1>1. /\ pc \in [Processes -> Steps] /\ runs \in [Events -> 0 .. 2]
      /\ pc[p] \in {"lookup", "handle", "mark"} => Event(p) \in Events
      /\ pc[p] = "handle" => Event(p) \notin Unhandled
      /\ hand' = hand
  BY DEF TypeOK, RestInv, EventInv, HandInv, Event, Process, Lookup, HandlerReturns,
     HandlerRaises, MarkSeen, MarkRaises
<1>2. \A q \in Processes : Event(q)' = Event(q)
  BY <1>1 DEF Event
(* What one step of p has to keep of the invariant, spelled out.           *)
<1>3. \A e \in Events \ excused :
        /\ runs[e] <= 1
        /\ \A q, r \in Processes :
             /\ pc[q] \in {"handle", "mark"} /\ Event(q) = e
             /\ pc[r] \in {"handle", "mark"} /\ Event(r) = e
             => q = r
        /\ \A q \in Processes : pc[q] = "handle" /\ Event(q) = e => runs[e] = 0
        /\ runs[e] > 0 => e \in seen \/ \E q \in Processes : pc[q] = "mark" /\ Event(q) = e
  BY DEF DedupInv, Handling
<1>4. SUFFICES ASSUME NEW e \in Events \ excused'
      PROVE
        /\ runs'[e] <= 1
        /\ \A q, r \in Processes :
             /\ pc'[q] \in {"handle", "mark"} /\ Event(q) = e
             /\ pc'[r] \in {"handle", "mark"} /\ Event(r) = e
             => q = r
        /\ \A q \in Processes : pc'[q] = "handle" /\ Event(q) = e => runs'[e] = 0
        /\ runs'[e] > 0 => e \in seen' \/ \E q \in Processes : pc'[q] = "mark" /\ Event(q) = e
  BY <1>2 DEF DedupInv, Handling
<1>5. CASE Lookup(p)
  <2>1. CASE Event(p) \in seen BY <1>1, <1>3, <1>4, <1>5, <2>1 DEF Lookup
  <2>2. CASE Event(p) \notin seen
    <3>1. /\ UNCHANGED <<seen, runs>> /\ pc[p] = "lookup" /\ excused \subseteq excused'
          /\ \/ pc' = [pc EXCEPT ![p] = "mark"]
             \/ pc' = [pc EXCEPT ![p] = "handle"]
      BY <1>5, <2>2 DEF Lookup
    <3>2. e = Event(p) => \A q \in Processes : pc[q] \in {"handle", "mark"} => Event(q) # e
      BY <1>4, <1>5, <2>2 DEF Lookup, Handling
    <3>3. e = Event(p) => runs[e] = 0
      BY <1>1, <1>3, <1>4, <2>2, <3>1, <3>2
    <3> QED BY <1>1, <1>3, <1>4, <3>1, <3>2, <3>3
  <2> QED BY <2>1, <2>2
<1>6. CASE HandlerReturns(p)
  <2>1. /\ UNCHANGED <<seen, excused>> /\ pc[p] = "handle"
        /\ \/ pc' = [pc EXCEPT ![p] = "handle"] /\ runs' = runs
           \/ /\ pc' = [pc EXCEPT ![p] = "mark"]
              /\ runs' = [runs EXCEPT ![Event(p)] = IF @ < 2 THEN @ + 1 ELSE 2]
    BY <1>6 DEF HandlerReturns
  <2>2. CASE e = Event(p)
    <3>1. runs[e] = 0 BY <1>3, <1>4, <2>1, <2>2
    <3> QED BY <1>1, <1>3, <1>4, <2>1, <2>2, <3>1
  <2>3. CASE e # Event(p)
    <3>1. runs'[e] = runs[e] BY <1>1, <2>1, <2>3
    <3> QED BY <1>1, <1>3, <1>4, <2>1, <2>3, <3>1
  <2> QED BY <2>2, <2>3
<1>7. CASE HandlerRaises(p)
  <2>1. /\ UNCHANGED <<seen, excused, runs>> /\ pc[p] = "handle"
        /\ pc' = [pc EXCEPT ![p] = "returned"]
    BY <1>7 DEF HandlerRaises
  <2> QED BY <1>1, <1>3, <1>4, <2>1
<1>8. CASE MarkSeen(p)
  <2>1. /\ UNCHANGED <<excused, runs>> /\ seen' = seen \cup {Event(p)}
        /\ pc' = [pc EXCEPT ![p] = "returned"]
    BY <1>8 DEF MarkSeen
  <2> QED BY <1>1, <1>3, <1>4, <2>1
<1>9. CASE MarkRaises(p)
  <2>1. /\ UNCHANGED <<seen, runs>> /\ excused' = excused \cup {Event(p)}
        /\ pc' = [pc EXCEPT ![p] = "returned"]
    BY <1>9 DEF MarkRaises
  <2> QED BY <1>1, <1>3, <1>4, <2>1
<1> QED BY <1>5, <1>6, <1>7, <1>8, <1>9 DEF Process

(* The queues put nobody into process() and take nobody out, but a crash.  *)
LEMMA DedupQueue ==
  ASSUME TypeOK, DedupInv, NEW p \in Processes,
         \/ Batch(p) \/ Retry(p) \/ Answer(p) \/ IncrMetric(p) \/ Crash(p)
         \/ \E d \in Deliveries : Enqueue(p, d) \/ Receive(p, d)
  PROVE  DedupInv'
<1> USE DEF Goto, ThenIncr, Drop, marks, receiver
<1>1. /\ UNCHANGED <<seen, runs>> /\ excused \subseteq excused'
      /\ pc \in [Processes -> Steps] /\ pc'[p] \notin {"handle", "mark"}
      /\ \A q \in Processes : q # p => pc'[q] = pc[q] /\ hand'[q] = hand[q]
      /\ pc[p] = "mark" => Event(p) \in excused'
  BY DEF TypeOK, Batch, Retry, Pop, PopFailed, PushFailure, Requeue, Complete, Answer,
     IncrMetric, Crash, Enqueue, Receive, Steps
<1>2. \A q \in Processes : pc'[q] \in {"handle", "mark"} =>
        pc'[q] = pc[q] /\ Event(q)' = Event(q)
  BY <1>1 DEF Event
<1>3. SUFFICES ASSUME NEW e \in Events \ excused'
      PROVE  /\ runs'[e] <= 1
             /\ \A q, r \in Handling(e)' : q = r
             /\ \A q \in Processes : pc'[q] = "handle" /\ Event(q)' = e => runs'[e] = 0
             /\ runs'[e] > 0 =>
                  e \in seen' \/ \E q \in Processes : pc'[q] = "mark" /\ Event(q)' = e
  BY DEF DedupInv
<1>4. Handling(e)' \subseteq Handling(e)
  BY <1>2 DEF Handling
<1>5. \A q \in Processes : pc[q] = "mark" /\ Event(q) = e =>
        pc'[q] = "mark" /\ Event(q)' = e
  BY <1>1, <1>3 DEF Event
<1> QED BY <1>1, <1>2, <1>3, <1>4, <1>5 DEF DedupInv

-----------------------------------------------------------------------------
(* The whole invariant holds in every reachable state.                     *)
THEOREM WholeInvariant == Spec => []WholeInv
<1> USE DEF WholeInv
<1>1. Init => WholeInv
  <2> SUFFICES ASSUME Init PROVE WholeInv
    OBVIOUS
  <2> USE ReceiverAssumption, ProcessorAssumption DEF Init, ReceiverInit
  <2>1. EventInv BY InitInv
  <2>2. TypeOK BY DEF TypeOK, Steps, Results, Metrics
  <2>3. RestInv BY DEF RestInv
  <2>4. PlaceInv
    <3>1. Once(queue) /\ Once(failed) BY DEF Once
    <3>2. \A d \in Deliveries : Places(d) = {} BY DEF Places, InList
    <3> QED BY <3>1, <3>2 DEF PlaceInv
  <2>5. AttemptInv BY DEF AttemptInv, ExhaustedIsDead, InList
  <2>6. DedupInv BY DEF DedupInv, Handling
  <2> QED BY <2>1, <2>2, <2>3, <2>4, <2>5, <2>6
<1>2. WholeInv /\ [Next]_vars => WholeInv'
  <2> SUFFICES ASSUME WholeInv, [Next]_vars PROVE WholeInv'
    OBVIOUS
  <2>1. ASSUME NEW p \in Processes, Process(p), UNCHANGED <<lists, books, history>>
        PROVE  WholeInv'
    BY <2>1, ProcessStep, TypeProcess, PlaceProcess, AttemptProcess, DedupProcess
  <2>2. ASSUME NEW p \in Processes,
               \/ Batch(p) \/ Retry(p) \/ Answer(p) \/ IncrMetric(p) \/ Crash(p)
               \/ \E d \in Deliveries : Enqueue(p, d) \/ Receive(p, d)
        PROVE  WholeInv'
    BY <2>2, QueueStep, TypeQueue, PlaceQueue, AttemptQueue, DedupQueue
  <2>3. ASSUME NEW e \in Events, SeenExpires(e), UNCHANGED <<lists, books, history>>
        PROVE  WholeInv'
    <3>1. EventInv'
      BY <2>3 DEF SeenExpires, EventInv, TypeInv, HandInv, SeenInv, MarkInv,
         VerdictIsTrue, Handled, lists
    <3>2. TypeOK' /\ RestInv'
      BY <2>3, ReceiverAssumption
      DEF SeenExpires, TypeOK, RestInv, Event, lists, books, history
    <3>3. UNCHANGED <<pc, hand, lists, books, history>>
      BY <2>3 DEF SeenExpires
    <3>4. PlaceInv'
      BY <3>3, PlaceKept DEF lists, history
    <3>5. AttemptInv'
      BY <3>3 DEF AttemptInv, ExhaustedIsDead, lists, books, history
    <3>6. DedupInv'
      BY <2>3 DEF SeenExpires, DedupInv, Handling, Event
    <3> QED BY <3>1, <3>2, <3>4, <3>5, <3>6
  <2>4. CASE UNCHANGED vars
    <3> USE <2>4 DEF vars, receiver, marks, lists, books, history
    <3>1. EventInv'
      BY DEF EventInv, TypeInv, HandInv, SeenInv, MarkInv, VerdictIsTrue, Handled
    <3>2. TypeOK' /\ RestInv' BY DEF TypeOK, RestInv, Event
    <3>3. PlaceInv' BY PlaceKept
    <3>4. AttemptInv' BY DEF AttemptInv, ExhaustedIsDead
    <3>5. DedupInv' BY DEF DedupInv, Handling, Event
    <3> QED BY <3>1, <3>2, <3>3, <3>4, <3>5
  <2> QED BY <2>1, <2>2, <2>3, <2>4 DEF Next, Work
<1> QED BY <1>1, <1>2, PTL DEF Spec

(* The variables keep their types; a record's attempts stay within the     *)
(* limit.                                                                  *)
THEOREM TypeCorrect == Spec => []TypeOK
<1>1. WholeInv => TypeOK
  BY DEF WholeInv
<1> QED BY <1>1, WholeInvariant, PTL

(* The handlers of an event run to the end twice only for a listed cause,  *)
(* however many processes, deliveries and retries there are.               *)
THEOREM DedupHolds == Spec => []DedupUnlessExcused
<1>1. WholeInv => DedupUnlessExcused
  <2> SUFFICES ASSUME WholeInv, NEW e \in Events, e \notin excused PROVE ~(runs[e] > 1)
    BY DEF DedupUnlessExcused
  <2>1. runs[e] <= 1 /\ runs[e] \in 0 .. 2
    BY DEF WholeInv, DedupInv, TypeOK
  <2> QED BY <2>1
<1> QED BY <1>1, WholeInvariant, PTL

(* An event that was sent is in one place: pop, push, retry and dead       *)
(* letter neither lose nor double it.                                      *)
THEOREM OnePlaceHolds == Spec => []OnePlace
<1>1. WholeInv => OnePlace
  <2> SUFFICES ASSUME WholeInv, NEW d \in sent PROVE Cardinality(Places(d)) = 1
    BY DEF WholeInv, PlaceInv, OnePlace
  <2>1. PICK x : Places(d) = {x}
    BY DEF WholeInv, PlaceInv, TypeOK
  <2> QED BY <2>1, FS_Singleton
<1> QED BY <1>1, WholeInvariant, PTL

(* The dead letters are the events that have used up their attempts.       *)
THEOREM ExhaustedHolds == Spec => []ExhaustedIsDead
<1>1. WholeInv => ExhaustedIsDead
  BY DEF WholeInv, AttemptInv
<1> QED BY <1>1, WholeInvariant, PTL
-----------------------------------------------------------------------------
(* The metrics.  A record that has been pushed is counted when the process *)
(* that pushed it has incremented, and one on its way from `failed` to     *)
(* `queue` is in neither list.                                             *)
Counting(m) == {p \in Processes : tally[p] = m}
Requeueing == {p \in Processes : pc[p] = "requeue"}

(* What the counters come to once these processes have incremented them.   *)
Due == [m \in Metrics |-> metrics[m] + Cardinality(Counting(m))]

CountInv ==
  crashes = 0 =>
    /\ Due["enqueued"] = Cardinality(sent \cap Queued)
    /\ Due["completed"] = Cardinality(done \cap Queued)
    /\ Due["dead_letter"] = Cardinality(dead)
    /\ Due["failed"] = Len(failed) + Cardinality(Requeueing) + Due["retried"]

(* However many processes there are, those at work are finitely many.      *)
MetricsInv ==
  /\ \A p \in Processes : pc[p] # "incr" => tally[p] = "none"
  /\ IsFiniteSet(sent) /\ IsFiniteSet(Requeueing)
  /\ \A m \in Metrics : IsFiniteSet({p \in Processes : tally[p] = m})
  /\ CountInv

(* An element more makes a finite set's count greater by one.              *)
LEMMA OneMore ==
  ASSUME NEW S, IsFiniteSet(S), NEW x, x \notin S
  PROVE  /\ IsFiniteSet(S \cup {x}) /\ Cardinality(S) \in Nat
         /\ Cardinality(S \cup {x}) = Cardinality(S) + 1
BY FS_AddElement, FS_CardinalityType

(* An element less makes it smaller by one.                                *)
LEMMA OneLess ==
  ASSUME NEW S, IsFiniteSet(S), NEW x, x \in S
  PROVE  /\ IsFiniteSet(S \ {x}) /\ Cardinality(S) \in Nat
         /\ Cardinality(S \ {x}) = Cardinality(S) - 1
BY FS_RemoveElement, FS_CardinalityType

(* The numbers CountInv is about are numbers.                              *)
LEMMA Numbers ==
  ASSUME TypeOK, PlaceInv, MetricsInv
  PROVE  /\ Due \in [Metrics -> Nat]
         /\ Cardinality(Requeueing) \in Nat /\ Len(failed) \in Nat
         /\ IsFiniteSet(sent \cap Queued) /\ Cardinality(sent \cap Queued) \in Nat
         /\ IsFiniteSet(done \cap Queued) /\ Cardinality(done \cap Queued) \in Nat
         /\ IsFiniteSet(dead) /\ Cardinality(dead) \in Nat
<1>1. done \subseteq sent /\ dead \subseteq sent
  BY PlaceMembers, ProcessorAssumption DEF PlaceInv, TypeOK
<1>2. IsFiniteSet(sent \cap Queued) /\ IsFiniteSet(done \cap Queued) /\ IsFiniteSet(dead)
  BY <1>1, FS_Subset DEF MetricsInv
<1>3. \A m \in Metrics : metrics[m] \in Nat /\ Cardinality(Counting(m)) \in Nat
  BY FS_CardinalityType DEF MetricsInv, TypeOK, Counting
<1>4. Cardinality(Requeueing) \in Nat /\ Len(failed) \in Nat
  BY FS_CardinalityType, LenProperties DEF MetricsInv, TypeOK
<1> QED BY <1>2, <1>3, <1>4, FS_CardinalityType DEF Due

(* A process that is about to increment m is one more of those.            *)
LEMMA TallySet ==
  ASSUME TypeOK, MetricsInv, NEW p \in Processes, pc[p] # "incr", NEW m \in Metrics,
         tally' = [tally EXCEPT ![p] = m], UNCHANGED metrics
  PROVE  /\ \A n \in Metrics : IsFiniteSet({q \in Processes : tally'[q] = n})
         /\ Due' = [Due EXCEPT ![m] = @ + 1]
<1> DEFINE C(n) == {q \in Processes : tally[q] = n}
           D(n) == {q \in Processes : tally'[q] = n}
<1>1. tally[p] = "none" /\ tally \in [Processes -> Metrics \cup {"none"}]
  BY DEF MetricsInv, TypeOK
<1>2. \A n \in Metrics \ {m} : D(n) = C(n)
  BY <1>1 DEF Metrics
<1>3. D(m) = C(m) \cup {p} /\ p \notin C(m)
  BY <1>1 DEF Metrics
<1>4. \A n \in Metrics : IsFiniteSet(C(n)) BY DEF MetricsInv
<1>5. Due = [n \in Metrics |-> metrics[n] + Cardinality(C(n))] BY DEF Due, Counting
<1>6. Due' = [n \in Metrics |-> metrics[n] + Cardinality(D(n))] BY DEF Due, Counting
<1>7. metrics[m] \in Nat BY DEF TypeOK
<1> HIDE DEF C, D
<1>8. /\ IsFiniteSet(D(m)) /\ Cardinality(C(m)) \in Nat
      /\ Cardinality(D(m)) = Cardinality(C(m)) + 1
  BY <1>3, <1>4, OneMore
<1>9. \A n \in Metrics : IsFiniteSet(D(n)) BY <1>2, <1>4, <1>8
<1>10. Due' = [Due EXCEPT ![m] = @ + 1]
  <2>1. \A n \in Metrics : Due'[n] = [Due EXCEPT ![m] = @ + 1][n]
    BY <1>2, <1>5, <1>6, <1>7, <1>8
  <2> QED BY <1>5, <1>6, <2>1
<1> QED BY <1>9, <1>10 DEF D

(* While nobody begins or ends an INCR, what the counters come to is kept. *)
LEMMA TallyKept ==
  ASSUME MetricsInv, UNCHANGED <<tally, metrics>>
  PROVE  /\ Due' = Due
         /\ \A n \in Metrics : IsFiniteSet({q \in Processes : tally'[q] = n})
BY DEF Due, Counting, MetricsInv

(* An action that lets p neither leave retry_failed nor begin it.          *)
LEMMA RequeueKept ==
  ASSUME TypeOK, NEW p \in Processes, NEW s, s # "requeue", pc[p] # "requeue",
         pc' = [pc EXCEPT ![p] = s]
  PROVE  Requeueing' = Requeueing
BY DEF Requeueing, TypeOK

(* process() itself counts nothing.                                        *)
LEMMA MetricsProcess ==
  ASSUME TypeOK, MetricsInv, NEW p \in Processes, Process(p), UNCHANGED <<lists, books, history>>
  PROVE  MetricsInv'
<1>1. /\ UNCHANGED <<lists, books, history>> /\ pc[p] \in {"lookup", "handle", "mark"}
      /\ \E s \in {"handle", "mark", "returned"} : pc' = [pc EXCEPT ![p] = s]
  BY DEF Process, Lookup, HandlerReturns, HandlerRaises, MarkSeen, MarkRaises, Goto, Return
<1>2. Requeueing' = Requeueing BY <1>1, RequeueKept
<1>3. \A q \in Processes : pc'[q] # "incr" => tally'[q] = "none"
  BY <1>1 DEF MetricsInv, TypeOK, books
<1> QED BY <1>1, <1>2, <1>3, TallyKept DEF MetricsInv, CountInv, lists, books, history

(* What a step of the queues moves it also begins to count, and an INCR    *)
(* pays what is due.                                                       *)
LEMMA MetricsQueue ==
  ASSUME WholeInv, MetricsInv, NEW p \in Processes,
         \/ Batch(p) \/ Retry(p) \/ Answer(p) \/ IncrMetric(p) \/ Crash(p)
         \/ \E d \in Deliveries : Enqueue(p, d) \/ Receive(p, d)
  PROVE  MetricsInv'
<1> USE ReceiverAssumption, ProcessorAssumption DEF Goto, ThenIncr, marks, receiver, lists,
        books, history
<1>0. /\ TypeOK /\ EventInv /\ RestInv /\ PlaceInv /\ AttemptInv
      /\ queue \in Seq(Queued) /\ failed \in Seq(Queued)
      /\ pc \in [Processes -> Steps] /\ tally \in [Processes -> Metrics \cup {"none"}]
      /\ \A q \in Processes : pc[q] # "incr" => tally[q] = "none"
      /\ \A m \in {"enqueued", "completed", "failed", "retried", "dead_letter"} : m \in Metrics
  BY DEF WholeInv, TypeOK, MetricsInv, Metrics
<1>n. /\ Due \in [Metrics -> Nat]
      /\ Cardinality(Requeueing) \in Nat /\ Len(failed) \in Nat
      /\ IsFiniteSet(sent \cap Queued) /\ Cardinality(sent \cap Queued) \in Nat
      /\ IsFiniteSet(done \cap Queued) /\ Cardinality(done \cap Queued) \in Nat
      /\ IsFiniteSet(dead) /\ Cardinality(dead) \in Nat
  BY <1>0, Numbers
<1>c. CountInv BY DEF MetricsInv
<1>a. IsFiniteSet(sent) /\ IsFiniteSet(Requeueing) BY DEF MetricsInv
<1>1. CASE Pop(p)
  <2>1. UNCHANGED <<failed, dead, metrics, tally, sent, done, crashes>> /\ pc[p] = "idle"
        /\ pc' = [pc EXCEPT ![p] = "lookup"]
    BY <1>1 DEF Pop
  <2>2. Requeueing' = Requeueing BY <1>0, <2>1, RequeueKept
  <2>3. \A q \in Processes : pc'[q] # "incr" => tally'[q] = "none" BY <1>0, <2>1
  <2> QED BY <1>a, <1>c, <2>1, <2>2, <2>3, TallyKept DEF MetricsInv, CountInv
<1>2. CASE PushFailure(p)
  <2> DEFINE d == hand[p]
             m == IF attempts[d] >= MaxRetries THEN "dead_letter" ELSE "failed"
  <2>1. /\ UNCHANGED <<metrics, sent, done, crashes>> /\ pc[p] = "returned" /\ d \in Queued
        /\ pc' = [pc EXCEPT ![p] = "incr"] /\ tally' = [tally EXCEPT ![p] = m]
    BY <1>2 DEF PushFailure
  <2>2. Requeueing' = Requeueing BY <1>0, <2>1, RequeueKept
  <2>3. \A q \in Processes : pc'[q] # "incr" => tally'[q] = "none" BY <1>0, <2>1
  <2>4. CASE attempts[d] >= MaxRetries
    <3>1. dead' = dead \cup {d} /\ UNCHANGED failed BY <1>2, <2>4 DEF PushFailure
    <3>2. p \in Places(d) BY PlaceMembers
    <3>3. d \notin dead BY <1>0, <2>1, <3>2, Alone
    <3>4. Cardinality(dead') = Cardinality(dead) + 1
      BY <1>n, <3>1, <3>3, OneMore
    <3>5. tally' = [tally EXCEPT ![p] = "dead_letter"] BY <2>1, <2>4
    <3>6. /\ \A n \in Metrics : IsFiniteSet({q \in Processes : tally'[q] = n})
          /\ Due' = [Due EXCEPT !["dead_letter"] = @ + 1]
      BY <1>0, <2>1, <3>5, TallySet
    <3>7. CountInv'
      BY <1>0, <2>1, <2>2, <3>1, <3>4, <3>6, <1>n, <1>c DEF CountInv, Metrics
    <3> QED BY <1>a, <2>1, <2>2, <2>3, <3>6, <3>7 DEF MetricsInv
  <2>5. CASE ~(attempts[d] >= MaxRetries)
    <3>1. failed' = Append(failed, d) /\ UNCHANGED dead BY <1>2, <2>5 DEF PushFailure
    <3>2. Len(failed') = Len(failed) + 1 BY <1>0, <2>1, <3>1, AppendProperties
    <3>5. tally' = [tally EXCEPT ![p] = "failed"] BY <2>1, <2>5
    <3>6. /\ \A n \in Metrics : IsFiniteSet({q \in Processes : tally'[q] = n})
          /\ Due' = [Due EXCEPT !["failed"] = @ + 1]
      BY <1>0, <2>1, <3>5, TallySet
    <3>7. CountInv'
      BY <1>0, <2>1, <2>2, <3>1, <3>2, <3>6, <1>n, <1>c DEF CountInv, Metrics
    <3> QED BY <1>a, <2>1, <2>2, <2>3, <3>6, <3>7 DEF MetricsInv
  <2> QED BY <2>4, <2>5
<1>3. CASE Complete(p)
  <2> DEFINE d == hand[p]
  <2>1. /\ UNCHANGED <<failed, dead, metrics, sent, crashes>> /\ pc[p] = "returned" /\ d \in Queued
        /\ pc' = [pc EXCEPT ![p] = "incr"] /\ tally' = [tally EXCEPT ![p] = "completed"]
        /\ done' = done \cup {d}
    BY <1>3 DEF Complete
  <2>2. Requeueing' = Requeueing BY <1>0, <2>1, RequeueKept
  <2>3. \A q \in Processes : pc'[q] # "incr" => tally'[q] = "none" BY <1>0, <2>1
  <2>4. p \in Places(d) BY PlaceMembers
  <2>5. d \notin done BY <1>0, <2>1, <2>4, Alone
  <2>6. done' \cap Queued = (done \cap Queued) \cup {d} BY <2>1
  <2>7. Cardinality(done' \cap Queued) = Cardinality(done \cap Queued) + 1
    BY <1>n, <2>5, <2>6, OneMore
  <2>8. /\ \A n \in Metrics : IsFiniteSet({q \in Processes : tally'[q] = n})
        /\ Due' = [Due EXCEPT !["completed"] = @ + 1]
    BY <1>0, <2>1, TallySet
  <2>9. CountInv'
    BY <1>0, <2>1, <2>2, <2>7, <2>8, <1>n, <1>c DEF CountInv, Metrics
  <2> QED BY <1>a, <2>1, <2>2, <2>3, <2>8, <2>9 DEF MetricsInv
<1>4. CASE PopFailed(p)
  <2>1. /\ UNCHANGED <<dead, metrics, tally, sent, done, crashes>> /\ pc[p] = "idle"
        /\ pc' = [pc EXCEPT ![p] = "requeue"] /\ failed # <<>> /\ failed' = Tail(failed)
    BY <1>4 DEF PopFailed
  <2>2. Requeueing' = Requeueing \cup {p} /\ p \notin Requeueing
    BY <1>0, <2>1 DEF Requeueing
  <2>3. IsFiniteSet(Requeueing') /\ Cardinality(Requeueing') = Cardinality(Requeueing) + 1
    BY <1>a, <2>2, OneMore
  <2>4. Len(failed') = Len(failed) - 1 BY <1>0, <2>1, HeadTailProperties
  <2>5. \A q \in Processes : pc'[q] # "incr" => tally'[q] = "none" BY <1>0, <2>1
  <2>6. CountInv'
    BY <1>0, <2>1, <2>3, <2>4, TallyKept, <1>n, <1>c DEF CountInv, Metrics
  <2> QED BY <1>a, <2>1, <2>3, <2>5, <2>6, TallyKept DEF MetricsInv
<1>5. CASE Requeue(p)
  <2>1. attempts[hand[p]] < MaxRetries /\ hand[p] \in Queued /\ attempts[hand[p]] \in Nat
    BY <1>0, <1>5 DEF Requeue, AttemptInv, EventInv, HandInv, TypeOK
  <2>2. /\ UNCHANGED <<failed, dead, metrics, sent, done, crashes>> /\ pc[p] = "requeue"
        /\ pc' = [pc EXCEPT ![p] = "incr"] /\ tally' = [tally EXCEPT ![p] = "retried"]
    BY <1>5, <2>1 DEF Requeue
  <2>3. Requeueing' = Requeueing \ {p} /\ p \in Requeueing
    BY <1>0, <2>2 DEF Requeueing
  <2>4. IsFiniteSet(Requeueing') /\ Cardinality(Requeueing') = Cardinality(Requeueing) - 1
    BY <1>a, <2>3, OneLess
  <2>5. \A q \in Processes : pc'[q] # "incr" => tally'[q] = "none" BY <1>0, <2>2
  <2>6. /\ \A n \in Metrics : IsFiniteSet({q \in Processes : tally'[q] = n})
        /\ Due' = [Due EXCEPT !["retried"] = @ + 1]
    BY <1>0, <2>2, TallySet
  <2>7. CountInv'
    BY <1>0, <2>2, <2>4, <2>6, <1>n, <1>c DEF CountInv, Metrics
  <2> QED BY <1>a, <2>2, <2>4, <2>5, <2>6, <2>7 DEF MetricsInv
<1>6. CASE Answer(p)
  <2>1. /\ UNCHANGED <<failed, dead, metrics, tally, sent, crashes>> /\ pc[p] = "returned"
        /\ pc' = [pc EXCEPT ![p] = "idle"] /\ done' \cap Queued = done \cap Queued
    BY <1>6 DEF Answer
  <2>2. Requeueing' = Requeueing BY <1>0, <2>1, RequeueKept
  <2>3. \A q \in Processes : pc'[q] # "incr" => tally'[q] = "none" BY <1>0, <2>1
  <2> QED BY <1>a, <1>c, <2>1, <2>2, <2>3, TallyKept DEF MetricsInv, CountInv
<1>7. CASE IncrMetric(p)
  <2>1. PICK m \in Metrics : m = tally[p] BY <1>0, <1>7 DEF IncrMetric, RestInv
  <2>2. /\ UNCHANGED <<failed, dead, sent, done, crashes>> /\ pc[p] = "incr"
        /\ pc' = [pc EXCEPT ![p] = "idle"] /\ tally' = [tally EXCEPT ![p] = "none"]
        /\ metrics' = [metrics EXCEPT ![m] = @ + 1]
    BY <1>7, <2>1 DEF IncrMetric
  <2>3. Requeueing' = Requeueing BY <1>0, <2>2, RequeueKept
  <2>4. \A q \in Processes : pc'[q] # "incr" => tally'[q] = "none" BY <1>0, <2>2
  <2> DEFINE C(n) == {q \in Processes : tally[q] = n}
             D(n) == {q \in Processes : tally'[q] = n}
  <2>5. /\ D(m) = C(m) \ {p} /\ p \in C(m)
        /\ \A n \in Metrics \ {m} : D(n) = C(n)
    BY <1>0, <2>1, <2>2 DEF Metrics
  <2>6. \A n \in Metrics : IsFiniteSet(C(n)) BY DEF MetricsInv
  <2>7. /\ Due = [n \in Metrics |-> metrics[n] + Cardinality(C(n))]
        /\ Due' = [n \in Metrics |-> metrics'[n] + Cardinality(D(n))]
    BY DEF Due, Counting
  <2>8. /\ metrics \in [Metrics -> Nat] /\ metrics'[m] = metrics[m] + 1
        /\ \A n \in Metrics \ {m} : metrics'[n] = metrics[n]
    BY <1>0, <2>2 DEF TypeOK
  <2>9. Due' = Due /\ \A n \in Metrics : IsFiniteSet(D(n))
    <3> HIDE DEF C, D
    <3>1. /\ IsFiniteSet(D(m)) /\ Cardinality(C(m)) \in Nat
          /\ Cardinality(D(m)) = Cardinality(C(m)) - 1
      BY <2>5, <2>6, OneLess
    <3>2. metrics'[m] + Cardinality(D(m)) = metrics[m] + Cardinality(C(m))
      BY <2>8, <3>1
    <3>3. \A n \in Metrics : metrics'[n] + Cardinality(D(n)) = metrics[n] + Cardinality(C(n))
      BY <2>5, <2>8, <3>2
    <3>4. Due' = Due BY <2>7, <3>3
    <3> QED BY <2>5, <2>6, <3>1, <3>4
  <2> QED BY <1>a, <1>c, <2>2, <2>3, <2>4, <2>9 DEF MetricsInv, CountInv
<1>8. CASE Crash(p)
  <2>1. /\ UNCHANGED sent /\ crashes' # 0 /\ pc' = [pc EXCEPT ![p] = "idle"]
        /\ tally' = [tally EXCEPT ![p] = "none"]
    BY <1>0, <1>8 DEF Crash, TypeOK
  <2>2. Requeueing' \subseteq Requeueing /\ \A m \in Metrics :
          {q \in Processes : tally'[q] = m} \subseteq {q \in Processes : tally[q] = m}
    BY <1>0, <2>1 DEF Requeueing, Metrics
  <2>3. IsFiniteSet(Requeueing') /\ \A m \in Metrics : IsFiniteSet({q \in Processes : tally'[q] = m})
    BY <1>a, <2>2, FS_Subset DEF MetricsInv
  <2>4. \A q \in Processes : pc'[q] # "incr" => tally'[q] = "none" BY <1>0, <2>1
  <2> QED BY <1>a, <2>1, <2>3, <2>4 DEF MetricsInv, CountInv
<1>9. CASE \E d \in Deliveries : Enqueue(p, d)
  <2>1. PICK d \in Deliveries : Enqueue(p, d) BY <1>9
  <2>2. /\ UNCHANGED <<failed, dead, metrics, done, crashes>> /\ pc[p] = "idle"
        /\ pc' = [pc EXCEPT ![p] = "incr"] /\ tally' = [tally EXCEPT ![p] = "enqueued"]
        /\ d \in Queued \ sent /\ sent' = sent \cup {d}
    BY <2>1 DEF Enqueue
  <2>3. Requeueing' = Requeueing BY <1>0, <2>2, RequeueKept
  <2>4. \A q \in Processes : pc'[q] # "incr" => tally'[q] = "none" BY <1>0, <2>2
  <2>5. sent' \cap Queued = (sent \cap Queued) \cup {d} /\ IsFiniteSet(sent')
    BY <1>a, <2>2, OneMore
  <2>6. Cardinality(sent' \cap Queued) = Cardinality(sent \cap Queued) + 1
    BY <1>n, <2>2, <2>5, OneMore
  <2>7. /\ \A n \in Metrics : IsFiniteSet({q \in Processes : tally'[q] = n})
        /\ Due' = [Due EXCEPT !["enqueued"] = @ + 1]
    BY <1>0, <2>2, TallySet
  <2>8. CountInv'
    BY <1>0, <2>2, <2>3, <2>6, <2>7, <1>n, <1>c DEF CountInv, Metrics
  <2> QED BY <1>a, <2>3, <2>4, <2>5, <2>7, <2>8 DEF MetricsInv
<1>10. CASE \E d \in Deliveries : Receive(p, d)
  <2>1. PICK d \in Deliveries : Receive(p, d) BY <1>10
  <2>2. /\ UNCHANGED <<failed, dead, metrics, tally, done, crashes>> /\ pc[p] = "idle"
        /\ pc' = [pc EXCEPT ![p] = "lookup"]
        /\ d \notin Queued /\ sent' = sent \cup {d}
    BY <2>1 DEF Receive
  <2>3. Requeueing' = Requeueing BY <1>0, <2>2, RequeueKept
  <2>4. \A q \in Processes : pc'[q] # "incr" => tally'[q] = "none" BY <1>0, <2>2
  <2>5. sent' \cap Queued = sent \cap Queued /\ IsFiniteSet(sent')
    BY <1>a, <2>2, FS_AddElement
  <2> QED BY <1>a, <1>c, <2>2, <2>3, <2>4, <2>5, TallyKept DEF MetricsInv, CountInv
<1> QED BY <1>1, <1>2, <1>3, <1>4, <1>5, <1>6, <1>7, <1>8, <1>9, <1>10 DEF Batch, Retry

(* The metrics tell where the events are whenever all are at rest, however *)
(* batches, retries and enqueues were interleaved before: no record is     *)
(* counted twice on the way or forgotten.                                  *)
THEOREM MetricsHold == Spec => []MetricsAgree
<1>1. Init => MetricsInv
  <2> SUFFICES ASSUME Init PROVE MetricsInv
    OBVIOUS
  <2>1. /\ Requeueing = {} /\ sent = {} /\ sent \cap Queued = {} /\ done \cap Queued = {}
        /\ dead = {} /\ Len(failed) = 0
        /\ \A m \in Metrics : metrics[m] = 0 /\ {p \in Processes : tally[p] = m} = {}
    BY DEF Init, ReceiverInit, Requeueing, Metrics
  <2>2. Due = [m \in Metrics |-> 0] BY <2>1, FS_EmptySet DEF Due, Counting
  <2>3. CountInv BY <2>1, <2>2, FS_EmptySet DEF CountInv, Metrics
  <2>4. \A p \in Processes : tally[p] = "none" BY DEF Init
  <2> QED BY <2>1, <2>3, <2>4, FS_EmptySet DEF MetricsInv
<1>2. WholeInv /\ MetricsInv /\ [Next]_vars => MetricsInv'
  <2> SUFFICES ASSUME WholeInv, MetricsInv, [Next]_vars PROVE MetricsInv'
    OBVIOUS
  <2>1. TypeOK BY DEF WholeInv
  <2>2. ASSUME NEW p \in Processes, Process(p), UNCHANGED <<lists, books, history>>
        PROVE  MetricsInv'
    BY <2>1, <2>2, MetricsProcess
  <2>3. ASSUME UNCHANGED <<pc, lists, books, history>> PROVE MetricsInv'
    <3>1. UNCHANGED Requeueing BY <2>3 DEF Requeueing
    <3> QED BY <2>3, <3>1, TallyKept DEF MetricsInv, CountInv, lists, books, history
  <2>4. CASE UNCHANGED vars BY <2>3, <2>4 DEF vars
  <2>5. ASSUME NEW e \in Events, SeenExpires(e), UNCHANGED <<lists, books, history>>
        PROVE  MetricsInv'
    BY <2>3, <2>5 DEF SeenExpires
  <2> QED BY <2>2, <2>4, <2>5, MetricsQueue DEF Next, Work
<1>3. WholeInv /\ MetricsInv => MetricsAgree
  <2> SUFFICES ASSUME WholeInv, MetricsInv, crashes = 0, \A p \in Processes : pc[p] = "idle"
      PROVE  /\ metrics["enqueued"] = Cardinality(sent \cap Queued)
             /\ metrics["completed"] = Cardinality(done \cap Queued)
             /\ metrics["dead_letter"] = Cardinality(dead)
             /\ metrics["failed"] - metrics["retried"] = Len(failed)
    BY DEF MetricsAgree
  <2>1. TypeOK /\ PlaceInv BY DEF WholeInv
  <2>2. Requeueing = {} /\ \A m \in Metrics : Counting(m) = {}
    BY DEF MetricsInv, Requeueing, Counting, Metrics
  <2>3. metrics \in [Metrics -> Nat] BY <2>1 DEF TypeOK
  <2>4. \A m \in Metrics : Due[m] = metrics[m] BY <2>2, <2>3, FS_EmptySet DEF Due
  <2>5. Cardinality(Requeueing) = 0 BY <2>2, FS_EmptySet
  <2>6. CountInv /\ Len(failed) \in Nat BY <2>1, Numbers DEF MetricsInv
  <2> QED BY <2>3, <2>4, <2>5, <2>6 DEF CountInv, Metrics
<1> QED BY <1>1, <1>2, <1>3, WholeInvariant, PTL DEF Spec
=============================================================================
