--------------------------- MODULE WebhookReceiver ---------------------------
(***************************************************************************)
(* WebhookReceiver.process (kit_pay/webhook_receiver.py): look the event   *)
(* id up in Redis, run the registered handlers in order, mark the id seen. *)
(* Processes run it at the same time with nothing between the lookup and   *)
(* the mark; EventProcessor composes it with the queues and with the       *)
(* webhook endpoint, and gives it the processes and what they do next.     *)
(***************************************************************************)
EXTENDS Integers, Sequences, FiniteSets

CONSTANTS
  Processes,    (* the processes that may call process()                   *)
  Deliveries,   (* what the provider sends; it may send an event again     *)
  Events,       (* event ids                                               *)
  EventOf,      (* the id of each delivery                                 *)
  Unhandled,    (* the events of a type no handler is registered for       *)
  Handlers,     (* the number of handlers of every other event             *)
  NoDelivery,
  FaultLimit,   (* bound: handlers and Redis writes that raise             *)
  ExpiryLimit   (* bound: `seen` keys that outlive their 24 hours          *)

ASSUME ReceiverAssumption ==
  /\ EventOf \in [Deliveries -> Events]
  /\ Unhandled \subseteq Events
  /\ Handlers \in Nat \ {0}
  /\ NoDelivery \notin Deliveries
  /\ FaultLimit \in Nat /\ ExpiryLimit \in Nat

VARIABLES
  seen,      (* the event ids with a `seen` key                            *)
  pc,        (* what each process does next                                *)
  hand,      (* the delivery each process works on                         *)
  ran,       (* handlers that have returned in the call each one is in     *)
  result,    (* the status process() returned: "blank" is a failure whose  *)
             (*   error text is the empty string                           *)
  runs,      (* history: how often all handlers of an event have returned, *)
             (*   counted up to 2                                          *)
  excused,   (* history: events looked up while another process handled    *)
             (*   them, or whose mark was lost or expired                  *)
  faults, expiries   (* what the bounds count                              *)

marks == <<seen, runs, excused, faults, expiries>>
receiver == <<marks, ran, result>>

Results == {"none", "success", "skipped", "failed", "blank"}

ReceiverInit ==
  /\ seen = {} /\ excused = {}
  /\ pc = [p \in Processes |-> "idle"]
  /\ hand = [p \in Processes |-> NoDelivery]
  /\ ran = [p \in Processes |-> 0]
  /\ result = [p \in Processes |-> "none"]
  /\ runs = [e \in Events |-> 0]
  /\ faults = 0 /\ expiries = 0

Goto(p, step) == pc' = [pc EXCEPT ![p] = step]
Event(p) == EventOf[hand[p]]

(* The processes between their lookup and their mark.                      *)
Handling(e) == {p \in Processes : pc[p] \in {"handle", "mark"} /\ Event(p) = e}

Return(p, status) ==
  /\ Goto(p, "returned")
  /\ result' = [result EXCEPT ![p] = status]

-----------------------------------------------------------------------------
(* GET seen: a duplicate is skipped; an event nobody handles goes straight *)
(* to the mark.                                                            *)
Lookup(p) ==
  /\ pc[p] = "lookup"
  /\ IF Event(p) \in seen
       THEN Return(p, "skipped") /\ UNCHANGED excused
       ELSE /\ Goto(p, IF Event(p) \in Unhandled THEN "mark" ELSE "handle")
            /\ excused' = IF Handling(Event(p)) = {} THEN excused
                                                     ELSE excused \cup {Event(p)}
            /\ UNCHANGED result
  /\ UNCHANGED <<seen, hand, ran, runs, faults, expiries>>

(* Mutant: the event is marked seen as soon as its first handler starts.   *)
HandlerReturnsMarked(p) ==
  /\ pc[p] = "handle"
  /\ ran' = [ran EXCEPT ![p] = @ + 1]
  /\ seen' = seen \cup {Event(p)}
  /\ IF ran'[p] = Handlers
       THEN Goto(p, "mark") /\ runs' = [runs EXCEPT ![Event(p)] = IF @ < 2 THEN @ + 1 ELSE 2]
       ELSE Goto(p, "handle") /\ UNCHANGED runs
  /\ UNCHANGED <<hand, result, excused, faults, expiries>>

(* The next handler returns.                                               *)
HandlerReturns(p) ==
  /\ pc[p] = "handle"
  /\ ran' = [ran EXCEPT ![p] = @ + 1]
  /\ IF ran'[p] = Handlers
       THEN Goto(p, "mark") /\ runs' = [runs EXCEPT ![Event(p)] = IF @ < 2 THEN @ + 1 ELSE 2]
       ELSE Goto(p, "handle") /\ UNCHANGED runs
  /\ UNCHANGED <<seen, hand, result, excused, faults, expiries>>

(* The next handler raises an exception, with a message or without one;    *)
(* what the handlers before it did stays done.                             *)
HandlerRaises(p) ==
  /\ pc[p] = "handle"
  /\ faults < FaultLimit /\ faults' = faults + 1
  /\ \E status \in {"failed", "blank"} : Return(p, status)
  /\ UNCHANGED <<seen, hand, ran, runs, excused, expiries>>

(* Mutant: the mark of a finished event is forgotten.                      *)
MarkForgotten(p) ==
  /\ pc[p] = "mark"
  /\ Return(p, "success")
  /\ UNCHANGED <<seen, hand, ran, runs, excused, faults, expiries>>

(* SET seen EX 86400.                                                      *)
MarkSeen(p) ==
  /\ pc[p] = "mark"
  /\ seen' = seen \cup {Event(p)}
  /\ Return(p, "success")
  /\ UNCHANGED <<hand, ran, runs, excused, faults, expiries>>

(* The SET raises: after handlers it is inside their try and reported as a *)
(* failure of the event (elsewhere it ends the caller: see Crash).         *)
MarkRaises(p) ==
  /\ pc[p] = "mark" /\ Event(p) \notin Unhandled
  /\ faults < FaultLimit /\ faults' = faults + 1
  /\ Return(p, "failed")
  /\ excused' = excused \cup {Event(p)}
  /\ UNCHANGED <<seen, hand, ran, runs, expiries>>

(* A `seen` key reaches the end of its 24 hours.                           *)
SeenExpires(e) ==
  /\ e \in seen /\ seen' = seen \ {e}
  /\ expiries < ExpiryLimit /\ expiries' = expiries + 1
  /\ excused' = excused \cup {e}
  /\ UNCHANGED <<pc, hand, ran, result, runs, faults>>

Process(p) ==
  \/ Lookup(p) \/ HandlerReturns(p) \/ HandlerRaises(p)
  \/ MarkSeen(p) \/ MarkRaises(p)

-----------------------------------------------------------------------------
(* Deduplication: the handlers of an event run to the end a second time    *)
(* only if two processes handled it at once, the mark of the first time    *)
(* was lost with a failure or a crash, or the mark has expired; retries    *)
(* and redeliveries of the provider are never enough.                      *)
DedupUnlessExcused == \A e \in Events : runs[e] > 1 => e \in excused
=============================================================================
