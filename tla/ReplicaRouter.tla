---------------------------- MODULE ReplicaRouter ----------------------------
(***************************************************************************)
(* ReplicaRouter of kit-data (kit_data/replica_router.py): the threads of  *)
(* one process route their reads by a shared dictionary of the replicas    *)
(* that are down, which nothing locks.  A weighted or a round-robin choice *)
(* is any choice from the pool; route() is the first round of run().       *)
(***************************************************************************)
EXTENDS Integers

CONSTANTS
  Callers,      (* threads, each with one read                             *)
  Replicas, NoReplica,
  Cooldown,
  MaxTime       (* bound: the last instant of the clock                    *)

VARIABLES
  monotonic,    (* time.monotonic()                                        *)
  downAt,       (* _down, Up for a replica that is not in it               *)
  doing,        (* the next step of each caller                            *)
  looked,       (* when it last looked for replicas to recover             *)
  stale,        (* those it found and has still to delete from _down       *)
  pool,         (* those it may choose from                                *)
  tried,
  chosen,       (* the replica that it reads from                          *)
  failedAt,     (* history: when each replica was last marked down         *)
  pardoned      (* history: replicas marked up since, or whose mark a late *)
                (*   deletion took away                                    *)

vars == <<monotonic, downAt, doing, looked, stale, pool, tried, chosen,
          failedAt, pardoned>>

Up == -1
None == [c \in Callers |-> {}]

Init ==
  /\ monotonic = 0 /\ downAt = [r \in Replicas |-> Up]
  /\ doing = [c \in Callers |-> "scan"] /\ looked = [c \in Callers |-> 0]
  /\ stale = None /\ pool = None /\ tried = None
  /\ chosen = [c \in Callers |-> NoReplica]
  /\ failedAt = [r \in Replicas |-> Up] /\ pardoned = {}

Does(c, step) == doing' = [doing EXCEPT ![c] = step]

(* Mutant: a replica recovers a moment too soon.                           *)
CooledEarly(r) == downAt[r] # Up /\ monotonic - downAt[r] >= Cooldown - 1

Cooled(r) == downAt[r] # Up /\ monotonic - downAt[r] >= Cooldown

(* _recover(): list those past their cooldown, and delete them one by one. *)
Scan(c) ==
  /\ doing[c] = "scan"
  /\ looked' = [looked EXCEPT ![c] = monotonic]
  /\ stale' = [stale EXCEPT ![c] = {r \in Replicas : Cooled(r)}]
  /\ Does(c, "recover")
  /\ UNCHANGED <<monotonic, downAt, pool, tried, chosen, failedAt, pardoned>>

(* Another thread adds to the dictionary, or takes from it, in mid-scan.   *)
ScanRaises(c) ==
  /\ doing[c] = "scan"
  /\ \E d \in Callers \ {c} :
       \/ \E r \in stale[d] : downAt[r] # Up
       \/ doing[d] = "read" /\ downAt[chosen[d]] = Up
  /\ Does(c, "broken")
  /\ UNCHANGED <<monotonic, downAt, looked, stale, pool, tried, chosen,
                 failedAt, pardoned>>

(* The del takes whatever mark the replica has by now; if it has none, the *)
(* KeyError ends the call.                                                 *)
Recover(c) ==
  /\ doing[c] = "recover"
  /\ \E r \in stale[c] :
       /\ downAt' = [downAt EXCEPT ![r] = Up]
       /\ stale' = [stale EXCEPT ![c] = IF downAt[r] = Up THEN {} ELSE @ \ {r}]
       /\ IF downAt[r] = Up THEN Does(c, "broken") ELSE UNCHANGED doing
       /\ pardoned' =
            IF downAt[r] >= looked[c] THEN pardoned \cup {r} ELSE pardoned
  /\ UNCHANGED <<monotonic, looked, pool, tried, chosen, failedAt>>

(* healthy() without those tried; the loop ends when there are none.       *)
Pool(c) ==
  /\ doing[c] = "recover" /\ stale[c] = {}
  /\ pool' = [pool EXCEPT ![c] = {r \in Replicas : downAt[r] = Up} \ tried[c]]
  /\ Does(c, IF pool'[c] = {} THEN "failed" ELSE "select")
  /\ looked' = [looked EXCEPT ![c] = 0]
  /\ UNCHANGED <<monotonic, downAt, stale, tried, chosen, failedAt, pardoned>>

Select(c) ==
  /\ doing[c] = "select"
  /\ \E r \in pool[c] :
       /\ chosen' = [chosen EXCEPT ![c] = r]
       /\ tried' = [tried EXCEPT ![c] = @ \cup {r}]
  /\ pool' = [pool EXCEPT ![c] = {}]
  /\ Does(c, "read")
  /\ UNCHANGED <<monotonic, downAt, looked, stale, failedAt, pardoned>>

Forget(c) ==
  /\ chosen' = [chosen EXCEPT ![c] = NoReplica]
  /\ tried' = [tried EXCEPT ![c] = {}]

(* The read is answered.                                                   *)
Return(c) ==
  /\ doing[c] = "read" /\ Does(c, "done") /\ Forget(c)
  /\ UNCHANGED <<monotonic, downAt, looked, stale, pool, failedAt, pardoned>>

MarkDown(r) ==
  /\ downAt' = [downAt EXCEPT ![r] = monotonic]
  /\ failedAt' = [failedAt EXCEPT ![r] = monotonic]
  /\ pardoned' = pardoned \ {r}

(* It raises: the replica is marked down and the next one tried.           *)
Failover(c) ==
  /\ doing[c] = "read" /\ MarkDown(chosen[c])
  /\ chosen' = [chosen EXCEPT ![c] = NoReplica]
  /\ Does(c, "scan")
  /\ UNCHANGED <<monotonic, looked, stale, pool, tried>>

(* The application marks a replica itself.                                 *)
MarkedDown(r) ==
  /\ MarkDown(r)
  /\ UNCHANGED <<monotonic, doing, looked, stale, pool, tried, chosen>>

MarkUp(r) ==
  /\ downAt' = [downAt EXCEPT ![r] = Up] /\ pardoned' = pardoned \cup {r}
  /\ UNCHANGED <<monotonic, doing, looked, stale, pool, tried, chosen, failedAt>>

Elapse ==
  /\ monotonic < MaxTime /\ monotonic' = monotonic + 1
  /\ UNCHANGED <<downAt, doing, looked, stale, pool, tried, chosen, failedAt, pardoned>>

Next ==
  \/ \E c \in Callers :
       \/ Scan(c) \/ ScanRaises(c) \/ Recover(c) \/ Pool(c) \/ Select(c)
       \/ Return(c) \/ Failover(c)
  \/ \E r \in Replicas : MarkedDown(r) \/ MarkUp(r)
  \/ Elapse

Spec == Init /\ [][Next]_vars

CoolAt(r, t) == failedAt[r] = Up \/ t - failedAt[r] >= Cooldown

(* "Skips replicas marked unhealthy, and auto-recovers them after a        *)
(* cooldown": whatever the threads do to each other's marks, a replica is  *)
(* in a pool only when its last failure is a cooldown old or its mark has  *)
(* been taken away since; and a call gives up only when every replica it   *)
(* has not tried failed less than a cooldown before it looked.             *)
RoutesByHealth ==
  [][\A c \in Callers : doing[c] = "recover" =>
       /\ doing'[c] = "select" =>
            \A r \in pool'[c] : r \in pardoned \/ CoolAt(r, monotonic)
       /\ doing'[c] = "failed" =>
            \A r \in Replicas \ tried[c] : ~CoolAt(r, looked[c])]_vars
=============================================================================
