------------------------- MODULE ConcurrencyLimiter -------------------------
(***************************************************************************)
(* The bulkhead of kit-data (kit_data/concurrency.py): a Redis sorted set  *)
(* of in-flight tokens scored by acquisition time, with a TTL on the whole *)
(* key.  acquire() adds its token first and checks the capacity last; each *)
(* command in between is an action, and holders, other acquirers, the      *)
(* clock and the key's expiry interleave with them.                        *)
(*                                                                         *)
(* A token stands for the worker that drew it: uuid4 makes every acquire's *)
(* token new, so a worker begins again only when its old entry is gone.    *)
(***************************************************************************)
EXTENDS Integers, FiniteSets

CONSTANTS
  Tokens,          (* the workers' tokens                                  *)
  MaxConcurrent,   (* max_concurrent                                       *)
  MaxHold,         (* max_hold_seconds, also the TTL of the key            *)
  MaxTime          (* bound: the last instant of the clock                 *)

ASSUME LimiterAssumption ==
  /\ IsFiniteSet(Tokens)
  /\ MaxConcurrent \in Nat \ {0}
  /\ MaxHold \in Nat \ {0}
  /\ MaxTime \in Nat

VARIABLES
  now,        (* the clock all workers and Redis share                     *)
  zset,       (* the members of the sorted set                             *)
  score,      (* score[t]: `now` as t's acquire read it, its score         *)
  deadline,   (* when the key expires; NoTTL when it has no TTL            *)
  pc,         (* the command each worker issues next                       *)
  stale,      (* history: stale[t], members already stale when t began     *)
  dropped     (* history: tokens the key's expiry removed while fresh      *)

vars == <<now, zset, score, deadline, pc, stale, dropped>>

NoTTL == 0

Steps == {"idle", "zadd", "trim", "expire", "count", "reject", "held"}

TypeOK ==
  /\ now \in Nat
  /\ zset \subseteq Tokens
  /\ score \in [Tokens -> Nat]
  /\ deadline \in Nat
  /\ pc \in [Tokens -> Steps]
  /\ stale \in [Tokens -> SUBSET Tokens]
  /\ dropped \subseteq Tokens

Init ==
  /\ now = 0 /\ zset = {} /\ deadline = NoTTL
  /\ score = [t \in Tokens |-> 0]
  /\ pc = [t \in Tokens |-> "idle"]
  /\ stale = [t \in Tokens |-> {}]
  /\ dropped = {}

Goto(t, step) == pc' = [pc EXCEPT ![t] = step]

(* ZREMRANGEBYSCORE key 0 cutoff.                                          *)
OlderThan(cutoff) == {u \in zset : score[u] <= cutoff}

(* An emptied sorted set is deleted, and its TTL with it.                  *)
Remove(S) ==
  /\ zset' = zset \ S
  /\ deadline' = IF zset \subseteq S THEN NoTTL ELSE deadline

(* Which of the members at time `at` are past the hold window.             *)
Fresh(t, at) == at - score[t] < MaxHold

-----------------------------------------------------------------------------
(* acquire().                                                              *)

(* now = time.time(); token = uuid4().                                     *)
Begin(t) ==
  /\ pc[t] = "idle" /\ t \notin zset
  /\ score' = [score EXCEPT ![t] = now]
  /\ stale' = [u \in Tokens |-> IF u = t THEN OlderThan(now - MaxHold)
                                         ELSE stale[u] \ {t}]
  /\ dropped' = dropped \ {t}
  /\ Goto(t, "zadd")
  /\ UNCHANGED <<now, zset, deadline>>

ZAdd(t) ==
  /\ pc[t] = "zadd"
  /\ zset' = zset \cup {t}
  /\ Goto(t, "trim")
  /\ UNCHANGED <<now, score, deadline, stale, dropped>>

(* Mutant: the trim is left out.                                           *)
NoTrim(t) ==
  /\ pc[t] = "trim"
  /\ Goto(t, "expire")
  /\ UNCHANGED <<now, zset, deadline, score, stale, dropped>>

(* Mutant: the cutoff is one instant too late.                             *)
TrimEager(t) ==
  /\ pc[t] = "trim"
  /\ Remove(OlderThan(score[t] - MaxHold + 1))
  /\ Goto(t, "expire")
  /\ UNCHANGED <<now, score, stale, dropped>>

Trim(t) ==
  /\ pc[t] = "trim"
  /\ Remove(OlderThan(score[t] - MaxHold))
  /\ Goto(t, "expire")
  /\ UNCHANGED <<now, score, stale, dropped>>

(* EXPIRE has no effect on a key that is gone.                             *)
SetExpiry(t) ==
  /\ pc[t] = "expire"
  /\ deadline' = IF zset = {} THEN NoTTL ELSE now + MaxHold
  /\ Goto(t, "count")
  /\ UNCHANGED <<now, zset, score, stale, dropped>>

(* Mutant: the capacity check lets one too many in.                        *)
CountLoose(t) ==
  /\ pc[t] = "count"
  /\ Goto(t, IF Cardinality(zset) > MaxConcurrent + 1 THEN "reject" ELSE "held")
  /\ UNCHANGED <<now, zset, score, deadline, stale, dropped>>

(* Mutant: only the holders already admitted are counted.                  *)
CountHolders(t) ==
  /\ pc[t] = "count"
  /\ Goto(t, IF Cardinality({u \in zset : pc[u] = "held"}) > MaxConcurrent
             THEN "reject" ELSE "held")
  /\ UNCHANGED <<now, zset, score, deadline, stale, dropped>>

Count(t) ==
  /\ pc[t] = "count"
  /\ Goto(t, IF Cardinality(zset) > MaxConcurrent THEN "reject" ELSE "held")
  /\ UNCHANGED <<now, zset, score, deadline, stale, dropped>>

(* Over capacity: the token goes and ConcurrencyLimitExceeded is raised.   *)
Reject(t) ==
  /\ pc[t] = "reject"
  /\ Remove({t})
  /\ Goto(t, "idle")
  /\ UNCHANGED <<now, score, stale, dropped>>

-----------------------------------------------------------------------------
(* The rest of the interface, and the world.                               *)

(* release(), also the end of a slot() block.                              *)
Release(t) ==
  /\ pc[t] = "held"
  /\ Remove({t})
  /\ Goto(t, "idle")
  /\ UNCHANGED <<now, score, stale, dropped>>

(* in_flight() trims before it counts.                                     *)
InFlight ==
  /\ Remove(OlderThan(now - MaxHold))
  /\ UNCHANGED <<now, score, pc, stale, dropped>>

(* The worker dies, in acquire() or while it holds its slot.               *)
Crash(t) ==
  /\ pc[t] # "idle"
  /\ Goto(t, "idle")
  /\ UNCHANGED <<now, zset, score, deadline, stale, dropped>>

(* Time passes; at its deadline the key disappears with all its members.   *)
Tick ==
  /\ now < MaxTime
  /\ now' = now + 1
  /\ IF deadline # NoTTL /\ deadline <= now'
       THEN /\ zset' = {} /\ deadline' = NoTTL
            /\ dropped' = dropped \cup {t \in zset : Fresh(t, now')}
       ELSE UNCHANGED <<zset, deadline, dropped>>
  /\ UNCHANGED <<score, pc, stale>>

Step(t) ==
  \/ Begin(t) \/ ZAdd(t) \/ Trim(t) \/ SetExpiry(t) \/ Count(t) \/ Reject(t)
  \/ Release(t) \/ Crash(t)

Next == (\E t \in Tokens : Step(t)) \/ InFlight \/ Tick

Spec == Init /\ [][Next]_vars

-----------------------------------------------------------------------------
Held == {t \in Tokens : pc[t] = "held"}
FreshHolders == {t \in Held : Fresh(t, now)}

(* The holders whose claim Redis still records: the set the limit is about.*)
RecordedHolders == Held \cap zset

(* The limit is kept through every interleaving of add-then-check: the     *)
(* holders younger than max_hold_seconds are at most max_concurrent,       *)
(* except for those whose entry vanished when the whole key expired.       *)
FreshWithinLimit == Cardinality(FreshHolders \ dropped) <= MaxConcurrent

(* No claim is lost early: a worker younger than max_hold_seconds keeps    *)
(* its entry, however late other workers trim, unless the key expired.     *)
FreshIsRecorded ==
  \A t \in Tokens :
    pc[t] \in {"trim", "expire", "count", "reject", "held"} /\ Fresh(t, now)
      => t \in zset \cup dropped

(* A crashed holder cannot leak its slot: an entry that was stale when an  *)
(* acquire began is gone when that acquire counts.                         *)
StaleCannotBlock ==
  \A t \in Tokens : pc[t] \in {"expire", "count"} => stale[t] \cap zset = {}

Slots == INSTANCE BulkheadSlots WITH Limit <- MaxConcurrent,
                                     Workers <- Tokens,
                                     slots <- RecordedHolders

(* The limiter implements an atomic bulkhead over the recorded holders.    *)
ImplementsSlots == Slots!Spec
=============================================================================
