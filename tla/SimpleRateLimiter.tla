-------------------------- MODULE SimpleRateLimiter --------------------------
(***************************************************************************)
(* The rate limiter of the example app (example-app/main.py): the commands *)
(* of RateLimiter's script one by one, because its Redis runs no Lua.  The *)
(* requests run in the threads of one server, so they share a clock, but   *)
(* any of them may be overtaken between two commands.                      *)
(***************************************************************************)
EXTENDS Integers, FiniteSets

CONSTANTS
  Requests,     (* bound: calls of the endpoint, all for one client        *)
  Threads,      (* how many of them the server runs at once                *)
  MaxRequests, Window,
  MaxTime       (* bound: the last instant of the clock                    *)

VARIABLES
  clock, members,
  stamp,        (* stamp[r]: what r's time.time() returned                 *)
  keyEnds,      (* when the key expires; Never while it has no TTL         *)
  stage,        (* the next command of each request                        *)
  let,          (* history: requests let through since the last reset      *)
  lost          (* history: those whose member went with a key that        *)
                (*   expired between their ZADD and their EXPIRE           *)

vars == <<clock, members, stamp, keyEnds, stage, let, lost>>

Calls == 1 .. Requests
Never == MaxTime + Window + 1

Init ==
  /\ clock = 0 /\ members = {} /\ keyEnds = Never
  /\ stamp = [r \in Calls |-> 0]
  /\ stage = [r \in Calls |-> "new"]
  /\ let = {} /\ lost = {}

Goto(r, s) == stage' = [stage EXCEPT ![r] = s]

(* Redis removes a sorted set, and its TTL, with its last member.          *)
Store(set, ends) ==
  members' = set /\ keyEnds' = IF set = {} THEN Never ELSE ends

Running == {r \in Calls : stage[r] \notin {"new", "done"}}

Begin(r) ==
  /\ stage[r] = "new" /\ \A q \in 1 .. r - 1 : stage[q] # "new"
  /\ Cardinality(Running) < Threads
  /\ stamp' = [stamp EXCEPT ![r] = clock]
  /\ Goto(r, "trim")
  /\ UNCHANGED <<clock, members, keyEnds, let, lost>>

After(t) == {d \in members : stamp[d] > t - Window}

Trim(r) ==
  /\ stage[r] = "trim" /\ Store(After(stamp[r]), keyEnds)
  /\ Goto(r, "count")
  /\ UNCHANGED <<clock, stamp, let, lost>>

(* Mutant: one more than the limit fits.                                   *)
FullLate == Cardinality(members) > MaxRequests

Full == Cardinality(members) >= MaxRequests

(* RateLimitExceeded, which the endpoint answers with what remains.        *)
Count(r) ==
  /\ stage[r] = "count" /\ Goto(r, IF Full THEN "look" ELSE "add")
  /\ UNCHANGED <<clock, members, stamp, keyEnds, let, lost>>

Add(r) ==
  /\ stage[r] = "add" /\ Store(members \cup {r}, keyEnds)
  /\ let' = let \cup {r}
  /\ Goto(r, "expire")
  /\ UNCHANGED <<clock, stamp, lost>>

Expire(r) ==
  /\ stage[r] = "expire" /\ Store(members, clock + Window)
  /\ Goto(r, "look")
  /\ UNCHANGED <<clock, stamp, let, lost>>

(* remaining(), which reads the clock itself.                              *)
Look(r) ==
  /\ stage[r] = "look" /\ Store(After(clock), keyEnds)
  /\ Goto(r, "done")
  /\ UNCHANGED <<clock, stamp, let, lost>>

Reset ==
  /\ members # {} /\ Store({}, Never)
  /\ let' = {} /\ lost' = {}
  /\ UNCHANGED <<clock, stamp, stage>>

Tick ==
  /\ clock < MaxTime /\ clock' = clock + 1
  /\ IF keyEnds > clock' THEN UNCHANGED <<members, keyEnds, lost>>
     ELSE /\ Store({}, Never)
          /\ lost' = lost \cup {r \in members : stage[r] = "expire"}
  /\ UNCHANGED <<stamp, stage, let>>

Next ==
  \/ \E r \in Calls :
       Begin(r) \/ Trim(r) \/ Count(r) \/ Add(r) \/ Expire(r) \/ Look(r)
  \/ Reset \/ Tick

Spec == Init /\ [][Next]_vars

(* "Simplified rate limiter using basic Redis commands": what the missing  *)
(* script costs.  All threads may see the last free place, but that is     *)
(* all: at most Threads - 1 too many in any window, however the requests   *)
(* overtake each other, and beside those whose member was lost.            *)
OvershootBounded ==
  Cardinality({r \in let \ lost : stamp[r] > clock - Window})
    <= MaxRequests + Threads - 1
=============================================================================
