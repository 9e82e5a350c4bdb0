----------------------------- MODULE RateLimiter -----------------------------
(***************************************************************************)
(* The sliding-window rate limiter of kit-api (kit_api/rate_limiter.py):   *)
(* a sorted set of the admitted calls scored by their timestamps.  acquire *)
(* is one Lua script, hence one action; what is not atomic with it is the  *)
(* clock, which each client reads before it sends the script, and each     *)
(* from its own host.                                                      *)
(***************************************************************************)
EXTENDS Integers, FiniteSets

CONSTANTS
  Calls,        (* calls to be limited, all with one key                   *)
  MaxRequests,  (* max_requests                                            *)
  Window,       (* window_seconds                                          *)
  Lag, Lead,    (* the timestamp a script works with is at most this much  *)
                (*   behind (or ahead of) the clock of Redis when it runs  *)
  MaxTime,      (* bound: the last instant of the clock                    *)
  ResetLimit    (* bound: calls of reset()                                 *)

ASSUME RateAssumption ==
  /\ IsFiniteSet(Calls)
  /\ MaxRequests \in Nat \ {0}
  /\ Window \in Nat \ {0}
  /\ Lag \in Nat /\ Lead \in Nat
  /\ MaxTime \in Nat /\ ResetLimit \in Nat

VARIABLES
  now,          (* the clock of Redis                                      *)
  zset,         (* the calls with a member in the sorted set               *)
  score,        (* score[c]: the timestamp c's script was given            *)
  deadline,     (* when the key expires; NoTTL when there is no key        *)
  resets,       (* reset() calls so far                                    *)
  admitted,     (* history: calls let through since the last reset         *)
  at,           (* history: at[c], when the script let c through           *)
  overwritten   (* history: admitted calls whose member a later one took   *)

vars == <<now, zset, score, deadline, resets, admitted, at, overwritten>>

NoTTL == 0

TypeOK ==
  /\ now \in Nat
  /\ zset \subseteq Calls
  /\ score \in [Calls -> Nat]
  /\ deadline \in 0 .. now + Window
  /\ resets \in 0 .. ResetLimit
  /\ admitted \subseteq Calls
  /\ at \in [Calls -> Nat]
  /\ overwritten \subseteq Calls

Init ==
  /\ now = Lag /\ zset = {} /\ deadline = NoTTL
  /\ score = [c \in Calls |-> 0]
  /\ resets = 0
  /\ admitted = {} /\ overwritten = {}
  /\ at = [c \in Calls |-> 0]

(* What time.time() may have returned to the client whose script runs now. *)
Timestamps == now - Lag .. now + Lead

(* What ZREMRANGEBYSCORE key 0 (t - window) leaves.                        *)
Kept(t) == {c \in zset : score[c] > t - Window}

(* The member is now .. '-' .. math.random(): a call with the timestamp of *)
(* an earlier one may draw the same number and then takes its member over. *)
Alike(c, t) == {c} \cup {d \in Kept(t) : score[d] = t}

-----------------------------------------------------------------------------
(* Mutant: one call too many fits.                                         *)
RoomLoose(t) == Cardinality(Kept(t)) <= MaxRequests

Room(t) == Cardinality(Kept(t)) < MaxRequests

(* Mutant: the key gets a TTL only when it is created, and keeps it.       *)
FirstExpiry(t) == IF Kept(t) = {} THEN now + Window ELSE deadline

Expiry(t) == now + Window

(* The script trims, finds room, adds the call and renews the TTL.         *)
Admit(c, t) ==
  /\ c \notin admitted /\ Room(t)
  /\ \E d \in Alike(c, t) :
       /\ zset' = (Kept(t) \ {d}) \cup {c}
       /\ overwritten' = overwritten \cup ({d} \ {c})
  /\ score' = [score EXCEPT ![c] = t]
  /\ deadline' = Expiry(t)
  /\ admitted' = admitted \cup {c} /\ at' = [at EXCEPT ![c] = now]
  /\ UNCHANGED <<now, resets>>

(* Mutant: a refused call takes a place in the window all the same.        *)
RefuseRecords(c, t) ==
  /\ c \notin admitted /\ Cardinality(Kept(t)) >= MaxRequests
  /\ zset' = Kept(t) \cup {c}
  /\ score' = [score EXCEPT ![c] = t]
  /\ UNCHANGED <<now, deadline, resets, admitted, at, overwritten>>

(* The script trims and finds no room: RateLimitExceeded.                  *)
Refuse(c, t) ==
  /\ c \notin admitted /\ Cardinality(Kept(t)) >= MaxRequests
  /\ zset' = Kept(t)
  /\ UNCHANGED <<now, score, deadline, resets, admitted, at, overwritten>>

(* remaining(): the trim; the ZCARD after it changes nothing.              *)
Remaining(t) ==
  /\ zset' = Kept(t)
  /\ deadline' = IF Kept(t) = {} THEN NoTTL ELSE deadline
  /\ UNCHANGED <<now, score, resets, admitted, at, overwritten>>

(* reset(): DEL; the limit starts again.                                   *)
Reset ==
  /\ resets < ResetLimit /\ resets' = resets + 1
  /\ zset' = {} /\ deadline' = NoTTL
  /\ admitted' = {} /\ overwritten' = {}
  /\ UNCHANGED <<now, score, at>>

(* Time passes; at its deadline the key disappears with all its members.   *)
Tick ==
  /\ now < MaxTime /\ now' = now + 1
  /\ IF deadline # NoTTL /\ deadline <= now'
       THEN zset' = {} /\ deadline' = NoTTL
       ELSE UNCHANGED <<zset, deadline>>
  /\ UNCHANGED <<score, resets, admitted, at, overwritten>>

Next ==
  \/ \E t \in Timestamps :
       Remaining(t) \/ \E c \in Calls : Admit(c, t) \/ Refuse(c, t)
  \/ Reset \/ Tick

Spec == Init /\ [][Next]_vars

-----------------------------------------------------------------------------
Within(period) == {c \in admitted : at[c] > now - period}

(* The limit: whatever the clocks of the clients say, in a window that is  *)
(* shorter than window_seconds by as much as their timestamps can differ,  *)
(* at most max_requests calls are let through (and more only as members    *)
(* with equal timestamp and random number overwrite each other).           *)
WindowBound ==
  Cardinality(Within(Window - Lag - Lead) \ overwritten) <= MaxRequests

(* Nobody is refused for nothing: when some timestamp a client may hold    *)
(* leads to a refusal, max_requests calls really were let through in a     *)
(* window longer by as much as the timestamps can differ.                  *)
RefusalIsFair ==
  \A t \in Timestamps :
    Cardinality(Kept(t)) >= MaxRequests
      => Cardinality(Within(Window + Lag + Lead)) >= MaxRequests

(* The TTL neither cuts a window short nor leaks the key: while the set    *)
(* has a member the key is due to go one window after the latest call that *)
(* was let through, whatever was trimmed or refused since; not before the  *)
(* window of any call is over, and no later than that of the last one.     *)
KeyOutlivesWindow ==
  zset # {} => /\ deadline > now
               /\ \A c \in admitted : deadline >= at[c] + Window
               /\ \E c \in admitted : deadline = at[c] + Window
=============================================================================
