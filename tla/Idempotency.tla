----------------------------- MODULE Idempotency -----------------------------
(***************************************************************************)
(* IdempotencyStore of kit-api (kit_api/idempotency.py) and the three      *)
(* protocols the repository runs over it, for requests that all carry one  *)
(* idempotency key:                                                        *)
(*   Decorated   the @idempotent decorator;                                *)
(*   Middleware  KitAPIMiddleware (FastAPI) and its Django twin;           *)
(*   Endpoint    the order endpoint of the example app.                    *)
(* All of them check the stored response, take a lock with SET NX EX, run  *)
(* the handler, store the response; they differ in when the lock is given  *)
(* back.  Every Redis command is an action; the lock's TTL may run out at  *)
(* any moment, since nothing bounds how long a handler takes.  What the    *)
(* decorator stores is only a CachedResponse: a handler that returns       *)
(* anything else, as the one in the README does, is run but not cached.    *)
(***************************************************************************)
EXTENDS Integers, FiniteSets

CONSTANTS
  Decorated, Middleware, Endpoint,  (* the requests, by the code they run *)
  FaultLimit,                       (* bound: handlers and store() calls  *)
                                    (*   that raise                       *)
  CrashLimit,                       (* bound: requests killed mid-way     *)
  ExpiryLimit,                      (* bound: times the response expires  *)
  NoRequest

Requests == Decorated \cup Middleware \cup Endpoint

ASSUME RequestAssumption ==
  /\ Decorated \cap Middleware = {} /\ Decorated \cap Endpoint = {}
  /\ Middleware \cap Endpoint = {}
  /\ NoRequest \notin Requests
  /\ FaultLimit \in Nat /\ CrashLimit \in Nat /\ ExpiryLimit \in Nat

VARIABLES
  response,   (* the request whose response is stored, or NoRequest        *)
  lock,       (* the request that set the lock key, or NoRequest; the      *)
              (*   value in Redis is only "1", so no command looks at it   *)
  plain,      (* the requests whose decorated handler may return a plain   *)
              (*   value, a dict say, and not a CachedResponse             *)
  pc,         (* what each request does next                               *)
  left,       (* history: requests that died or raised and left the lock   *)
  overran,    (* history: whether a lock ever ran out under a request that *)
              (*   was still working, "no" or "yes"                        *)
  faults, crashes, expiries   (* what the bounds count                     *)

counts == <<faults, crashes, expiries>>
vars == <<response, lock, plain, pc, left, overran, faults, crashes, expiries>>

Steps == {"idle", "check", "lock", "run", "store", "release"}

(* Between taking the lock and giving it back.                             *)
Working(r) == pc[r] \in {"run", "store", "release"}

TypeOK ==
  /\ response \in Requests \cup {NoRequest}
  /\ lock \in Requests \cup {NoRequest}
  /\ plain \subseteq Decorated
  /\ pc \in [Requests -> Steps]
  /\ left \subseteq Requests
  /\ overran \in {"no", "yes"}
  /\ faults \in 0 .. FaultLimit
  /\ crashes \in 0 .. CrashLimit
  /\ expiries \in 0 .. ExpiryLimit

Init ==
  /\ response = NoRequest /\ lock = NoRequest
  /\ plain \in SUBSET Decorated
  /\ pc = [r \in Requests |-> "idle"]
  /\ left = {} /\ overran = "no"
  /\ faults = 0 /\ crashes = 0 /\ expiries = 0

Goto(r, step) == pc' = [pc EXCEPT ![r] = step]

(* The client sends the request, for the first time or again.              *)
Send(r) ==
  /\ pc[r] = "idle"
  /\ Goto(r, "check")
  /\ UNCHANGED <<response, lock, plain, left, overran, counts>>

(* check(): a stored response is replayed and ends the request.            *)
Check(r) ==
  /\ pc[r] = "check"
  /\ Goto(r, IF response # NoRequest THEN "idle" ELSE "lock")
  /\ UNCHANGED <<response, lock, plain, left, overran, counts>>

(* Mutant: the lock key is set without NX.                                 *)
AcquireLockAlways(r) ==
  /\ pc[r] = "lock"
  /\ lock' = r /\ left' = left \ {r} /\ Goto(r, "run")
  /\ UNCHANGED <<response, plain, overran, counts>>

(* acquire_lock(): SET NX EX; the loser is turned away with a conflict.    *)
AcquireLock(r) ==
  /\ pc[r] = "lock"
  /\ IF lock = NoRequest
       THEN lock' = r /\ left' = left \ {r} /\ Goto(r, "run")
       ELSE Goto(r, "idle") /\ UNCHANGED <<lock, left>>
  /\ UNCHANGED <<response, plain, overran, counts>>

(* The handler returns a response that can be stored.                      *)
HandlerReturns(r) ==
  /\ pc[r] = "run"
  /\ Goto(r, "store")
  /\ UNCHANGED <<response, lock, plain, left, overran, counts>>

(* A decorated handler returns something other than a CachedResponse: the  *)
(* decorator hands it back without storing it, so a repeat runs again.     *)
HandlerReturnsOther(r) ==
  /\ pc[r] = "run" /\ r \in plain
  /\ Goto(r, "release")
  /\ UNCHANGED <<response, lock, plain, left, overran, counts>>

(* Mutant: the decorator lets the exception out without releasing.         *)
HandlerRaisesKeepsLock(r) ==
  /\ pc[r] = "run" /\ r \notin Endpoint
  /\ faults < FaultLimit /\ faults' = faults + 1
  /\ Goto(r, "idle")
  /\ left' = IF r \in Middleware THEN left \cup {r} ELSE left
  /\ UNCHANGED <<response, lock, plain, overran, crashes, expiries>>

(* The handler raises: the decorator releases the lock and re-raises, the  *)
(* middleware has no handler around call_next and leaves the lock behind.  *)
HandlerRaises(r) ==
  /\ pc[r] = "run" /\ r \notin Endpoint
  /\ faults < FaultLimit /\ faults' = faults + 1
  /\ IF r \in Decorated
       THEN Goto(r, "release") /\ UNCHANGED left
       ELSE Goto(r, "idle") /\ left' = left \cup {r}
  /\ UNCHANGED <<response, lock, plain, overran, crashes, expiries>>

(* store(); the example app's endpoint ends here, its lock still set.      *)
Store(r) ==
  /\ pc[r] = "store"
  /\ response' = r
  /\ Goto(r, IF r \in Endpoint THEN "idle" ELSE "release")
  /\ UNCHANGED <<lock, plain, left, overran, counts>>

(* store() raises (the body is not JSON, Redis is away): no path catches   *)
(* it, so the lock is left behind.                                         *)
StoreFails(r) ==
  /\ pc[r] = "store"
  /\ faults < FaultLimit /\ faults' = faults + 1
  /\ Goto(r, "idle")
  /\ left' = left \cup {r}
  /\ UNCHANGED <<response, lock, plain, overran, crashes, expiries>>

(* release_lock(): DEL, whoever holds the lock by now.                     *)
Release(r) ==
  /\ pc[r] = "release"
  /\ lock' = NoRequest
  /\ Goto(r, "idle")
  /\ UNCHANGED <<response, plain, left, overran, counts>>

(* The process serving the request dies.                                   *)
Crash(r) ==
  /\ pc[r] # "idle"
  /\ crashes < CrashLimit /\ crashes' = crashes + 1
  /\ Goto(r, "idle")
  /\ left' = IF Working(r) THEN left \cup {r} ELSE left
  /\ UNCHANGED <<response, lock, plain, overran, faults, expiries>>

(* Mutant: the lock is set without an expiry and so never goes by itself.  *)
LockStays == lock = NoRequest /\ UNCHANGED vars

(* The lock's TTL runs out.                                                *)
LockExpires ==
  /\ lock # NoRequest /\ lock' = NoRequest
  /\ overran' = IF Working(lock) THEN "yes" ELSE overran
  /\ UNCHANGED <<response, plain, pc, left, counts>>

(* The stored response's TTL runs out.                                     *)
ResponseExpires ==
  /\ response # NoRequest /\ response' = NoRequest
  /\ expiries < ExpiryLimit /\ expiries' = expiries + 1
  /\ UNCHANGED <<lock, plain, pc, left, overran, faults, crashes>>

(* What a live request does next.                                          *)
Serve(r) ==
  \/ Send(r) \/ Check(r) \/ AcquireLock(r) \/ HandlerReturns(r)
  \/ HandlerReturnsOther(r) \/ HandlerRaises(r) \/ Store(r)
  \/ StoreFails(r) \/ Release(r)

Next ==
  \/ \E r \in Requests : Serve(r) \/ Crash(r)
  \/ LockExpires \/ ResponseExpires

Spec == Init /\ [][Next]_vars

(* Clients keep sending, handlers end, and a TTL runs out eventually.      *)
Fairness == WF_vars(LockExpires) /\ \A r \in Requests : WF_vars(Serve(r))
FairSpec == Spec /\ Fairness

-----------------------------------------------------------------------------
(* Two requests with the same key work at the same time only if the lock   *)
(* of one of them ran out under it.  Nothing else, neither a crash, nor an *)
(* exception, nor the DEL of another request, breaks the exclusion.        *)
ExclusiveUnlessOverrun ==
  overran = "no" => \A r, s \in Requests : Working(r) /\ Working(s) => r = s

(* A lock nobody works under was left by a crash, by a store() that failed,*)
(* by an exception in the middleware, or by the endpoint: in no other way  *)
(* is a key stranded, whatever the handlers of the decorator raise.        *)
NoStrandedLock ==
  lock # NoRequest /\ ~Working(lock) => lock \in left \cup Endpoint

(* Whatever was left behind, clients that keep retrying get the key to a   *)
(* stored response in the end (faults, crashes and expiries are finite),   *)
(* unless some handler returns plain values: the decorator stores none of  *)
(* them, and such a request may take the lock from the others every time.  *)
EventuallyStored == plain = {} => <>[](response # NoRequest)

(* "Cache the first response per idempotency key and replay it": while a   *)
(* response is stored no other replaces it.  It fails with no lock running *)
(* out: a request that missed the cache takes the lock after the winner    *)
(* has stored and released, and runs the handler again.                    *)
FirstResponseKept ==
  [][response # NoRequest /\ overran = "no" => response' \in {response, NoRequest}]_vars
=============================================================================
