-------------------------------- MODULE Cache --------------------------------
(***************************************************************************)
(* The cache of kit-data (kit_data/cache.py): callers of get_or_set() for  *)
(* one key, and a writer of the data the loader reads, who invalidates or  *)
(* overwrites the key after each change.  Every Redis command is an        *)
(* action, and so is the loader's read of the database; between them the   *)
(* TTLs of the value and of the lock run.                                  *)
(***************************************************************************)
EXTENDS Integers

CONSTANTS
  Callers,      (* who calls get_or_set()                                  *)
  LockTTL,      (* lock_ttl: both the TTL of the lock and the longest wait *)
  MaxUpdates,   (* bound: changes of the database; its content is named by *)
                (*   the number of changes so far                          *)
  Nulls,        (* the contents for which the loader returns None          *)
  FaultLimit,   (* bound: loaders that raise, values that cannot be stored *)
  CrashLimit,   (* bound: callers killed                                   *)
  NoCaller

ASSUME CacheAssumption ==
  /\ LockTTL \in Nat \ {0}
  /\ MaxUpdates \in Nat /\ FaultLimit \in Nat /\ CrashLimit \in Nat
  /\ NoCaller \notin Callers

Contents == 0 .. MaxUpdates
Miss == MaxUpdates + 1

VARIABLES
  db,           (* what the loader would read now                          *)
  writer,       (* "dirty" between a change and the update of the cache    *)
  value,        (* the cached content, or Miss for a missing key           *)
  lock,         (* the caller that set the lock key, or NoCaller; in Redis *)
                (*   it is only "1"                                        *)
  lockLeft,     (* what is left of the lock's TTL                          *)
  pc,           (* the step each caller takes next                         *)
  got,          (* what each caller's loader returned                      *)
  waitLeft,     (* how long each waiting caller still has                  *)
  overran,      (* history: "yes" once a lock ran out under its caller     *)
  behind,       (* history: the callers turned away by the present lock    *)
  late,         (* history: the callers that still had to store what they  *)
                (*   loaded before a change when the writer updated the    *)
                (*   cache for that change                                 *)
  outdated,     (* history: "yes" when a late caller put the cached value  *)
  faults, crashes

redis == <<value, lock, lockLeft>>
locals == <<pc, got, waitLeft>>
history == <<overran, behind, late, outdated>>
counts == <<faults, crashes>>
vars == <<db, writer, redis, locals, history, counts>>

(* Under the lock: from winning it to deleting it.                         *)
LockedSteps == {"recheck", "load", "put", "unlock"}
OpenSteps == {"load_open", "put_open"}
Steps == {"idle", "get", "lock", "poll", "wait"} \cup LockedSteps \cup OpenSteps

TypeOK ==
  /\ db \in Contents /\ writer \in {"idle", "dirty"}
  /\ value \in Contents \cup {Miss}
  /\ lock \in Callers \cup {NoCaller}
  /\ lockLeft \in 0 .. LockTTL /\ (lock = NoCaller <=> lockLeft = 0)
  /\ pc \in [Callers -> Steps]
  /\ got \in [Callers -> Contents]
  /\ waitLeft \in [Callers -> 0 .. LockTTL]
  /\ overran \in {"no", "yes"} /\ outdated \in {"no", "yes"}
  /\ behind \subseteq Callers /\ late \subseteq Callers
  /\ faults \in 0 .. FaultLimit /\ crashes \in 0 .. CrashLimit

Init ==
  /\ db = 0 /\ writer = "idle"
  /\ value = Miss /\ lock = NoCaller /\ lockLeft = 0
  /\ pc = [c \in Callers |-> "idle"]
  /\ got = [c \in Callers |-> 0]
  /\ waitLeft = [c \in Callers |-> 0]
  /\ overran = "no" /\ behind = {} /\ late = {} /\ outdated = "no"
  /\ faults = 0 /\ crashes = 0

-----------------------------------------------------------------------------
(* get(): None is a miss, also when it is the value that was stored.       *)
Hit == value # Miss /\ value \notin Nulls

(* The call ends; its local variables are gone.                            *)
Leave(c) ==
  /\ pc' = [pc EXCEPT ![c] = "idle"]
  /\ got' = [got EXCEPT ![c] = 0]
  /\ waitLeft' = [waitLeft EXCEPT ![c] = 0]
  /\ late' = late \ {c}

Goto(c, step) ==
  pc' = [pc EXCEPT ![c] = step] /\ UNCHANGED <<got, waitLeft, late>>

Begin(c) ==
  /\ pc[c] = "idle" /\ Goto(c, "get")
  /\ UNCHANGED <<db, writer, redis, overran, behind, outdated, counts>>

Get(c) ==
  /\ pc[c] = "get"
  /\ IF Hit THEN Leave(c) ELSE Goto(c, "lock")
  /\ UNCHANGED <<db, writer, redis, overran, behind, outdated, counts>>

(* Mutant: SET without NX.                                                 *)
WinLockAlways(c) ==
  /\ pc[c] = "lock"
  /\ lock' = c /\ lockLeft' = LockTTL
  /\ Goto(c, "recheck")
  /\ UNCHANGED <<db, writer, value, overran, behind, outdated, counts>>

(* SET NX EX finds the key free.                                           *)
WinLock(c) ==
  /\ pc[c] = "lock" /\ lock = NoCaller
  /\ lock' = c /\ lockLeft' = LockTTL
  /\ Goto(c, "recheck")
  /\ UNCHANGED <<db, writer, value, overran, behind, outdated, counts>>

(* Mutant: the wait is a little shorter than the lock.                     *)
TurnedAwayShort(c) ==
  /\ pc[c] = "lock" /\ lock # NoCaller
  /\ behind' = behind \cup {c}
  /\ pc' = [pc EXCEPT ![c] = "poll"]
  /\ waitLeft' = [waitLeft EXCEPT ![c] = LockTTL - 1]
  /\ UNCHANGED <<db, writer, redis, got, overran, late, outdated, counts>>

(* SET NX finds it taken: wait for as long as a lock can last.             *)
TurnedAway(c) ==
  /\ pc[c] = "lock" /\ lock # NoCaller
  /\ behind' = behind \cup {c}
  /\ pc' = [pc EXCEPT ![c] = "poll"]
  /\ waitLeft' = [waitLeft EXCEPT ![c] = LockTTL]
  /\ UNCHANGED <<db, writer, redis, got, overran, late, outdated, counts>>

Recheck(c) ==
  /\ pc[c] = "recheck"
  /\ Goto(c, IF Hit THEN "unlock" ELSE "load")
  /\ UNCHANGED <<db, writer, redis, overran, behind, outdated, counts>>

(* The loader reads the database; storing what it read comes later.        *)
Load(c) ==
  /\ pc[c] \in {"load", "load_open"}
  /\ got' = [got EXCEPT ![c] = db]
  /\ pc' = [pc EXCEPT ![c] = IF @ = "load" THEN "put" ELSE "put_open"]
  /\ UNCHANGED <<db, writer, redis, waitLeft, history, counts>>

(* The loader raises, or its value is not JSON: the finally deletes the    *)
(* lock; without the lock the exception just ends the call.                *)
Raise(c) ==
  /\ pc[c] \in {"load", "put"} \cup OpenSteps
  /\ faults < FaultLimit /\ faults' = faults + 1
  /\ IF pc[c] \in OpenSteps
       THEN Leave(c)
       ELSE /\ pc' = [pc EXCEPT ![c] = "unlock"]
            /\ got' = [got EXCEPT ![c] = 0]
            /\ late' = late \ {c}
            /\ UNCHANGED waitLeft
  /\ UNCHANGED <<db, writer, redis, overran, behind, outdated, crashes>>

(* set(): SET EX.                                                          *)
Put(c) ==
  /\ pc[c] \in {"put", "put_open"}
  /\ value' = got[c]
  /\ outdated' = IF c \in late THEN "yes" ELSE "no"
  /\ IF pc[c] = "put_open"
       THEN Leave(c)
       ELSE /\ pc' = [pc EXCEPT ![c] = "unlock"]
            /\ got' = [got EXCEPT ![c] = 0]
            /\ late' = late \ {c}
            /\ UNCHANGED waitLeft
  /\ UNCHANGED <<db, writer, lock, lockLeft, overran, behind, counts>>

(* DEL of the lock key, whoever holds it by now.                           *)
Unlock(c) ==
  /\ pc[c] = "unlock"
  /\ lock' = NoCaller /\ lockLeft' = 0 /\ behind' = {}
  /\ Leave(c)
  /\ UNCHANGED <<db, writer, value, overran, outdated, counts>>

(* The wait loop: sleep and get, until a hit or the deadline.              *)
Poll(c) ==
  /\ pc[c] = "poll"
  /\ IF Hit THEN Leave(c) ELSE Goto(c, "wait")
  /\ UNCHANGED <<db, writer, redis, overran, behind, outdated, counts>>

(* Mutant: the loop has no deadline.                                       *)
WaitForever(c) ==
  /\ pc[c] = "wait"
  /\ Goto(c, "poll")
  /\ UNCHANGED <<db, writer, redis, overran, behind, outdated, counts>>

Wait(c) ==
  /\ pc[c] = "wait"
  /\ Goto(c, IF waitLeft[c] > 0 THEN "poll" ELSE "load_open")
  /\ UNCHANGED <<db, writer, redis, overran, behind, outdated, counts>>

(* The caller's process dies.                                              *)
Crash(c) ==
  /\ pc[c] # "idle" /\ crashes < CrashLimit /\ crashes' = crashes + 1
  /\ Leave(c)
  /\ UNCHANGED <<db, writer, redis, overran, behind, outdated, faults>>

-----------------------------------------------------------------------------
(* The application changes the row ...                                     *)
Update ==
  /\ writer = "idle" /\ db < MaxUpdates
  /\ db' = db + 1 /\ writer' = "dirty"
  /\ UNCHANGED <<redis, locals, history, counts>>

HoldOld == {c \in Callers : pc[c] \in {"put", "put_open"} /\ got[c] # db}

(* Mutant: another key is dropped.                                         *)
InvalidateOther ==
  /\ writer = "dirty" /\ writer' = "idle"
  /\ late' = late \cup HoldOld
  /\ UNCHANGED <<db, value, lock, lockLeft, locals, overran, behind, outdated, counts>>

(* ... and then drops the cached value, or stores the new one.             *)
Invalidate ==
  /\ writer = "dirty" /\ writer' = "idle"
  /\ value' = Miss /\ outdated' = "no"
  /\ late' = late \cup HoldOld
  /\ UNCHANGED <<db, lock, lockLeft, locals, overran, behind, counts>>

WriteThrough ==
  /\ writer = "dirty" /\ writer' = "idle"
  /\ value' = db /\ outdated' = "no"
  /\ late' = late \cup HoldOld
  /\ UNCHANGED <<db, lock, lockLeft, locals, overran, behind, counts>>

(* The value's TTL may be any length.                                      *)
ValueExpires ==
  /\ value # Miss /\ value' = Miss /\ outdated' = "no"
  /\ UNCHANGED <<db, writer, lock, lockLeft, locals, overran, behind, late, counts>>

Tick ==
  /\ waitLeft' = [c \in Callers |-> IF waitLeft[c] > 0 THEN waitLeft[c] - 1 ELSE 0]
  /\ lockLeft' = IF lockLeft > 0 THEN lockLeft - 1 ELSE 0
  /\ IF lockLeft = 1
       THEN /\ lock' = NoCaller /\ behind' = {}
            /\ overran' = IF pc[lock] \in LockedSteps THEN "yes" ELSE overran
       ELSE UNCHANGED <<lock, behind, overran>>
  /\ UNCHANGED <<db, writer, value, pc, got, late, outdated, counts>>

GetOrSet(c) ==
  \/ Get(c) \/ WinLock(c) \/ TurnedAway(c) \/ Recheck(c) \/ Load(c)
  \/ Raise(c) \/ Put(c) \/ Unlock(c) \/ Poll(c) \/ Wait(c)

Next ==
  \/ \E c \in Callers : Begin(c) \/ GetOrSet(c) \/ Crash(c)
  \/ Update \/ Invalidate \/ WriteThrough \/ ValueExpires \/ Tick

Spec == Init /\ [][Next]_vars

(* Redis answers, loaders end, and time passes.                            *)
Fairness == WF_vars(Tick) /\ \A c \in Callers : WF_vars(GetOrSet(c))
FairSpec == Spec /\ Fairness

-----------------------------------------------------------------------------
(* Single flight: two callers compute under the lock at once only if the   *)
(* lock ran out under one of them.  A loader that raises, a caller that    *)
(* dies and callers that give up waiting do not break it.                  *)
SingleFlight ==
  overran = "no" =>
    \A c, d \in Callers :
      pc[c] \in LockedSteps /\ pc[d] \in LockedSteps => c = d

(* Fail open: who computes without the lock has outwaited the lock that    *)
(* turned it away; that lock is no longer set.                             *)
FailsOpenLate == \A c \in behind : pc[c] \notin OpenSteps

(* Invalidation: with no change in progress, what is cached is what the    *)
(* database holds, unless a caller stored it that had loaded it before a   *)
(* change and was overtaken by that change's invalidation.                 *)
FreshUnlessLate ==
  writer = "idle" /\ value # Miss /\ outdated = "no" => value = db

(* "Fail open rather than block forever": every call ends.                 *)
CallsEnd == \A c \in Callers : pc[c] # "idle" ~> pc[c] = "idle"
=============================================================================
