----------------------------- MODULE CacheProofs -----------------------------
(***************************************************************************)
(* Safety of the cache, for any number of callers and any lock_ttl.        *)
(***************************************************************************)
EXTENDS Cache, TLAPS

(* While no lock has run out, whoever works under the lock holds it.       *)
HolderInv ==
  overran = "no" => \A c \in Callers : pc[c] \in LockedSteps => lock = c

(* A caller that was turned away has at least as long to wait as the lock  *)
(* has left to live.                                                       *)
WaitInv ==
  \A c \in behind :
    /\ lock # NoCaller
    /\ pc[c] \notin OpenSteps
    /\ pc[c] \in {"poll", "wait"} => waitLeft[c] >= lockLeft

(* Between changes, whoever is about to store old content is late.         *)
LateInv ==
  writer = "idle" => HoldOld \subseteq late

CacheInv == TypeOK /\ HolderInv /\ WaitInv /\ LateInv /\ FreshUnlessLate

-----------------------------------------------------------------------------
(* The empty cache satisfies the invariant.                                *)
LEMMA InitInv == Init => CacheInv
BY CacheAssumption DEF Init, CacheInv, TypeOK, HolderInv, WaitInv, LateInv, FreshUnlessLate,
   HoldOld, Contents, Miss, Steps, LockedSteps, OpenSteps

(* Every step keeps the types.                                             *)
LEMMA TypeStep == TypeOK /\ [Next]_vars => TypeOK'
<1> SUFFICES ASSUME TypeOK, [Next]_vars PROVE TypeOK'
  OBVIOUS
<1> USE CacheAssumption DEF TypeOK, Contents, Steps, LockedSteps, OpenSteps
<1>1. ASSUME NEW c \in Callers, Begin(c) \/ Get(c) \/ Recheck(c) \/ Poll(c) \/ Wait(c)
      PROVE  TypeOK'
  BY <1>1 DEF Begin, Get, Recheck, Poll, Wait, Goto, Leave, redis, counts
<1>2. ASSUME NEW c \in Callers, WinLock(c) \/ TurnedAway(c)
      PROVE  TypeOK'
  BY <1>2 DEF WinLock, TurnedAway, Goto, redis, counts
<1>3. ASSUME NEW c \in Callers, Load(c) \/ Raise(c) \/ Put(c)
      PROVE  TypeOK'
  <2>1. CASE Load(c)
    BY <2>1 DEF Load, redis, history, counts
  <2>2. CASE Raise(c)
    BY <2>2 DEF Raise, Leave, redis
  <2>3. CASE Put(c)
    BY <2>3 DEF Put, Leave, counts
  <2> QED
    BY <1>3, <2>1, <2>2, <2>3
<1>4. ASSUME NEW c \in Callers, Unlock(c) \/ Crash(c)
      PROVE  TypeOK'
  BY <1>4 DEF Unlock, Crash, Leave, redis, counts
<1>5. ASSUME Update \/ Invalidate \/ WriteThrough \/ ValueExpires
      PROVE  TypeOK'
  BY <1>5 DEF Update, Invalidate, WriteThrough, ValueExpires, HoldOld, redis, locals,
     history, counts
<1>6. ASSUME Tick PROVE TypeOK'
  BY <1>6 DEF Tick, counts
<1>7. ASSUME UNCHANGED vars PROVE TypeOK'
  BY <1>7 DEF vars, redis, locals, history, counts
<1> QED
  BY <1>1, <1>2, <1>3, <1>4, <1>5, <1>6, <1>7 DEF Next, GetOrSet

(* The lock.                                                               *)
LEMMA HolderStep == TypeOK /\ HolderInv /\ [Next]_vars => HolderInv'
<1> SUFFICES ASSUME TypeOK, HolderInv, [Next]_vars PROVE HolderInv'
  OBVIOUS
<1> USE CacheAssumption DEF TypeOK, HolderInv, Steps, LockedSteps, OpenSteps
<1>1. ASSUME NEW c \in Callers, Begin(c) \/ Get(c) \/ Recheck(c) \/ Poll(c) \/ Wait(c)
      PROVE  HolderInv'
  BY <1>1 DEF Begin, Get, Recheck, Poll, Wait, Goto, Leave, redis
<1>2. ASSUME NEW c \in Callers, WinLock(c) \/ TurnedAway(c)
      PROVE  HolderInv'
  BY <1>2 DEF WinLock, TurnedAway, Goto, redis
<1>3. ASSUME NEW c \in Callers, Load(c) \/ Raise(c) \/ Put(c)
      PROVE  HolderInv'
  BY <1>3 DEF Load, Raise, Put, Leave, redis, history
<1>4. ASSUME NEW c \in Callers, Unlock(c) \/ Crash(c)
      PROVE  HolderInv'
  BY <1>4 DEF Unlock, Crash, Leave, redis
<1>5. ASSUME Update \/ Invalidate \/ WriteThrough \/ ValueExpires
      PROVE  HolderInv'
  BY <1>5 DEF Update, Invalidate, WriteThrough, ValueExpires, redis, locals, history
<1>6. ASSUME Tick PROVE HolderInv'
  BY <1>6 DEF Tick
<1>7. ASSUME UNCHANGED vars PROVE HolderInv'
  BY <1>7 DEF vars, redis, locals, history
<1> QED
  BY <1>1, <1>2, <1>3, <1>4, <1>5, <1>6, <1>7 DEF Next, GetOrSet

(* The two clocks: of the lock and of those who wait for it.               *)
LEMMA WaitStep == TypeOK /\ WaitInv /\ [Next]_vars => WaitInv'
<1> SUFFICES ASSUME TypeOK, WaitInv, [Next]_vars PROVE WaitInv'
  OBVIOUS
<1> USE CacheAssumption DEF TypeOK, WaitInv, Steps, LockedSteps, OpenSteps
<1>1. ASSUME NEW c \in Callers, Begin(c) \/ Get(c) \/ Recheck(c) \/ Poll(c)
      PROVE  WaitInv'
  BY <1>1 DEF Begin, Get, Recheck, Poll, Goto, Leave, redis
<1>2. ASSUME NEW c \in Callers, Wait(c)
      PROVE  WaitInv'
  BY <1>2 DEF Wait, Goto, redis
<1>3. ASSUME NEW c \in Callers, WinLock(c) \/ TurnedAway(c)
      PROVE  WaitInv'
  BY <1>3 DEF WinLock, TurnedAway, Goto, redis
<1>4. ASSUME NEW c \in Callers, Load(c) \/ Raise(c) \/ Put(c)
      PROVE  WaitInv'
  BY <1>4 DEF Load, Raise, Put, Leave, redis, history
<1>5. ASSUME NEW c \in Callers, Unlock(c) \/ Crash(c)
      PROVE  WaitInv'
  BY <1>5 DEF Unlock, Crash, Leave, redis
<1>6. ASSUME Update \/ Invalidate \/ WriteThrough \/ ValueExpires
      PROVE  WaitInv'
  BY <1>6 DEF Update, Invalidate, WriteThrough, ValueExpires, redis, locals, history
<1>7. ASSUME Tick PROVE WaitInv'
  <2>1. CASE lockLeft = 1
    BY <1>7, <2>1 DEF Tick
  <2>2. CASE lockLeft # 1
    BY <1>7, <2>2 DEF Tick
  <2> QED
    BY <2>1, <2>2
<1>8. ASSUME UNCHANGED vars PROVE WaitInv'
  BY <1>8 DEF vars, redis, locals, history
<1> QED
  BY <1>1, <1>2, <1>3, <1>4, <1>5, <1>6, <1>7, <1>8 DEF Next, GetOrSet

(* What is cached, and what is about to be.                                *)
LEMMA FreshStep ==
  TypeOK /\ LateInv /\ FreshUnlessLate /\ [Next]_vars => LateInv' /\ FreshUnlessLate'
<1> SUFFICES ASSUME TypeOK, LateInv, FreshUnlessLate, [Next]_vars
             PROVE  LateInv' /\ FreshUnlessLate'
  OBVIOUS
<1> USE CacheAssumption
    DEF TypeOK, LateInv, FreshUnlessLate, HoldOld, Contents, Miss, Steps, LockedSteps, OpenSteps
<1>1. ASSUME NEW c \in Callers, Begin(c) \/ Get(c) \/ Recheck(c) \/ Poll(c) \/ Wait(c)
      PROVE  LateInv' /\ FreshUnlessLate'
  BY <1>1 DEF Begin, Get, Recheck, Poll, Wait, Goto, Leave, redis
<1>2. ASSUME NEW c \in Callers, WinLock(c) \/ TurnedAway(c)
      PROVE  LateInv' /\ FreshUnlessLate'
  BY <1>2 DEF WinLock, TurnedAway, Goto, redis
<1>3. ASSUME NEW c \in Callers, Load(c) \/ Raise(c)
      PROVE  LateInv' /\ FreshUnlessLate'
  BY <1>3 DEF Load, Raise, Leave, redis, history
<1>4. ASSUME NEW c \in Callers, Put(c)
      PROVE  LateInv' /\ FreshUnlessLate'
  BY <1>4 DEF Put, Leave
<1>5. ASSUME NEW c \in Callers, Unlock(c) \/ Crash(c)
      PROVE  LateInv' /\ FreshUnlessLate'
  BY <1>5 DEF Unlock, Crash, Leave, redis
<1>6. ASSUME Update \/ ValueExpires
      PROVE  LateInv' /\ FreshUnlessLate'
  BY <1>6 DEF Update, ValueExpires, redis, locals, history
<1>7. ASSUME Invalidate \/ WriteThrough
      PROVE  LateInv' /\ FreshUnlessLate'
  BY <1>7 DEF Invalidate, WriteThrough, locals
<1>8. ASSUME Tick PROVE LateInv' /\ FreshUnlessLate'
  BY <1>8 DEF Tick
<1>9. ASSUME UNCHANGED vars PROVE LateInv' /\ FreshUnlessLate'
  BY <1>9 DEF vars, redis, locals, history
<1> QED
  BY <1>1, <1>2, <1>3, <1>4, <1>5, <1>6, <1>7, <1>8, <1>9 DEF Next, GetOrSet

-----------------------------------------------------------------------------
(* The invariant on which the properties of the cache rest.                *)
THEOREM CacheInvariant == Spec => []CacheInv
<1>1. CacheInv /\ [Next]_vars => CacheInv'
  BY TypeStep, HolderStep, WaitStep, FreshStep DEF CacheInv
<1> QED
  BY <1>1, InitInv, PTL DEF Spec

(* The cache's variables keep their types; the lock key and its TTL come   *)
(* and go together.                                                        *)
THEOREM TypeCorrect == Spec => []TypeOK
BY CacheInvariant, PTL DEF CacheInv

(* Only one caller computes under the lock, unless a lock ran out under    *)
(* its caller.                                                             *)
THEOREM OneFlight == Spec => []SingleFlight
<1>1. CacheInv => SingleFlight
  BY DEF CacheInv, HolderInv, SingleFlight
<1> QED
  BY <1>1, CacheInvariant, PTL

(* A caller that computes on its own has outwaited the lock it met.        *)
THEOREM OutwaitsLock == Spec => []FailsOpenLate
<1>1. CacheInv => FailsOpenLate
  BY DEF CacheInv, WaitInv, FailsOpenLate
<1> QED
  BY <1>1, CacheInvariant, PTL

(* Between changes the cache holds what the database holds, but for what a *)
(* late caller stored.                                                     *)
THEOREM CacheFresh == Spec => []FreshUnlessLate
BY CacheInvariant, PTL DEF CacheInv
=============================================================================
