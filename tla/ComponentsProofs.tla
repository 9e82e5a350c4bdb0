-------------------------- MODULE ComponentsProofs --------------------------
(***************************************************************************)
(* Proofs about the components that stand alone: Idempotency, for every    *)
(* set of requests of the three kinds and every bound on faults, crashes   *)
(* and expiries, and the instances of Components, for every value of their *)
(* parameters.  For each: what holds in the first state and is kept by     *)
(* every step, and that the component's property follows from it.          *)
(***************************************************************************)
EXTENDS Idempotency, Components, FiniteSetTheorems, WellFoundedInduction,
        SequenceTheorems, TLAPS

(* While no lock has run out under its request, whoever works holds the    *)
(* lock: this is what one SET NX after another preserves, and what makes   *)
(* the unconditional DEL of release_lock harmless.                         *)
HolderInv == overran = "no" => \A r \in Requests : Working(r) => lock = r

IdempotencyInv == TypeOK /\ HolderInv /\ NoStrandedLock

(* The mark of a free lock is no request.                                  *)
LEMMA RequestsApart ==
  ASSUME NEW r \in Requests
  PROVE  r # NoRequest
BY RequestAssumption

(* With nothing stored the invariant holds.                                *)
LEMMA InitInv == Init => IdempotencyInv
BY RequestAssumption DEF Init, IdempotencyInv, TypeOK, Steps, HolderInv,
   NoStrandedLock, Working

-----------------------------------------------------------------------------
(* Every step keeps the types.                                             *)
LEMMA StepType == TypeOK /\ [Next]_vars => TypeOK'
<1> SUFFICES ASSUME TypeOK, [Next]_vars PROVE TypeOK'
  OBVIOUS
<1> USE RequestAssumption DEF TypeOK, Steps, counts
<1>1. ASSUME NEW r \in Requests, Serve(r) PROVE TypeOK'
  <2>1. CASE Send(r) BY <2>1 DEF Send, Goto
  <2>2. CASE Check(r) BY <2>2 DEF Check, Goto
  <2>3. CASE AcquireLock(r) BY <2>3 DEF AcquireLock, Goto
  <2>4. CASE HandlerReturns(r) BY <2>4 DEF HandlerReturns, Goto
  <2>5. CASE HandlerReturnsOther(r) BY <2>5 DEF HandlerReturnsOther, Goto
  <2>6. CASE HandlerRaises(r) BY <2>6 DEF HandlerRaises, Goto
  <2>7. CASE Store(r) BY <2>7 DEF Store, Goto
  <2>8. CASE StoreFails(r) BY <2>8 DEF StoreFails, Goto
  <2>9. CASE Release(r) BY <2>9 DEF Release, Goto
  <2> QED BY <1>1, <2>1, <2>2, <2>3, <2>4, <2>5, <2>6, <2>7, <2>8, <2>9 DEF Serve
<1>2. ASSUME NEW r \in Requests, Crash(r) PROVE TypeOK'
  BY <1>2 DEF Crash, Goto
<1>3. CASE LockExpires BY <1>3 DEF LockExpires
<1>4. CASE ResponseExpires BY <1>4 DEF ResponseExpires
<1>5. CASE UNCHANGED vars BY <1>5 DEF vars
<1> QED BY <1>1, <1>2, <1>3, <1>4, <1>5 DEF Next

-----------------------------------------------------------------------------
(* Every step leaves the lock with the request that works.  The two steps  *)
(* that matter are AcquireLock, which finds the lock free and so nobody at *)
(* work, and Release, whose caller is by the invariant its holder.         *)
LEMMA StepHolder == TypeOK /\ HolderInv /\ [Next]_vars => HolderInv'
<1> SUFFICES ASSUME TypeOK, HolderInv, [Next]_vars, overran' = "no",
                    NEW s \in Requests, Working(s)'
             PROVE  lock' = s
  BY DEF HolderInv
<1> USE RequestsApart DEF TypeOK, counts
<1>0. overran = "no"
  <2>1. CASE LockExpires BY <2>1 DEF LockExpires
  <2>2. CASE ~LockExpires
    BY <2>2 DEF Next, Serve, Send, Check, AcquireLock, HandlerReturns,
       HandlerReturnsOther, HandlerRaises, Store, StoreFails, Release, Crash,
       ResponseExpires, vars
  <2> QED BY <2>1, <2>2
<1>a. \A q \in Requests : Working(q) => lock = q
  BY <1>0 DEF HolderInv
<1>1. ASSUME NEW r \in Requests, Serve(r) PROVE lock' = s
  <2>1. CASE Send(r) BY <1>a, <2>1 DEF Send, Goto, Working
  <2>2. CASE Check(r) BY <1>a, <2>2 DEF Check, Goto, Working
  <2>3. CASE AcquireLock(r) BY <1>a, <2>3 DEF AcquireLock, Goto, Working
  <2>4. CASE HandlerReturns(r) BY <1>a, <2>4 DEF HandlerReturns, Goto, Working
  <2>5. CASE HandlerReturnsOther(r)
    BY <1>a, <2>5 DEF HandlerReturnsOther, Goto, Working
  <2>6. CASE HandlerRaises(r) BY <1>a, <2>6 DEF HandlerRaises, Goto, Working
  <2>7. CASE Store(r) BY <1>a, <2>7 DEF Store, Goto, Working
  <2>8. CASE StoreFails(r) BY <1>a, <2>8 DEF StoreFails, Goto, Working
  <2>9. CASE Release(r) BY <1>a, <2>9 DEF Release, Goto, Working
  <2> QED BY <1>1, <2>1, <2>2, <2>3, <2>4, <2>5, <2>6, <2>7, <2>8, <2>9 DEF Serve
<1>2. ASSUME NEW r \in Requests, Crash(r) PROVE lock' = s
  BY <1>a, <1>2 DEF Crash, Goto, Working
<1>3. CASE LockExpires BY <1>a, <1>3 DEF LockExpires, Working
<1>4. CASE ResponseExpires BY <1>a, <1>4 DEF ResponseExpires, Working
<1>5. CASE UNCHANGED vars BY <1>a, <1>5 DEF vars, Working
<1> QED BY <1>1, <1>2, <1>3, <1>4, <1>5 DEF Next

-----------------------------------------------------------------------------
(* Every step that stops a request under its lock accounts for the lock.   *)
LEMMA StepStranded == TypeOK /\ NoStrandedLock /\ [Next]_vars => NoStrandedLock'
<1> SUFFICES ASSUME TypeOK, NoStrandedLock, [Next]_vars,
                    lock' # NoRequest, ~Working(lock)'
             PROVE  lock' \in left' \cup Endpoint
  BY DEF NoStrandedLock
<1> USE RequestsApart DEF TypeOK, NoStrandedLock, counts
<1>1. ASSUME NEW r \in Requests, Serve(r) PROVE lock' \in left' \cup Endpoint
  <2>1. CASE Send(r) BY <2>1 DEF Send, Goto, Working
  <2>2. CASE Check(r) BY <2>2 DEF Check, Goto, Working
  <2>3. CASE AcquireLock(r) BY <2>3 DEF AcquireLock, Goto, Working
  <2>4. CASE HandlerReturns(r) BY <2>4 DEF HandlerReturns, Goto, Working
  <2>5. CASE HandlerReturnsOther(r)
    BY <2>5 DEF HandlerReturnsOther, Goto, Working
  <2>6. CASE HandlerRaises(r) BY <2>6 DEF HandlerRaises, Goto, Working, Requests
  <2>7. CASE Store(r) BY <2>7 DEF Store, Goto, Working
  <2>8. CASE StoreFails(r) BY <2>8 DEF StoreFails, Goto, Working
  <2>9. CASE Release(r) BY <2>9 DEF Release, Goto, Working
  <2> QED BY <1>1, <2>1, <2>2, <2>3, <2>4, <2>5, <2>6, <2>7, <2>8, <2>9 DEF Serve
<1>2. ASSUME NEW r \in Requests, Crash(r) PROVE lock' \in left' \cup Endpoint
  BY <1>2 DEF Crash, Goto, Working
<1>3. CASE LockExpires BY <1>3 DEF LockExpires
<1>4. CASE ResponseExpires BY <1>4 DEF ResponseExpires, Working
<1>5. CASE UNCHANGED vars BY <1>5 DEF vars, Working
<1> QED BY <1>1, <1>2, <1>3, <1>4, <1>5 DEF Next

-----------------------------------------------------------------------------
(* The inductive invariant holds in every reachable state.                 *)
THEOREM IdempotencyInvariant == Spec => []IdempotencyInv
<1>1. IdempotencyInv /\ [Next]_vars => IdempotencyInv'
  BY StepType, StepHolder, StepStranded DEF IdempotencyInv
<1> QED BY InitInv, <1>1, PTL DEF Spec

(* The variables keep their types.                                         *)
THEOREM TypeCorrect == Spec => []TypeOK
<1>1. IdempotencyInv => TypeOK
  BY DEF IdempotencyInv
<1> QED BY <1>1, IdempotencyInvariant, PTL

(* Two requests with one key never work at once while every handler ends   *)
(* within its lock's TTL, whatever crashes, raises or expires besides.     *)
THEOREM ExclusionHolds == Spec => []ExclusiveUnlessOverrun
<1>1. IdempotencyInv => ExclusiveUnlessOverrun
  BY DEF IdempotencyInv, HolderInv, ExclusiveUnlessOverrun
<1> QED BY <1>1, IdempotencyInvariant, PTL

(* The decorator gives every lock it took back: a lock nobody works under  *)
(* comes from one of the causes NoStrandedLock lists.                      *)
THEOREM LocksAccounted == Spec => []NoStrandedLock
<1>1. IdempotencyInv => NoStrandedLock
  BY DEF IdempotencyInv
<1> QED BY <1>1, IdempotencyInvariant, PTL

-----------------------------------------------------------------------------
(* The instances' operators on finite sets are those of the library.       *)
LEMMA SameFinite ==
  \A S : /\ Enforcer!IsFiniteSet(S) <=> IsFiniteSet(S)
         /\ Simple!IsFiniteSet(S) <=> IsFiniteSet(S)
         /\ Cost!IsFiniteSet(S) <=> IsFiniteSet(S)
         /\ Payment!IsFiniteSet(S) <=> IsFiniteSet(S)
         /\ Pages!IsFiniteSet(S) <=> IsFiniteSet(S)
         /\ Caption!IsFiniteSet(S) <=> IsFiniteSet(S)
BY DEF IsFiniteSet, Enforcer!IsFiniteSet, Simple!IsFiniteSet, Cost!IsFiniteSet, Payment!IsFiniteSet,
   Pages!IsFiniteSet, Caption!IsFiniteSet

(* So are their cardinalities.                                             *)
LEMMA SameCardinality ==
  \A S : /\ Enforcer!Cardinality(S) = Cardinality(S)
         /\ Simple!Cardinality(S) = Cardinality(S)
         /\ Cost!Cardinality(S) = Cardinality(S)
         /\ Payment!Cardinality(S) = Cardinality(S)
         /\ Pages!Cardinality(S) = Cardinality(S)
         /\ Caption!Cardinality(S) = Cardinality(S)
BY DEF Cardinality, Enforcer!Cardinality, Simple!Cardinality, Cost!Cardinality, Payment!Cardinality,
   Pages!Cardinality, Caption!Cardinality

(* A set with more than one element has two: nothing need be finite here.  *)
LEMMA MoreThanOne ==
  ASSUME NEW S, Cardinality(S) > 1
  PROVE  \E x, y \in S : x # y
<1> SUFFICES ASSUME \A x, y \in S : x = y PROVE Cardinality(S) \in {0, 1}
  OBVIOUS
<1>1. CASE S = {} BY <1>1, FS_EmptySet
<1>2. CASE S # {}
  <2>1. PICK x \in S : TRUE BY <1>2
  <2>2. S = {x} BY <2>1
  <2> QED BY <2>2, FS_Singleton
<1> QED BY <1>1, <1>2
-----------------------------------------------------------------------------
(* Induction over the subsets of a finite set: what holds of the empty set *)
(* and comes to hold with each element holds of all of them, because of    *)
(* those it did not hold of one would be smallest.                         *)
Some(s) == CHOOSE x \in s : TRUE

(* Some element of a set that has any is an element of it.                 *)
LEMMA SomeIn == ASSUME NEW S, S # {} PROVE Some(S) \in S
BY DEF Some

(* The induction, with the sets it holds of as the set Good.               *)
LEMMA SubsetInduction ==
  ASSUME NEW S, IsFiniteSet(S), NEW Good, {} \in Good,
         \A U \in SUBSET S : U # {} /\ U \ {Some(U)} \in Good => U \in Good
  PROVE  SUBSET S \subseteq Good
<1> DEFINE Bad == {U \in FiniteSubsetsOf(S) : U \notin Good}
<1>1. SUFFICES Bad = {}
  <2> SUFFICES ASSUME NEW U \in SUBSET S PROVE U \in Good
    OBVIOUS
  <2> QED BY <1>1, FS_Subset DEF FiniteSubsetsOf
<1>2. SUFFICES ASSUME Bad # {} PROVE FALSE
  OBVIOUS
<1>3. PICK U \in Bad : \A V \in Bad : <<V, U>> \notin StrictSubsetOrdering(S)
  <2> HIDE DEF Bad
  <2>1. Bad \subseteq FiniteSubsetsOf(S) BY DEF Bad
  <2> QED BY <1>2, <2>1, FS_StrictSubsetOrderingWellFounded, WFMin
<1>4. /\ U \in SUBSET S /\ IsFiniteSet(U) /\ U \notin Good
      /\ U # {} /\ Some(U) \in U
  BY <1>3, SomeIn DEF FiniteSubsetsOf
<1>5. U \ {Some(U)} \in FiniteSubsetsOf(S)
  BY <1>4, FS_RemoveElement DEF FiniteSubsetsOf
<1>6. <<U \ {Some(U)}, U>> \in StrictSubsetOrdering(S)
  BY <1>4 DEF StrictSubsetOrdering
<1> QED BY <1>3, <1>4, <1>5, <1>6

(* A finite set of numbers has a greatest one.                             *)
LEMMA Greatest ==
  ASSUME NEW S \in SUBSET Nat, IsFiniteSet(S), S # {}
  PROVE  \E k \in S : \A n \in S : n <= k
<1> DEFINE Good == {U \in SUBSET S : U = {} \/ \E k \in U : \A n \in U : n <= k}
<1>1. ASSUME NEW U \in SUBSET S, U # {}, U \ {Some(U)} \in Good PROVE U \in Good
  <2> DEFINE x == Some(U)
  <2>1. x \in U /\ x \in Nat BY <1>1, SomeIn
  <2> HIDE DEF x
  <2>2. CASE U \ {x} = {}
    <3>1. U = {x} BY <2>1, <2>2
    <3> QED BY <2>1, <3>1
  <2>3. CASE U \ {x} # {}
    <3>1. PICK k \in U \ {x} : \A n \in U \ {x} : n <= k BY <1>1, <2>3 DEF x
    <3>2. \A n \in U : n <= (IF k <= x THEN x ELSE k) BY <1>1, <2>1, <3>1
    <3> QED BY <1>1, <2>1, <3>1, <3>2
  <2> QED BY <2>2, <2>3
<1>2. {} \in Good OBVIOUS
<1> HIDE DEF Good
<1>3. SUBSET S \subseteq Good BY <1>1, <1>2, SubsetInduction
<1> QED BY <1>3 DEF Good
-----------------------------------------------------------------------------
(* SimpleRateLimiter.                                                      *)
SimpleType ==
  /\ clock \in Nat /\ clock <= AppEnd /\ keyEnds \in Nat
  /\ members \subseteq Simple!Calls /\ let \subseteq Simple!Calls
  /\ stamp \in [Simple!Calls -> Nat]
  /\ stage \in [Simple!Calls -> {"new", "trim", "count", "add", "expire", "look", "done"}]

Adding == {r \in Simple!Calls : stage[r] = "add"}

(* A place taken is a member, or about to be one.  Those about to be are   *)
(* threads of the server, so there are never more than Threads of them,    *)
(* and one of them was let on by a count below the limit.                  *)
PlacesInv ==
  /\ Cardinality(Simple!Running) <= Threads
  /\ Cardinality(members \cup Adding) <= MaxRequests + Threads - 1

(* A member whose EXPIRE has run is in the key for as long as it counts.   *)
KeyInv ==
  /\ \A r \in Simple!Calls : stamp[r] <= clock
  /\ \A r \in let \cup members : stage[r] \in {"expire", "look", "done"}
  /\ \A r \in members : stage[r] # "expire" => keyEnds >= stamp[r] + Window
  /\ \A r \in let \ lost : stamp[r] > clock - Window => r \in members

SimpleInv == SimpleType /\ PlacesInv /\ KeyInv

(* There are finitely many calls.                                          *)
LEMMA FiniteCalls == \A S \in SUBSET Simple!Calls : IsFiniteSet(S)
<1>1. IsFiniteSet(Simple!Calls) BY FS_Interval, SimpleAssumption DEF Simple!Calls
<1> QED BY <1>1, FS_Subset

(* The requests let on in the window are among the places taken, so the    *)
(* promise follows.                                                        *)
LEMMA SimpleBound == SimpleInv => OvershootBounded
<1> SUFFICES ASSUME SimpleInv PROVE OvershootBounded
  OBVIOUS
<1> DEFINE Within == {r \in let \ lost : stamp[r] > clock - Window}
<1> USE SimpleAssumption DEF SimpleInv, SimpleType
<1>1. Within \subseteq members \cup Adding BY DEF KeyInv
<1>2. IsFiniteSet(members \cup Adding) BY FiniteCalls DEF Adding
<1>3. Cardinality(Within) <= Cardinality(members \cup Adding)
      /\ Cardinality(Within) \in Nat /\ Cardinality(members \cup Adding) \in Nat
  BY <1>1, <1>2, FS_Subset, FS_CardinalityType
<1>4. Cardinality(Within) <= MaxRequests + Threads - 1 BY <1>3 DEF PlacesInv
<1> QED BY <1>4, SameCardinality DEF OvershootBounded, Simple!OvershootBounded

(* Nobody has begun at the start.                                          *)
LEMMA SimpleInit == Simple!Init => SimpleInv
<1> SUFFICES ASSUME Simple!Init PROVE SimpleInv
  OBVIOUS
<1> USE SimpleAssumption DEF Simple!Init
<1>1. SimpleType BY DEF SimpleType, Simple!Never
<1>2. Simple!Running = {} /\ members \cup Adding = {}
  BY DEF Simple!Running, Adding
<1>3. PlacesInv BY <1>2, FS_EmptySet DEF PlacesInv
<1>4. KeyInv BY DEF KeyInv
<1> QED BY <1>1, <1>3, <1>4 DEF SimpleInv

(* The places, when no more are taken than there were.                     *)
LEMMA PlacesKept ==
  ASSUME SimpleInv, SimpleType', Simple!Running' \subseteq Simple!Running,
         members' \cup Adding' \subseteq members \cup Adding
  PROVE  PlacesInv'
<1> USE SimpleAssumption
<1>1. IsFiniteSet(Simple!Running) /\ IsFiniteSet(members \cup Adding)
  BY FiniteCalls DEF Simple!Running, Adding, SimpleInv, SimpleType
<1>2. /\ Cardinality(Simple!Running') <= Cardinality(Simple!Running)
      /\ Cardinality(members' \cup Adding') <= Cardinality(members \cup Adding)
      /\ {Cardinality(Simple!Running), Cardinality(Simple!Running'),
          Cardinality(members \cup Adding), Cardinality(members' \cup Adding')} \subseteq Nat
  BY <1>1, FS_Subset, FS_CardinalityType
<1> QED BY <1>2 DEF SimpleInv, PlacesInv

(* A thread takes up a request: it is one of Threads.                      *)
LEMMA SimpleBegin == ASSUME SimpleInv, NEW r \in Simple!Calls, Simple!Begin(r) PROVE SimpleInv'
<1> USE SimpleAssumption DEF Simple!Begin, Simple!Goto
<1>1. SimpleType' BY DEF SimpleInv, SimpleType
<1>2. KeyInv'
  <2>1. r \notin let \cup members BY DEF SimpleInv, KeyInv
  <2>2. /\ stamp'[r] = clock
        /\ \A q \in Simple!Calls \ {r} : stamp'[q] = stamp[q] /\ stage'[q] = stage[q]
    BY DEF SimpleInv, SimpleType
  <2> QED BY <2>1, <2>2 DEF SimpleInv, SimpleType, KeyInv
<1>3. Simple!Running' = Simple!Running \cup {r} /\ Adding' = Adding
  BY DEF SimpleInv, SimpleType, Simple!Running, Adding
<1>4. IsFiniteSet(Simple!Running) BY FiniteCalls DEF Simple!Running
<1>5. Cardinality(Simple!Running) < Threads BY SameCardinality
<1>6. Cardinality(Simple!Running \cup {r}) <= Threads
  <2>1. Cardinality(Simple!Running) \in Nat BY <1>4, FS_CardinalityType
  <2>2. Cardinality(Simple!Running \cup {r})
          \in {Cardinality(Simple!Running), Cardinality(Simple!Running) + 1}
    BY <1>4, FS_AddElement
  <2> QED BY <1>5, <2>1, <2>2
<1> QED BY <1>1, <1>2, <1>3, <1>6 DEF SimpleInv, PlacesInv

(* ZREMRANGEBYSCORE removes members only.                                  *)
LEMMA SimpleTrim == ASSUME SimpleInv, NEW r \in Simple!Calls, Simple!Trim(r) PROVE SimpleInv'
<1> USE SimpleAssumption DEF Simple!Trim, Simple!Goto, Simple!Store, Simple!After
<1>1. SimpleType' BY DEF SimpleInv, SimpleType, Simple!Never
<1>2. KeyInv' BY DEF SimpleInv, SimpleType, KeyInv, Simple!Never
<1>3. /\ Simple!Running' \subseteq Simple!Running
      /\ members' \cup Adding' \subseteq members \cup Adding
  BY DEF SimpleInv, SimpleType, Simple!Running, Adding
<1> QED BY <1>1, <1>2, <1>3, PlacesKept DEF SimpleInv

(* The one step that lets a request on: below the limit there is room for  *)
(* every thread, this one included.                                        *)
LEMMA SimpleCount == ASSUME SimpleInv, NEW r \in Simple!Calls, Simple!Count(r) PROVE SimpleInv'
<1> USE SimpleAssumption DEF Simple!Count, Simple!Goto
<1>1. SimpleType' BY DEF SimpleInv, SimpleType
<1>2. KeyInv' BY DEF SimpleInv, SimpleType, KeyInv
<1>3. Simple!Running' = Simple!Running BY DEF SimpleInv, SimpleType, Simple!Running
<1>4. CASE Simple!Full
  <2>1. members' \cup Adding' \subseteq members \cup Adding
    BY <1>4 DEF SimpleInv, SimpleType, Adding
  <2> QED BY <1>1, <1>2, <1>3, <2>1, PlacesKept DEF SimpleInv
<1>5. CASE ~Simple!Full
  <2>1. members' = members /\ Adding' \subseteq Simple!Running'
    BY <1>1 DEF SimpleType, Simple!Running, Adding
  <2>2. IsFiniteSet(members) /\ IsFiniteSet(Adding') /\ IsFiniteSet(Simple!Running')
    BY FiniteCalls DEF SimpleInv, SimpleType, Simple!Running, Adding
  <2>3. Cardinality(members) < MaxRequests
    BY <1>5, <2>2, SameCardinality, FS_CardinalityType DEF Simple!Full
  <2>4. Cardinality(Adding') <= Threads
    BY <1>3, <2>1, <2>2, FS_Subset, FS_CardinalityType DEF SimpleInv, PlacesInv
  <2>5. IsFiniteSet(members \cap Adding') /\ IsFiniteSet(members \cup Adding')
    BY <2>2, FS_Intersection, FS_Union
  <2>6. Cardinality(members \cup Adding')
          = Cardinality(members) + Cardinality(Adding') - Cardinality(members \cap Adding')
    BY <2>2, FS_Union
  <2>7. {Cardinality(members), Cardinality(Adding'), Cardinality(members \cap Adding')}
          \subseteq Nat
    BY <2>2, <2>5, FS_CardinalityType
  <2>8. Cardinality(members' \cup Adding') <= MaxRequests + Threads - 1
    BY <2>1, <2>3, <2>4, <2>6, <2>7
  <2> QED BY <1>1, <1>2, <1>3, <2>8 DEF SimpleInv, PlacesInv
<1> QED BY <1>4, <1>5

(* ZADD turns a place that is about to be taken into a member.             *)
LEMMA SimpleAdd == ASSUME SimpleInv, NEW r \in Simple!Calls, Simple!Add(r) PROVE SimpleInv'
<1> USE SimpleAssumption DEF Simple!Add, Simple!Goto, Simple!Store
<1>1. SimpleType' BY DEF SimpleInv, SimpleType, Simple!Never
<1>2. KeyInv' BY DEF SimpleInv, SimpleType, KeyInv, Simple!Never
<1>3. /\ Simple!Running' \subseteq Simple!Running
      /\ members' \cup Adding' \subseteq members \cup Adding
  BY DEF SimpleInv, SimpleType, Simple!Running, Adding
<1> QED BY <1>1, <1>2, <1>3, PlacesKept DEF SimpleInv

(* EXPIRE gives the key a life as long as its newest member counts.        *)
LEMMA SimpleExpire == ASSUME SimpleInv, NEW r \in Simple!Calls, Simple!Expire(r) PROVE SimpleInv'
<1> USE SimpleAssumption DEF Simple!Expire, Simple!Goto, Simple!Store
<1>1. SimpleType' BY DEF SimpleInv, SimpleType, Simple!Never
<1>2. KeyInv' BY DEF SimpleInv, SimpleType, KeyInv, Simple!Never
<1>3. /\ Simple!Running' \subseteq Simple!Running
      /\ members' \cup Adding' \subseteq members \cup Adding
  BY DEF SimpleInv, SimpleType, Simple!Running, Adding
<1> QED BY <1>1, <1>2, <1>3, PlacesKept DEF SimpleInv

(* get_rate_limit_info trims the key on its way.                           *)
LEMMA SimpleLook == ASSUME SimpleInv, NEW r \in Simple!Calls, Simple!Look(r) PROVE SimpleInv'
<1> USE SimpleAssumption DEF Simple!Look, Simple!Goto, Simple!Store, Simple!After
<1>1. SimpleType' BY DEF SimpleInv, SimpleType, Simple!Never
<1>2. KeyInv' BY DEF SimpleInv, SimpleType, KeyInv, Simple!Never
<1>3. /\ Simple!Running' \subseteq Simple!Running
      /\ members' \cup Adding' \subseteq members \cup Adding
  BY DEF SimpleInv, SimpleType, Simple!Running, Adding
<1> QED BY <1>1, <1>2, <1>3, PlacesKept DEF SimpleInv

(* When the key expires all its members have left the window, but for      *)
(* those that had not set its TTL yet: they are the lost ones.             *)
LEMMA SimpleTick == ASSUME SimpleInv, Simple!Tick PROVE SimpleInv'
<1> USE SimpleAssumption DEF Simple!Tick, Simple!Store
<1>1. SimpleType' BY DEF SimpleInv, SimpleType, Simple!Never
<1>2. KeyInv'
  <2>1. CASE keyEnds > clock' BY <2>1 DEF SimpleInv, SimpleType, KeyInv
  <2>2. CASE ~ (keyEnds > clock')
    <3>1. \A r \in let \ lost' : stamp[r] <= clock' - Window
      BY <2>2 DEF SimpleInv, SimpleType, KeyInv
    <3> QED BY <2>2, <3>1 DEF SimpleInv, SimpleType, KeyInv
  <2> QED BY <2>1, <2>2
<1>3. /\ Simple!Running' \subseteq Simple!Running
      /\ members' \cup Adding' \subseteq members \cup Adding
  BY DEF SimpleInv, SimpleType, Simple!Running, Adding
<1> QED BY <1>1, <1>2, <1>3, PlacesKept DEF SimpleInv

(* reset() deletes the key, whose members are then lost.                   *)
LEMMA SimpleReset == ASSUME SimpleInv, Simple!Reset PROVE SimpleInv'
<1> USE SimpleAssumption DEF Simple!Reset, Simple!Store
<1>1. SimpleType' BY DEF SimpleInv, SimpleType, Simple!Never
<1>2. KeyInv' BY DEF SimpleInv, SimpleType, KeyInv
<1>3. /\ Simple!Running' \subseteq Simple!Running
      /\ members' \cup Adding' \subseteq members \cup Adding
  BY DEF SimpleInv, SimpleType, Simple!Running, Adding
<1> QED BY <1>1, <1>2, <1>3, PlacesKept DEF SimpleInv

(* Every step keeps the invariant.                                         *)
LEMMA SimpleStep == SimpleInv /\ [Simple!Next]_(Simple!vars) => SimpleInv'
<1> SUFFICES ASSUME SimpleInv, [Simple!Next]_(Simple!vars) PROVE SimpleInv'
  OBVIOUS
<1>1. CASE UNCHANGED Simple!vars
  BY <1>1 DEF Simple!vars, SimpleInv, SimpleType, PlacesInv, KeyInv, Simple!Running, Adding
<1> QED
  BY <1>1, SimpleBegin, SimpleTrim, SimpleCount, SimpleAdd, SimpleExpire, SimpleLook,
     SimpleTick, SimpleReset DEF Simple!Next

(* Whatever the limit, the window, the number of threads and the order of  *)
(* their commands: at most Threads - 1 too many in any window, beside those*)
(* whose member was lost with its key.                                     *)
THEOREM Overshoot == Simple!Spec => []OvershootBounded
BY SimpleInit, SimpleStep, SimpleBound, PTL DEF Simple!Spec
-----------------------------------------------------------------------------
(* CostTracker.  An instant in the bucket of another, or in an earlier     *)
(* one, is less than the length of a bucket after it.                      *)
LEMMA LengthType == \A p \in Cost!Periods : Lengths[p] \in Nat \ {0}
BY CostAssumption, ElementOfSeq DEF Cost!Periods

(* Buckets are in the order of time.                                       *)
LEMMA BucketOrder ==
  ASSUME NEW p \in Cost!Periods, NEW s \in Nat, NEW t \in Nat
  PROVE  /\ Cost!Bucket(p, s) \in Nat /\ Cost!Bucket(p, s) <= s
         /\ s <= t => Cost!Bucket(p, s) <= Cost!Bucket(p, t)
         /\ Cost!Bucket(p, s) <= Cost!Bucket(p, t) => s < t + Lengths[p]
<1>1. Lengths[p] \in Nat \ {0} BY LengthType
<1> DEFINE n == Lengths[p]
<1> HIDE DEF n
<1>2. n \in Nat \ {0} BY <1>1 DEF n
<1>3. s \div n \in Nat /\ n * (s \div n) <= s /\ s < n * (s \div n) + n BY <1>2
<1>4. t \div n \in Nat /\ n * (t \div n) <= t /\ t < n * (t \div n) + n BY <1>2
<1>5. s <= t => s \div n <= t \div n BY <1>2
<1>6. s \div n <= s BY <1>2
<1>7. ASSUME s \div n <= t \div n PROVE s < t + n
  <2>1. n * (s \div n) <= n * (t \div n) BY <1>2, <1>3, <1>4, <1>7
  <2> QED BY <1>2, <1>3, <1>4, <2>1
<1> QED BY <1>1, <1>3, <1>5, <1>6, <1>7 DEF n, Cost!Bucket

(* Two keys are named for each period.                                     *)
LEMMA TwoKeys ==
  ASSUME NEW n \in Nat
  PROVE  /\ \A m \in Nat : n < 2 * m => n \div 2 + 1 \in 1 .. m
         /\ \A p \in Nat, i \in {0, 1} : 2 * p - i = n + 1 => n \div 2 + 1 = p
OBVIOUS

Counters == [Cost!Periods -> [Cost!Buckets -> Nat]]
MadeBy(w) == {r \in made : r.by = w}

Naming(records, names, p, i, b) ==
  {r \in records : names[r.by][2 * p - i].bucket = b}

(* A counter of the present bucket, or of one to come, has all records     *)
(* that named it, and its key outlives the bucket.                         *)
Tallied(counters, until, records, i, names, t) ==
  \A p \in Cost!Periods, b \in Cost!Buckets :
    /\ Cost!Bucket(p, t) <= b =>
         counters[p][b] = Cardinality(Naming(records, names, p, i, b))
    /\ counters[p][b] > 0 => \A s \in Nat : Cost!Bucket(p, s) <= b => s < until[p][b]

CostType ==
  /\ wall \in Nat /\ wall <= CostEnd
  /\ total \in Counters /\ totalEnds \in Counters
  /\ share \in [Recorders -> Counters] /\ shareEnds \in [Recorders -> Counters]
  /\ named \in [Recorders -> Seq([bucket : Nat, at : Nat])]

(* The keys of a record are named in order of time, each for its moment.   *)
NamesInv ==
  \A w \in Recorders :
    /\ Len(named[w]) <= 2 * Len(Lengths)
    /\ \A j \in 1 .. Len(named[w]) :
         named[w][1].at <= named[w][j].at /\ named[w][j].at <= wall
    /\ \A p \in Cost!Periods, i \in {0, 1} : 2 * p - i <= Len(named[w]) =>
         named[w][2 * p - i].bucket = Cost!Bucket(p, named[w][2 * p - i].at)

MadeInv ==
  /\ IsFiniteSet(made)
  /\ \A r \in made :
       /\ r.by \in Recorders /\ Len(named[r.by]) = 2 * Len(Lengths)
       /\ r.from = named[r.by][1].at
       /\ r.to \in Nat /\ r.to <= wall
       /\ \A j \in 1 .. Len(named[r.by]) : named[r.by][j].at <= r.to

TalliedInv ==
  /\ Tallied(total, totalEnds, made, 1, named, wall)
  /\ \A w \in Recorders : Tallied(share[w], shareEnds[w], MadeBy(w), 0, named, wall)

CostInv == CostType /\ NamesInv /\ MadeInv /\ TalliedInv

(* Nothing is recorded at the start.                                       *)
LEMMA CostInit == Cost!Init => CostInv
<1> SUFFICES ASSUME Cost!Init PROVE CostInv
  OBVIOUS
<1> USE DEF Cost!Init
<1>1. /\ Cost!PerKey(0) \in Counters
      /\ \A p \in Cost!Periods, b \in Cost!Buckets : Cost!PerKey(0)[p][b] = 0
  BY DEF Counters, Cost!PerKey
<1>2. CostType BY <1>1, CostAssumption DEF CostType
<1>3. \A w \in Recorders : named[w] = <<>> /\ Len(named[w]) = 0
  OBVIOUS
<1>4. Len(Lengths) \in Nat BY CostAssumption
<1>5. NamesInv BY <1>3, <1>4 DEF NamesInv, Cost!Periods
<1>6. MadeInv BY FS_EmptySet DEF MadeInv
<1>7. TalliedInv
  <2>1. \A p, i, b : Naming({}, named, p, i, b) = {} BY DEF Naming
  <2>2. \A i : Tallied(Cost!PerKey(0), Cost!PerKey(0), {}, i, named, wall)
    <3> HIDE DEF Cost!Init
    <3> QED BY <1>1, <2>1, FS_EmptySet DEF Tallied
  <2>3. made = {} /\ \A w : MadeBy(w) = {} BY DEF MadeBy
  <2> QED BY <2>2, <2>3 DEF TalliedInv
<1> QED BY <1>2, <1>5, <1>6, <1>7 DEF CostInv

(* The bucket a finished record counts in, and its time.                   *)
LEMMA NamedBucket ==
  ASSUME CostType, NamesInv, NEW w \in Recorders, Len(named[w]) = 2 * Len(Lengths),
         NEW p \in Cost!Periods, NEW i \in {0, 1}
  PROVE  /\ 2 * p - i \in 1 .. Len(named[w])
         /\ named[w][2 * p - i].at \in Nat
         /\ named[w][1].at \in Nat /\ named[w][1].at <= named[w][2 * p - i].at
         /\ named[w][2 * p - i].at <= wall
         /\ named[w][2 * p - i].bucket = Cost!Bucket(p, named[w][2 * p - i].at)
         /\ named[w][2 * p - i].bucket \in Cost!Buckets
<1>1. Len(Lengths) \in Nat /\ p \in 1 .. Len(Lengths) BY CostAssumption DEF Cost!Periods
<1>2. /\ 2 * p - i \in 1 .. Len(named[w]) /\ 1 \in 1 .. Len(named[w])
      /\ 2 * p - i <= Len(named[w])
  BY <1>1
<1>3. named[w] \in Seq([bucket : Nat, at : Nat]) BY DEF CostType
<1>4. named[w][2 * p - i].at \in Nat /\ named[w][1].at \in Nat
  <2>1. \A j \in 1 .. Len(named[w]) : named[w][j] \in [bucket : Nat, at : Nat]
    BY <1>3, ElementOfSeq
  <2> QED BY <1>2, <2>1
<1>5. /\ named[w][1].at <= named[w][2 * p - i].at /\ named[w][2 * p - i].at <= wall
      /\ named[w][2 * p - i].bucket = Cost!Bucket(p, named[w][2 * p - i].at)
  BY <1>2 DEF NamesInv
<1>6. named[w][2 * p - i].bucket \in Cost!Buckets
  <2>1. wall \in Nat /\ wall <= CostEnd /\ CostEnd \in Nat BY CostAssumption DEF CostType
  <2>2. /\ Cost!Bucket(p, named[w][2 * p - i].at) \in Nat
        /\ Cost!Bucket(p, named[w][2 * p - i].at) <= named[w][2 * p - i].at
    BY <1>4, BucketOrder
  <2> QED BY <1>4, <1>5, <2>1, <2>2 DEF Cost!Buckets
<1> QED BY <1>2, <1>4, <1>5, <1>6

(* One more record, in each counter it names.                              *)
LEMMA TalliedMore ==
  ASSUME CostType, NamesInv, IsFiniteSet(made), NEW w \in Recorders,
         Len(named[w]) = 2 * Len(Lengths), NEW i \in {0, 1},
         NEW counters \in Counters, NEW until \in Counters,
         NEW records \in SUBSET made, NEW r, r \notin made, r.by = w,
         Tallied(counters, until, records, i, named, wall)
  PROVE  /\ Cost!Incr(counters, w, i) \in Counters /\ Cost!Renew(until, w, i) \in Counters
         /\ Tallied(Cost!Incr(counters, w, i), Cost!Renew(until, w, i), records \cup {r},
                    i, named, wall)
<1> DEFINE k(p) == named[w][2 * p - i].bucket
           more == Cost!Incr(counters, w, i)
           later == Cost!Renew(until, w, i)
<1>1. \A p \in Cost!Periods : k(p) \in Cost!Buckets BY NamedBucket
<1>2. \A p \in Cost!Periods : Cost!TTL(p) \in Nat /\ Cost!TTL(p) = Lengths[p] + Lengths[p]
  BY LengthType DEF Cost!TTL
<1>3. more \in Counters /\ later \in Counters
  <2>1. wall \in Nat BY DEF CostType
  <2> QED BY <1>1, <1>2, <2>1 DEF Counters, Cost!Incr, Cost!Renew
<1>4. ASSUME NEW p \in Cost!Periods, NEW b \in Cost!Buckets
      PROVE  /\ more[p][b] = IF b = k(p) THEN counters[p][b] + 1 ELSE counters[p][b]
             /\ later[p][b] = IF b = k(p) THEN wall + Cost!TTL(p) ELSE until[p][b]
  BY <1>1, <1>4 DEF Counters, Cost!Incr, Cost!Renew
<1> HIDE DEF more, later
<1>5. ASSUME NEW p \in Cost!Periods, NEW b \in Cost!Buckets
      PROVE  /\ Cost!Bucket(p, wall) <= b => more[p][b] =
                  Cardinality(Naming(records \cup {r}, named, p, i, b))
             /\ more[p][b] > 0 => \A s \in Nat : Cost!Bucket(p, s) <= b => s < later[p][b]
  <2> DEFINE old == Naming(records, named, p, i, b)
             new == Naming(records \cup {r}, named, p, i, b)
  <2>1. /\ Cost!Bucket(p, wall) <= b => counters[p][b] = Cardinality(old)
        /\ counters[p][b] > 0 => \A s \in Nat : Cost!Bucket(p, s) <= b => s < until[p][b]
        /\ counters[p][b] \in Nat
    BY DEF Tallied, Counters
  <2>2. CASE b = k(p)
    <3>1. new = old \cup {r} /\ r \notin old BY <2>2 DEF Naming
    <3>2. IsFiniteSet(old) BY FS_Subset DEF Naming
    <3>3. Cardinality(new) = Cardinality(old) + 1 BY <3>1, <3>2, FS_AddElement
    <3>4. ASSUME NEW s \in Nat, Cost!Bucket(p, s) <= b PROVE s < later[p][b]
      <4>1. /\ b = Cost!Bucket(p, named[w][2 * p - i].at) /\ named[w][2 * p - i].at \in Nat
            /\ named[w][2 * p - i].at <= wall
        BY <2>2, NamedBucket
      <4>2. s < named[w][2 * p - i].at + Lengths[p] /\ Lengths[p] \in Nat
        BY <3>4, <4>1, BucketOrder, LengthType
      <4>3. later[p][b] = wall + (Lengths[p] + Lengths[p]) BY <1>2, <1>4, <2>2
      <4>4. wall \in Nat BY DEF CostType
      <4> QED BY <4>1, <4>2, <4>3, <4>4
    <3> QED BY <1>4, <2>1, <2>2, <3>3, <3>4
  <2>3. CASE b # k(p)
    <3>1. new = old BY <2>3 DEF Naming
    <3> QED BY <1>4, <2>1, <2>3, <3>1
  <2> QED BY <2>2, <2>3
<1>6. Tallied(more, later, records \cup {r}, i, named, wall) BY <1>5 DEF Tallied
<1> QED BY <1>3, <1>6 DEF more, later

(* What a tick leaves: a counter of a bucket that is not over has its key. *)
LEMMA TalliedLater ==
  ASSUME CostType, NEW i \in {0, 1}, NEW counters \in Counters, NEW until \in Counters, NEW records,
         Tallied(counters, until, records, i, named, wall),
         NEW remains, remains = [p \in Cost!Periods |->
           [b \in Cost!Buckets |-> IF until[p][b] > wall + 1 THEN counters[p][b] ELSE 0]]
  PROVE  remains \in Counters /\ Tallied(remains, until, records, i, named, wall + 1)
<1>1. remains \in Counters BY DEF Counters
<1>2. ASSUME NEW p \in Cost!Periods, NEW b \in Cost!Buckets
      PROVE  /\ Cost!Bucket(p, wall + 1) <= b => remains[p][b] =
                  Cardinality(Naming(records, named, p, i, b))
             /\ remains[p][b] > 0 => \A s \in Nat : Cost!Bucket(p, s) <= b => s < until[p][b]
  <2>1. /\ Cost!Bucket(p, wall) <= b =>
             counters[p][b] = Cardinality(Naming(records, named, p, i, b))
        /\ counters[p][b] > 0 => \A s \in Nat : Cost!Bucket(p, s) <= b => s < until[p][b]
        /\ counters[p][b] \in Nat /\ until[p][b] \in Nat /\ b \in Nat
    BY CostAssumption DEF Tallied, Counters, Cost!Buckets
  <2>2. remains[p][b] = IF until[p][b] > wall + 1 THEN counters[p][b] ELSE 0 OBVIOUS
  <2>3. wall \in Nat /\ wall + 1 \in Nat BY DEF CostType
  <2>4. /\ Cost!Bucket(p, wall) <= Cost!Bucket(p, wall + 1)
        /\ Cost!Bucket(p, wall) \in Nat /\ Cost!Bucket(p, wall + 1) \in Nat
    BY <2>3, BucketOrder
  <2>5. ASSUME Cost!Bucket(p, wall + 1) <= b PROVE remains[p][b] = counters[p][b]
    BY <2>1, <2>2, <2>3, <2>5
  <2> QED BY <2>1, <2>2, <2>3, <2>4, <2>5
<1> QED BY <1>1, <1>2 DEF Tallied

(* record() names its next key, for the moment it is.                      *)
LEMMA CostName == ASSUME CostInv, NEW w \in Recorders, Cost!NameKey(w) PROVE CostInv'
<1> DEFINE n == Len(named[w])
           key == [bucket |-> Cost!Bucket(n \div 2 + 1, wall), at |-> wall]
<1>1. /\ n < 2 * Len(Lengths) /\ named' = [named EXCEPT ![w] = Append(@, key)]
      /\ UNCHANGED <<wall, total, share, totalEnds, shareEnds, made>>
  BY DEF Cost!NameKey
<1>2. /\ CostType /\ NamesInv /\ MadeInv /\ TalliedInv /\ wall \in Nat
      /\ named \in [Recorders -> Seq([bucket : Nat, at : Nat])]
  BY DEF CostInv, CostType
<1>3. n \in Nat /\ Len(Lengths) \in Nat BY <1>2, CostAssumption, LenProperties
<1>4. n \div 2 + 1 \in Cost!Periods BY <1>1, <1>3, TwoKeys DEF Cost!Periods
<1>5. key \in [bucket : Nat, at : Nat] BY <1>2, <1>4, BucketOrder
<1> HIDE DEF key
<1>6. /\ named'[w] = Append(named[w], key) /\ \A v \in Recorders : v # w => named'[v] = named[v]
      /\ named' \in [Recorders -> Seq([bucket : Nat, at : Nat])]
  BY <1>1, <1>2, <1>5, AppendProperties
<1>7. /\ Len(named'[w]) = n + 1 /\ named'[w][n + 1] = key
      /\ \A j \in 1 .. n : named'[w][j] = named[w][j]
  BY <1>2, <1>5, <1>6, AppendProperties
<1>8. CostType' BY <1>1, <1>2, <1>6 DEF CostType
<1>9. NamesInv'
  <2> SUFFICES ASSUME NEW v \in Recorders
      PROVE  /\ Len(named'[v]) <= 2 * Len(Lengths)
             /\ \A j \in 1 .. Len(named'[v]) :
                  named'[v][1].at <= named'[v][j].at /\ named'[v][j].at <= wall
             /\ \A p \in Cost!Periods, i \in {0, 1} : 2 * p - i <= Len(named'[v]) =>
                  named'[v][2 * p - i].bucket = Cost!Bucket(p, named'[v][2 * p - i].at)
    BY <1>1 DEF NamesInv, Cost!Bucket
  <2>1. CASE v # w BY <1>2, <1>6, <2>1 DEF NamesInv
  <2>2. CASE v = w
    <3>1. Len(named'[w]) <= 2 * Len(Lengths) BY <1>1, <1>3, <1>7
    <3>2. ASSUME NEW j \in 1 .. n + 1
          PROVE  named'[w][1].at <= named'[w][j].at /\ named'[w][j].at <= wall
      <4>1. key.at = wall BY DEF key
      <4>2. \A m \in 1 .. n : named[w][1].at <= named[w][m].at /\ named[w][m].at <= wall
        BY <1>2 DEF NamesInv
      <4>3. CASE n = 0 BY <1>2, <1>7, <3>2, <4>1, <4>3
      <4>4. CASE n # 0
        <5>1. named'[w][1] = named[w][1] /\ 1 \in 1 .. n BY <1>3, <1>7, <4>4
        <5>2. CASE j = n + 1 BY <1>2, <1>7, <4>1, <4>2, <5>1, <5>2
        <5>3. CASE j # n + 1
          <6>1. j \in 1 .. n BY <1>3, <5>3
          <6> QED BY <1>7, <4>2, <5>1, <6>1
        <5> QED BY <5>2, <5>3
      <4> QED BY <4>3, <4>4
    <3>3. ASSUME NEW p \in Cost!Periods, NEW i \in {0, 1}, 2 * p - i <= n + 1
          PROVE  named'[w][2 * p - i].bucket = Cost!Bucket(p, named'[w][2 * p - i].at)
      <4>1. p \in Nat \ {0} BY DEF Cost!Periods
      <4>2. CASE 2 * p - i = n + 1
        <5>1. n \div 2 + 1 = p BY <1>3, <4>1, <4>2, TwoKeys
        <5>2. key.bucket = Cost!Bucket(p, wall) /\ key.at = wall BY <5>1 DEF key
        <5> QED BY <1>7, <4>2, <5>2
      <4>3. CASE 2 * p - i # n + 1
        <5>1. 2 * p - i \in 1 .. n /\ 2 * p - i <= n BY <1>3, <3>3, <4>1, <4>3
        <5>2. named[w][2 * p - i].bucket = Cost!Bucket(p, named[w][2 * p - i].at)
          BY <1>2, <5>1 DEF NamesInv
        <5> QED BY <1>7, <5>1, <5>2
      <4> QED BY <4>2, <4>3
    <3> QED BY <1>7, <2>2, <3>1, <3>2, <3>3
  <2> QED BY <2>1, <2>2
<1>10. \A r \in made : r.by # w /\ r.by \in Recorders /\ named'[r.by] = named[r.by]
  BY <1>1, <1>2, <1>3, <1>6 DEF MadeInv
<1>11. MadeInv' BY <1>1, <1>2, <1>10 DEF MadeInv
<1>12. TalliedInv'
  <2>1. ASSUME NEW S \in SUBSET made
        PROVE  \A p, i, b : Naming(S, named', p, i, b) = Naming(S, named, p, i, b)
    BY <1>10 DEF Naming
  <2>2. \A v : MadeBy(v) \in SUBSET made BY DEF MadeBy
  <2>3. \A v : MadeBy(v)' = MadeBy(v) BY <1>1 DEF MadeBy
  <2>4. Tallied(total, totalEnds, made, 1, named', wall)
    <3>1. Tallied(total, totalEnds, made, 1, named, wall) BY <1>2 DEF TalliedInv
    <3> QED BY <2>1, <3>1 DEF Tallied
  <2>5. \A v \in Recorders : Tallied(share[v], shareEnds[v], MadeBy(v), 0, named', wall)
    <3> SUFFICES ASSUME NEW v \in Recorders
        PROVE  Tallied(share[v], shareEnds[v], MadeBy(v), 0, named', wall)
      OBVIOUS
    <3>1. Tallied(share[v], shareEnds[v], MadeBy(v), 0, named, wall) BY <1>2 DEF TalliedInv
    <3> QED BY <2>1, <2>2, <3>1 DEF Tallied
  <2> QED BY <1>1, <2>3, <2>4, <2>5 DEF TalliedInv
<1> QED BY <1>8, <1>9, <1>11, <1>12 DEF CostInv

(* The pipeline counts the record in all the keys it has named.            *)
LEMMA CostExecute == ASSUME CostInv, NEW w \in Recorders, Cost!Execute(w) PROVE CostInv'
<1> DEFINE r == [by |-> w, from |-> named[w][1].at, to |-> wall]
<1>1. /\ Len(named[w]) = 2 * Len(Lengths) /\ \A x \in made : x.by # w
      /\ total' = Cost!Incr(total, w, 1) /\ totalEnds' = Cost!Renew(totalEnds, w, 1)
      /\ share' = [share EXCEPT ![w] = Cost!Incr(share[w], w, 0)]
      /\ shareEnds' = [shareEnds EXCEPT ![w] = Cost!Renew(shareEnds[w], w, 0)]
      /\ made' = made \cup {r} /\ UNCHANGED <<wall, named>>
  BY DEF Cost!Execute
<1>2. CostType /\ NamesInv /\ MadeInv /\ TalliedInv BY DEF CostInv
<1>3. r.by = w /\ r.from = named[w][1].at /\ r.to = wall /\ r \notin made BY <1>1
<1> HIDE DEF r
<1>4. IsFiniteSet(made) BY <1>2 DEF MadeInv
<1>5. /\ total' \in Counters /\ totalEnds' \in Counters
      /\ Tallied(total', totalEnds', made', 1, named, wall)
  BY <1>1, <1>2, <1>3, <1>4, TalliedMore DEF CostType, TalliedInv
<1>6. /\ Cost!Incr(share[w], w, 0) \in Counters /\ Cost!Renew(shareEnds[w], w, 0) \in Counters
      /\ Tallied(Cost!Incr(share[w], w, 0), Cost!Renew(shareEnds[w], w, 0), MadeBy(w) \cup {r},
                 0, named, wall)
  <2>1. MadeBy(w) \in SUBSET made BY DEF MadeBy
  <2> QED BY <1>1, <1>2, <1>3, <1>4, <2>1, TalliedMore DEF CostType, TalliedInv
<1>7. /\ MadeBy(w)' = MadeBy(w) \cup {r}
      /\ \A v \in Recorders : v # w => MadeBy(v)' = MadeBy(v)
  BY <1>1, <1>3 DEF MadeBy
<1>8. /\ share' \in [Recorders -> Counters] /\ shareEnds' \in [Recorders -> Counters]
      /\ share'[w] = Cost!Incr(share[w], w, 0) /\ shareEnds'[w] = Cost!Renew(shareEnds[w], w, 0)
      /\ \A v \in Recorders : v # w => share'[v] = share[v] /\ shareEnds'[v] = shareEnds[v]
  BY <1>1, <1>2, <1>6 DEF CostType
<1>9. CostType' BY <1>1, <1>2, <1>5, <1>8 DEF CostType
<1>10. NamesInv' BY <1>1, <1>2 DEF NamesInv
<1>11. MadeInv'
  <2>1. IsFiniteSet(made') BY <1>1, <1>4, FS_AddElement
  <2>2. wall \in Nat /\ \A j \in 1 .. Len(named[w]) : named[w][j].at <= wall
    BY <1>2 DEF CostType, NamesInv
  <2> QED BY <1>1, <1>2, <1>3, <2>1, <2>2 DEF MadeInv
<1>12. TalliedInv'
  <2>1. \A v \in Recorders : Tallied(share'[v], shareEnds'[v], MadeBy(v)', 0, named', wall')
    <3> SUFFICES ASSUME NEW v \in Recorders
        PROVE  Tallied(share'[v], shareEnds'[v], MadeBy(v)', 0, named, wall)
      BY <1>1
    <3>1. CASE v = w BY <1>6, <1>7, <1>8, <3>1
    <3>2. CASE v # w BY <1>2, <1>7, <1>8, <3>2 DEF TalliedInv
    <3> QED BY <3>1, <3>2
  <2> QED BY <1>1, <1>5, <2>1 DEF TalliedInv
<1> QED BY <1>9, <1>10, <1>11, <1>12 DEF CostInv

(* Time passes: keys whose TTL is over are gone.                           *)
LEMMA CostPass == ASSUME CostInv, Cost!Pass PROVE CostInv'
<1> DEFINE Left(counters, until) == [p \in Cost!Periods |->
             [b \in Cost!Buckets |-> IF until[p][b] > wall + 1 THEN counters[p][b] ELSE 0]]
<1>1. /\ wall < CostEnd /\ wall' = wall + 1
      /\ total' = Left(total, totalEnds)
      /\ share' = [w \in Recorders |-> Left(share[w], shareEnds[w])]
      /\ UNCHANGED <<totalEnds, shareEnds, named, made>>
  BY DEF Cost!Pass
<1>2. CostType /\ NamesInv /\ MadeInv /\ TalliedInv /\ wall \in Nat BY DEF CostInv, CostType
<1>3. total' \in Counters /\ Tallied(total', totalEnds, made, 1, named, wall + 1)
  BY <1>1, <1>2, TalliedLater DEF CostType, TalliedInv
<1>4. \A w \in Recorders :
        /\ share'[w] \in Counters
        /\ Tallied(share'[w], shareEnds[w], MadeBy(w), 0, named, wall + 1)
  <2> SUFFICES ASSUME NEW w \in Recorders
      PROVE  /\ share'[w] \in Counters
             /\ Tallied(share'[w], shareEnds[w], MadeBy(w), 0, named, wall + 1)
    OBVIOUS
  <2>1. share[w] \in Counters /\ shareEnds[w] \in Counters
        /\ Tallied(share[w], shareEnds[w], MadeBy(w), 0, named, wall)
    BY <1>2 DEF CostType, TalliedInv
  <2>2. share'[w] = Left(share[w], shareEnds[w]) BY <1>1
  <2> QED BY <1>2, <2>1, <2>2, TalliedLater
<1>5. share' \in [Recorders -> Counters] BY <1>1, <1>4
<1>6. CostType' BY <1>1, <1>2, <1>3, <1>5, CostAssumption DEF CostType
<1>7. NamesInv'
  <2>1. ASSUME NEW w \in Recorders, NEW j \in 1 .. Len(named[w]) PROVE named[w][j].at <= wall + 1
    <3>1. named[w] \in Seq([bucket : Nat, at : Nat]) BY <1>2 DEF CostType
    <3>2. named[w][j] \in [bucket : Nat, at : Nat] BY <3>1, ElementOfSeq
    <3>3. named[w][j].at <= wall BY <1>2 DEF NamesInv
    <3> QED BY <1>2, <3>2, <3>3
  <2> QED BY <1>1, <1>2, <2>1 DEF NamesInv
<1>8. MadeInv' BY <1>1, <1>2 DEF MadeInv
<1>9. \A w : MadeBy(w)' = MadeBy(w) BY <1>1 DEF MadeBy
<1>10. TalliedInv' BY <1>1, <1>3, <1>4, <1>9 DEF TalliedInv
<1> QED BY <1>6, <1>7, <1>8, <1>10 DEF CostInv

(* A record made within the present bucket named it, and one that named it *)
(* touches it.                                                             *)
LEMMA CostUsage == CostInv => UsageIsCurrent
<1> SUFFICES ASSUME CostInv, NEW p \in Cost!Periods
    PROVE
      LET In(t) == Cost!Bucket(p, t) = Cost!Bucket(p, wall)
          within == {r \in made : In(r.from)}
          touching == {r \in made : In(r.to)}
          Of(w, records) == {r \in records : r.by = w}
      IN
      /\ total[p][Cost!Bucket(p, wall)] \in Cardinality(within) .. Cardinality(touching)
      /\ \A w \in Recorders :
           share[w][p][Cost!Bucket(p, wall)]
             \in Cardinality(Of(w, within)) .. Cardinality(Of(w, touching))
  BY SameCardinality DEF UsageIsCurrent, Cost!UsageIsCurrent, Cost!Usage, Cost!EndpointUsage
<1> DEFINE b == Cost!Bucket(p, wall)
           In(t) == Cost!Bucket(p, t) = b
           within == {r \in made : In(r.from)}
           touching == {r \in made : In(r.to)}
           Of(w, records) == {r \in records : r.by = w}
           counted(i) == Naming(made, named, p, i, b)
<1>1. CostType /\ NamesInv /\ MadeInv /\ TalliedInv /\ wall \in Nat BY DEF CostInv, CostType
<1>2. b \in Cost!Buckets /\ b <= b
  BY <1>1, BucketOrder, CostAssumption DEF CostType, Cost!Buckets
<1>3. ASSUME NEW i \in {0, 1} PROVE within \subseteq counted(i) /\ counted(i) \subseteq touching
  <2> SUFFICES ASSUME NEW r \in made
      PROVE  /\ In(r.from) => named[r.by][2 * p - i].bucket = b
             /\ named[r.by][2 * p - i].bucket = b => In(r.to)
    BY DEF Naming
  <2> DEFINE at == named[r.by][2 * p - i].at
  <2>1. /\ r.by \in Recorders /\ Len(named[r.by]) = 2 * Len(Lengths)
        /\ r.from = named[r.by][1].at /\ r.to \in Nat /\ r.to <= wall
        /\ \A j \in 1 .. Len(named[r.by]) : named[r.by][j].at <= r.to
    BY <1>1 DEF MadeInv
  <2>2. /\ 2 * p - i \in 1 .. Len(named[r.by]) /\ at \in Nat /\ r.from \in Nat
        /\ r.from <= at /\ named[r.by][2 * p - i].bucket = Cost!Bucket(p, at)
    BY <1>1, <2>1, NamedBucket
  <2>3. at <= r.to BY <2>1, <2>2
  <2> HIDE DEF at
  <2>4. /\ Cost!Bucket(p, r.from) <= Cost!Bucket(p, at)
        /\ Cost!Bucket(p, at) <= Cost!Bucket(p, r.to)
        /\ Cost!Bucket(p, r.to) <= Cost!Bucket(p, wall)
        /\ {Cost!Bucket(p, r.from), Cost!Bucket(p, at), Cost!Bucket(p, r.to),
            Cost!Bucket(p, wall)} \subseteq Nat
    BY <1>1, <2>1, <2>2, <2>3, BucketOrder
  <2> QED BY <2>2, <2>4
<1>4. IsFiniteSet(made) BY <1>1 DEF MadeInv
<1>5. ASSUME NEW S \in SUBSET made, NEW T \in SUBSET made, NEW U \in SUBSET made,
             S \subseteq T, T \subseteq U
      PROVE  Cardinality(T) \in Cardinality(S) .. Cardinality(U)
  <2>1. IsFiniteSet(S) /\ IsFiniteSet(T) /\ IsFiniteSet(U) BY <1>4, FS_Subset
  <2>2. Cardinality(S) <= Cardinality(T) /\ Cardinality(T) <= Cardinality(U)
    BY <1>5, <2>1, FS_Subset
  <2> QED BY <2>1, <2>2, FS_CardinalityType
<1>6. total[p][b] \in Cardinality(within) .. Cardinality(touching)
  <2>1. total[p][b] = Cardinality(counted(1)) BY <1>1, <1>2 DEF TalliedInv, Tallied
  <2> HIDE DEF within, touching, counted
  <2>2. within \in SUBSET made /\ touching \in SUBSET made /\ counted(1) \in SUBSET made
    BY DEF within, touching, counted, Naming
  <2> QED BY <1>3, <1>5, <2>1, <2>2
<1>7. ASSUME NEW w \in Recorders
      PROVE  share[w][p][b] \in Cardinality(Of(w, within)) .. Cardinality(Of(w, touching))
  <2>1. share[w][p][b] = Cardinality(Naming(MadeBy(w), named, p, 0, b))
    BY <1>1, <1>2 DEF TalliedInv, Tallied
  <2>2. Naming(MadeBy(w), named, p, 0, b) = Of(w, counted(0))
    BY DEF MadeBy, Naming
  <2>3. within \subseteq counted(0) /\ counted(0) \subseteq touching BY <1>3
  <2> HIDE DEF within, touching, counted
  <2>4. Of(w, within) \subseteq Of(w, counted(0)) /\ Of(w, counted(0)) \subseteq Of(w, touching)
    BY <2>3
  <2>5. /\ Of(w, within) \in SUBSET made /\ Of(w, touching) \in SUBSET made
        /\ Of(w, counted(0)) \in SUBSET made
    BY DEF within, touching, counted, Naming
  <2> HIDE DEF Of
  <2> QED BY <1>5, <2>1, <2>2, <2>4, <2>5
<1> QED BY <1>6, <1>7

(* Every step keeps the invariant.                                         *)
LEMMA CostStep == CostInv /\ [Cost!Next]_(Cost!vars) => CostInv'
<1> SUFFICES ASSUME CostInv, [Cost!Next]_(Cost!vars) PROVE CostInv'
  OBVIOUS
<1>1. CASE UNCHANGED Cost!vars
  <2> USE <1>1 DEF Cost!vars, CostInv
  <2>1. CostType' BY DEF CostType
  <2>2. NamesInv' BY DEF NamesInv
  <2>3. MadeInv' BY DEF MadeInv
  <2>4. TalliedInv'
    <3>1. \A w : MadeBy(w)' = MadeBy(w) BY DEF MadeBy
    <3> QED BY <3>1 DEF TalliedInv
  <2> QED BY <2>1, <2>2, <2>3, <2>4
<1> QED BY <1>1, CostName, CostExecute, CostPass DEF Cost!Next

(* For any periods, any number of recorders and any pauses between the     *)
(* keys: the usage of the present period has every record made within it,  *)
(* and no TTL takes any back, for the provider and for each endpoint.      *)
THEOREM UsageCurrent == Cost!Spec => []UsageIsCurrent
BY CostInit, CostStep, CostUsage, PTL DEF Cost!Spec
-----------------------------------------------------------------------------
(* PaymentKeys.  Unless a lock was overrun or released a second time,      *)
(* whoever pays, or has paid and not stored it yet, holds the lock.        *)
PaymentType ==
  /\ lockOf \in Payers \cup {NoPayer} /\ resultOf \in Payers \cup {NoPayer}
  /\ does \in [Payers -> {"acquire", "pay", "store", "release", "finally",
                          "get_result", "done"}]
  /\ paid \subseteq Payers

Disturbed == excuses \cap {"overrun", "second release"} # {}

PayerInv ==
  \A p \in Payers : does[p] \in {"pay", "store"} => Disturbed \/ lockOf = p

(* Without any excuse there is one payment at most: its client is about to *)
(* store its result, or it is stored and nobody pays any more.             *)
PaidInv ==
  excuses = {} =>
    /\ resultOf # NoPayer => \A p \in Payers : does[p] \notin {"pay", "store"}
    /\ \A p \in paid : does[p] = "store" \/ resultOf # NoPayer
    /\ \A p, q \in paid : p = q

PaymentInv == PaymentType /\ PayerInv /\ PaidInv

(* Nobody has paid at the start, and every step keeps the invariant.       *)
LEMMA PaymentInit == Payment!Init => PaymentInv
BY DEF Payment!Init, PaymentInv, PaymentType, PayerInv, PaidInv

(* Every step keeps the invariant.                                         *)
LEMMA PaymentStep == PaymentInv /\ [Payment!Next]_(Payment!vars) => PaymentInv'
<1> SUFFICES ASSUME PaymentInv, [Payment!Next]_(Payment!vars) PROVE PaymentInv'
  OBVIOUS
<1> USE PaymentAssumption
    DEF PaymentInv, PaymentType, PayerInv, PaidInv, Disturbed, Payment!Then, Payment!Excuse
<1>1. ASSUME NEW p \in Payers, Payment!AcquireLock(p) PROVE PaymentInv'
  BY <1>1 DEF Payment!AcquireLock, Payment!LockFree
<1>2. ASSUME NEW p \in Payers, Payment!Pay(p) PROVE PaymentInv'
  BY <1>2 DEF Payment!Pay
<1>3. ASSUME NEW p \in Payers, Payment!Refused(p) PROVE PaymentInv'
  BY <1>3 DEF Payment!Refused
<1>4. ASSUME NEW p \in Payers, Payment!StoreResult(p) PROVE PaymentInv'
  BY <1>4 DEF Payment!StoreResult
<1>5. ASSUME NEW p \in Payers, Payment!StoreRaises(p) PROVE PaymentInv'
  BY <1>5 DEF Payment!StoreRaises
<1>6. ASSUME NEW p \in Payers, Payment!Release(p) PROVE PaymentInv'
  BY <1>6 DEF Payment!Release, Payment!Delete
<1>7. ASSUME NEW p \in Payers, Payment!Finally(p) PROVE PaymentInv'
  BY <1>7 DEF Payment!Finally, Payment!Delete
<1>8. ASSUME NEW p \in Payers, Payment!GetResult(p) PROVE PaymentInv'
  BY <1>8 DEF Payment!GetResult
<1>9. ASSUME NEW p \in Payers, Payment!Killed(p) PROVE PaymentInv'
  BY <1>9 DEF Payment!Killed
<1>10. CASE Payment!LockLapses BY <1>10 DEF Payment!LockLapses
<1>11. CASE Payment!ResultExpires BY <1>11 DEF Payment!ResultExpires
<1>12. CASE UNCHANGED Payment!vars BY <1>12 DEF Payment!vars
<1> QED BY <1>1, <1>2, <1>3, <1>4, <1>5, <1>6, <1>7, <1>8, <1>9, <1>10, <1>11, <1>12
        DEF Payment!Next

(* "Prevent duplicate charges": however many clients share the key of one  *)
(* payment, it goes through twice only for a listed cause, and two of them *)
(* pay at the same time only after an overrun or a second release.         *)
THEOREM OnePayment == Payment!Spec => []PaidOnce
<1>1. PaymentInv => PaidOnce
  <2> SUFFICES ASSUME PaymentInv PROVE PaidOnce OBVIOUS
  <2>1. ASSUME Cardinality(paid) > 1 PROVE excuses # {}
    BY <2>1, MoreThanOne DEF PaymentInv, PaidInv
  <2>2. ASSUME Cardinality({p \in Payers : does[p] = "pay"}) > 1 PROVE Disturbed
    BY <2>2, MoreThanOne DEF PaymentInv, PayerInv
  <2> QED BY <2>1, <2>2, SameCardinality DEF PaidOnce, Payment!PaidOnce, Disturbed
<1> QED BY <1>1, PaymentInit, PaymentStep, PTL DEF Payment!Spec
-----------------------------------------------------------------------------
(* RetryDemo.  A request that runs alone has the count to itself.          *)
RetryType ==
  /\ count \in Nat /\ failTimes \in [Demos -> Nat]
  /\ attempt \in [Demos -> 0 .. DemoRetries] /\ loaded \in [Demos -> Nat]
  /\ line \in [Demos -> {"start", "load", "store", "test", "success", "exhausted"}]

AloneInv ==
  \A d \in Demos :
    /\ line[d] = "start" => attempt[d] = 0
    /\ d \notin mixed =>
         /\ line[d] \in {"load", "store", "test"} =>
              /\ \A e \in Demos : line[e] \in {"load", "store", "test"} => e = d
              /\ attempt[d] <= failTimes[d]
         /\ line[d] = "load" => count = attempt[d]
         /\ line[d] = "store" => loaded[d] = attempt[d]
         /\ line[d] = "test" => count = attempt[d] + 1

RetryInv == RetryType /\ AloneInv /\ DemoIsTrue

(* No request has started, and every step keeps the invariant.             *)
LEMMA RetryInit == Retry!Init => RetryInv
BY RetryAssumption
   DEF Retry!Init, RetryInv, RetryType, AloneInv, DemoIsTrue, Retry!DemoIsTrue

(* Every step keeps the invariant.                                         *)
LEMMA RetryStep == RetryInv /\ [Retry!Next]_(Retry!vars) => RetryInv'
<1> SUFFICES ASSUME RetryInv, [Retry!Next]_(Retry!vars) PROVE RetryInv'
  OBVIOUS
<1> USE RetryAssumption
    DEF RetryInv, RetryType, AloneInv, DemoIsTrue, Retry!DemoIsTrue, Retry!At
<1>1. ASSUME NEW d \in Demos, Retry!Start(d) PROVE RetryInv'
  BY <1>1 DEF Retry!Start, Retry!ZeroCount, Retry!Running
<1>2. ASSUME NEW d \in Demos, Retry!LoadCount(d) PROVE RetryInv'
  BY <1>2 DEF Retry!LoadCount
<1>3. ASSUME NEW d \in Demos, Retry!StoreCount(d) PROVE RetryInv'
  BY <1>3 DEF Retry!StoreCount
<1>4. ASSUME NEW d \in Demos, Retry!Returns(d) PROVE RetryInv'
  BY <1>4 DEF Retry!Returns
<1>5. ASSUME NEW d \in Demos, Retry!Raises(d) PROVE RetryInv'
  BY <1>5 DEF Retry!Raises
<1>6. CASE UNCHANGED Retry!vars BY <1>6 DEF Retry!vars
<1> QED BY <1>1, <1>2, <1>3, <1>4, <1>5, <1>6 DEF Retry!Next

(* "Max retries is 3, so fail_times <= 3 will succeed", for any number of  *)
(* retries: of a request that ran alone that is so, and more will not.     *)
THEOREM DemoTrue == Retry!Spec => []DemoIsTrue
BY RetryInit, RetryStep, PTL DEF Retry!Spec, RetryInv
-----------------------------------------------------------------------------
(* ReplicaRouter.  Until somebody takes its mark away, a replica that has  *)
(* failed is marked with the time of its last failure.                     *)
RouterType ==
  /\ monotonic \in Nat
  /\ downAt \in [Replicas -> Nat \cup {Router!Up}]
  /\ failedAt \in [Replicas -> Nat \cup {Router!Up}]
  /\ doing \in [Readers -> {"scan", "recover", "broken", "select", "read", "done",
                            "failed"}]
  /\ looked \in [Readers -> Nat]
  /\ stale \in [Readers -> SUBSET Replicas]
  /\ pool \in [Readers -> SUBSET Replicas] /\ tried \in [Readers -> SUBSET Replicas]
  /\ chosen \in [Readers -> Replicas \cup {NoReplica}]
  /\ pardoned \subseteq Replicas

MarkInv ==
  /\ \A r \in Replicas :
       /\ downAt[r] <= monotonic
       /\ downAt[r] # Router!Up => downAt[r] = failedAt[r]
       /\ downAt[r] = Router!Up => r \in pardoned \/ Router!CoolAt(r, monotonic)
  /\ \A c \in Readers :
       /\ looked[c] <= monotonic
       /\ doing[c] = "select" => pool[c] # {}
       /\ doing[c] = "read" => chosen[c] \in Replicas

(* What a caller is about to delete had cooled when it looked, unless the  *)
(* mark is a later one; and what had cooled by then is up, or marked anew, *)
(* or among those that it is about to delete.                              *)
StaleInv ==
  \A c \in Readers, r \in Replicas :
    /\ r \in stale[c] =>
         downAt[r] = Router!Up \/ downAt[r] >= looked[c] \/ looked[c] - downAt[r] >= Cooldown
    /\ doing[c] = "recover" =>
         downAt[r] = Router!Up \/ looked[c] - downAt[r] < Cooldown \/ r \in stale[c]
    /\ doing[c] # "recover" => stale[c] = {}

RouterInv == RouterType /\ MarkInv /\ StaleInv

(* Nothing is marked at the start, and every step keeps the invariant.     *)
LEMMA RouterInit == Router!Init => RouterInv
BY RouterAssumption
   DEF Router!Init, RouterInv, RouterType, MarkInv, StaleInv, Router!Up, Router!None,
       Router!CoolAt

(* Every step keeps the invariant.                                         *)
LEMMA RouterStep == RouterInv /\ [Router!Next]_(Router!vars) => RouterInv'
<1> SUFFICES ASSUME RouterInv, [Router!Next]_(Router!vars) PROVE RouterInv'
  OBVIOUS
<1> USE RouterAssumption
    DEF RouterInv, RouterType, MarkInv, StaleInv, Router!Up, Router!CoolAt, Router!Does
<1>1. ASSUME NEW c \in Readers, Router!Scan(c) PROVE RouterInv'
  BY <1>1 DEF Router!Scan, Router!Cooled
<1>2. ASSUME NEW c \in Readers, Router!ScanRaises(c) PROVE RouterInv'
  BY <1>2 DEF Router!ScanRaises
<1>3. ASSUME NEW c \in Readers, Router!Recover(c) PROVE RouterInv'
  BY <1>3 DEF Router!Recover
<1>4. ASSUME NEW c \in Readers, Router!Pool(c) PROVE RouterInv'
  BY <1>4 DEF Router!Pool
<1>5. ASSUME NEW c \in Readers, Router!Select(c) PROVE RouterInv'
  BY <1>5 DEF Router!Select
<1>6. ASSUME NEW c \in Readers, Router!Return(c) PROVE RouterInv'
  BY <1>6 DEF Router!Return, Router!Forget
<1>7. ASSUME NEW c \in Readers, Router!Failover(c) PROVE RouterInv'
  BY <1>7 DEF Router!Failover, Router!MarkDown
<1>8. ASSUME NEW r \in Replicas, Router!MarkedDown(r) PROVE RouterInv'
  BY <1>8 DEF Router!MarkedDown, Router!MarkDown
<1>9. ASSUME NEW r \in Replicas, Router!MarkUp(r) PROVE RouterInv'
  BY <1>9 DEF Router!MarkUp
<1>10. CASE Router!Elapse BY <1>10 DEF Router!Elapse
<1>11. CASE UNCHANGED Router!vars BY <1>11 DEF Router!vars
<1> QED BY <1>1, <1>2, <1>3, <1>4, <1>5, <1>6, <1>7, <1>8, <1>9, <1>10, <1>11
        DEF Router!Next

(* "Skips replicas marked unhealthy, and auto-recovers them after a        *)
(* cooldown", however many threads share the marks: nobody may choose a    *)
(* replica that has just failed, and nobody gives up before all are tried  *)
(* or have just failed.  It is a property of the step from "recover" on.   *)
THEOREM RoutedByHealth == Router!Spec => RoutesByHealth
<1>1. ASSUME RouterInv, [Router!Next]_(Router!vars), NEW c \in Readers, doing[c] = "recover"
      PROVE  /\ doing'[c] = "select" =>
                  \A r \in pool'[c] : r \in pardoned \/ Router!CoolAt(r, monotonic)
             /\ doing'[c] = "failed" =>
                  \A r \in Replicas \ tried[c] : ~Router!CoolAt(r, looked[c])
  <2> USE RouterAssumption
      DEF RouterInv, RouterType, MarkInv, StaleInv, Router!Up, Router!CoolAt, Router!Does
  <2>1. CASE Router!Pool(c) BY <1>1, <2>1 DEF Router!Pool
  <2>2. CASE ~Router!Pool(c)
    <3>1. doing'[c] \notin {"select", "failed"}
      BY <1>1, <2>2 DEF Router!Next, Router!vars, Router!Scan, Router!ScanRaises,
         Router!Recover, Router!Pool, Router!Select, Router!Return, Router!Failover,
         Router!MarkedDown, Router!MarkUp, Router!Elapse
    <3> QED BY <3>1
  <2> QED BY <2>1, <2>2
<1>2. RouterInv /\ [Router!Next]_(Router!vars) =>
        [\A c \in Readers : doing[c] = "recover" =>
           /\ doing'[c] = "select" =>
                \A r \in pool'[c] : r \in pardoned \/ Router!CoolAt(r, monotonic)
           /\ doing'[c] = "failed" =>
                \A r \in Replicas \ tried[c] : ~Router!CoolAt(r, looked[c])]_(Router!vars)
  BY <1>1
<1> QED BY <1>2, RouterInit, RouterStep, PTL
        DEF Router!Spec, RoutesByHealth, Router!RoutesByHealth
-----------------------------------------------------------------------------
(* KeysetPaginator.                                                        *)
PagesType ==
  /\ keyOf \in [Rows -> Keys] /\ table \subseteq Rows /\ stayed \subseteq table
  /\ cursor \in Nat /\ seen \in [Rows -> {0, 1}] /\ over \in BOOLEAN

(* Only rows up to the cursor have been yielded, so that no later page has *)
(* them again.                                                             *)
PagesInv ==
  /\ PagesType /\ EachRowOnce
  /\ ~over => \A r \in Rows : seen[r] = 1 => keyOf[r] <= cursor

(* The table is any, and nothing has been yielded.                         *)
LEMMA PagesInit == Pages!Init => PagesInv
<1> SUFFICES ASSUME Pages!Init PROVE PagesInv
  OBVIOUS
<1> USE DEF Pages!Init
<1>1. /\ PagesType /\ ~over /\ stayed \subseteq Rows
      /\ \A r \in Rows : seen[r] = 0 /\ keyOf[r] \in Nat \ {0}
  BY PagesAssumption DEF PagesType
<1>2. \A r \in Rows : ~ (keyOf[r] <= cursor) BY <1>1
<1> QED BY <1>1, <1>2 DEF PagesInv, EachRowOnce, Pages!EachRowOnce

(* The last key of a page is a key of it, and none is greater.             *)
LEMMA LastOfPage ==
  ASSUME PagesType, NEW rows \in SUBSET Rows, rows # {}
  PROVE  /\ \E s \in rows : keyOf[s] = Pages!LastKey(rows)
         /\ \A s \in rows : keyOf[s] <= Pages!LastKey(rows)
<1> DEFINE Key(s) == keyOf[s]
           K == {Key(s) : s \in rows}
<1>1. IsFiniteSet(rows) BY PagesAssumption, FS_Subset
<1>2. IsFiniteSet(K)
  <2>1. [s \in rows |-> keyOf[s]] \in Surjection(rows, K) BY DEF Surjection
  <2> QED BY <1>1, <2>1, FS_Surjection
<1>3. K \in SUBSET Nat /\ K # {} BY PagesAssumption DEF PagesType
<1>4. \E k \in K : \A n \in K : n <= k BY <1>2, <1>3, Greatest
<1>5. \E k \in {keyOf[s] : s \in rows} : \A s \in rows : keyOf[s] <= k BY <1>4
<1>6. /\ Pages!LastKey(rows) \in {keyOf[s] : s \in rows}
      /\ \A s \in rows : keyOf[s] <= Pages!LastKey(rows)
  BY <1>5 DEF Pages!LastKey
<1> QED BY <1>6

(* A page.  A row it leaves behind has the key of its last row; and if it  *)
(* is not followed by another it has all rows after the cursor.            *)
LEMMA PagesPage == ASSUME PagesInv, Pages!Page PROVE PagesInv'
<1> DEFINE After == {r \in table : keyOf[r] > cursor}
<1> USE PagesAssumption DEF PagesInv, PagesType
<1>1. PICK rows \in Pages!Fetch(PageSize + 1) : \E items \in Pages!First(PageSize, rows) :
        /\ seen' = [r \in Rows |-> IF r \in items THEN seen[r] + 1 ELSE seen[r]]
        /\ over' = (items = rows)
        /\ cursor' = IF items = rows THEN cursor ELSE Pages!NextCursor(rows, items)
        /\ ends' = ends \cup {cursor'}
  BY DEF Pages!Page
<1>2. PICK items \in Pages!First(PageSize, rows) :
        /\ seen' = [r \in Rows |-> IF r \in items THEN seen[r] + 1 ELSE seen[r]]
        /\ over' = (items = rows)
        /\ cursor' = IF items = rows THEN cursor ELSE Pages!NextCursor(rows, items)
        /\ ends' = ends \cup {cursor'}
  BY <1>1
<1>3. ~over /\ UNCHANGED <<keyOf, table, stayed>> BY DEF Pages!Page
<1>4. /\ rows \subseteq After /\ items \subseteq rows
      /\ rows = After \/ Cardinality(rows) = PageSize + 1
      /\ items = rows \/ Cardinality(items) = PageSize
      /\ Cardinality(items) <= PageSize
      /\ \A s \in rows, q \in After \ rows : keyOf[s] <= keyOf[q]
      /\ \A s \in items, q \in rows \ items : keyOf[s] <= keyOf[q]
  BY SameCardinality DEF Pages!Fetch, Pages!First
<1>5. /\ cursor \in Nat /\ \A r \in Rows : keyOf[r] \in Nat
      /\ table \subseteq Rows /\ stayed \subseteq table
      /\ \A r \in Rows : seen[r] \in {0, 1}
      /\ \A r \in Rows : seen[r] = 1 => keyOf[r] <= cursor
  BY <1>3
<1>6. \A r \in items : seen[r] = 0 BY <1>4, <1>5
<1>7. /\ seen' \in [Rows -> {0, 1}] /\ \A r \in items : seen'[r] = 1
      /\ \A r \in Rows \ items : seen'[r] = seen[r]
  BY <1>2, <1>4, <1>6
<1>8. CASE items = rows
  <2>1. items = After BY <1>4, <1>8
  <2>2. over' = TRUE /\ cursor' = cursor BY <1>2, <1>8
  <2>3. \A r \in stayed : seen'[r] = 1 \/ keyOf[r] <= cursor BY <1>7, <1>5, <2>1
  <2>4. PagesType' BY <1>3, <1>7, <2>2
  <2> QED BY <1>2, <1>3, <1>7, <2>2, <2>3, <2>4 DEF EachRowOnce, Pages!EachRowOnce
<1>9. CASE items # rows
  <2>1. items # {}
    BY <1>4, <1>9, FS_EmptySet
  <2>2. cursor' = Pages!LastKey(items) /\ over' = FALSE
    BY <1>2, <1>9 DEF Pages!NextCursor
  <2>3. PICK s \in items : keyOf[s] = cursor' BY <1>4, <2>1, <2>2, LastOfPage
  <2>4. \A r \in items : keyOf[r] <= cursor' BY <1>4, <2>1, <2>2, LastOfPage
  <2>5. cursor' \in Nat /\ cursor < cursor' BY <1>4, <2>3
  <2>6. PagesType' BY <1>3, <1>7, <2>2, <2>5
  <2>7. \A r \in Rows : seen'[r] = 1 => keyOf[r] <= cursor'
    BY <1>5, <1>7, <2>4, <2>5
  <2>8. ASSUME NEW r \in stayed, keyOf[r] <= cursor'
        PROVE  \/ seen'[r] = 1
               \/ keyOf[r] \in ends' /\ \E q \in Rows : seen'[q] = 1 /\ keyOf[q] = keyOf[r]
    <3>1. CASE keyOf[r] <= cursor
      <4>1. \A q \in Rows : keyOf[q] <= cursor => q \notin items BY <1>4, <1>5
      <4> QED BY <1>2, <1>3, <1>7, <3>1, <4>1 DEF EachRowOnce, Pages!EachRowOnce
    <3>2. CASE keyOf[r] > cursor
      <4>1. r \in After BY <3>2
      <4>2. CASE r \in items BY <1>7, <4>2
      <4>3. CASE r \notin items
        <5>1. keyOf[s] <= keyOf[r] BY <1>4, <4>1, <4>3
        <5>2. keyOf[r] = cursor' BY <1>4, <1>5, <2>3, <2>5, <2>8, <5>1
        <5> QED BY <1>2, <1>4, <1>7, <2>3, <5>2
      <4> QED BY <4>2, <4>3
    <3> QED BY <1>5, <3>1, <3>2
  <2> QED BY <1>3, <1>7, <2>2, <2>6, <2>7, <2>8 DEF EachRowOnce, Pages!EachRowOnce
<1> QED BY <1>8, <1>9

(* Every step keeps the invariant.                                         *)
LEMMA PagesStep == PagesInv /\ [Pages!Next]_(Pages!vars) => PagesInv'
<1> SUFFICES ASSUME PagesInv, [Pages!Next]_(Pages!vars) PROVE PagesInv'
  OBVIOUS
<1>1. CASE Pages!Page BY <1>1, PagesPage
<1> USE DEF PagesInv, PagesType, EachRowOnce, Pages!EachRowOnce
<1>2. ASSUME NEW r \in Rows, Pages!Insert(r) PROVE PagesInv' BY <1>2 DEF Pages!Insert
<1>3. ASSUME NEW r \in Rows, Pages!Delete(r) PROVE PagesInv' BY <1>3 DEF Pages!Delete
<1>4. CASE UNCHANGED Pages!vars BY <1>4 DEF Pages!vars
<1> QED BY <1>1, <1>2, <1>3, <1>4 DEF Pages!Next

(* "Yield every row across all pages", for any table, page size and keys,  *)
(* and any insertions and deletions on the way: no row comes twice, and    *)
(* one that stays is left out only beside a row of its key at a page's end.*)
THEOREM RowsOnce == Pages!Spec => []EachRowOnce
BY PagesInit, PagesStep, PTL DEF Pages!Spec, PagesInv
-----------------------------------------------------------------------------
(* CaptionJob.  The record, and every copy of it, has a result if it says  *)
(* completed.                                                              *)
Reported == {"pending", "processing", "completed", "failed"}
Record == [status : Reported, result : Backends \cup {NoResult}, error : BOOLEAN]

CaptionType ==
  /\ job \subseteq Record /\ \A x, y \in job : x = y
  /\ copy \in [Backends -> Record]
  /\ report \in [Backends -> [status : {"processing", "completed", "failed", "none"},
                              read : BOOLEAN]]
  /\ client \in {"polls", "fetches", "refused", "broken", "has result"}
  /\ taken \subseteq Backends /\ IsFiniteSet(taken)
  /\ crossed \in BOOLEAN /\ expired \in BOOLEAN
  /\ job = {} => expired

ResultInv ==
  /\ \A record \in job :
       /\ record.status = "completed" => record.result # NoResult
       /\ record.status = "failed" => record.error
  /\ \A w \in Backends : report[w].status = "none" => ~report[w].read
  /\ client # "broken"

(* Whoever completed the job has no more to report: it takes a second      *)
(* worker to take the completion back.                                     *)
CompletedInv ==
  /\ \A record \in job : record.status = "completed" =>
       \E w \in taken : report[w].status = "none"
  /\ client = "fetches" =>
       \/ expired \/ Cardinality(taken) > 1
       \/ \A record \in job : record.status = "completed"
  /\ client = "refused" => expired \/ Cardinality(taken) > 1

KeptInv ==
  ~crossed => \A record \in job : stored # {} => record.result \in stored

CaptionInv == CaptionType /\ ResultInv /\ CompletedInv /\ KeptInv

(* The submitted job is pending.                                           *)
LEMMA CaptionInit == Caption!Init => CaptionInv
<1> SUFFICES ASSUME Caption!Init PROVE CaptionInv
  OBVIOUS
<1> USE CaptionAssumption DEF Caption!Init, Record, Reported
<1>1. Caption!Pending \in Record /\ Caption!Pending.status = "pending"
  BY DEF Caption!Pending
<1>2. CaptionType BY <1>1, FS_EmptySet DEF CaptionType
<1>3. ResultInv /\ CompletedInv /\ KeptInv BY <1>1 DEF ResultInv, CompletedInv, KeptInv
<1> QED BY <1>2, <1>3 DEF CaptionInv

(* A write by a worker that is not the only one so far.                    *)
LEMMA TakenGrows ==
  ASSUME IsFiniteSet(taken), NEW w, taken' = taken \cup {w}
  PROVE  /\ IsFiniteSet(taken')
         /\ Cardinality(taken) > 1 => Cardinality(taken') > 1
         /\ \A v \in taken : v # w => Cardinality(taken') > 1
<1>1. Cardinality(taken) \in Nat BY FS_CardinalityType
<1>2. IsFiniteSet(taken') /\ Cardinality(taken') \in {Cardinality(taken), Cardinality(taken) + 1}
  BY FS_AddElement
<1>3. ASSUME NEW v \in taken, v # w PROVE Cardinality(taken') > 1
  <2>1. Cardinality(taken') # 0 BY <1>2, <1>3, FS_EmptySet
  <2>2. Cardinality(taken') # 1
    <3>1. ASSUME Cardinality(taken') = 1 PROVE FALSE
      <4>1. PICK x : taken' = {x} BY <1>2, <3>1, FS_Singleton
      <4> QED BY <1>3, <4>1
    <3> QED BY <3>1
  <2> QED BY <1>1, <1>2, <2>1, <2>2
<1>4. Cardinality(taken) > 1 => Cardinality(taken') > 1 BY <1>1, <1>2
<1> QED BY <1>2, <1>3, <1>4

(* A worker writes back the copy it has changed, over whatever was written *)
(* since it took the copy.                                                 *)
LEMMA CaptionWrite ==
  ASSUME CaptionInv, NEW w \in Backends, Caption!Write(w)
  PROVE  CaptionInv'
<1> USE CaptionAssumption DEF CaptionInv, CaptionType, Record, Reported, Caption!Changed
<1>1. /\ report[w].read /\ report[w].status \in {"processing", "completed", "failed"}
      /\ job' = {Caption!Changed(w)} /\ Caption!Changed(w) \in Record
      /\ taken' = taken \cup {w} /\ UNCHANGED <<copy, client, expired>>
  BY DEF Caption!Write, ResultInv
<1>2. /\ \A v \in Backends : v # w => report'[v] = report[v]
      /\ ~report'[w].read
      /\ report[w].status # "processing" => report'[w].status = "none"
      /\ report'[w].status \in {"completed", "failed", "none"}
      /\ report' \in [Backends -> [status : {"processing", "completed", "failed", "none"},
                                   read : BOOLEAN]]
  <2>1. PICK next \in IF report[w].status = "processing"
                        THEN {"completed", "failed", "none"} ELSE {"none"} :
             report' = [report EXCEPT ![w] = [status |-> next, read |-> FALSE]]
    BY DEF Caption!Write, Caption!Reports
  <2> QED BY <2>1
<1>3. CaptionType' BY <1>1, <1>2, TakenGrows DEF Caption!Write
<1>4. ResultInv'
  <2>1. /\ Caption!Changed(w).status = "completed" => Caption!Changed(w).result # NoResult
        /\ Caption!Changed(w).status = "failed" => Caption!Changed(w).error
    BY <1>1
  <2>2. \A v \in Backends : report'[v].status = "none" => ~report'[v].read
    BY <1>1, <1>2 DEF ResultInv
  <2> HIDE DEF Caption!Changed
  <2> QED BY <1>1, <2>1, <2>2 DEF ResultInv
<1>5. CompletedInv'
  <2>1. ASSUME client = "fetches", ~expired, ~(Cardinality(taken') > 1)
        PROVE  FALSE
    <3>1. \A record \in job : record.status = "completed"
      BY <1>1, <2>1, TakenGrows DEF CompletedInv
    <3>2. PICK v \in taken : report[v].status = "none"
      BY <2>1, <3>1 DEF CompletedInv
    <3>3. v # w BY <1>1, <3>2
    <3> QED BY <1>1, <2>1, <3>2, <3>3, TakenGrows
  <2>2. client = "refused" => expired \/ Cardinality(taken') > 1
    BY <1>1, TakenGrows DEF CompletedInv
  <2>3. Caption!Changed(w).status = "completed" => report'[w].status = "none" /\ w \in taken'
    BY <1>1, <1>2
  <2> QED BY <1>1, <2>1, <2>2, <2>3 DEF CompletedInv
<1>6. KeptInv'
  <2>1. stored' = IF report[w].status = "completed" THEN stored \cup {w} ELSE stored
    BY DEF Caption!Write
  <2>2. ~crossed' => ~crossed /\ job = {copy[w]} BY DEF Caption!Write
  <2>3. CASE report[w].status = "completed"
    <3>1. stored' = stored \cup {w} /\ Caption!Changed(w).result = w BY <2>1, <2>3
    <3> QED BY <1>1, <3>1 DEF KeptInv
  <2>4. CASE report[w].status # "completed"
    <3>1. stored' = stored /\ Caption!Changed(w).result = copy[w].result BY <2>1, <2>4
    <3> QED BY <1>1, <2>2, <3>1 DEF KeptInv
  <2> QED BY <2>3, <2>4
<1> QED BY <1>3, <1>4, <1>5, <1>6

(* Every step keeps the invariant.                                         *)
LEMMA CaptionStep == CaptionInv /\ [Caption!Next]_(Caption!vars) => CaptionInv'
<1> SUFFICES ASSUME CaptionInv, [Caption!Next]_(Caption!vars) PROVE CaptionInv'
  OBVIOUS
<1>1. ASSUME NEW w \in Backends, Caption!Write(w) PROVE CaptionInv'
  BY <1>1, CaptionWrite
<1> USE CaptionAssumption
    DEF CaptionInv, CaptionType, ResultInv, CompletedInv, KeptInv, Record, Reported
<1>2. ASSUME NEW w \in Backends, Caption!Read(w) PROVE CaptionInv'
  <2>1. /\ UNCHANGED <<job, client, taken, stored, crossed, expired>>
        /\ copy' \in [Backends -> Record]
        /\ report' \in [Backends -> [status : {"processing", "completed", "failed", "none"},
                                     read : BOOLEAN]]
        /\ \A v \in Backends : report[v].status = "none" => report'[v] = report[v]
        /\ \A v \in Backends : report'[v].status = "none" =>
             ~report'[v].read
    <3>1. CASE job = {}
      <4>1. /\ report' = [report EXCEPT ![w] = [status |-> "none", read |-> FALSE]]
            /\ report[w].status # "none" /\ copy' = copy
        BY <1>2, <3>1 DEF Caption!Read, Caption!Reports
      <4> QED BY <1>2, <4>1 DEF Caption!Read
    <3>2. CASE job # {}
      <4>1. PICK record \in job :
              /\ copy' = [copy EXCEPT ![w] = record] /\ report[w].status # "none"
              /\ report' = [report EXCEPT ![w] = [status |-> report[w].status, read |-> TRUE]]
        BY <1>2, <3>2 DEF Caption!Read, Caption!Reports
      <4> QED BY <1>2, <4>1 DEF Caption!Read
    <3> QED BY <3>1, <3>2
  <2> QED BY <2>1
<1>3. CASE Caption!Poll BY <1>3 DEF Caption!Poll
<1>4. CASE Caption!GetResult BY <1>4 DEF Caption!GetResult
<1>5. CASE Caption!Expire BY <1>5 DEF Caption!Expire
<1>6. CASE UNCHANGED Caption!vars BY <1>6 DEF Caption!vars
<1> QED BY <1>1, <1>2, <1>3, <1>4, <1>5, <1>6 DEF Caption!Next

(* For any number of workers: a job polled as completed has its result to  *)
(* fetch, but for the TTL or a second worker's report, and no report takes *)
(* a result or an error away, but for updates that cross.                  *)
THEOREM PolledFetched == Caption!Spec => []PolledIsFetched
<1>1. CaptionInv => PolledIsFetched
  BY SameCardinality
     DEF CaptionInv, ResultInv, CompletedInv, KeptInv, PolledIsFetched,
         Caption!PolledIsFetched
<1> QED BY <1>1, CaptionInit, CaptionStep, PTL DEF Caption!Spec
-----------------------------------------------------------------------------
(* GCSAdapter.  Parts of one length do not overlap.                        *)
LEMMA Apart ==
  ASSUME NEW size \in Nat, NEW m \in Nat, NEW n \in Nat, m < n
  PROVE  m * size + size <= n * size
<1>1. PICK k \in Nat : n = m + 1 + k BY SMT
<1>2. n * size = m * size + size + k * size BY <1>1, SMT
<1>3. k * size \in Nat BY SMT
<1> QED BY <1>2, <1>3, SMT

(* No byte of one is in the other.                                         *)
LEMMA Disjoint ==
  ASSUME NEW size \in Nat, NEW m \in Nat, NEW n \in Nat, m # n,
         NEW i \in 0 .. size - 1
  PROVE  m * size + i \notin n * size .. n * size + size - 1
<1>1. PICK x \in Nat : x = m * size BY SMT
<1>2. PICK y \in Nat : y = n * size BY SMT
<1>3. x + size <= y \/ y + size <= x BY <1>1, <1>2, Apart
<1>4. x + i \notin y .. y + size - 1 BY <1>3, SMT
<1> QED BY <1>1, <1>2, <1>4

GCSType ==
  /\ lastSize \in 1 .. PartSize
  /\ session \in {"none", "open", "gone"}
  /\ flight \subseteq 1 .. Parts /\ acked \subseteq 1 .. Parts
  /\ bytes \in [0 .. (Parts + 1) * PartSize -> 0 .. Parts]

GCSInv == GCSType /\ PartsInPlace

(* Nothing is acknowledged at the start.                                   *)
LEMMA GCSInit == GCS!Init => GCSInv
BY GCSAssumption DEF GCS!Init, GCSInv, GCSType, PartsInPlace, GCS!PartsInPlace

(* A part that lands puts its bytes in its own place, if it is as long as  *)
(* all others, and leaves the places of the others alone; the shorter last *)
(* one puts them where the property says.                                  *)
LEMMA GCSLand == ASSUME GCSInv, NEW n \in 1 .. Parts, GCS!Land(n) PROVE GCSInv'
<1> DEFINE Place(m, i) == (m - 1) * PartSize + i
<1> USE GCSAssumption DEF GCSInv, GCSType, GCS!Length
<1>1. ASSUME NEW m \in 1 .. Parts, NEW i \in 0 .. PartSize - 1
      PROVE  Place(m, i) \in 0 .. (Parts + 1) * PartSize
  <2>1. (m - 1) * PartSize + PartSize <= Parts * PartSize BY Apart
  <2>2. (Parts + 1) * PartSize = Parts * PartSize + PartSize BY SMT
  <2>3. (m - 1) * PartSize \in Nat BY SMT
  <2>4. Parts * PartSize \in Nat BY SMT
  <2> HIDE DEF GCSInv, GCSType
  <2> QED BY <2>1, <2>2, <2>3, <2>4
<1>2. GCSType' BY DEF GCS!Land
<1>3. ASSUME NEW m \in acked', NEW i \in 0 .. GCS!Length(m) - 1
      PROVE  \/ bytes'[Place(m, i)] = m
             \/ /\ lastSize < PartSize
                /\ m = Parts \/ Place(m, i) \in (Parts - 1) * lastSize .. Parts * lastSize - 1
  <2>1. m \in 1 .. Parts /\ i \in 0 .. PartSize - 1 BY <1>3 DEF GCS!Land
  <2>2. Place(m, i) \in DOMAIN bytes BY <1>1, <2>1
  <2>3. CASE GCS!Length(n) = PartSize
    <3>1. ASSUME NEW b \in DOMAIN bytes
          PROVE  bytes'[b] = IF b \in (n - 1) * PartSize .. (n - 1) * PartSize + PartSize - 1
                               THEN n ELSE bytes[b]
      BY <2>3, <3>1 DEF GCS!Land, GCS!Offset
    <3>2. CASE m = n
      <4>1. Place(m, i) \in (n - 1) * PartSize .. (n - 1) * PartSize + PartSize - 1
        BY <2>1, <3>2
      <4> QED BY <2>2, <3>1, <3>2, <4>1
    <3>3. CASE m # n
      <4>1. Place(m, i) \notin (n - 1) * PartSize .. (n - 1) * PartSize + PartSize - 1
        <5>1. m - 1 # n - 1 /\ m - 1 \in Nat /\ n - 1 \in Nat BY <2>1, <3>3
        <5> QED BY <2>1, <5>1, Disjoint
      <4>2. m \in acked BY <1>3, <3>3 DEF GCS!Land
      <4> QED BY <1>3, <2>2, <3>1, <4>1, <4>2 DEF PartsInPlace, GCS!PartsInPlace
    <3> QED BY <3>2, <3>3
  <2>4. CASE GCS!Length(n) # PartSize
    <3>1. n = Parts /\ lastSize < PartSize BY <2>4
    <3>2. CASE m = n BY <3>1, <3>2
    <3>3. CASE m # n
      <4>1. m \in acked BY <1>3, <3>3 DEF GCS!Land
      <4>2. bytes'[Place(m, i)] = bytes[Place(m, i)]
            \/ Place(m, i) \in (Parts - 1) * lastSize .. (Parts - 1) * lastSize + lastSize - 1
        BY <2>2, <3>1 DEF GCS!Land, GCS!Offset
      <4>3. (Parts - 1) * lastSize + lastSize = Parts * lastSize BY SMT
      <4>4. \/ bytes[Place(m, i)] = m
            \/ m = Parts \/ Place(m, i) \in (Parts - 1) * lastSize .. Parts * lastSize - 1
        BY <1>3, <4>1 DEF PartsInPlace, GCS!PartsInPlace
      <4> QED BY <3>1, <4>2, <4>3, <4>4
    <3> QED BY <3>2, <3>3
  <2> QED BY <2>3, <2>4
<1>4. lastSize' = lastSize BY DEF GCS!Land
<1> QED BY <1>2, <1>3, <1>4 DEF PartsInPlace, GCS!PartsInPlace

(* Every step keeps the invariant.                                         *)
LEMMA GCSStep == GCSInv /\ [GCS!Next]_(GCS!vars) => GCSInv'
<1> SUFFICES ASSUME GCSInv, [GCS!Next]_(GCS!vars) PROVE GCSInv'
  OBVIOUS
<1>1. ASSUME NEW n \in 1 .. Parts, GCS!Land(n) PROVE GCSInv' BY <1>1, GCSLand
<1> USE DEF GCSInv, GCSType, PartsInPlace, GCS!PartsInPlace, GCS!Length
<1>2. CASE GCS!Initiate BY <1>2 DEF GCS!Initiate
<1>3. CASE GCS!Abort BY <1>3 DEF GCS!Abort
<1>4. ASSUME NEW n \in 1 .. Parts, GCS!Send(n) PROVE GCSInv' BY <1>4 DEF GCS!Send
<1>5. ASSUME NEW n \in 1 .. Parts, GCS!Fail(n) PROVE GCSInv' BY <1>5 DEF GCS!Fail
<1>6. CASE UNCHANGED GCS!vars BY <1>6 DEF GCS!vars
<1> QED BY <1>1, <1>2, <1>3, <1>4, <1>5, <1>6 DEF GCS!Next

(* For any number of parts of any size, sent in any order and again: the   *)
(* parts that were acknowledged are in their places, but for the damage    *)
(* that a shorter last part does.                                          *)
THEOREM PartsPlaced == GCS!Spec => []PartsInPlace
BY GCSInit, GCSStep, PTL DEF GCS!Spec, GCSInv
-----------------------------------------------------------------------------
(* BudgetEnforcer.  A total is the value at its set of stamps of a function*)
(* defined by recursion on sets, and such a function exists: one that is   *)
(* right for sets of up to k stamps gives one that is right for k + 1.     *)
SumStep(list, S, f) ==
  [s \in SUBSET S |-> IF s = {} THEN 0 ELSE list[Some(s)] + f[s \ {Some(s)}]]

(* The function exists for every finite set.                               *)
LEMMA SumExists ==
  ASSUME NEW S, IsFiniteSet(S), NEW list
  PROVE  \E f : f = SumStep(list, S, f)
<1> DEFINE Right(f, k) ==
             \A s \in SUBSET S : Cardinality(s) <= k => f[s] = SumStep(list, S, f)[s]
           K == {k \in 0 .. Cardinality(S) : \E f : Right(f, k)}
<1>1. /\ Cardinality(S) \in Nat
      /\ \A s \in SUBSET S :
           IsFiniteSet(s) /\ Cardinality(s) \in Nat /\ Cardinality(s) <= Cardinality(S)
  BY FS_Subset, FS_CardinalityType
<1>2. \A s \in SUBSET S : s # {} =>
        s \ {Some(s)} \in SUBSET S /\ Cardinality(s \ {Some(s)}) = Cardinality(s) - 1
  BY <1>1, SomeIn, FS_RemoveElement
<1>3. \A s \in SUBSET S : Cardinality(s) <= 0 => s = {}
  BY <1>1, FS_EmptySet
<1>4. 0 \in K
  <2>1. Right([s \in SUBSET S |-> 0], 0) BY <1>3 DEF SumStep
  <2> QED BY <1>1, <2>1
<1>5. ASSUME NEW k \in Nat, NEW f, Right(f, k) PROVE Right(SumStep(list, S, f), k + 1)
  <2> DEFINE g == SumStep(list, S, f)
  <2> SUFFICES ASSUME NEW s \in SUBSET S, Cardinality(s) <= k + 1
      PROVE  g[s] = SumStep(list, S, g)[s]
    OBVIOUS
  <2>1. CASE s = {} BY <2>1 DEF SumStep
  <2>2. CASE s # {}
    <3> DEFINE t == s \ {Some(s)}
    <3>1. t \in SUBSET S /\ Cardinality(t) <= k BY <1>1, <1>2, <2>2
    <3> HIDE DEF t, g
    <3>2. g[t] = f[t] BY <1>5, <3>1 DEF g
    <3>3. g[s] = list[Some(s)] + f[t] BY <2>2 DEF g, t, SumStep
    <3>4. SumStep(list, S, g)[s] = list[Some(s)] + g[t] BY <2>2 DEF t, SumStep
    <3> QED BY <3>2, <3>3, <3>4 DEF g
  <2> QED BY <2>1, <2>2
<1>6. Cardinality(S) \in K
  <2> HIDE DEF Right
  <2>1. K \in SUBSET Nat /\ K # {} BY <1>4
  <2>2. IsFiniteSet(K)
    <3>1. IsFiniteSet(0 .. Cardinality(S)) BY <1>1, FS_Interval
    <3> QED BY <3>1, FS_Subset
  <2>3. PICK k \in K : \A n \in K : n <= k BY <2>1, <2>2, Greatest
  <2>4. PICK f : Right(f, k) OBVIOUS
  <2>5. k \in Nat /\ Right(SumStep(list, S, f), k + 1) BY <1>5, <2>4
  <2>6. k + 1 \notin K BY <2>3, <2>5
  <2> QED BY <1>1, <2>5, <2>6
<1>7. PICK f : Right(f, Cardinality(S)) BY <1>6
<1>8. \A s \in SUBSET S : f[s] = SumStep(list, S, f)[s] BY <1>1, <1>7
<1> DEFINE g == SumStep(list, S, f)
<1>9. g = SumStep(list, S, g)
  <2>1. \A s \in SUBSET S : g[s] = f[s] BY <1>8
  <2>2. \A s \in SUBSET S : s \ {Some(s)} \in SUBSET S OBVIOUS
  <2> HIDE DEF g
  <2> QED BY <2>1, <2>2 DEF SumStep, g
<1> QED BY <1>9

(* A total of a list of the enforcer is such a value.                      *)
Stamps == 0 .. LastTime
Ledger == [Stamps -> Nat]

(* It is the total that the enforcer computes by its fold.                 *)
LEMMA TotalIsSum ==
  ASSUME NEW list \in Ledger, NEW stamps
  PROVE  \E f : /\ f = SumStep(list, stamps \cap Stamps, f)
                /\ Enforcer!Total(list, stamps) = f[stamps \cap Stamps]
<1> DEFINE S == stamps \cap Stamps
           f == CHOOSE f : f = SumStep(list, S, f)
<1>1. IsFiniteSet(S)
  <2>1. IsFiniteSet(Stamps) BY FS_Interval, BudgetAssumption DEF Stamps
  <2> QED BY <2>1, FS_Intersection
<1>2. f = SumStep(list, S, f)
  <2> HIDE DEF S
  <2> QED BY <1>1, SumExists
<1>3. DOMAIN list = Stamps BY DEF Ledger
<1>4. Enforcer!Total(list, stamps) = f[S]
  BY <1>3 DEF Enforcer!Total, Enforcer!MapThenSumSet, Enforcer!MapThenFoldSet, SumStep, Some
<1> QED BY <1>2, <1>4

(* What the enforcer needs of totals.                                      *)
LEMMA TotalType ==
  ASSUME NEW list \in Ledger, NEW stamps
  PROVE  Enforcer!Total(list, stamps) \in Nat
<1> DEFINE S == stamps \cap Stamps
<1>1. PICK f : f = SumStep(list, S, f) /\ Enforcer!Total(list, stamps) = f[S]
  BY TotalIsSum
<1> DEFINE Good == {s \in SUBSET S : f[s] \in Nat}
<1>2. ASSUME NEW s \in SUBSET S, s # {}, s \ {Some(s)} \in Good PROVE s \in Good
  <2>1. f[s] = list[Some(s)] + f[s \ {Some(s)}] BY <1>1, <1>2 DEF SumStep
  <2>2. list[Some(s)] \in Nat BY <1>2, SomeIn DEF Ledger
  <2> QED BY <1>2, <2>1, <2>2
<1>3. {} \in Good BY <1>1 DEF SumStep
<1>4. IsFiniteSet(S)
  <2>1. IsFiniteSet(Stamps) BY FS_Interval, BudgetAssumption DEF Stamps
  <2> QED BY <2>1, FS_Intersection
<1>5. SUBSET S \subseteq Good
  <2> HIDE DEF Good, S
  <2> QED BY <1>2, <1>3, <1>4, SubsetInduction
<1> QED BY <1>1, <1>5

(* An empty list has the total 0.                                          *)
LEMMA TotalEmpty ==
  ASSUME NEW stamps
  PROVE  Enforcer!Empty \in Ledger /\ Enforcer!Total(Enforcer!Empty, stamps) = 0
<1> DEFINE S == stamps \cap Stamps
<1>0. Enforcer!Empty \in Ledger /\ \A t \in Stamps : Enforcer!Empty[t] = 0
  BY DEF Enforcer!Empty, Ledger, Stamps
<1>1. PICK f : f = SumStep(Enforcer!Empty, S, f) /\ Enforcer!Total(Enforcer!Empty, stamps) = f[S]
  BY <1>0, TotalIsSum
<1> DEFINE Good == {s \in SUBSET S : f[s] = 0}
<1>2. ASSUME NEW s \in SUBSET S, s # {}, s \ {Some(s)} \in Good PROVE s \in Good
  <2>1. f[s] = Enforcer!Empty[Some(s)] + f[s \ {Some(s)}] BY <1>1, <1>2 DEF SumStep
  <2>2. Enforcer!Empty[Some(s)] = 0 BY <1>0, <1>2, SomeIn
  <2> QED BY <1>2, <2>1, <2>2
<1>3. {} \in Good BY <1>1 DEF SumStep
<1>4. IsFiniteSet(S)
  <2>1. IsFiniteSet(Stamps) BY FS_Interval, BudgetAssumption DEF Stamps
  <2> QED BY <2>1, FS_Intersection
<1>5. SUBSET S \subseteq Good
  <2> HIDE DEF Good, S
  <2> QED BY <1>2, <1>3, <1>4, SubsetInduction
<1> QED BY <1>0, <1>1, <1>5

(* A charge adds to the totals its stamp is in, and to no other.           *)
LEMMA TotalMore ==
  ASSUME NEW list \in Ledger, NEW stamps, NEW c \in Stamps, NEW a \in Nat
  PROVE  /\ [list EXCEPT ![c] = @ + a] \in Ledger
         /\ Enforcer!Total([list EXCEPT ![c] = @ + a], stamps)
              = Enforcer!Total(list, stamps) + (IF c \in stamps THEN a ELSE 0)
<1> DEFINE S == stamps \cap Stamps
           more == [list EXCEPT ![c] = @ + a]
<1>0. more \in Ledger /\ \A t \in Stamps : more[t] = list[t] + (IF t = c THEN a ELSE 0)
  BY DEF Ledger
<1> HIDE DEF more
<1>1. PICK f : f = SumStep(list, S, f) /\ Enforcer!Total(list, stamps) = f[S]
  BY TotalIsSum
<1>2. PICK g : g = SumStep(more, S, g) /\ Enforcer!Total(more, stamps) = g[S]
  BY <1>0, TotalIsSum
<1> DEFINE Good == {s \in SUBSET S : f[s] \in Nat /\ g[s] = f[s] + (IF c \in s THEN a ELSE 0)}
<1>3. ASSUME NEW s \in SUBSET S, s # {}, s \ {Some(s)} \in Good PROVE s \in Good
  <2> DEFINE x == Some(s)
             t == s \ {x}
  <2>1. f[s] = list[x] + f[t] /\ g[s] = more[x] + g[t] BY <1>1, <1>2, <1>3 DEF SumStep
  <2>2. x \in s /\ x \in Stamps BY <1>3, SomeIn
  <2>3. list[x] \in Nat /\ more[x] = list[x] + (IF x = c THEN a ELSE 0)
    BY <1>0, <2>2 DEF Ledger
  <2>4. f[t] \in Nat /\ g[t] = f[t] + (IF c \in t THEN a ELSE 0) BY <1>3
  <2>5. c \in s <=> (x = c \/ c \in t) BY <2>2
  <2>6. x \notin t OBVIOUS
  <2> HIDE DEF x, t
  <2>7. f[s] \in Nat /\ g[s] = f[s] + (IF c \in s THEN a ELSE 0)
    BY <2>1, <2>3, <2>4, <2>5, <2>6
  <2> QED BY <1>3, <2>7
<1>4. {} \in Good BY <1>1, <1>2 DEF SumStep
<1>5. IsFiniteSet(S)
  <2>1. IsFiniteSet(Stamps) BY FS_Interval, BudgetAssumption DEF Stamps
  <2> QED BY <2>1, FS_Intersection
<1>6. SUBSET S \subseteq Good
  <2> HIDE DEF Good, S
  <2> QED BY <1>3, <1>4, <1>5, SubsetInduction
<1>7. c \in S <=> c \in stamps OBVIOUS
<1> QED BY <1>0, <1>1, <1>2, <1>6, <1>7 DEF more

(* Greatest charge, number of workers, and what k workers may charge.      *)
Most == Enforcer!MaxAmount
Bound(k) == k * Most

(* There is a greatest amount, and no amount exceeds it.                   *)
LEMMA MostIsGreatest == Most \in Nat \ {0} /\ \A a \in Amounts : a <= Most
<1>1. Amounts \in SUBSET Nat BY BudgetAssumption
<1>2. \E a \in Amounts : \A b \in Amounts : b <= a BY <1>1, BudgetAssumption, Greatest
<1> QED BY <1>2, BudgetAssumption DEF Most, Enforcer!MaxAmount

(* What k workers may charge grows with k, by the greatest amount each.    *)
LEMMA BoundGrows ==
  ASSUME NEW k \in Nat
  PROVE  /\ Bound(k) \in Nat /\ Bound(0) = 0
         /\ Bound(k + 1) = Bound(k) + Most
         /\ k > 0 => k - 1 \in Nat /\ Bound(k) = Bound(k - 1) + Most
         /\ \A m \in Nat : k <= m => Bound(k) <= Bound(m)
<1> DEFINE a == Most
<1>1. a \in Nat BY MostIsGreatest
<1> HIDE DEF a
<1>2. k * a \in Nat /\ 0 * a = 0 /\ (k + 1) * a = k * a + a /\ (k - 1) * a = k * a - a
  BY <1>1
<1>3. \A m \in Nat : k <= m => k * a <= m * a BY <1>1
<1> QED BY <1>1, <1>2, <1>3 DEF a, Bound

(* There is room: with the charge of one of the workers in S, and one of   *)
(* the greatest for each of the others, c stays within its bound.          *)
Room(c, S, a, t) ==
  LET limit == t + Bound(Cardinality(Workers) - 1) IN
  \/ S = {} /\ c <= limit
  \/ \E w \in S : c + a[w] + Bound(Cardinality(S) - 1) <= limit

Charges == [Workers -> 0 .. Most]

(* Sets of workers are finite.                                             *)
LEMMA WorkerCount ==
  ASSUME NEW S \in SUBSET Workers
  PROVE  /\ IsFiniteSet(S) /\ Cardinality(S) \in Nat /\ Cardinality(S) <= Cardinality(Workers)
         /\ S # {} => Cardinality(S) > 0
         /\ \A w \in S : Cardinality(S \ {w}) = Cardinality(S) - 1 /\ IsFiniteSet(S \ {w})
         /\ Cardinality(Workers) \in Nat \ {0}
<1>1. /\ IsFiniteSet(S) /\ Cardinality(S) <= Cardinality(Workers)
      /\ IsFiniteSet(Workers) /\ Workers # {}
  BY BudgetAssumption, FS_Subset
<1>2. Cardinality(S) \in Nat /\ Cardinality(Workers) \in Nat BY <1>1, FS_CardinalityType
<1>3. (S # {} => Cardinality(S) # 0) /\ Cardinality(Workers) # 0 BY <1>1, FS_EmptySet
<1>4. \A w \in S : Cardinality(S \ {w}) = Cardinality(S) - 1 /\ IsFiniteSet(S \ {w})
  BY <1>1, FS_RemoveElement
<1> QED BY <1>1, <1>2, <1>3, <1>4

(* Where there is room, the bound is kept.                                 *)
LEMMA RoomBound ==
  ASSUME NEW c \in Int, NEW S \in SUBSET Workers, NEW a \in Charges, NEW t \in Nat,
         Room(c, S, a, t)
  PROVE  c <= t + Bound(Cardinality(Workers) - 1)
<1>0. Cardinality(Workers) - 1 \in Nat BY WorkerCount
<1>1. CASE S = {} BY <1>1 DEF Room
<1>2. CASE S # {}
  <2>1. PICK w \in S : c + a[w] + Bound(Cardinality(S) - 1) <= t + Bound(Cardinality(Workers) - 1)
    BY <1>2 DEF Room
  <2>2. Cardinality(S) - 1 \in Nat BY <1>2, WorkerCount
  <2>3. a[w] \in Nat BY MostIsGreatest DEF Charges
  <2> QED BY <1>0, <2>1, <2>2, <2>3, BoundGrows
<1> QED BY <1>1, <1>2

(* Room stays when the sum is no greater, nor the limit less, and those who*)
(* race are the same.                                                      *)
LEMMA RoomKept ==
  ASSUME NEW c \in Int, NEW S \in SUBSET Workers, NEW a \in Charges, NEW t \in Nat,
         Room(c, S, a, t),
         NEW d \in Int, d <= c, NEW b \in Charges, \A w \in S : b[w] = a[w],
         NEW u \in Nat, t <= u
  PROVE  Room(d, S, b, u)
<1>0. Bound(Cardinality(Workers) - 1) \in Nat BY WorkerCount, BoundGrows
<1>1. CASE S = {} BY <1>0, <1>1 DEF Room
<1>2. CASE S # {}
  <2>1. PICK w \in S : c + a[w] + Bound(Cardinality(S) - 1) <= t + Bound(Cardinality(Workers) - 1)
    BY <1>2 DEF Room
  <2>2. Bound(Cardinality(S) - 1) \in Nat BY <1>2, WorkerCount, BoundGrows
  <2>3. a[w] \in Nat BY MostIsGreatest DEF Charges
  <2>4. d + b[w] + Bound(Cardinality(S) - 1) <= u + Bound(Cardinality(Workers) - 1)
    BY <1>0, <2>1, <2>2, <2>3
  <2> QED BY <2>4 DEF Room
<1> QED BY <1>1, <1>2

(* A worker that leaves, with or without having made its charge.           *)
LEMMA RoomLess ==
  ASSUME NEW c \in Int, NEW S \in SUBSET Workers, NEW a \in Charges, NEW t \in Nat,
         Room(c, S, a, t),
         NEW w \in S, NEW d \in Int, d <= c + a[w],
         NEW b \in Charges, \A v \in S \ {w} : b[v] = a[v]
  PROVE  Room(d, S \ {w}, b, t)
<1> DEFINE limit == t + Bound(Cardinality(Workers) - 1)
           T == S \ {w}
           k == Cardinality(T)
<1>1. /\ k \in Nat /\ Cardinality(S) = k + 1
      /\ Bound(Cardinality(S) - 1) = Bound(k) /\ T \in SUBSET Workers
  <2>1. Cardinality(S) \in Nat /\ k = Cardinality(S) - 1 BY WorkerCount
  <2>2. k \in Nat BY WorkerCount
  <2> QED BY <2>1, <2>2
<1>2. Bound(k) \in Nat /\ (k > 0 => Bound(k) = Bound(k - 1) + Most) /\ Bound(0) = 0
  BY <1>1, BoundGrows
<1>3. limit \in Nat
  <2>1. Cardinality(Workers) - 1 \in Nat BY WorkerCount
  <2> QED BY <2>1, BoundGrows
<1>4. PICK v \in S : c + a[v] + Bound(k) <= limit BY <1>1 DEF Room
<1>5. \A u \in Workers : a[u] \in Nat /\ a[u] <= Most BY MostIsGreatest DEF Charges
<1>6. Most \in Nat BY MostIsGreatest
<1>7. CASE T = {}
  <2>1. v = w /\ k = 0 BY <1>7, FS_EmptySet
  <2>2. d <= limit BY <1>2, <1>3, <1>4, <1>5, <2>1
  <2> QED BY <1>7, <2>2 DEF Room
<1>8. CASE T # {}
  <2>1. k > 0 /\ Bound(k) = Bound(k - 1) + Most /\ Bound(k - 1) \in Nat
    BY <1>1, <1>2, <1>8, WorkerCount, BoundGrows
  <2>2. PICK u \in T : c + a[w] + a[u] + Bound(k - 1) <= limit
    <3>1. CASE v = w
      <4>1. PICK u \in T : TRUE BY <1>8
      <4>2. a[u] <= Most /\ a[u] \in Nat /\ a[w] \in Nat BY <1>5
      <4>3. c + a[w] + a[u] + Bound(k - 1) <= limit BY <1>3, <1>4, <1>6, <2>1, <3>1, <4>2
      <4> QED BY <4>3
    <3>2. CASE v # w
      <4>1. v \in T BY <3>2
      <4>2. a[w] <= Most /\ a[w] \in Nat /\ a[v] \in Nat BY <1>5
      <4>3. c + a[w] + a[v] + Bound(k - 1) <= limit BY <1>3, <1>4, <1>6, <2>1, <4>2
      <4> QED BY <4>1, <4>3
    <3> QED BY <3>1, <3>2
  <2>3. a[w] \in Nat /\ b[u] = a[u] /\ a[u] \in Nat BY <1>5
  <2>4. d + b[u] + Bound(k - 1) <= limit BY <1>3, <2>1, <2>2, <2>3
  <2> HIDE DEF T
  <2>5. Room(d, T, b, t) BY <2>4 DEF Room
  <2> QED BY <2>5 DEF T
<1> QED BY <1>7, <1>8

(* A worker that finds room for its own charge.                            *)
LEMMA RoomMore ==
  ASSUME NEW c \in Int, NEW S \in SUBSET Workers, NEW b \in Charges, NEW t \in Nat,
         NEW w \in S, c + b[w] <= t
  PROVE  Room(c, S, b, t)
<1>1. /\ Cardinality(S) - 1 \in Nat /\ Cardinality(Workers) - 1 \in Nat
      /\ Cardinality(S) - 1 <= Cardinality(Workers) - 1
  BY WorkerCount
<1>2. /\ Bound(Cardinality(S) - 1) <= Bound(Cardinality(Workers) - 1)
      /\ Bound(Cardinality(S) - 1) \in Nat /\ Bound(Cardinality(Workers) - 1) \in Nat
  BY <1>1, BoundGrows
<1>3. b[w] \in Nat BY MostIsGreatest DEF Charges
<1>4. c + b[w] + Bound(Cardinality(S) - 1) <= t + Bound(Cardinality(Workers) - 1)
  BY <1>2, <1>3
<1> QED BY <1>4 DEF Room

Configs == [amount : Nat, period : Enforcer!Periods, enforced : BOOLEAN]
Records == [amount : 0 .. Most, config : Configs, used : Ledger, stamp : Stamps]

BudgetType ==
  /\ now \in Stamps /\ west \in Int /\ config \in Configs
  /\ spent \in [Enforcer!Periods -> Ledger] /\ free \in [Enforcer!Periods -> Ledger]
  /\ progress \in [Workers -> {"idle", "sum", "decide", "push"}]
  /\ charge \in [Workers -> Records]
  /\ top \in Nat

(* No limit was higher than the highest.  Only enforced limits are summed  *)
(* up for, and a charge alone is within the limit it was let on by.        *)
LimitInv ==
  /\ config.amount <= top
  /\ \A w \in Workers :
       /\ charge[w].config.amount <= top
       /\ progress[w] \in {"sum", "decide"} => charge[w].config.enforced
       /\ progress[w] = "push" /\ charge[w].config.enforced => charge[w].amount <= top

(* The workers whose charge will be made, or would be were they to decide  *)
(* now; and those that will enter in this period what was stamped before.  *)
Hopeful(step, c, from) ==
  /\ c.config.enforced
  /\ \/ step = "push"
     \/ /\ step = "decide"
        /\ Enforcer!Total(c.used, from .. LastTime) + c.amount <= c.config.amount

Open(p) ==
  {w \in Workers : charge[w].config.period = p /\ Hopeful(progress[w], charge[w], Enforcer!Start(p))}
Behind(p) ==
  {w \in Workers : /\ progress[w] = "push" /\ charge[w].config.period = p
                   /\ charge[w].stamp < Enforcer!Begins(p)}

Over(list, other, from) ==
  Enforcer!Total(list, from .. LastTime) - Enforcer!Total(other, from .. LastTime)
AmountOf(c) == [w \in Workers |-> c[w].amount]

(* Among those that race there is one that has left the others, and no     *)
(* more than the others, room: the last to have read the list.             *)
RaceInv ==
  \A p \in Enforcer!Periods :
    Room(Over(spent[p], free[p], Enforcer!Start(p)), Open(p), AmountOf(charge), top)

BehindInv ==
  \A p \in Enforcer!Periods :
    Enforcer!Total(spent[p], 0 .. Enforcer!Begins(p) - 1) + Bound(Cardinality(Behind(p)))
      <= Bound(Cardinality(Workers))

BudgetInv == BudgetType /\ LimitInv /\ RaceInv /\ BehindInv

(* The promise follows from the invariant.                                 *)
LEMMA BudgetBound == BudgetInv => OverspendBounded
<1> SUFFICES ASSUME BudgetInv, NEW p \in Enforcer!Periods
    PROVE  /\ Enforcer!Total(spent[p], Enforcer!Start(p) .. LastTime)
                - Enforcer!Total(free[p], Enforcer!Start(p) .. LastTime)
                <= top + (Cardinality(Workers) - 1) * Most
           /\ Enforcer!Total(spent[p], 0 .. Enforcer!Begins(p) - 1) <= Cardinality(Workers) * Most
  BY SameCardinality DEF OverspendBounded, Enforcer!OverspendBounded, Enforcer!N, Most
<1>1. BudgetType /\ RaceInv /\ BehindInv BY DEF BudgetInv
<1>2. spent[p] \in Ledger /\ free[p] \in Ledger /\ top \in Nat BY <1>1 DEF BudgetType
<1>3. AmountOf(charge) \in Charges BY <1>1 DEF AmountOf, BudgetType, Records, Charges
<1>4. Over(spent[p], free[p], Enforcer!Start(p)) \in Int
  BY <1>2, TotalType DEF Over
<1>5. Open(p) \in SUBSET Workers /\ Behind(p) \in SUBSET Workers BY DEF Open, Behind
<1>6. Over(spent[p], free[p], Enforcer!Start(p)) <= top + Bound(Cardinality(Workers) - 1)
  BY <1>1, <1>2, <1>3, <1>4, <1>5, RoomBound DEF RaceInv
<1>7. /\ Bound(Cardinality(Behind(p))) \in Nat /\ Bound(Cardinality(Workers)) \in Nat
      /\ Enforcer!Total(spent[p], 0 .. Enforcer!Begins(p) - 1) \in Nat
  BY <1>2, <1>5, WorkerCount, BoundGrows, TotalType
<1>8. Enforcer!Total(spent[p], 0 .. Enforcer!Begins(p) - 1) <= Bound(Cardinality(Workers))
  BY <1>1, <1>7 DEF BehindInv
<1> QED BY <1>6, <1>8 DEF Over, Bound

(* Where the present period begins.                                        *)
LEMMA PeriodBegins ==
  ASSUME BudgetType, NEW p \in Enforcer!Periods
  PROVE  /\ Enforcer!Start(p) \in Int /\ Enforcer!Begins(p) \in Nat /\ Enforcer!Begins(p) <= now
         /\ Enforcer!Length[p] \in Nat \ {0}
<1>1. Enforcer!Length[p] \in Nat \ {0}
  BY BudgetAssumption DEF Enforcer!Length, Enforcer!Periods
<1>2. now \in Nat /\ west \in Int BY DEF BudgetType, Stamps
<1> DEFINE n == Enforcer!Length[p]
<1> HIDE DEF n
<1>3. n \in Nat \ {0} BY <1>1 DEF n
<1>4. (now \div n) * n \in Nat /\ (now \div n) * n <= now BY <1>2, <1>3
<1> QED BY <1>1, <1>2, <1>4 DEF n, Enforcer!Start, Enforcer!Begins, Enforcer!Tag

(* What a worker has that has no charge.                                   *)
LEMMA NoChargeType ==
  /\ Enforcer!NoLimit \in Configs /\ Enforcer!NoLimit.amount = 0 /\ ~ Enforcer!NoLimit.enforced
  /\ Enforcer!NoCharge \in Records /\ Enforcer!NoCharge.config = Enforcer!NoLimit
<1>1. Enforcer!Empty \in Ledger BY TotalEmpty
<1>2. "monthly" \in Enforcer!Periods BY DEF Enforcer!Periods, Enforcer!Length
<1>3. Enforcer!NoLimit \in Configs /\ Enforcer!NoLimit.amount = 0 /\ ~ Enforcer!NoLimit.enforced
  BY <1>2 DEF Enforcer!NoLimit, Configs
<1>4. 0 \in Stamps /\ 0 \in 0 .. Most BY BudgetAssumption, MostIsGreatest DEF Stamps
<1> QED BY <1>1, <1>3, <1>4 DEF Enforcer!NoCharge, Records

(* Nothing is charged at the start.                                        *)
LEMMA BudgetInit == Enforcer!Init => BudgetInv
<1> SUFFICES ASSUME Enforcer!Init PROVE BudgetInv
  OBVIOUS
<1>1. /\ Enforcer!Empty \in Ledger /\ \A s : Enforcer!Total(Enforcer!Empty, s) = 0
  BY TotalEmpty
<1>2. /\ spent = [p \in Enforcer!Periods |-> Enforcer!Empty]
      /\ free = [p \in Enforcer!Periods |-> Enforcer!Empty]
      /\ top = 0 /\ now = 0 /\ west \in Wests /\ config = Enforcer!NoLimit
      /\ progress = [w \in Workers |-> "idle"]
      /\ charge = [w \in Workers |-> Enforcer!NoCharge]
  BY DEF Enforcer!Init
<1>4. Enforcer!NoLimit \in Configs /\ Enforcer!NoLimit.amount = 0
  BY NoChargeType
<1>5. 0 \in Stamps BY BudgetAssumption DEF Stamps
<1>6. Enforcer!NoCharge \in Records /\ Enforcer!NoCharge.config = Enforcer!NoLimit
  BY NoChargeType
<1>7. BudgetType BY <1>1, <1>2, <1>4, <1>5, <1>6, BudgetAssumption DEF BudgetType
<1>8. LimitInv BY <1>2, <1>4, <1>6 DEF LimitInv
<1>9. \A p : Open(p) = {} /\ Behind(p) = {}
  BY <1>2 DEF Open, Behind, Hopeful
<1>10. /\ Bound(Cardinality(Workers) - 1) \in Nat /\ Bound(Cardinality(Workers)) \in Nat
       /\ Bound(0) = 0
  <2>1. Cardinality(Workers) \in Nat /\ Cardinality(Workers) - 1 \in Nat BY WorkerCount
  <2> QED BY <2>1, BoundGrows
<1>11. \A p \in Enforcer!Periods : spent[p] = Enforcer!Empty /\ free[p] = Enforcer!Empty BY <1>2
<1>12. RaceInv
  <2>1. \A p \in Enforcer!Periods : Over(spent[p], free[p], Enforcer!Start(p)) = 0
    BY <1>1, <1>11 DEF Over
  <2> QED BY <1>2, <1>9, <1>10, <2>1 DEF RaceInv, Room
<1>13. BehindInv
  <2>1. \A p : Cardinality(Behind(p)) = 0 BY <1>9, FS_EmptySet
  <2>2. \A p \in Enforcer!Periods : \A s : Enforcer!Total(spent[p], s) = 0 BY <1>1, <1>11
  <2> QED BY <1>10, <2>1, <2>2 DEF BehindInv
<1> QED BY <1>7, <1>8, <1>12, <1>13 DEF BudgetInv

(* One worker's step, or none's, in an unchanged period: the others race   *)
(* on as before.                                                           *)
LEMMA OthersRace ==
  ASSUME NEW p, Enforcer!Start(p)' = Enforcer!Start(p), Enforcer!Begins(p)' = Enforcer!Begins(p),
         NEW W, \A v \in Workers \ W : charge'[v] = charge[v] /\ progress'[v] = progress[v]
  PROVE  /\ \A v \in Workers : v \in Open(p)' <=>
              /\ charge'[v].config.period = p
              /\ Hopeful(progress'[v], charge'[v], Enforcer!Start(p))
         /\ \A v \in Workers : v \in Behind(p)' <=>
              /\ progress'[v] = "push" /\ charge'[v].config.period = p
              /\ charge'[v].stamp < Enforcer!Begins(p)
         /\ Open(p)' \in SUBSET Workers /\ Behind(p)' \in SUBSET Workers
         /\ \A v \in Workers \ W : /\ v \in Open(p)' <=> v \in Open(p)
                                   /\ v \in Behind(p)' <=> v \in Behind(p)
<1>1. /\ Open(p)' = {w \in Workers : charge'[w].config.period = p
                                     /\ Hopeful(progress'[w], charge'[w], Enforcer!Start(p))}
      /\ Behind(p)' = {w \in Workers : /\ progress'[w] = "push" /\ charge'[w].config.period = p
                                       /\ charge'[w].stamp < Enforcer!Begins(p)}
  BY DEF Open, Behind
<1>2. \A v \in Workers \ W : v \in Open(p)' <=> v \in Open(p) BY <1>1 DEF Open
<1>3. \A v \in Workers \ W : v \in Behind(p)' <=> v \in Behind(p) BY <1>1 DEF Behind
<1> QED BY <1>1, <1>2, <1>3

(* The periods are those of the clock and the zone.                        *)
LEMMA SamePeriod ==
  ASSUME UNCHANGED <<now, west>>, NEW p
  PROVE  Enforcer!Start(p)' = Enforcer!Start(p) /\ Enforcer!Begins(p)' = Enforcer!Begins(p)
BY DEF Enforcer!Start, Enforcer!Begins, Enforcer!Tag

(* What a step of the worker w may do to the race: nothing, leave it with  *)
(* its charge made or not, or join it seeing room for its charge.          *)
LEMMA RaceStep ==
  ASSUME BudgetInv, NEW p \in Enforcer!Periods, NEW w \in Workers,
         Enforcer!Start(p)' = Enforcer!Start(p), Enforcer!Begins(p)' = Enforcer!Begins(p),
         \A v \in Workers \ {w} : charge'[v] = charge[v] /\ progress'[v] = progress[v],
         charge' \in [Workers -> Records], spent'[p] \in Ledger, free'[p] \in Ledger,
         top' \in Nat, top <= top',
         NEW c, c = Over(spent[p], free[p], Enforcer!Start(p)),
         NEW d, d = Over(spent'[p], free'[p], Enforcer!Start(p)),
         \/ /\ w \in Open(p)' <=> w \in Open(p)
            /\ w \in Open(p) => charge'[w].amount = charge[w].amount
            /\ d <= c
         \/ /\ w \in Open(p) /\ w \notin Open(p)' /\ top' = top
            /\ d <= c + charge[w].amount
         \/ w \in Open(p)' /\ d + charge'[w].amount <= top'
  PROVE  Room(Over(spent[p], free[p], Enforcer!Start(p)), Open(p), AmountOf(charge), top)'
<1>1. BudgetType /\ RaceInv BY DEF BudgetInv
<1>2. charge \in [Workers -> Records] /\ spent[p] \in Ledger /\ free[p] \in Ledger /\ top \in Nat
  BY <1>1 DEF BudgetType
<1>3. c \in Int /\ d \in Int BY <1>2, TotalType DEF Over
<1>4. AmountOf(charge) \in Charges /\ AmountOf(charge') \in Charges
  BY <1>2 DEF AmountOf, Charges, Records
<1>5. /\ \A v \in Workers : AmountOf(charge)[v] = charge[v].amount
      /\ \A v \in Workers : AmountOf(charge')[v] = charge'[v].amount
  BY DEF AmountOf
<1>6. /\ Open(p)' \in SUBSET Workers /\ Open(p) \in SUBSET Workers
      /\ \A v \in Workers \ {w} : v \in Open(p)' <=> v \in Open(p)
  BY OthersRace DEF Open
<1>7. Room(c, Open(p), AmountOf(charge), top) BY <1>1 DEF RaceInv
<1>8. SUFFICES Room(d, Open(p)', AmountOf(charge'), top')
  BY DEF Over, Room, AmountOf
<1>9. CASE /\ w \in Open(p)' <=> w \in Open(p)
           /\ w \in Open(p) => charge'[w].amount = charge[w].amount
           /\ d <= c
  <2>a. \A v \in Workers : v \in Open(p)' <=> v \in Open(p) BY <1>6, <1>9
  <2>1. Open(p)' = Open(p) BY <1>6, <2>a
  <2>2. \A v \in Open(p) : AmountOf(charge')[v] = AmountOf(charge)[v] BY <1>5, <1>6, <1>9
  <2> QED BY <1>2, <1>3, <1>4, <1>6, <1>7, <1>9, <2>1, <2>2, RoomKept
<1>10. CASE w \in Open(p) /\ w \notin Open(p)' /\ top' = top /\ d <= c + charge[w].amount
  <2>1. Open(p)' = Open(p) \ {w} BY <1>6, <1>10
  <2>2. \A v \in Open(p) \ {w} : AmountOf(charge')[v] = AmountOf(charge)[v] BY <1>5, <1>6
  <2>3. d <= c + AmountOf(charge)[w] BY <1>5, <1>10
  <2>4. w \in Open(p) /\ Open(p) \in SUBSET Workers BY <1>6, <1>10
  <2>5. Room(d, Open(p) \ {w}, AmountOf(charge'), top)
    BY <1>2, <1>3, <1>4, <1>7, <2>2, <2>3, <2>4, RoomLess
  <2> QED BY <1>10, <2>1, <2>5
<1>11. CASE w \in Open(p)' /\ d + charge'[w].amount <= top'
  BY <1>3, <1>4, <1>5, <1>6, <1>11, RoomMore
<1> QED BY <1>9, <1>10, <1>11

(* And to those behind: no worker gets behind but by the end of a period,  *)
(* and one that enters its late charge leaves.                             *)
LEMMA BehindStep ==
  ASSUME BudgetInv, NEW p \in Enforcer!Periods, NEW w \in Workers,
         Enforcer!Start(p)' = Enforcer!Start(p), Enforcer!Begins(p)' = Enforcer!Begins(p),
         \A v \in Workers \ {w} : charge'[v] = charge[v] /\ progress'[v] = progress[v],
         spent'[p] \in Ledger,
         w \in Behind(p)' => w \in Behind(p),
         NEW c, c = Enforcer!Total(spent[p], 0 .. Enforcer!Begins(p) - 1),
         NEW d, d = Enforcer!Total(spent'[p], 0 .. Enforcer!Begins(p) - 1),
         \/ d <= c
         \/ w \in Behind(p) /\ w \notin Behind(p)' /\ d <= c + charge[w].amount
  PROVE  (Enforcer!Total(spent[p], 0 .. Enforcer!Begins(p) - 1) + Bound(Cardinality(Behind(p)))
            <= Bound(Cardinality(Workers)))'
<1>1. BudgetType /\ BehindInv BY DEF BudgetInv
<1>2. spent[p] \in Ledger /\ charge[w] \in Records BY <1>1 DEF BudgetType
<1>3. c \in Nat /\ d \in Nat BY <1>2, TotalType
<1>4. charge[w].amount \in Nat /\ charge[w].amount <= Most /\ Most \in Nat
  BY <1>2, MostIsGreatest DEF Records
<1>5. /\ Behind(p)' \in SUBSET Workers /\ Behind(p) \in SUBSET Workers
      /\ \A v \in Workers \ {w} : v \in Behind(p)' <=> v \in Behind(p)
  BY OthersRace DEF Behind
<1> DEFINE k == Cardinality(Behind(p))
           m == Cardinality(Behind(p)')
<1>6. k \in Nat /\ m \in Nat /\ Bound(k) \in Nat /\ Bound(m) \in Nat
  <2>1. k \in Nat /\ m \in Nat BY <1>5, WorkerCount
  <2> QED BY <2>1, BoundGrows
<1>7. c + Bound(k) <= Bound(Cardinality(Workers)) BY <1>1 DEF BehindInv
<1>8. Bound(Cardinality(Workers)) \in Nat
  <2>1. Cardinality(Workers) \in Nat BY WorkerCount
  <2> QED BY <2>1, BoundGrows
<1>9. SUFFICES d + Bound(m) <= Bound(Cardinality(Workers))
  BY DEF Bound
<1>10. CASE w \in Behind(p) /\ w \notin Behind(p)'
  <2>1. Behind(p)' = Behind(p) \ {w} BY <1>5, <1>10
  <2>2. k = m + 1 BY <1>5, <1>6, <1>10, <2>1, WorkerCount
  <2>3. Bound(k) = Bound(m) + Most BY <1>6, <2>2, BoundGrows
  <2>4. d <= c + charge[w].amount BY <1>3, <1>4
  <2> HIDE DEF k, m
  <2> QED BY <1>3, <1>4, <1>6, <1>7, <1>8, <2>3, <2>4
<1>11. CASE ~ (w \in Behind(p) /\ w \notin Behind(p)')
  <2>1. w \in Behind(p)' <=> w \in Behind(p) BY <1>11
  <2>2. \A v \in Workers : v \in Behind(p)' <=> v \in Behind(p) BY <1>5, <2>1
  <2>3. Behind(p)' = Behind(p) BY <1>5, <2>2
  <2>4. d <= c BY <1>11
  <2> QED BY <1>3, <1>6, <1>7, <1>8, <2>3, <2>4
<1> QED BY <1>10, <1>11

(* The types, and the limits, of a step that concerns one worker only.     *)
LEMMA WorkerType ==
  ASSUME BudgetInv, NEW w \in Workers, UNCHANGED <<now, west, config, top>>,
         NEW s \in {"idle", "sum", "decide", "push"}, progress' = [progress EXCEPT ![w] = s],
         NEW c \in Records, charge' = [charge EXCEPT ![w] = c],
         spent' \in [Enforcer!Periods -> Ledger], free' \in [Enforcer!Periods -> Ledger],
         c.config.amount <= top,
         s \in {"sum", "decide"} => c.config.enforced,
         s = "push" /\ c.config.enforced => c.amount <= top
  PROVE  /\ BudgetType' /\ LimitInv'
         /\ charge'[w] = c /\ progress'[w] = s
         /\ \A v \in Workers \ {w} : charge'[v] = charge[v] /\ progress'[v] = progress[v]
         /\ charge' \in [Workers -> Records] /\ top \in Nat /\ top' = top /\ top <= top'
<1>1. BudgetType /\ LimitInv BY DEF BudgetInv
<1>2. /\ charge'[w] = c /\ progress'[w] = s
      /\ \A v \in Workers \ {w} : charge'[v] = charge[v] /\ progress'[v] = progress[v]
      /\ charge' \in [Workers -> Records] /\ top \in Nat /\ top' = top /\ top <= top'
  BY <1>1 DEF BudgetType
<1>3. BudgetType' BY <1>1, <1>2 DEF BudgetType
<1>4. LimitInv'
  <2>1. \A v \in Workers :
          /\ charge'[v].config.amount <= top
          /\ progress'[v] \in {"sum", "decide"} => charge'[v].config.enforced
          /\ progress'[v] = "push" /\ charge'[v].config.enforced => charge'[v].amount <= top
    <3> SUFFICES ASSUME NEW v \in Workers
        PROVE  /\ charge'[v].config.amount <= top
               /\ progress'[v] \in {"sum", "decide"} => charge'[v].config.enforced
               /\ progress'[v] = "push" /\ charge'[v].config.enforced => charge'[v].amount <= top
      OBVIOUS
    <3>1. CASE v = w BY <1>2, <3>1
    <3>2. CASE v # w BY <1>1, <1>2, <3>2 DEF LimitInv
    <3> QED BY <3>1, <3>2
  <2> QED BY <1>1, <2>1 DEF LimitInv
<1> QED BY <1>2, <1>3, <1>4

(* Whether a worker in this state would race, or be late, and the sums     *)
(* that RaceInv and BehindInv bound.                                       *)
Races(p, s, c) == c.config.period = p /\ Hopeful(s, c, Enforcer!Start(p))
Late(p, s, c) == s = "push" /\ c.config.period = p /\ c.stamp < Enforcer!Begins(p)
Raced(p) == Over(spent[p], free[p], Enforcer!Start(p))
Strays(p) == Enforcer!Total(spent[p], 0 .. Enforcer!Begins(p) - 1)

(* A step of one worker keeps the invariant when it does to each period    *)
(* what RaceStep and BehindStep allow.                                     *)
LEMMA WorkerStep ==
  ASSUME BudgetInv, NEW w \in Workers, UNCHANGED <<now, west, config, top>>,
         NEW s \in {"idle", "sum", "decide", "push"}, progress' = [progress EXCEPT ![w] = s],
         NEW c \in Records, charge' = [charge EXCEPT ![w] = c],
         spent' \in [Enforcer!Periods -> Ledger], free' \in [Enforcer!Periods -> Ledger],
         c.config.amount <= top,
         s \in {"sum", "decide"} => c.config.enforced,
         s = "push" /\ c.config.enforced => c.amount <= top,
         \A p \in Enforcer!Periods :
           \/ /\ Races(p, s, c) <=> w \in Open(p)
              /\ w \in Open(p) => c.amount = charge[w].amount
              /\ Raced(p)' <= Raced(p)
           \/ /\ w \in Open(p) /\ ~ Races(p, s, c)
              /\ Raced(p)' <= Raced(p) + charge[w].amount
           \/ Races(p, s, c) /\ Raced(p)' + c.amount <= top,
         \A p \in Enforcer!Periods :
           /\ Late(p, s, c) => w \in Behind(p)
           /\ \/ Strays(p)' <= Strays(p)
              \/ w \in Behind(p) /\ ~ Late(p, s, c) /\ Strays(p)' <= Strays(p) + charge[w].amount
  PROVE  BudgetInv'
<1>1. /\ BudgetType' /\ LimitInv' /\ charge'[w] = c /\ progress'[w] = s
      /\ \A v \in Workers \ {w} : charge'[v] = charge[v] /\ progress'[v] = progress[v]
      /\ charge' \in [Workers -> Records] /\ top \in Nat /\ top' = top /\ top <= top'
  BY WorkerType, Zenon
<1>2. top' \in Nat BY <1>1
<1>3. ASSUME NEW p \in Enforcer!Periods
      PROVE  /\ Enforcer!Start(p)' = Enforcer!Start(p) /\ Enforcer!Begins(p)' = Enforcer!Begins(p)
             /\ w \in Open(p)' <=> Races(p, s, c)
             /\ w \in Behind(p)' <=> Late(p, s, c)
             /\ spent'[p] \in Ledger /\ free'[p] \in Ledger
  <2>1. Enforcer!Start(p)' = Enforcer!Start(p) /\ Enforcer!Begins(p)' = Enforcer!Begins(p)
    BY SamePeriod
  <2>2. (w \in Open(p)' <=> Races(p, s, c)) /\ (w \in Behind(p)' <=> Late(p, s, c))
    BY <1>1, <2>1, OthersRace DEF Races, Late
  <2> QED BY <2>1, <2>2
<1>4. RaceInv'
  <2> SUFFICES ASSUME NEW p \in Enforcer!Periods
      PROVE  Room(Over(spent[p], free[p], Enforcer!Start(p)), Open(p), AmountOf(charge), top)'
    BY DEF RaceInv
  <2> DEFINE before == Raced(p)
             after == Over(spent'[p], free'[p], Enforcer!Start(p))
  <2>1. Raced(p)' = after BY <1>3 DEF Raced, Over
  <2>2. before = Over(spent[p], free[p], Enforcer!Start(p)) BY DEF Raced
  <2>3. \/ /\ w \in Open(p)' <=> w \in Open(p)
           /\ w \in Open(p) => charge'[w].amount = charge[w].amount
           /\ after <= before
        \/ /\ w \in Open(p) /\ w \notin Open(p)' /\ top' = top
           /\ after <= before + charge[w].amount
        \/ w \in Open(p)' /\ after + charge'[w].amount <= top'
    BY <1>1, <1>3, <2>1
  <2> HIDE DEF before, after
  <2> QED BY <1>1, <1>2, <1>3, <2>2, <2>3, RaceStep DEF after
<1>5. BehindInv'
  <2> SUFFICES ASSUME NEW p \in Enforcer!Periods
      PROVE  (Enforcer!Total(spent[p], 0 .. Enforcer!Begins(p) - 1) + Bound(Cardinality(Behind(p)))
                <= Bound(Cardinality(Workers)))'
    BY DEF BehindInv
  <2> DEFINE before == Strays(p)
             after == Enforcer!Total(spent'[p], 0 .. Enforcer!Begins(p) - 1)
  <2>1. Strays(p)' = after BY <1>3 DEF Strays
  <2>2. before = Enforcer!Total(spent[p], 0 .. Enforcer!Begins(p) - 1) BY DEF Strays
  <2>3. /\ w \in Behind(p)' => w \in Behind(p)
        /\ \/ after <= before
           \/ w \in Behind(p) /\ w \notin Behind(p)' /\ after <= before + charge[w].amount
    BY <1>3, <2>1
  <2> HIDE DEF before, after
  <2> QED BY <1>1, <1>3, <2>2, <2>3, BehindStep DEF after
<1> QED BY <1>1, <1>4, <1>5 DEF BudgetInv

(* With the lists as they are, the sums are, too.                          *)
LEMMA SumsKept ==
  ASSUME BudgetInv, UNCHANGED <<now, west, spent, free>>, NEW p \in Enforcer!Periods
  PROVE  /\ Raced(p)' = Raced(p) /\ Strays(p)' = Strays(p) /\ Raced(p) \in Int /\ Strays(p) \in Nat
         /\ spent' \in [Enforcer!Periods -> Ledger] /\ free' \in [Enforcer!Periods -> Ledger]
<1>1. BudgetType BY DEF BudgetInv
<1>2. Enforcer!Start(p)' = Enforcer!Start(p) /\ Enforcer!Begins(p)' = Enforcer!Begins(p)
  BY SamePeriod
<1>3. spent[p] \in Ledger /\ free[p] \in Ledger BY <1>1 DEF BudgetType
<1>4. Raced(p) \in Int /\ Strays(p) \in Nat BY <1>3, TotalType DEF Raced, Over, Strays
<1> QED BY <1>1, <1>2, <1>4 DEF Raced, Over, Strays, BudgetType

(* A worker that leaves without a charge.                                  *)
LEMMA BudgetLeave ==
  ASSUME BudgetInv, NEW w \in Workers, Enforcer!Leave(w),
         UNCHANGED <<now, west, config, spent, free, top, pushes>>
  PROVE  BudgetInv'
<1> DEFINE c == Enforcer!NoCharge
<1>1. /\ progress' = [progress EXCEPT ![w] = "idle"]
      /\ charge' = [charge EXCEPT ![w] = c]
  BY DEF Enforcer!Leave
<1>2. BudgetType BY DEF BudgetInv
<1>3. c \in Records /\ c.config.amount = 0 /\ ~ c.config.enforced
  BY NoChargeType
<1>4. c.config.amount <= top BY <1>2, <1>3 DEF BudgetType
<1>5. \A p : ~ Races(p, "idle", c) /\ ~ Late(p, "idle", c) BY DEF Races, Late, Hopeful
<1>6. \A p \in Enforcer!Periods : charge[w].amount \in Nat BY <1>2 DEF BudgetType, Records
<1>7. \A p \in Enforcer!Periods :
        \/ /\ Races(p, "idle", c) <=> w \in Open(p)
           /\ w \in Open(p) => c.amount = charge[w].amount
           /\ Raced(p)' <= Raced(p)
        \/ /\ w \in Open(p) /\ ~ Races(p, "idle", c)
           /\ Raced(p)' <= Raced(p) + charge[w].amount
  BY <1>5, <1>6, SumsKept
<1>8. \A p \in Enforcer!Periods : Strays(p)' <= Strays(p) BY SumsKept
<1>9. spent' \in [Enforcer!Periods -> Ledger] /\ free' \in [Enforcer!Periods -> Ledger]
  BY <1>2 DEF BudgetType
<1> HIDE DEF c
<1> QED BY <1>1, <1>3, <1>4, <1>5, <1>7, <1>8, <1>9, WorkerStep, Zenon

(* A worker that has read the limit has not joined the race.               *)
LEMMA BudgetGetLimit ==
  ASSUME BudgetInv, NEW w \in Workers, Enforcer!GetLimit(w) PROVE BudgetInv'
<1>1. PICK a \in Amounts :
        charge' = [charge EXCEPT ![w] =
          [amount |-> a, config |-> config, used |-> Enforcer!Empty,
           stamp |-> IF config.enforced THEN 0 ELSE now]]
  BY DEF Enforcer!GetLimit
<1> DEFINE s == IF config.enforced THEN "sum" ELSE "push"
           c == [amount |-> a, config |-> config, used |-> Enforcer!Empty,
                 stamp |-> IF config.enforced THEN 0 ELSE now]
<1>2. /\ progress[w] = "idle" /\ progress' = [progress EXCEPT ![w] = s]
      /\ UNCHANGED <<now, west, config, spent, free, top, pushes>>
  BY DEF Enforcer!GetLimit
<1>3. BudgetType /\ LimitInv BY DEF BudgetInv
<1>4. c \in Records /\ c.config.amount <= top
  <2>1. a \in 0 .. Most BY MostIsGreatest, BudgetAssumption
  <2>2. 0 \in Stamps /\ now \in Stamps /\ config \in Configs /\ Enforcer!Empty \in Ledger
    BY <1>3, BudgetAssumption, TotalEmpty DEF BudgetType, Stamps
  <2>3. c \in Records BY <2>1, <2>2 DEF Records
  <2> QED BY <1>3, <2>3 DEF LimitInv
<1>5. /\ s \in {"idle", "sum", "decide", "push"}
      /\ s \in {"sum", "decide"} => c.config.enforced
      /\ s = "push" => ~ c.config.enforced
  OBVIOUS
<1>6. \A p : ~ Races(p, s, c) /\ w \notin Open(p) BY <1>2 DEF Races, Hopeful, Open
<1>7. \A p \in Enforcer!Periods : ~ Late(p, s, c)
  <2> SUFFICES ASSUME NEW p \in Enforcer!Periods, s = "push" PROVE ~ (c.stamp < Enforcer!Begins(p))
    BY DEF Late
  <2>1. c.stamp = now OBVIOUS
  <2>2. Enforcer!Begins(p) <= now /\ Enforcer!Begins(p) \in Nat /\ now \in Nat
    BY <1>3, PeriodBegins DEF BudgetType, Stamps
  <2> HIDE DEF c, s
  <2> QED BY <2>1, <2>2
<1> HIDE DEF c, s
<1>8. \A p \in Enforcer!Periods :
        /\ Raced(p)' <= Raced(p) /\ Strays(p)' <= Strays(p)
        /\ spent' \in [Enforcer!Periods -> Ledger] /\ free' \in [Enforcer!Periods -> Ledger]
  BY <1>2, SumsKept
<1>9. spent' \in [Enforcer!Periods -> Ledger] /\ free' \in [Enforcer!Periods -> Ledger]
  BY <1>2, <1>3 DEF BudgetType
<1>10. charge' = [charge EXCEPT ![w] = c] BY <1>1 DEF c
<1> QED BY <1>2, <1>4, <1>5, <1>6, <1>7, <1>8, <1>9, <1>10, WorkerStep, Zenon

(* Whoever reads the list last knows of all that was charged before.       *)
LEMMA BudgetSum ==
  ASSUME BudgetInv, NEW w \in Workers, Enforcer!Sum(w) PROVE BudgetInv'
<1> DEFINE o == charge[w]
           q == o.config.period
           c == [o EXCEPT !.used = spent[q]]
<1>1. /\ progress[w] = "sum" /\ progress' = [progress EXCEPT ![w] = "decide"]
      /\ charge' = [charge EXCEPT ![w] = c]
      /\ UNCHANGED <<now, west, config, spent, free, top, pushes>>
  BY DEF Enforcer!Sum
<1>2. BudgetType /\ LimitInv BY DEF BudgetInv
<1>3. o \in Records /\ q \in Enforcer!Periods /\ spent[q] \in Ledger /\ free[q] \in Ledger
  BY <1>2 DEF BudgetType, Records, Configs
<1>4. /\ c \in Records /\ c.amount = o.amount /\ c.config = o.config /\ c.used = spent[q]
      /\ c.stamp = o.stamp
  BY <1>3 DEF Records
<1>5. c.config.amount <= top /\ c.config.enforced BY <1>1, <1>2, <1>4 DEF LimitInv
<1> HIDE DEF c
<1>6. \A p : w \notin Open(p) /\ ~ Late(p, "decide", c) BY <1>1 DEF Hopeful, Open, Late
<1>7. ASSUME NEW p \in Enforcer!Periods, Races(p, "decide", c) PROVE Raced(p)' + c.amount <= top
  <2>1. /\ p = q
        /\ Enforcer!Total(spent[q], Enforcer!Start(p) .. LastTime) + c.amount
             <= c.config.amount
    BY <1>4, <1>7 DEF Races, Hopeful
  <2>2. /\ Enforcer!Total(spent[q], Enforcer!Start(p) .. LastTime) \in Nat
        /\ Enforcer!Total(free[q], Enforcer!Start(p) .. LastTime) \in Nat
    BY <1>3, TotalType
  <2>3. Raced(p)' = Enforcer!Total(spent[q], Enforcer!Start(p) .. LastTime)
                      - Enforcer!Total(free[q], Enforcer!Start(p) .. LastTime)
    BY <1>1, <2>1, SumsKept DEF Raced, Over
  <2>4. c.amount \in Nat /\ c.config.amount \in Nat /\ top \in Nat
    BY <1>2, <1>4 DEF Records, Configs, BudgetType
  <2> QED BY <1>5, <2>1, <2>2, <2>3, <2>4
<1>8. \A p \in Enforcer!Periods :
        \/ ~ Races(p, "decide", c) /\ Raced(p)' <= Raced(p)
        \/ Races(p, "decide", c) /\ Raced(p)' + c.amount <= top
  BY <1>1, <1>7, SumsKept
<1>9. \A p \in Enforcer!Periods : Strays(p)' <= Strays(p) BY <1>1, SumsKept
<1>10. spent' \in [Enforcer!Periods -> Ledger] /\ free' \in [Enforcer!Periods -> Ledger]
  BY <1>1, <1>2 DEF BudgetType
<1> QED BY <1>1, <1>4, <1>5, <1>6, <1>8, <1>9, <1>10, WorkerStep, Zenon

(* A worker that is let on was hopeful before, and its stamp is the        *)
(* present.                                                                *)
LEMMA BudgetAllow ==
  ASSUME BudgetInv, NEW w \in Workers, Enforcer!Allow(w) PROVE BudgetInv'
<1> DEFINE o == charge[w]
           c == [o EXCEPT !.used = Enforcer!Empty, !.stamp = now]
<1>1. /\ progress[w] = "decide" /\ progress' = [progress EXCEPT ![w] = "push"]
      /\ Enforcer!Used(w) + o.amount <= o.config.amount
      /\ charge' = [charge EXCEPT ![w].used = Enforcer!Empty, ![w].stamp = now]
      /\ UNCHANGED <<now, west, config, spent, free, top, pushes>>
  BY DEF Enforcer!Allow, Enforcer!Stamp
<1>2. BudgetType /\ LimitInv BY DEF BudgetInv
<1>3. o \in Records /\ o.config \in Configs BY <1>2 DEF BudgetType, Records
<1>4. charge' = [charge EXCEPT ![w] = c] BY <1>1, <1>2 DEF BudgetType
<1>5. /\ c \in Records /\ c.amount = o.amount /\ c.config = o.config /\ c.stamp = now
  BY <1>2, <1>3, TotalEmpty DEF Records, BudgetType
<1>6. o.config.amount <= top /\ o.config.enforced BY <1>1, <1>2 DEF LimitInv
<1>7. o.amount <= o.config.amount
  <2>1. Enforcer!Used(w) \in Nat BY <1>3, TotalType DEF Enforcer!Used, Records
  <2> QED BY <1>1, <1>3, <2>1 DEF Records, Configs
<1> HIDE DEF c
<1>8. \A p \in Enforcer!Periods : ~ Late(p, "push", c)
  <2> SUFFICES ASSUME NEW p \in Enforcer!Periods PROVE ~ (c.stamp < Enforcer!Begins(p))
    BY DEF Late
  <2> QED BY <1>2, <1>5, PeriodBegins DEF BudgetType, Stamps
<1>9. ASSUME NEW p PROVE Races(p, "push", c) <=> w \in Open(p)
  <2>1. Races(p, "push", c) <=> o.config.period = p BY <1>5, <1>6 DEF Races, Hopeful
  <2>2. o.config.period = p =>
          Enforcer!Total(o.used, Enforcer!Start(p) .. LastTime) + o.amount <= o.config.amount
    BY <1>1 DEF Enforcer!Used
  <2>3. w \in Open(p) <=> o.config.period = p BY <1>1, <1>6, <2>2 DEF Open, Hopeful
  <2> QED BY <2>1, <2>3
<1>10. \A p \in Enforcer!Periods : Raced(p)' <= Raced(p) /\ Strays(p)' <= Strays(p)
  BY <1>1, SumsKept
<1>11. spent' \in [Enforcer!Periods -> Ledger] /\ free' \in [Enforcer!Periods -> Ledger]
  BY <1>1, <1>2 DEF BudgetType
<1>12. c.config.amount <= top /\ c.amount <= top /\ c.amount = charge[w].amount /\ c.config.enforced
  BY <1>2, <1>3, <1>5, <1>6, <1>7 DEF Records, Configs, BudgetType
<1> QED BY <1>1, <1>4, <1>5, <1>8, <1>9, <1>10, <1>11, <1>12, WorkerStep, Zenon

(* LPUSH: the charge leaves the race, and is counted in the period that it *)
(* is stamped in.                                                          *)
LEMMA BudgetPush ==
  ASSUME BudgetInv, NEW w \in Workers, Enforcer!Push(w) PROVE BudgetInv'
<1> DEFINE n == Enforcer!NoCharge
<1>1. BudgetType BY DEF BudgetInv
<1>2. PICK o \in Records : o = charge[w] BY <1>1 DEF BudgetType
<1>3. PICK q \in Enforcer!Periods : q = o.config.period BY DEF Records, Configs
<1>4. /\ progress[w] = "push" /\ progress' = [progress EXCEPT ![w] = "idle"]
      /\ charge' = [charge EXCEPT ![w] = n]
      /\ spent' = [spent EXCEPT ![q][o.stamp] = @ + o.amount]
      /\ free' = IF o.config.enforced THEN free
                 ELSE [free EXCEPT ![q][o.stamp] = @ + o.amount]
      /\ UNCHANGED <<now, west, config, top>>
  BY <1>2, <1>3 DEF Enforcer!Push, Enforcer!Leave
<1>5. /\ o.stamp \in Stamps /\ o.amount \in Nat /\ o.config.enforced \in BOOLEAN
       /\ spent[q] \in Ledger /\ free[q] \in Ledger
  BY <1>1 DEF BudgetType, Records, Configs
<1>6. n \in Records /\ n.config.amount = 0 /\ ~ n.config.enforced BY NoChargeType
<1>7. n.config.amount <= top BY <1>1, <1>6 DEF BudgetType
<1>8. \A p : ~ Races(p, "idle", n) /\ ~ Late(p, "idle", n) BY DEF Races, Late, Hopeful
<1> HIDE DEF n
<1>9. /\ spent'[q] = [spent[q] EXCEPT ![o.stamp] = @ + o.amount]
      /\ free'[q] = IF o.config.enforced THEN free[q]
                    ELSE [free[q] EXCEPT ![o.stamp] = @ + o.amount]
      /\ \A p \in Enforcer!Periods \ {q} : spent'[p] = spent[p] /\ free'[p] = free[p]
      /\ spent' \in [Enforcer!Periods -> Ledger] /\ free' \in [Enforcer!Periods -> Ledger]
  <2>1. [spent[q] EXCEPT ![o.stamp] = @ + o.amount] \in Ledger BY <1>5 DEF Ledger
  <2>2. [free[q] EXCEPT ![o.stamp] = @ + o.amount] \in Ledger BY <1>5 DEF Ledger
  <2>3. /\ spent' = [spent EXCEPT ![q] = [spent[q] EXCEPT ![o.stamp] = @ + o.amount]]
        /\ free' = IF o.config.enforced THEN free
                   ELSE [free EXCEPT ![q] = [free[q] EXCEPT ![o.stamp] = @ + o.amount]]
    BY <1>4
  <2>4. spent \in [Enforcer!Periods -> Ledger] /\ free \in [Enforcer!Periods -> Ledger]
    BY <1>1 DEF BudgetType
  <2> QED BY <1>5, <2>1, <2>2, <2>3, <2>4
<1>10. ASSUME NEW p \in Enforcer!Periods
      PROVE  /\ Raced(p)' = Over(spent'[p], free'[p], Enforcer!Start(p))
             /\ Strays(p)' = Enforcer!Total(spent'[p], 0 .. Enforcer!Begins(p) - 1)
  BY <1>4, SamePeriod DEF Raced, Strays, Over
<1>11. ASSUME NEW p \in Enforcer!Periods, p # q
      PROVE  /\ w \notin Open(p) /\ Raced(p)' <= Raced(p) /\ Strays(p)' <= Strays(p)
  <2>1. spent'[p] = spent[p] /\ free'[p] = free[p] /\ spent[p] \in Ledger /\ free[p] \in Ledger
    BY <1>1, <1>9, <1>11 DEF BudgetType
  <2>2. Raced(p)' = Raced(p) /\ Strays(p)' = Strays(p) /\ Raced(p) \in Int /\ Strays(p) \in Nat
    BY <1>10, <2>1, TotalType DEF Raced, Strays, Over
  <2> QED BY <1>2, <1>3, <1>11, <2>2 DEF Open
<1> DEFINE from == Enforcer!Start(q) .. LastTime
           past == 0 .. Enforcer!Begins(q) - 1
<1>12. /\ Enforcer!Total(spent[q], from) \in Nat /\ Enforcer!Total(free[q], from) \in Nat
       /\ Enforcer!Total(spent[q], past) \in Nat
  BY <1>5, TotalType
<1>13. \A stamps :
         /\ Enforcer!Total([spent[q] EXCEPT ![o.stamp] = @ + o.amount], stamps)
              = Enforcer!Total(spent[q], stamps) + (IF o.stamp \in stamps THEN o.amount ELSE 0)
         /\ Enforcer!Total([free[q] EXCEPT ![o.stamp] = @ + o.amount], stamps)
              = Enforcer!Total(free[q], stamps) + (IF o.stamp \in stamps THEN o.amount ELSE 0)
  <2> QED BY <1>5, TotalMore
<1>14. \/ w \in Open(q) /\ Raced(q)' <= Raced(q) + o.amount
       \/ w \notin Open(q) /\ Raced(q)' <= Raced(q)
  <2> DEFINE a == Enforcer!Total(spent[q], from)
             b == Enforcer!Total(free[q], from)
             x == IF o.stamp \in from THEN o.amount ELSE 0
  <2>1. Raced(q) = a - b BY DEF Raced, Over
  <2>2. Raced(q)' = (a + x) - (IF o.config.enforced THEN b ELSE b + x)
    <3>1. Raced(q)' = Enforcer!Total(spent'[q], from) - Enforcer!Total(free'[q], from)
      BY <1>10 DEF Over
    <3>2. Enforcer!Total(spent'[q], from) = a + x BY <1>9, <1>13
    <3>3. CASE o.config.enforced
      <4>1. free'[q] = free[q] BY <1>9, <3>3
      <4> QED BY <3>1, <3>2, <3>3, <4>1
    <3>4. CASE ~ o.config.enforced
      <4>1. Enforcer!Total(free'[q], from) = b + x BY <1>9, <1>13, <3>4
      <4> QED BY <3>1, <3>2, <3>4, <4>1
    <3> QED BY <3>3, <3>4
  <2>3. w \in Open(q) <=> o.config.enforced BY <1>4, <1>2, <1>3 DEF Open, Hopeful
  <2>4. a \in Nat /\ b \in Nat /\ x \in Nat /\ x <= o.amount BY <1>12, <1>5
  <2> HIDE DEF a, b, x
  <2> QED BY <1>5, <2>1, <2>2, <2>3, <2>4
<1>15. \/ w \in Behind(q) /\ Strays(q)' <= Strays(q) + o.amount
       \/ Strays(q)' <= Strays(q)
  <2> DEFINE a == Enforcer!Total(spent[q], past)
  <2>1. Strays(q) = a /\ Strays(q)' = a + (IF o.stamp \in past THEN o.amount ELSE 0)
    BY <1>9, <1>10, <1>13 DEF Strays
  <2>2. o.stamp \in past => w \in Behind(q)
    <3>1. Enforcer!Begins(q) \in Nat BY <1>1, PeriodBegins
    <3>2. o.stamp \in past => o.stamp < Enforcer!Begins(q) BY <1>5, <3>1
    <3> QED BY <1>4, <1>2, <1>3, <3>2 DEF Behind
  <2>3. a \in Nat BY <1>12
  <2> HIDE DEF a, past
  <2> QED BY <1>5, <2>1, <2>2, <2>3
<1>16. \A p \in Enforcer!Periods :
         \/ w \notin Open(p) /\ Raced(p)' <= Raced(p)
         \/ w \in Open(p) /\ Raced(p)' <= Raced(p) + charge[w].amount
  BY <1>2, <1>11, <1>14
<1>17. \A p \in Enforcer!Periods :
         \/ Strays(p)' <= Strays(p)
         \/ w \in Behind(p) /\ Strays(p)' <= Strays(p) + charge[w].amount
  BY <1>2, <1>11, <1>15
<1>18. UNCHANGED <<now, west, config, top>> BY <1>4
<1> QED BY <1>4, <1>6, <1>7, <1>8, <1>9, <1>16, <1>17, <1>18, WorkerStep, Zenon

(* A new limit may be lower, but the bound is that of the highest.         *)
LEMMA BudgetSetLimit ==
  ASSUME BudgetInv, Enforcer!SetLimit PROVE BudgetInv'
<1>1. PICK a \in Limits, p \in Enforcer!Periods :
        /\ config' = [amount |-> a, period |-> p, enforced |-> TRUE]
        /\ top' = IF a > top THEN a ELSE top
  BY DEF Enforcer!SetLimit
<1>2. UNCHANGED <<now, west, spent, progress, charge, free, pushes>> BY DEF Enforcer!SetLimit
<1>3. BudgetType /\ LimitInv /\ RaceInv /\ BehindInv BY DEF BudgetInv
<1>4. a \in Nat /\ top \in Nat /\ top' \in Nat /\ top <= top' /\ a <= top' /\ config' \in Configs
  BY <1>1, <1>3, BudgetAssumption DEF BudgetType, Configs
<1>5. BudgetType' BY <1>2, <1>3, <1>4 DEF BudgetType
<1>6. LimitInv'
  <2>1. \A w \in Workers : charge[w].config.amount \in Nat /\ charge[w].amount \in Nat
    BY <1>3 DEF BudgetType, Records, Configs
  <2> QED BY <1>1, <1>2, <1>3, <1>4, <2>1 DEF LimitInv
<1>7. ASSUME NEW r \in Enforcer!Periods
      PROVE  /\ Open(r)' = Open(r) /\ Behind(r)' = Behind(r)
             /\ Enforcer!Start(r)' = Enforcer!Start(r) /\ Enforcer!Begins(r)' = Enforcer!Begins(r)
  <2>1. Enforcer!Start(r)' = Enforcer!Start(r) /\ Enforcer!Begins(r)' = Enforcer!Begins(r)
    BY <1>2, SamePeriod
  <2> QED BY <1>2, <2>1 DEF Open, Behind
<1>8. RaceInv'
  <2> SUFFICES ASSUME NEW r \in Enforcer!Periods
      PROVE  Room(Over(spent[r], free[r], Enforcer!Start(r)), Open(r), AmountOf(charge), top)'
    BY DEF RaceInv
  <2> DEFINE c == Over(spent[r], free[r], Enforcer!Start(r))
  <2>1. c \in Int /\ c <= c
    <3>1. spent[r] \in Ledger /\ free[r] \in Ledger BY <1>3 DEF BudgetType
    <3> QED BY <3>1, TotalType DEF Over
  <2>2. AmountOf(charge) \in Charges BY <1>3 DEF AmountOf, Charges, BudgetType, Records
  <2>3. Room(c, Open(r), AmountOf(charge), top) BY <1>3 DEF RaceInv
  <2>4. Open(r) \in SUBSET Workers BY DEF Open
  <2> HIDE DEF c
  <2>5. Room(c, Open(r), AmountOf(charge), top') BY <1>4, <2>1, <2>2, <2>3, <2>4, RoomKept
  <2>6. c = Over(spent'[r], free'[r], Enforcer!Start(r)') /\ AmountOf(charge') = AmountOf(charge)
    BY <1>2, <1>7 DEF c
  <2> QED BY <1>7, <2>5, <2>6 DEF Over, Room, AmountOf, Bound
<1>9. BehindInv' BY <1>2, <1>3, <1>7 DEF BehindInv, Bound
<1> QED BY <1>5, <1>6, <1>8, <1>9 DEF BudgetInv

(* In a new period all lists are empty, and whoever is still to enter a    *)
(* charge was let on by a limit that it is within.                         *)
LEMMA BudgetAdvance ==
  ASSUME BudgetInv, Enforcer!Advance PROVE BudgetInv'
<1> DEFINE Same(p) == Enforcer!Tag(p, now + 1) = Enforcer!Tag(p, now)
<1>1. /\ now < LastTime /\ now' = now + 1
      /\ spent' = [p \in Enforcer!Periods |-> IF Same(p) THEN spent[p] ELSE Enforcer!Empty]
      /\ free' = [p \in Enforcer!Periods |-> IF Same(p) THEN free[p] ELSE Enforcer!Empty]
      /\ UNCHANGED <<west, config, progress, charge, top, pushes>>
  BY DEF Enforcer!Advance
<1>2. BudgetType /\ LimitInv /\ RaceInv /\ BehindInv BY DEF BudgetInv
<1>3. ASSUME NEW p \in Enforcer!Periods, Same(p)
      PROVE  /\ Enforcer!Start(p)' = Enforcer!Start(p) /\ Enforcer!Begins(p)' = Enforcer!Begins(p)
             /\ spent'[p] = spent[p] /\ free'[p] = free[p]
             /\ Open(p)' = Open(p) /\ Behind(p)' = Behind(p)
  <2>1. Enforcer!Start(p)' = Enforcer!Start(p) /\ Enforcer!Begins(p)' = Enforcer!Begins(p)
    BY <1>1, <1>3 DEF Enforcer!Start, Enforcer!Begins, Enforcer!Tag
  <2>2. spent'[p] = spent[p] /\ free'[p] = free[p] BY <1>1, <1>3
  <2> QED BY <1>1, <2>1, <2>2 DEF Open, Behind
<1>4. ASSUME NEW p \in Enforcer!Periods, ~ Same(p)
      PROVE  spent'[p] = Enforcer!Empty /\ free'[p] = Enforcer!Empty
  BY <1>1, <1>4
<1> HIDE DEF Same
<1>5. BudgetType'
  <2>1. now' \in Stamps BY <1>1, <1>2, BudgetAssumption DEF BudgetType, Stamps
  <2>2. \A p \in Enforcer!Periods : spent'[p] \in Ledger /\ free'[p] \in Ledger
    BY <1>2, <1>3, <1>4, TotalEmpty DEF BudgetType
  <2>3. spent' \in [Enforcer!Periods -> Ledger] /\ free' \in [Enforcer!Periods -> Ledger]
    BY <1>1, <2>2
  <2> QED BY <1>1, <1>2, <2>1, <2>3 DEF BudgetType
<1>6. LimitInv' BY <1>1, <1>2 DEF LimitInv
<1>7. AmountOf(charge) \in Charges /\ top \in Nat /\ AmountOf(charge)' = AmountOf(charge)
  BY <1>1, <1>2 DEF AmountOf, Charges, BudgetType, Records
<1>8. RaceInv'
  <2> SUFFICES ASSUME NEW p \in Enforcer!Periods
      PROVE  Room(Over(spent[p], free[p], Enforcer!Start(p)), Open(p), AmountOf(charge), top)'
    BY DEF RaceInv
  <2>1. CASE Same(p)
    <3>1. Room(Over(spent[p], free[p], Enforcer!Start(p)), Open(p), AmountOf(charge), top)
      BY <1>2 DEF RaceInv
    <3> QED BY <1>1, <1>3, <1>7, <2>1, <3>1 DEF Room, Over, Bound
  <2>2. CASE ~ Same(p)
    <3>1. Over(spent'[p], free'[p], Enforcer!Start(p)') = 0 BY <1>4, <2>2, TotalEmpty DEF Over
    <3>2. SUFFICES Room(0, Open(p)', AmountOf(charge), top)
      BY <1>1, <1>7, <3>1 DEF Room, Over, Bound
    <3>3. Open(p)' \in SUBSET Workers BY DEF Open
    <3>4. CASE Open(p)' = {}
      <4>1. Bound(Cardinality(Workers) - 1) \in Nat BY WorkerCount, BoundGrows
      <4> QED BY <1>7, <3>4, <4>1 DEF Room
    <3>5. CASE Open(p)' # {}
      <4>1. PICK w \in Workers : w \in Open(p)' BY <3>3, <3>5
      <4>2. Hopeful(progress[w], charge[w], Enforcer!Start(p)') BY <1>1, <4>1 DEF Open
      <4>3. charge[w].amount <= top
        <5>1. charge[w] \in Records /\ top \in Nat BY <1>2 DEF BudgetType
        <5>2. CASE progress[w] = "push" BY <1>2, <4>2, <5>2 DEF Hopeful, LimitInv
        <5>3. CASE progress[w] # "push"
          <6>1. Enforcer!Total(charge[w].used, Enforcer!Start(p)' .. LastTime) \in Nat
            BY <5>1, TotalType DEF Records
          <6>2. Enforcer!Total(charge[w].used, Enforcer!Start(p)' .. LastTime) + charge[w].amount
                  <= charge[w].config.amount
            BY <4>2, <5>3 DEF Hopeful
          <6>3. charge[w].config.amount <= top BY <1>2 DEF LimitInv
          <6> QED BY <5>1, <6>1, <6>2, <6>3 DEF Records, Configs
        <5> QED BY <5>2, <5>3
      <4>4. 0 + AmountOf(charge)[w] <= top BY <1>2, <4>3 DEF AmountOf, BudgetType, Records
      <4> QED BY <1>7, <3>3, <4>1, <4>4, RoomMore
    <3> QED BY <3>4, <3>5
  <2> QED BY <2>1, <2>2
<1>9. BehindInv'
  <2> SUFFICES ASSUME NEW p \in Enforcer!Periods
      PROVE  (Enforcer!Total(spent[p], 0 .. Enforcer!Begins(p) - 1) + Bound(Cardinality(Behind(p)))
                <= Bound(Cardinality(Workers)))'
    BY DEF BehindInv
  <2>1. CASE Same(p) BY <1>2, <1>3, <2>1 DEF BehindInv, Bound
  <2>2. CASE ~ Same(p)
    <3>1. Enforcer!Total(spent'[p], 0 .. Enforcer!Begins(p)' - 1) = 0 BY <1>4, <2>2, TotalEmpty
    <3>2. Behind(p)' \in SUBSET Workers BY DEF Behind
    <3>3. Bound(Cardinality(Behind(p)')) <= Bound(Cardinality(Workers))
          /\ Bound(Cardinality(Behind(p)')) \in Nat
      BY <3>2, WorkerCount, BoundGrows
    <3> QED BY <3>1, <3>3 DEF Bound
  <2> QED BY <2>1, <2>2
<1> QED BY <1>5, <1>6, <1>8, <1>9 DEF BudgetInv

(* Every step keeps the invariant.                                         *)
LEMMA BudgetStep == BudgetInv /\ [Enforcer!Next]_(Enforcer!vars) => BudgetInv'
<1> SUFFICES ASSUME BudgetInv, [Enforcer!Next]_(Enforcer!vars) PROVE BudgetInv'
  OBVIOUS
<1>1. ASSUME NEW w \in Workers,
             \/ Enforcer!GetLimit(w) \/ Enforcer!Sum(w) \/ Enforcer!Block(w)
             \/ Enforcer!Allow(w) \/ Enforcer!Push(w) \/ Enforcer!Crash(w)
      PROVE  BudgetInv'
  <2>1. CASE Enforcer!GetLimit(w) BY <2>1, BudgetGetLimit
  <2>2. CASE Enforcer!Sum(w) BY <2>2, BudgetSum
  <2>3. CASE Enforcer!Block(w) BY <2>3, BudgetLeave DEF Enforcer!Block
  <2>4. CASE Enforcer!Allow(w) BY <2>4, BudgetAllow
  <2>5. CASE Enforcer!Push(w) BY <2>5, BudgetPush
  <2>6. CASE Enforcer!Crash(w) BY <2>6, BudgetLeave DEF Enforcer!Crash
  <2> QED BY <1>1, <2>1, <2>2, <2>3, <2>4, <2>5, <2>6
<1>2. CASE Enforcer!SetLimit BY <1>2, BudgetSetLimit
<1>3. CASE Enforcer!Advance BY <1>3, BudgetAdvance
<1>4. CASE UNCHANGED Enforcer!vars
  <2>1. UNCHANGED <<now, west, config, spent, progress, charge, free, top>>
    BY <1>4 DEF Enforcer!vars
  <2>2. \A p : /\ Enforcer!Start(p)' = Enforcer!Start(p) /\ Enforcer!Begins(p)' = Enforcer!Begins(p)
               /\ Open(p)' = Open(p) /\ Behind(p)' = Behind(p)
    BY <2>1, SamePeriod DEF Open, Behind
  <2> QED BY <2>1, <2>2
          DEF BudgetInv, BudgetType, LimitInv, RaceInv, BehindInv, Room, Over, AmountOf, Bound
<1> QED BY <1>1, <1>2, <1>3, <1>4 DEF Enforcer!Next

(* "Spend limits that block over-budget charges": whatever the workers do  *)
(* between reading the list and adding to it, whenever they die, and       *)
(* however the limit and the period change, what was charged against       *)
(* limits exceeds the highest of them by at most one charge for every      *)
(* other worker; and of charges stamped in an earlier period no more enter *)
(* than there are workers.                                                 *)
THEOREM Overspend == Enforcer!Spec => []OverspendBounded
<1>1. Enforcer!Init => BudgetInv BY BudgetInit
<1>2. BudgetInv /\ [Enforcer!Next]_(Enforcer!vars) => BudgetInv' BY BudgetStep
<1>3. BudgetInv => OverspendBounded BY BudgetBound
<1> QED BY <1>1, <1>2, <1>3, PTL DEF Enforcer!Spec
=============================================================================
