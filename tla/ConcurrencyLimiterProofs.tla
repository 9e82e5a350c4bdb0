---------------------- MODULE ConcurrencyLimiterProofs ----------------------
(***************************************************************************)
(* The guarantees of the bulkhead for any number of workers, any limit and *)
(* any hold window.                                                        *)
(***************************************************************************)
EXTENDS ConcurrencyLimiter, FiniteSetTheorems, TLAPS

(* No score lies in the future.                                            *)
ClockInv == \A t \in Tokens : score[t] <= now

(* A token not yet added is not in the set.                                *)
AddInv == \A t \in Tokens : pc[t] = "zadd" => t \notin zset

(* What was stale when t began stays older than t's cutoff until t trims,  *)
(* is gone afterwards, and nobody is about to add it.                      *)
StaleInv ==
  \A t \in Tokens : \A u \in stale[t] :
    /\ pc[u] # "zadd"
    /\ pc[t] \in {"zadd", "trim"} => score[u] <= score[t] - MaxHold
    /\ pc[t] \in {"expire", "count"} => u \notin zset

(* The recorded holders fit in the limit, because a grant counted them all.*)
CapInv == Cardinality(RecordedHolders) <= MaxConcurrent

LimiterInv ==
  TypeOK /\ ClockInv /\ AddInv /\ FreshIsRecorded /\ StaleInv /\ CapInv

-----------------------------------------------------------------------------

(* Every step keeps the types.                                             *)
LEMMA StepType == TypeOK /\ [Next]_vars => TypeOK'
<1> SUFFICES ASSUME TypeOK, [Next]_vars PROVE TypeOK'
  OBVIOUS
<1> USE LimiterAssumption DEF TypeOK, Goto, Remove, NoTTL, Steps
<1>1. ASSUME NEW t \in Tokens, Step(t)
      PROVE  TypeOK'
  <2>1. CASE Begin(t)
    BY <2>1 DEF Begin, OlderThan
  <2>2. CASE ZAdd(t)
    BY <2>2 DEF ZAdd
  <2>3. CASE Trim(t) \/ SetExpiry(t) \/ Count(t)
    BY <2>3 DEF Trim, SetExpiry, Count
  <2>4. CASE Reject(t) \/ Release(t) \/ Crash(t)
    BY <2>4 DEF Reject, Release, Crash
  <2> QED
    BY <1>1, <2>1, <2>2, <2>3, <2>4 DEF Step
<1>2. CASE InFlight
  BY <1>2 DEF InFlight
<1>3. CASE Tick
  BY <1>3 DEF Tick
<1>4. CASE UNCHANGED vars
  BY <1>4 DEF vars
<1> QED
  BY <1>1, <1>2, <1>3, <1>4 DEF Next

(* Scores come from a clock that only advances.                            *)
LEMMA StepClock == TypeOK /\ ClockInv /\ [Next]_vars => ClockInv'
<1> SUFFICES ASSUME TypeOK, ClockInv, [Next]_vars, NEW t \in Tokens
             PROVE  score'[t] <= now'
  BY DEF ClockInv
<1> USE DEF TypeOK, ClockInv
<1>1. ASSUME NEW u \in Tokens, Step(u)
      PROVE  score'[t] <= now'
  BY <1>1 DEF Step, Begin, ZAdd, Trim, SetExpiry, Count, Reject, Release, Crash
<1>2. CASE InFlight \/ Tick \/ UNCHANGED vars
  BY <1>2 DEF InFlight, Tick, vars
<1> QED
  BY <1>1, <1>2 DEF Next

(* A token enters the set only by its own ZADD.                            *)
LEMMA StepAdd == TypeOK /\ AddInv /\ [Next]_vars => AddInv'
<1> SUFFICES ASSUME TypeOK, AddInv, [Next]_vars, NEW t \in Tokens, pc'[t] = "zadd"
             PROVE  t \notin zset'
  BY DEF AddInv
<1> USE DEF TypeOK, AddInv, Goto, Remove
<1>1. ASSUME NEW u \in Tokens, Step(u)
      PROVE  t \notin zset'
  BY <1>1 DEF Step, Begin, ZAdd, Trim, SetExpiry, Count, Reject, Release, Crash
<1>2. CASE InFlight \/ Tick \/ UNCHANGED vars
  BY <1>2 DEF InFlight, Tick, vars
<1> QED
  BY <1>1, <1>2 DEF Next

(* No trim reaches a token that is still fresh.                            *)
LEMMA StepFresh == TypeOK /\ ClockInv /\ FreshIsRecorded /\ [Next]_vars => FreshIsRecorded'
<1> SUFFICES ASSUME TypeOK, ClockInv, FreshIsRecorded, [Next]_vars, NEW t \in Tokens,
                    pc'[t] \in {"trim", "expire", "count", "reject", "held"},
                    now' - score'[t] < MaxHold
             PROVE  t \in zset' \cup dropped'
  BY DEF FreshIsRecorded, Fresh
<1> USE LimiterAssumption DEF TypeOK, ClockInv, FreshIsRecorded, Fresh, Goto, Remove, OlderThan
<1>1. ASSUME NEW u \in Tokens, Step(u)
      PROVE  t \in zset' \cup dropped'
  <2>1. CASE Begin(u)
    BY <2>1 DEF Begin
  <2>2. CASE ZAdd(u)
    BY <2>2 DEF ZAdd
  <2>3. CASE Trim(u)
    BY <2>3 DEF Trim
  <2>4. CASE SetExpiry(u) \/ Count(u) \/ Crash(u)
    BY <2>4 DEF SetExpiry, Count, Crash
  <2>5. CASE Reject(u) \/ Release(u)
    BY <2>5 DEF Reject, Release
  <2> QED
    BY <1>1, <2>1, <2>2, <2>3, <2>4, <2>5 DEF Step
<1>2. CASE InFlight
  BY <1>2 DEF InFlight
<1>3. CASE Tick
  BY <1>3 DEF Tick
<1>4. CASE UNCHANGED vars
  BY <1>4 DEF vars
<1> QED
  BY <1>1, <1>2, <1>3, <1>4 DEF Next

(* What was stale at the start of an acquire is gone when it counts.       *)
LEMMA StepStale == TypeOK /\ AddInv /\ StaleInv /\ [Next]_vars => StaleInv'
<1> SUFFICES ASSUME TypeOK, AddInv, StaleInv, [Next]_vars,
                    NEW t \in Tokens, NEW u \in stale'[t]
             PROVE  /\ pc'[u] # "zadd"
                    /\ pc'[t] \in {"zadd", "trim"} => score'[u] <= score'[t] - MaxHold
                    /\ pc'[t] \in {"expire", "count"} => u \notin zset'
  BY DEF StaleInv
<1> USE LimiterAssumption DEF TypeOK, AddInv, StaleInv, Goto, Remove, OlderThan
<1>1. ASSUME NEW v \in Tokens, Step(v)
      PROVE  /\ pc'[u] # "zadd"
             /\ pc'[t] \in {"zadd", "trim"} => score'[u] <= score'[t] - MaxHold
             /\ pc'[t] \in {"expire", "count"} => u \notin zset'
  <2>1. CASE Begin(v)
    BY <2>1 DEF Begin
  <2>2. CASE ZAdd(v)
    BY <2>2 DEF ZAdd
  <2>3. CASE Trim(v)
    BY <2>3 DEF Trim
  <2>4. CASE SetExpiry(v) \/ Count(v) \/ Crash(v)
    BY <2>4 DEF SetExpiry, Count, Crash
  <2>5. CASE Reject(v) \/ Release(v)
    BY <2>5 DEF Reject, Release
  <2> QED
    BY <1>1, <2>1, <2>2, <2>3, <2>4, <2>5 DEF Step
<1>2. CASE InFlight \/ Tick \/ UNCHANGED vars
  BY <1>2 DEF InFlight, Tick, vars
<1> QED
  BY <1>1, <1>2 DEF Next

(* The members are finitely many, and so is every part of them.            *)
LEMMA Finite ==
  ASSUME TypeOK, NEW S \in SUBSET Tokens, NEW T \in SUBSET S
  PROVE  /\ IsFiniteSet(S) /\ IsFiniteSet(T)
         /\ Cardinality(S) \in Nat /\ Cardinality(T) \in Nat
         /\ Cardinality(T) <= Cardinality(S)
<1>1. IsFiniteSet(S)
  BY LimiterAssumption, FS_Subset
<1>2. IsFiniteSet(T) /\ Cardinality(T) <= Cardinality(S)
  BY <1>1, FS_Subset
<1> QED
  BY <1>1, <1>2, FS_CardinalityType

(* Only a grant adds a recorded holder; every other step keeps or drops.   *)
LEMMA HoldersStep ==
  ASSUME TypeOK, AddInv, [Next]_vars
  PROVE  \/ RecordedHolders' \subseteq RecordedHolders
         \/ \E t \in Tokens :
              /\ pc[t] = "count" /\ t \in zset
              /\ Cardinality(zset) <= MaxConcurrent
              /\ RecordedHolders' = RecordedHolders \cup {t}
<1> USE DEF TypeOK, AddInv, RecordedHolders, Held, Goto, Remove
<1>1. ASSUME NEW t \in Tokens, Begin(t) \/ ZAdd(t)
      PROVE  RecordedHolders' \subseteq RecordedHolders
  BY <1>1 DEF Begin, ZAdd
<1>2. ASSUME NEW t \in Tokens, Trim(t) \/ SetExpiry(t)
      PROVE  RecordedHolders' \subseteq RecordedHolders
  BY <1>2 DEF Trim, SetExpiry
<1>3. ASSUME NEW t \in Tokens, Reject(t) \/ Release(t) \/ Crash(t)
      PROVE  RecordedHolders' \subseteq RecordedHolders
  BY <1>3 DEF Reject, Release, Crash
<1>4. ASSUME NEW t \in Tokens, Count(t)
      PROVE  \/ RecordedHolders' \subseteq RecordedHolders
             \/ /\ pc[t] = "count" /\ t \in zset
                /\ Cardinality(zset) <= MaxConcurrent
                /\ RecordedHolders' = RecordedHolders \cup {t}
  <2>1. CASE Cardinality(zset) > MaxConcurrent
    BY <1>4, <2>1 DEF Count
  <2>2. CASE ~(Cardinality(zset) > MaxConcurrent)
    <3>1. Cardinality(zset) <= MaxConcurrent
      BY <2>2, Finite, LimiterAssumption
    <3>2. pc' = [pc EXCEPT ![t] = "held"] /\ zset' = zset /\ pc[t] = "count"
      BY <1>4, <2>2 DEF Count
    <3> QED
      BY <3>1, <3>2
  <2> QED
    BY <2>1, <2>2
<1>5. CASE InFlight \/ Tick \/ UNCHANGED vars
  BY <1>5 DEF InFlight, Tick, vars
<1> QED
  BY <1>1, <1>2, <1>3, <1>4, <1>5 DEF Next, Step

(* A grant has counted all recorded holders, itself included.              *)
LEMMA StepCap == TypeOK /\ TypeOK' /\ AddInv /\ CapInv /\ [Next]_vars => CapInv'
<1> SUFFICES ASSUME TypeOK, TypeOK', AddInv, CapInv, [Next]_vars PROVE CapInv'
  OBVIOUS
<1> USE LimiterAssumption
<1>0. RecordedHolders \subseteq Tokens /\ RecordedHolders \subseteq zset /\ zset \subseteq Tokens
  BY DEF RecordedHolders, Held, TypeOK
<1>1. CASE RecordedHolders' \subseteq RecordedHolders
  BY <1>0, <1>1, Finite DEF CapInv
<1>2. ASSUME NEW t \in Tokens, t \in zset, Cardinality(zset) <= MaxConcurrent,
             RecordedHolders' = RecordedHolders \cup {t}
      PROVE  CapInv'
  <2>1. RecordedHolders' \subseteq zset
    BY <1>0, <1>2
  <2> QED
    BY <1>0, <1>2, <2>1, Finite DEF CapInv
<1> QED
  BY <1>1, <1>2, HoldersStep

-----------------------------------------------------------------------------

(* The inductive invariant of the bulkhead.                                *)
THEOREM LimiterInvariant == Spec => []LimiterInv
<1>1. Init => LimiterInv
  <2> SUFFICES ASSUME Init PROVE LimiterInv
    OBVIOUS
  <2>1. TypeOK /\ ClockInv /\ AddInv /\ FreshIsRecorded /\ StaleInv
    BY LimiterAssumption
       DEF Init, TypeOK, ClockInv, AddInv, FreshIsRecorded, StaleInv, NoTTL, Steps
  <2>2. RecordedHolders = {}
    BY DEF Init, RecordedHolders
  <2>3. CapInv
    BY <2>2, FS_EmptySet, LimiterAssumption DEF CapInv
  <2> QED
    BY <2>1, <2>3 DEF LimiterInv
<1>2. LimiterInv /\ [Next]_vars => LimiterInv'
  BY StepType, StepClock, StepAdd, StepFresh, StepStale, StepCap DEF LimiterInv
<1> QED
  BY <1>1, <1>2, PTL DEF Spec

(* The variables keep their types.                                         *)
THEOREM TypeCorrect == Spec => []TypeOK
<1>1. LimiterInv => TypeOK
  BY DEF LimiterInv
<1> QED BY <1>1, LimiterInvariant, PTL

(* A fresh holder keeps its entry, unless the whole key expired.           *)
THEOREM FreshRecorded == Spec => []FreshIsRecorded
BY LimiterInvariant, PTL DEF LimiterInv

(* Fresh holders not hit by the key's expiry never exceed max_concurrent.  *)
THEOREM LimitHolds == Spec => []FreshWithinLimit
<1>1. LimiterInv => FreshWithinLimit
  <2> SUFFICES ASSUME LimiterInv PROVE FreshWithinLimit
    OBVIOUS
  <2>1. TypeOK /\ FreshIsRecorded /\ CapInv
    BY DEF LimiterInv
  <2>2. /\ FreshHolders \ dropped \subseteq RecordedHolders
        /\ RecordedHolders \subseteq Tokens
    BY <2>1 DEF FreshHolders, FreshIsRecorded, RecordedHolders, Held
  <2> QED
    BY <2>1, <2>2, Finite, LimiterAssumption DEF CapInv, FreshWithinLimit
<1> QED
  BY <1>1, LimiterInvariant, PTL

(* An entry that was stale when an acquire began never counts against it.  *)
THEOREM CrashedHolderFreed == Spec => []StaleCannotBlock
<1>1. LimiterInv => StaleCannotBlock
  BY DEF LimiterInv, StaleInv, StaleCannotBlock, TypeOK
<1> QED
  BY <1>1, LimiterInvariant, PTL

(* The add-then-check protocol implements the atomic bulkhead.             *)
THEOREM Refinement == Spec => ImplementsSlots
<1> USE LimiterAssumption
<1>1. Init => Slots!Init
  BY DEF Init, Slots!Init, RecordedHolders
<1>2. LimiterInv /\ [Next]_vars => [Slots!Next]_RecordedHolders
  <2> SUFFICES ASSUME LimiterInv, [Next]_vars
               PROVE  Slots!Next
    OBVIOUS
  <2>0. TypeOK /\ AddInv /\ RecordedHolders \subseteq zset /\ zset \subseteq Tokens
    BY DEF LimiterInv, TypeOK, RecordedHolders
  <2>1. CASE RecordedHolders' \subseteq RecordedHolders
    BY <2>1 DEF Slots!Next, Slots!Vacate
  <2>2. ASSUME NEW t \in Tokens, pc[t] = "count", t \in zset,
               Cardinality(zset) <= MaxConcurrent,
               RecordedHolders' = RecordedHolders \cup {t}
        PROVE  Slots!Take(t)
    <3>1. t \notin RecordedHolders
      BY <2>2 DEF RecordedHolders, Held
    <3>2. /\ IsFiniteSet(RecordedHolders) /\ Cardinality(RecordedHolders) \in Nat
          /\ Cardinality(zset) \in Nat
          /\ Cardinality(RecordedHolders \cup {t}) <= Cardinality(zset)
      <4>1. /\ RecordedHolders \in SUBSET zset /\ zset \in SUBSET Tokens
            /\ RecordedHolders \cup {t} \in SUBSET zset
        BY <2>0, <2>2
      <4> QED
        BY <2>0, <4>1, Finite
    <3>3. Cardinality(RecordedHolders \cup {t}) = Cardinality(RecordedHolders) + 1
      BY <3>1, <3>2, FS_AddElement
    <3>4. Slots!Cardinality(RecordedHolders) = Cardinality(RecordedHolders)
      BY Zenon DEF Slots!Cardinality, Cardinality
    <3> QED
      BY <2>2, <3>1, <3>2, <3>3, <3>4 DEF Slots!Take
  <2> QED
    BY <2>0, <2>1, <2>2, HoldersStep DEF Slots!Next
<1> QED
  BY <1>1, <1>2, LimiterInvariant, PTL DEF Spec, ImplementsSlots, Slots!Spec
=============================================================================
