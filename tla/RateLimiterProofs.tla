-------------------------- MODULE RateLimiterProofs --------------------------
(***************************************************************************)
(* The limit of the rate limiter for any number of calls, any max_requests *)
(* and window, and any difference between the clients' clocks and Redis's. *)
(***************************************************************************)
EXTENDS RateLimiter, FiniteSetTheorems, TLAPS

(* Every member is an admitted call of the past, and its timestamp differs *)
(* from the time it was admitted by no more than the clocks do.            *)
StampInv ==
  \A c \in admitted :
    /\ at[c] <= now
    /\ score[c] \in at[c] - Lag .. at[c] + Lead

MemberInv == zset \subseteq admitted

(* No trim and no expiry has removed a call from the window that all the   *)
(* clients' clocks agree on.                                               *)
RecentInv == Within(Window - Lag - Lead) \ overwritten \subseteq zset

CapInv == Cardinality(zset) <= MaxRequests

RateInv ==
  TypeOK /\ StampInv /\ MemberInv /\ RecentInv /\ KeyOutlivesWindow /\ CapInv

-----------------------------------------------------------------------------
(* The initial state satisfies the invariant.                              *)
LEMMA InitInv == Init => RateInv
BY RateAssumption, FS_EmptySet DEF Init, RateInv, TypeOK, StampInv, MemberInv,
   RecentInv, Within, KeyOutlivesWindow, CapInv, NoTTL

(* Sets of calls are finite and their sizes are natural numbers.           *)
LEMMA Sizes ==
  ASSUME NEW S, S \subseteq Calls
  PROVE  IsFiniteSet(S) /\ Cardinality(S) \in Nat
BY RateAssumption, FS_Subset, FS_CardinalityType

(* A script or a remaining() whose timestamp is t removes nothing from the *)
(* window that all clocks agree on.                                        *)
LEMMA KeptRecent ==
  ASSUME TypeOK, StampInv, RecentInv, NEW t \in Timestamps
  PROVE  /\ t \in Int
         /\ Within(Window - Lag - Lead) \ overwritten \subseteq Kept(t)
         /\ Kept(t) \subseteq zset
BY RateAssumption DEF TypeOK, StampInv, RecentInv, Timestamps, Within, Kept

(* A timestamp before the epoch reaches no script: clocks start at Lag.    *)
StartInv == now >= Lag

(* The clock starts late enough for every timestamp to be natural.         *)
LEMMA InitStart == Init => StartInv
BY RateAssumption DEF Init, StartInv

(* The clock does not run back.                                            *)
LEMMA StepStart == TypeOK /\ StartInv /\ [Next]_vars => StartInv'
BY RateAssumption DEF TypeOK, StartInv, Next, Admit, Expiry, Refuse, Remaining, Reset, Tick, vars

-----------------------------------------------------------------------------
(* One lemma for each action.                                              *)

(* An admitted call: the one action that adds to the set.                  *)
LEMMA AdmitStep ==
  ASSUME RateInv, StartInv, NEW t \in Timestamps, NEW c \in Calls, Admit(c, t)
  PROVE  RateInv'
<1> USE RateAssumption DEF RateInv
<1>1. PICK d \in Alike(c, t) : /\ zset' = (Kept(t) \ {d}) \cup {c}
                               /\ overwritten' = overwritten \cup ({d} \ {c})
  BY DEF Admit, Room, Expiry
<1>2. /\ c \notin admitted /\ c \notin zset /\ t \in Nat
      /\ t \in now - Lag .. now + Lead
      /\ score' = [score EXCEPT ![c] = t]
      /\ at' = [at EXCEPT ![c] = now]
      /\ admitted' = admitted \cup {c}
      /\ deadline' = now + Window
      /\ now' = now /\ resets' = resets
      /\ Cardinality(Kept(t)) < MaxRequests
  BY DEF Admit, Room, Expiry, Timestamps, TypeOK, StartInv, MemberInv
<1>3. Kept(t) \subseteq zset /\ d \in Kept(t) \cup {c}
  BY <1>1 DEF Kept, Alike
<1>4. TypeOK'
  BY <1>1, <1>2, <1>3 DEF TypeOK, MemberInv
<1>5. StampInv'
  BY <1>2 DEF StampInv, TypeOK
<1>6. MemberInv'
  BY <1>1, <1>2, <1>3 DEF MemberInv
<1>7. RecentInv'
  <2>1. SUFFICES ASSUME NEW e \in admitted', at'[e] > now' - (Window - Lag - Lead),
                        e \notin overwritten'
                 PROVE  e \in zset'
    BY DEF RecentInv, Within
  <2>2. CASE e = c
    BY <2>2, <1>1
  <2>3. CASE e # c
    <3>1. e \in Within(Window - Lag - Lead) \ overwritten
      BY <2>1, <2>3, <1>1, <1>2 DEF Within, TypeOK
    <3> QED
      BY <3>1, KeptRecent, <2>1, <2>3, <1>1
  <2> QED
    BY <2>2, <2>3
<1>8. KeyOutlivesWindow'
  <2>1. /\ c \in admitted' /\ at'[c] = now /\ deadline' > now'
        /\ deadline' = at'[c] + Window
    BY <1>2 DEF TypeOK
  <2>2. ASSUME NEW e \in admitted' PROVE deadline' >= at'[e] + Window
    BY <1>2, <2>2 DEF TypeOK, StampInv
  <2> QED
    BY <2>1, <2>2 DEF KeyOutlivesWindow
<1>9. CapInv'
  <2> DEFINE K == Kept(t) \ {d}
  <2>1. K \subseteq Kept(t) /\ Kept(t) \subseteq Calls /\ K \subseteq Calls
    BY <1>3 DEF TypeOK
  <2>2. IsFiniteSet(Kept(t)) /\ Cardinality(Kept(t)) \in Nat
    BY <2>1, Sizes
  <2>3. IsFiniteSet(K) /\ Cardinality(K) \in Nat
    BY <2>1, Sizes
  <2>4. Cardinality(K) <= Cardinality(Kept(t))
    BY <2>1, <2>2, FS_Subset
  <2>0. c \notin K
    BY <1>2, <1>3
  <2>6. zset' = K \cup {c}
    BY <1>1
  <2>7. Cardinality(zset') \in Nat
    BY <2>6, <2>1, Sizes
  <2> HIDE DEF K
  <2>5. Cardinality(K \cup {c}) = Cardinality(K) + 1
    BY <2>0, <2>3, FS_AddElement
  <2> QED
    BY <1>2, <2>2, <2>3, <2>4, <2>5, <2>6, <2>7 DEF CapInv
<1> QED
  BY <1>4, <1>5, <1>6, <1>7, <1>8, <1>9

(* Refusals and remaining() only trim.                                     *)
LEMMA TrimStep ==
  ASSUME RateInv, NEW t \in Timestamps,
         Remaining(t) \/ \E c \in Calls : Refuse(c, t)
  PROVE  RateInv'
<1> USE RateAssumption DEF RateInv
<1>1. /\ zset' = Kept(t)
      /\ UNCHANGED <<now, score, resets, admitted, at, overwritten>>
      /\ deadline' \in {deadline, NoTTL}
      /\ zset' # {} => deadline' = deadline
  <2>1. CASE Remaining(t)
    BY <2>1 DEF Remaining
  <2>2. ASSUME NEW c \in Calls, Refuse(c, t)
        PROVE  <1>1!1 /\ <1>1!2 /\ <1>1!3 /\ <1>1!4
    BY <2>2 DEF Refuse
  <2> QED
    BY <2>1, <2>2
<1>2. Kept(t) \subseteq zset
  BY DEF Kept
<1>3. TypeOK'
  BY <1>1, <1>2 DEF TypeOK, NoTTL
<1>4. StampInv' /\ MemberInv'
  BY <1>1, <1>2 DEF StampInv, MemberInv
<1>5. RecentInv'
  BY <1>1, KeptRecent DEF RecentInv, Within
<1>6. KeyOutlivesWindow'
  BY <1>1, <1>2 DEF KeyOutlivesWindow
<1>7. CapInv'
  <2>1. zset \subseteq Calls /\ Kept(t) \subseteq Calls
    BY <1>2 DEF TypeOK
  <2>2. IsFiniteSet(zset) /\ Cardinality(zset) \in Nat /\ Cardinality(Kept(t)) \in Nat
    BY <2>1, Sizes
  <2>3. Cardinality(Kept(t)) <= Cardinality(zset)
    BY <1>2, <2>2, FS_Subset
  <2> QED
    BY <1>1, <2>2, <2>3 DEF CapInv
<1> QED
  BY <1>3, <1>4, <1>5, <1>6, <1>7

(* A reset forgets the set and what was admitted alike.                    *)
LEMMA ResetStep ==
  ASSUME RateInv, Reset
  PROVE  RateInv'
BY RateAssumption, FS_EmptySet DEF Reset, RateInv, TypeOK, StampInv, MemberInv, RecentInv,
   Within, KeyOutlivesWindow, CapInv, NoTTL

(* When the key expires nothing in it is younger than a window.            *)
LEMMA TickStep ==
  ASSUME RateInv, Tick
  PROVE  RateInv'
<1> USE RateAssumption DEF RateInv, Tick
<1>1. TypeOK' /\ StampInv' /\ MemberInv'
  BY DEF TypeOK, StampInv, MemberInv, NoTTL
<1>2. KeyOutlivesWindow'
  BY DEF KeyOutlivesWindow, TypeOK, NoTTL
<1>3. RecentInv'
  <2>0. /\ now' = now + 1 /\ now \in Nat
        /\ UNCHANGED <<admitted, at, overwritten>>
    BY DEF TypeOK
  <2>1. SUFFICES ASSUME NEW c \in admitted, at[c] > now + 1 - (Window - Lag - Lead),
                        c \notin overwritten
                 PROVE  c \in zset'
    <3> HIDE DEF Tick, RateInv
    <3> QED BY <2>0 DEF RecentInv, Within
  <2>2. at[c] \in Nat /\ now \in Nat /\ c \in zset
    BY <2>1 DEF TypeOK, RecentInv, Within
  <2>3. deadline >= at[c] + Window /\ deadline \in Nat
    BY <2>1, <2>2 DEF KeyOutlivesWindow, TypeOK
  <2> QED
    BY <2>1, <2>2, <2>3 DEF NoTTL
<1>4. CapInv'
  BY FS_EmptySet DEF CapInv
<1> QED
  BY <1>1, <1>2, <1>3, <1>4

(* Every step keeps the invariant.                                         *)
LEMMA StepInv == RateInv /\ StartInv /\ [Next]_vars => RateInv'
<1> SUFFICES ASSUME RateInv, StartInv, [Next]_vars PROVE RateInv'
  OBVIOUS
<1>1. CASE UNCHANGED vars
  BY <1>1 DEF vars, RateInv, TypeOK, StampInv, MemberInv, RecentInv, Within,
              KeyOutlivesWindow, CapInv
<1> QED
  BY <1>1, AdmitStep, TrimStep, ResetStep, TickStep DEF Next

(* The inductive invariant holds throughout.                               *)
THEOREM RateInvariant == Spec => [](RateInv /\ StartInv)
BY InitInv, InitStart, StepInv, StepStart, PTL DEF Spec, RateInv

-----------------------------------------------------------------------------
(* The recent calls are in a set that is within the limit.                 *)
LEMMA InvWindow == RateInv => WindowBound
<1> SUFFICES ASSUME RateInv PROVE WindowBound
  OBVIOUS
<1> DEFINE R == Within(Window - Lag - Lead) \ overwritten
<1>1. R \subseteq zset /\ zset \subseteq Calls
  BY DEF RateInv, RecentInv, TypeOK
<1>2. IsFiniteSet(zset) /\ Cardinality(zset) \in Nat /\ Cardinality(R) \in Nat
  BY <1>1, Sizes
<1>3. Cardinality(R) <= Cardinality(zset)
  BY <1>1, <1>2, FS_Subset
<1> HIDE DEF R
<1>4. Cardinality(R) <= MaxRequests
  BY <1>2, <1>3, RateAssumption DEF RateInv, CapInv
<1> QED
  BY <1>4 DEF WindowBound, R

(* All that a refusal counts was admitted within the longer window.        *)
LEMMA InvFair == RateInv => RefusalIsFair
<1> SUFFICES ASSUME RateInv, NEW t \in Timestamps, Cardinality(Kept(t)) >= MaxRequests
             PROVE  Cardinality(Within(Window + Lag + Lead)) >= MaxRequests
  BY DEF RefusalIsFair
<1> DEFINE W == Within(Window + Lag + Lead)
<1>1. Kept(t) \subseteq W
  BY RateAssumption DEF RateInv, TypeOK, StampInv, MemberInv, Kept, Within, Timestamps
<1>2. W \subseteq Calls /\ Kept(t) \subseteq Calls
  BY DEF RateInv, TypeOK, Within, Kept
<1>3. IsFiniteSet(W) /\ Cardinality(W) \in Nat /\ Cardinality(Kept(t)) \in Nat
  BY <1>2, Sizes
<1>4. Cardinality(Kept(t)) <= Cardinality(W)
  BY <1>1, <1>3, FS_Subset
<1> HIDE DEF W
<1>5. Cardinality(W) >= MaxRequests
  BY <1>3, <1>4, RateAssumption
<1> QED
  BY <1>5 DEF W

(* The variables keep their types.                                         *)
THEOREM TypeCorrect == Spec => []TypeOK
BY RateInvariant, PTL DEF RateInv

(* The limit holds in every window, less what the timestamps can differ.   *)
THEOREM RateLimited == Spec => []WindowBound
BY RateInvariant, InvWindow, PTL

(* A refused client really is one of too many.                             *)
THEOREM RefusalsJustified == Spec => []RefusalIsFair
BY RateInvariant, InvFair, PTL

(* The key lives exactly until the window of the latest admitted call is   *)
(* over: its TTL never runs out inside the window of a call that was let   *)
(* through, and the key does not stay behind the last of them.             *)
THEOREM KeyOutlives == Spec => []KeyOutlivesWindow
BY RateInvariant, PTL DEF RateInv
=============================================================================
