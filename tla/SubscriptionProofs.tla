------------------------- MODULE SubscriptionProofs -------------------------
(***************************************************************************)
(* What a worker writes back: proofs about Subscription for any number of  *)
(* workers, extensions and crashes.                                        *)
(***************************************************************************)
EXTENDS Subscription, TLAPS

(* Which operations issue which command.                                   *)
OpInv ==
  \A w \in Workers :
    /\ pc[w] = "idle" => op[w] = "none"
    /\ pc[w] = "get_grace" => op[w] \in {"extend", "remind"}
    /\ pc[w] \in {"get", "put"} => op[w] \in PlanStates \cup EndReasons \cup {"start"}
    /\ pc[w] \in {"get_again", "put_until"} =>
         op[w] \in EndReasons \cup {"start", "extend"}
    /\ pc[w] = "put_grace" => op[w] \in {"start", "extend", "remind"}
    /\ pc[w] = "del_grace" => op[w] \in EndReasons

(* A worker that is not stale holds the plan record that is stored, and    *)
(* the transition it has validated is still a valid one.                   *)
PlanInv ==
  \A w \in PlanHolders \ stale :
    /\ sub[w] = plan
    /\ pc[w] = "put" => Target(w) \in Allowed[plan.state]

(* The same for the grace record, of which there is one to write back.     *)
GraceInv ==
  \A w \in GraceHolders : rec[w] # NoGrace /\ (w \notin stale => rec[w] = grace)

SubInv == TypeOK /\ OpInv /\ PlanInv /\ GraceInv

-----------------------------------------------------------------------------
(* A fresh subscription satisfies the invariant.                           *)
LEMMA InitInv == Init => SubInv
BY SubscriptionAssumption DEF Init, SubInv, TypeOK, OpInv, PlanInv, GraceInv, PlanHolders,
   GraceHolders, Plans, Graces, NoPlan, NoGrace, PlanStates, Ops, Steps

(* What is written to Redis is a record of its kind.                       *)
LEMMA Records ==
  /\ NoPlan \in Plans /\ NoGrace \in Graces
  /\ \A p \in Plans : \A s \in PlanStates : [p EXCEPT !.state = s] \in Plans
  /\ \A p \in Plans : \A n \in Nat : [p EXCEPT !.until = n] \in Plans
  /\ \A g \in Graces : g.ends + 1 \in Nat /\ [g EXCEPT !.ends = @ + 1] \in Graces
  /\ \A g \in Graces : [g EXCEPT !.reminded = TRUE] \in Graces
<1>1. NoPlan \in Plans /\ NoGrace \in Graces
  BY DEF Plans, Graces, NoPlan, NoGrace, PlanStates
<1>2. ASSUME NEW p \in Plans, NEW s \in PlanStates
      PROVE  [p EXCEPT !.state = s] \in Plans
  BY DEF Plans
<1>3. ASSUME NEW p \in Plans, NEW n \in Nat
      PROVE  [p EXCEPT !.until = n] \in Plans
  BY DEF Plans
<1>4. ASSUME NEW g \in Graces
      PROVE  /\ g.ends + 1 \in Nat /\ [g EXCEPT !.ends = @ + 1] \in Graces
             /\ [g EXCEPT !.reminded = TRUE] \in Graces
  <2>1. g.ends + 1 \in Nat
    BY DEF Graces
  <2> QED
    BY <2>1 DEF Graces
<1> QED
  BY <1>1, <1>2, <1>3, <1>4

(* The types and the control of every step.                                *)
LEMMA StepType == TypeOK /\ OpInv /\ [Next]_vars => TypeOK'
<1> SUFFICES ASSUME TypeOK, OpInv, [Next]_vars PROVE TypeOK'
  OBVIOUS
<1> USE SubscriptionAssumption DEF TypeOK, Ops, Steps, Goto, Finish, ReadPlan
<1>1. ASSUME NEW w \in Workers, Begin(w) PROVE TypeOK'
  BY <1>1 DEF Begin
<1>2. ASSUME NEW w \in Workers, Get(w) \/ GetAgain(w) \/ GetGrace(w) PROVE TypeOK'
  BY <1>2, Records DEF Get, GetAgain, GetGrace
<1>3. ASSUME NEW w \in Workers, Put(w) PROVE TypeOK'
  <2>1. Target(w) \in PlanStates
    BY DEF Target, PlanStates
  <2>2. plan' \in Plans
    BY <1>3, <2>1, Records DEF Put
  <2> QED
    BY <1>3, <2>2, Records DEF Put, AfterPut, PlanHolders
<1>4. ASSUME NEW w \in Workers, PutUntil(w) PROVE TypeOK'
  <2>1. \E n \in Nat : plan' = [sub[w] EXCEPT !.until = n]
    BY <1>4, Records DEF PutUntil
  <2>2. plan' \in Plans
    BY <2>1, Records
  <2> QED
    BY <1>4, <2>2 DEF PutUntil, PlanHolders
<1>5. ASSUME NEW w \in Workers, PutGrace(w) PROVE TypeOK'
  <2>1. op[w] \in {"start", "extend", "remind"} /\ rec[w] \in Graces
    BY <1>5 DEF OpInv, PutGrace
  <2>2. [ends |-> 1, reminded |-> FALSE] \in Graces
    BY DEF Graces
  <2>3. grace' \in Graces
    BY <1>5, <2>1, <2>2, Records DEF PutGrace
  <2> QED
    BY <1>5, <2>3, Records DEF PutGrace, GraceHolders
<1>6. ASSUME NEW w \in Workers, DelGrace(w) \/ Crash(w) PROVE TypeOK'
  BY <1>6, Records DEF DelGrace, Crash, GraceHolders
<1>7. CASE UNCHANGED vars
  BY <1>7 DEF vars, locals
<1> QED
  BY <1>1, <1>2, <1>3, <1>4, <1>5, <1>6, <1>7 DEF Next, Work

(* Every step keeps commands and operations together.                      *)
LEMMA StepOp == TypeOK /\ OpInv /\ [Next]_vars => OpInv'
<1> SUFFICES ASSUME TypeOK, OpInv, [Next]_vars PROVE OpInv'
  OBVIOUS
<1> USE DEF TypeOK, OpInv, Goto, Finish, ReadPlan
<1>1. ASSUME NEW w \in Workers, Begin(w) PROVE OpInv'
  BY <1>1 DEF Begin, Ops
<1>2. ASSUME NEW w \in Workers, Get(w) \/ GetAgain(w) PROVE OpInv'
  BY <1>2 DEF Get, GetAgain
<1>3. ASSUME NEW w \in Workers, Put(w) PROVE OpInv'
  BY <1>3 DEF Put, AfterPut
<1>4. ASSUME NEW w \in Workers, PutUntil(w) PROVE OpInv'
  BY <1>4 DEF PutUntil
<1>5. ASSUME NEW w \in Workers, GetGrace(w) PROVE OpInv'
  BY <1>5 DEF GetGrace
<1>6. ASSUME NEW w \in Workers, PutGrace(w) \/ DelGrace(w) \/ Crash(w) PROVE OpInv'
  BY <1>6 DEF PutGrace, DelGrace, Crash
<1>7. CASE UNCHANGED vars
  BY <1>7 DEF vars, locals
<1> QED
  BY <1>1, <1>2, <1>3, <1>4, <1>5, <1>6, <1>7 DEF Next, Work

(* Every write makes the other holders stale; every read makes the reader  *)
(* current.                                                                *)
LEMMA StepPlan == TypeOK /\ OpInv /\ PlanInv /\ [Next]_vars => PlanInv'
<1> SUFFICES ASSUME TypeOK, OpInv, PlanInv, [Next]_vars,
                    NEW v \in Workers, pc'[v] \in {"put", "put_until"}, v \notin stale'
             PROVE  /\ sub'[v] = plan'
                    /\ pc'[v] = "put" => Target(v)' \in Allowed[plan'.state]
  BY DEF PlanInv, PlanHolders
<1> USE DEF TypeOK, OpInv, PlanInv, PlanHolders, Goto, Finish, ReadPlan
<1>1. ASSUME NEW w \in Workers, Begin(w) \/ GetAgain(w) \/ GetGrace(w) \/ Crash(w)
      PROVE  /\ sub'[v] = plan'
             /\ pc'[v] = "put" => Target(v)' \in Allowed[plan'.state]
  BY <1>1 DEF Begin, GetAgain, GetGrace, Crash, Target, NoGrace
<1>2. ASSUME NEW w \in Workers, Get(w)
      PROVE  /\ sub'[v] = plan'
             /\ pc'[v] = "put" => Target(v)' \in Allowed[plan'.state]
  BY <1>2 DEF Get, Target
<1>3. ASSUME NEW w \in Workers, Put(w) \/ PutUntil(w)
      PROVE  /\ sub'[v] = plan'
             /\ pc'[v] = "put" => Target(v)' \in Allowed[plan'.state]
  BY <1>3 DEF Put, AfterPut, PutUntil, EndReasons
<1>4. ASSUME NEW w \in Workers, PutGrace(w) \/ DelGrace(w)
      PROVE  /\ sub'[v] = plan'
             /\ pc'[v] = "put" => Target(v)' \in Allowed[plan'.state]
  BY <1>4 DEF PutGrace, DelGrace, Target
<1>5. CASE UNCHANGED vars
  BY <1>5 DEF vars, locals, Target
<1> QED
  BY <1>1, <1>2, <1>3, <1>4, <1>5 DEF Next, Work

(* A copy of the grace record differs from it only in stale hands.         *)
LEMMA StepGrace == TypeOK /\ OpInv /\ GraceInv /\ [Next]_vars => GraceInv'
<1> SUFFICES ASSUME TypeOK, OpInv, GraceInv, [Next]_vars,
                    NEW v \in Workers, op'[v] \in {"extend", "remind"},
                    pc'[v] \in {"get_again", "put_until", "put_grace"}
             PROVE  rec'[v] # NoGrace /\ (v \notin stale' => rec'[v] = grace')
  BY DEF GraceInv, GraceHolders
<1> USE DEF TypeOK, OpInv, GraceInv, GraceHolders, Goto, Finish, ReadPlan, PlanStates, EndReasons
<1>1. ASSUME NEW w \in Workers, Begin(w) \/ Get(w) \/ Put(w) \/ Crash(w)
      PROVE  rec'[v] # NoGrace /\ (v \notin stale' => rec'[v] = grace')
  BY <1>1 DEF Begin, Get, Put, AfterPut, Crash
<1>2. ASSUME NEW w \in Workers, GetAgain(w) \/ PutUntil(w)
      PROVE  rec'[v] # NoGrace /\ (v \notin stale' => rec'[v] = grace')
  BY <1>2 DEF GetAgain, PutUntil
<1>3. ASSUME NEW w \in Workers, GetGrace(w)
      PROVE  rec'[v] # NoGrace /\ (v \notin stale' => rec'[v] = grace')
  BY <1>3 DEF GetGrace
<1>4. ASSUME NEW w \in Workers, PutGrace(w) \/ DelGrace(w)
      PROVE  rec'[v] # NoGrace /\ (v \notin stale' => rec'[v] = grace')
  BY <1>4 DEF PutGrace, DelGrace
<1>5. CASE UNCHANGED vars
  BY <1>5 DEF vars, locals
<1> QED
  BY <1>1, <1>2, <1>3, <1>4, <1>5 DEF Next, Work

(* The inductive invariant: what a worker that is not stale holds is what  *)
(* is stored.                                                              *)
THEOREM SubscriptionInvariant == Spec => []SubInv
BY InitInv, StepType, StepOp, StepPlan, StepGrace, PTL DEF Spec, SubInv

(* The variables keep their types.                                         *)
THEOREM TypeCorrect == Spec => []TypeOK
BY SubscriptionInvariant, PTL DEF SubInv

-----------------------------------------------------------------------------
(* Transitions are enforced but for lost updates.                          *)
THEOREM Enforced == Spec => TransitionsEnforced
<1>1. ASSUME SubInv, [Next]_vars, plan'.state # plan.state
      PROVE  plan'.state \in Allowed[plan.state] \/ \E w \in stale : Writes(w)
  <2> USE <1>1 DEF SubInv, TypeOK, Plans, PlanInv, PlanHolders
  <2>1. PICK w \in Workers : Put(w) \/ PutUntil(w)
    BY DEF Next, Work, Begin, Get, GetAgain, GetGrace, PutGrace, DelGrace, Crash, vars
  <2>2. Writes(w)
    BY <2>1 DEF Put, AfterPut, PutUntil, Goto, Finish, Writes, EndReasons
  <2>3. CASE w \in stale
    BY <2>2, <2>3
  <2>4. CASE w \notin stale /\ Put(w)
    <3>1. Target(w) \in Allowed[plan.state] /\ sub[w] = plan
      BY <2>4 DEF Put
    <3>2. plan'.state = Target(w)
      BY <2>4, <3>1 DEF Put
    <3> QED
      BY <3>1, <3>2
  <2>5. CASE w \notin stale /\ PutUntil(w)
    <3>1. sub[w] = plan
      BY <2>5 DEF PutUntil
    <3>2. plan'.state = plan.state
      BY <2>5, <3>1 DEF PutUntil
    <3> QED
      BY <3>2, <1>1
  <2> QED
    BY <2>1, <2>3, <2>4, <2>5
<1> DEFINE A == plan'.state # plan.state =>
                  plan'.state \in Allowed[plan.state] \/ \E w \in stale : Writes(w)
<1>2. SubInv /\ [Next]_vars => [A]_vars
  BY <1>1
<1>3. Spec => [][A]_vars
  BY <1>2, SubscriptionInvariant, PTL DEF Spec
<1> QED
  BY <1>3, PTL DEF TransitionsEnforced

(* Extensions and reminders are kept but for lost updates, and no deleted  *)
(* grace record comes back.                                                *)
THEOREM Kept == Spec => GraceKept
<1> DEFINE Good == \/ grace' = [ends |-> 1, reminded |-> FALSE]
                   \/ /\ grace # NoGrace /\ grace'.ends >= grace.ends
                      /\ grace.reminded => grace'.reminded
                   \/ \E w \in stale : Writes(w)
<1>1. ASSUME SubInv, [Next]_vars, grace' # grace, grace' # NoGrace
      PROVE  Good
  <2> USE <1>1 DEF SubInv, TypeOK, Graces, GraceInv, GraceHolders
  <2>1. PICK w \in Workers : PutGrace(w)
    BY DEF Next, Work, Begin, Get, Put, GetAgain, PutUntil, GetGrace, DelGrace, Crash, vars
  <2>2. Writes(w) /\ op[w] \in {"start", "extend", "remind"} /\ pc[w] = "put_grace"
    BY <2>1 DEF PutGrace, Finish, Writes, OpInv
  <2>3. CASE w \in stale
    BY <2>2, <2>3
  <2>4. CASE op[w] = "start"
    BY <2>1, <2>4 DEF PutGrace
  <2>5. CASE w \notin stale /\ op[w] \in {"extend", "remind"}
    <3>1. rec[w] = grace /\ grace # NoGrace
      BY <2>2, <2>5
    <3>2. grace.ends \in Nat /\ grace.reminded \in BOOLEAN
      OBVIOUS
    <3>3. \/ grace' = [grace EXCEPT !.ends = @ + 1]
          \/ grace' = [grace EXCEPT !.reminded = TRUE]
      BY <2>1, <2>5, <3>1 DEF PutGrace
    <3>4. grace'.ends >= grace.ends /\ (grace.reminded => grace'.reminded)
      BY <3>2, <3>3
    <3> QED
      BY <3>1, <3>4
  <2> QED
    BY <2>2, <2>3, <2>4, <2>5
<1> DEFINE A == grace' # grace /\ grace' # NoGrace => Good
<1>2. SubInv /\ [Next]_vars => [A]_vars
  BY <1>1
<1>3. Spec => [][A]_vars
  BY <1>2, SubscriptionInvariant, PTL DEF Spec
<1> QED
  BY <1>3 DEF GraceKept

-----------------------------------------------------------------------------
(* While nothing irregular has happened, how far the operation under way   *)
(* has got with the two records tells how they differ.                     *)
InGrace == plan.state = "grace"
Agree == (InGrace <=> grace # NoGrace) /\ plan.until = grace.ends

Progress(w) ==
  /\ pc[w] \in {"get", "put", "get_grace"} \/ op[w] = "remind" => Agree
  /\ op[w] = "extend" /\ pc[w] \in {"get_again", "put_until"} => Agree
  /\ op[w] = "extend" /\ pc[w] = "put_grace" =>
       InGrace /\ plan.until = rec[w].ends + 1
  /\ op[w] = "start" /\ pc[w] \in {"get_again", "put_until"} => InGrace
  /\ op[w] = "start" /\ pc[w] = "put_grace" => InGrace /\ plan.until = 1
  /\ op[w] \in EndReasons /\ pc[w] \in {"get_again", "put_until"} => ~InGrace
  /\ op[w] \in EndReasons /\ pc[w] = "del_grace" => ~InGrace /\ plan.until = 0

Busy(w) == pc[w] # "idle"

(* While all is regular at most one worker is busy, and its step says how  *)
(* far the two records have come apart.                                    *)
BooksInv ==
  irregular = "no" =>
    /\ stale = {}
    /\ \A v, w \in Workers : Busy(v) /\ Busy(w) => v = w
    /\ \A w \in Workers : Progress(w)
    /\ (\A w \in Workers : ~Busy(w)) => Agree

(* A fresh subscription has books that agree.                              *)
LEMMA InitBooks == Init => BooksInv
BY DEF Init, BooksInv, Busy, Progress, Agree, InGrace, NoGrace, EndReasons

(* Grace is entered from another state, and no other target is grace.      *)
LEMMA Targets ==
  /\ \A s \in PlanStates : "grace" \in Allowed[s] => s # "grace"
  /\ \A w \in Workers : op[w] \in EndReasons => Target(w) # "grace"
  /\ \A w \in Workers : op[w] = "start" => Target(w) = "grace"
  /\ \A w \in Workers : op[w] \in PlanStates => Target(w) = op[w]
BY DEF PlanStates, Allowed, EndReasons, Target

(* In a regular history one worker is busy, and what it holds is current.  *)
LEMMA OneBusy ==
  ASSUME SubInv, BooksInv, irregular = "no", NEW w \in Workers, Busy(w)
  PROVE  /\ w \notin stale /\ stale = {} /\ Progress(w)
         /\ \A v \in Workers : v # w => pc[v] = "idle"
         /\ w \in PlanHolders => sub[w] = plan
         /\ w \in GraceHolders => rec[w] = grace /\ grace # NoGrace
         /\ PlanHolders \ {w} = {} /\ GraceHolders \ {w} = {}
BY DEF BooksInv, Busy, SubInv, PlanInv, GraceInv, PlanHolders, GraceHolders


(* What is left to show when worker w has taken a step.                    *)
LEMMA BooksStep ==
  ASSUME SubInv, BooksInv, irregular = "no", NEW w \in Workers,
         \A v \in Workers : v # w => pc[v] = "idle" /\ pc'[v] = "idle" /\ op'[v] = op[v],
         stale' = {},
         Busy(w)' => Progress(w)',
         ~Busy(w)' => Agree'
  PROVE  BooksInv'
<1>1. ASSUME NEW v \in Workers PROVE Progress(v)'
  <2>1. CASE v = w
    <3>1. CASE Busy(w)'
      BY <2>1, <3>1
    <3>2. CASE ~Busy(w)'
      BY <2>1, <3>2 DEF Progress, Busy
    <3> QED
      BY <3>1, <3>2
  <2>2. CASE v # w
    BY <2>2 DEF Progress, SubInv, OpInv, EndReasons
  <2> QED
    BY <2>1, <2>2
<1> QED
  BY <1>1 DEF BooksInv, Busy

(* Each command of the one operation under way, in a regular history.      *)
LEMMA StepBooks == SubInv /\ BooksInv /\ [Next]_vars => BooksInv'
<1> SUFFICES ASSUME SubInv, BooksInv, [Next]_vars, irregular' = "no" PROVE BooksInv'
  BY DEF BooksInv
<1>1. CASE UNCHANGED vars
  BY <1>1 DEF vars, locals, BooksInv, Busy, Progress, Agree, InGrace
<1>2. ASSUME NEW w \in Workers, Work(w) \/ Crash(w) PROVE BooksInv'
  <2>1. irregular = "no" /\ ~Crash(w)
    BY <1>2 DEF Work, Crash, Begin, Get, Put, GetAgain, PutUntil, GetGrace, PutGrace, DelGrace
  <2>2. CASE Begin(w)
    <3>1. \A v \in Workers : pc[v] = "idle"
      BY <2>2 DEF Begin
    <3>2. Agree /\ stale = {} /\ UNCHANGED <<plan, grace, stale>>
      BY <2>1, <2>2, <3>1 DEF Begin, BooksInv, Busy
    <3>3. /\ \A v \in Workers : v # w => pc'[v] = "idle" /\ op'[v] = op[v]
          /\ pc'[w] \in {"get", "get_grace"}
      BY <2>2, <3>1 DEF Begin, SubInv, TypeOK
    <3>4. Agree' /\ Progress(w)'
      BY <3>2, <3>3 DEF Agree, InGrace, Progress
    <3> QED
      BY <2>1, <3>1, <3>2, <3>3, <3>4, BooksStep
  <2> USE DEF SubInv, TypeOK, Goto, Finish, ReadPlan
  <2>3. ASSUME ~Begin(w)
        PROVE  /\ Busy(w)
               /\ \A v \in Workers : v # w => pc[v] = "idle" /\ pc'[v] = "idle" /\ op'[v] = op[v]
               /\ stale' = {}
    <3>1. Busy(w)
      BY <1>2, <2>1, <2>3 DEF Work, Get, Put, GetAgain, PutUntil, GetGrace, PutGrace,
         DelGrace, Busy
    <3>2. /\ stale = {} /\ PlanHolders \ {w} = {} /\ GraceHolders \ {w} = {}
          /\ \A v \in Workers : v # w => pc[v] = "idle"
      BY <2>1, <3>1, OneBusy
    <3>3. stale' = {}
      BY <1>2, <2>1, <2>3, <3>2 DEF Work, Get, Put, GetAgain, PutUntil, GetGrace, PutGrace, DelGrace
    <3>4. \A v \in Workers : v # w => pc'[v] = pc[v] /\ op'[v] = op[v]
      BY <1>2, <2>1, <2>3 DEF Work, Get, Put, AfterPut, GetAgain, PutUntil, GetGrace,
         PutGrace, DelGrace
    <3> QED
      BY <3>1, <3>2, <3>3, <3>4
  <2>4. ASSUME ~Begin(w)
        PROVE  /\ Progress(w)
               /\ w \in PlanHolders => sub[w] = plan
               /\ w \in GraceHolders => rec[w] = grace /\ grace # NoGrace
    BY <2>1, <2>3, <2>4, OneBusy
  <2> USE DEF Agree, InGrace, Progress, Busy
  <2>5. CASE Get(w)
    <3>1. Progress(w)' /\ (~Busy(w)' => Agree')
      BY <2>4, <2>5 DEF Get, Begin, OpInv, PlanStates, EndReasons
    <3> QED
      BY <2>1, <2>3, <2>5, <3>1, BooksStep DEF Get, Begin
  <2>6. CASE Put(w)
    <3>1. /\ sub[w] = plan /\ Target(w) \in Allowed[plan.state] /\ w \notin stale
          /\ plan.state \in PlanStates /\ Agree
      BY <2>1, <2>3, <2>4, <2>6, OneBusy DEF Put, Begin, PlanInv, PlanHolders, Plans
    <3>2. ~Bypass(w)
      BY <2>6 DEF Put
    <3>3. plan' = [plan EXCEPT !.state = Target(w)] /\ grace' = grace
      BY <2>6, <3>1 DEF Put
    <3>4. plan'.state = Target(w) /\ plan'.until = plan.until
      BY <3>3 DEF Plans
    <3>5. Progress(w)' /\ (~Busy(w)' => Agree')
      <4>1. CASE op[w] \in PlanStates
        BY <2>6, <3>1, <3>2, <3>3, <3>4, <4>1, Targets DEF Put, AfterPut, Bypass
      <4>2. CASE op[w] \in EndReasons
        BY <2>6, <3>4, <4>2, Targets DEF Put, AfterPut, PlanStates, EndReasons
      <4>3. CASE op[w] = "start"
        BY <2>6, <3>4, <4>3, Targets DEF Put, AfterPut, PlanStates, EndReasons
      <4> QED
        BY <2>6, <4>1, <4>2, <4>3 DEF Put, OpInv
    <3> QED
      BY <2>1, <2>3, <2>6, <3>5, BooksStep DEF Put, Begin
  <2>7. CASE GetAgain(w)
    <3>1. Progress(w)' /\ Busy(w)'
      BY <2>4, <2>7 DEF GetAgain, Begin, OpInv, EndReasons
    <3> QED
      BY <2>1, <2>3, <2>7, <3>1, BooksStep DEF GetAgain, Begin
  <2>8. CASE PutUntil(w)
    <3>1. sub[w] = plan /\ rec[w].ends + 1 \in Nat
      BY <2>4, <2>8, Records DEF PutUntil, Begin, PlanHolders
    <3>2. plan'.state = plan.state /\ grace' = grace /\ UNCHANGED <<op, rec>>
      BY <2>8, <3>1 DEF PutUntil, Plans
    <3>3. /\ op[w] = "start" => plan'.until = 1
          /\ op[w] = "extend" => plan'.until = rec[w].ends + 1
          /\ op[w] \in EndReasons => plan'.until = 0
      BY <2>8, <3>1 DEF PutUntil, Plans, EndReasons
    <3>4. op[w] = "extend" => InGrace
      BY <2>4, <2>8 DEF PutUntil, Begin, GraceHolders
    <3>5. Progress(w)' /\ Busy(w)'
      BY <2>4, <2>8, <3>2, <3>3, <3>4 DEF PutUntil, Begin, OpInv, EndReasons
    <3> QED
      BY <2>1, <2>3, <2>8, <3>5, BooksStep DEF PutUntil, Begin
  <2>9. CASE GetGrace(w)
    <3>1. Progress(w)' /\ (~Busy(w)' => Agree')
      BY <2>4, <2>9 DEF GetGrace, Begin, OpInv, EndReasons
    <3> QED
      BY <2>1, <2>3, <2>9, <3>1, BooksStep DEF GetGrace, Begin
  <2>10. CASE PutGrace(w)
    <3>1. op[w] \in {"start", "extend", "remind"} /\ pc[w] = "put_grace"
      BY <2>10 DEF PutGrace, OpInv
    <3>2. op[w] # "start" => rec[w] = grace /\ grace # NoGrace
      BY <2>4, <2>10, <3>1 DEF PutGrace, Begin, GraceHolders
    <3>3. grace.ends \in Nat
      BY DEF Graces
    <3>4. /\ op[w] = "start" => grace' = [ends |-> 1, reminded |-> FALSE]
          /\ op[w] = "extend" => grace'.ends = rec[w].ends + 1
          /\ op[w] = "remind" => grace'.ends = grace.ends /\ grace'.reminded
      BY <2>10, <3>1, <3>2 DEF PutGrace, Graces
    <3>5. grace' # NoGrace /\ plan' = plan /\ ~Busy(w)'
      BY <2>10, <3>1, <3>2, <3>3, <3>4 DEF PutGrace, NoGrace
    <3>6. Agree'
      BY <2>4, <2>10, <3>1, <3>2, <3>4, <3>5 DEF PutGrace, Begin
    <3> QED
      BY <2>1, <2>3, <2>10, <3>5, <3>6, BooksStep DEF PutGrace, Begin
  <2>11. CASE DelGrace(w)
    <3>1. ~Busy(w)' /\ Agree'
      BY <2>4, <2>11 DEF DelGrace, Begin, OpInv, NoGrace
    <3> QED
      BY <2>1, <2>3, <2>11, <3>1, BooksStep DEF DelGrace, Begin
  <2> QED
    BY <1>2, <2>1, <2>2, <2>5, <2>6, <2>7, <2>8, <2>9, <2>10, <2>11 DEF Work
<1> QED
  BY <1>1, <1>2 DEF Next

(* The plan record and the grace record agree at rest.                     *)
THEOREM RecordsAgree == Spec => []BooksAgree
<1>1. BooksInv => BooksAgree
  BY DEF BooksInv, BooksAgree, Busy, Agree, InGrace
<1> QED
  BY <1>1, InitBooks, StepBooks, SubscriptionInvariant, PTL DEF Spec
=============================================================================
