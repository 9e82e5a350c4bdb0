---------------------------- MODULE Subscription ----------------------------
(***************************************************************************)
(* The life of one subscription in kit-pay: PlanStateManager               *)
(* (kit_pay/plan_state.py) and the GraceHandler built on it                *)
(* (kit_pay/grace_handler.py).  The plan record and the grace record are   *)
(* two JSON values in Redis; every operation reads one whole, changes a    *)
(* field and writes it back whole, and nothing locks them.  Every GET, SET *)
(* and DEL is an action.                                                   *)
(***************************************************************************)
EXTENDS Integers, FiniteSets

CONSTANTS
  Workers,     (* requests, webhooks and jobs that work on the subscription *)
  MaxEnds,     (* bound: how far extensions may move the end of a grace     *)
               (*   period, which begins with its end at 1                  *)
  CrashLimit   (* bound: workers killed in the middle of an operation       *)

ASSUME SubscriptionAssumption == MaxEnds \in Nat \ {0} /\ CrashLimit \in Nat

PlanStates == {"trial", "active", "past_due", "grace", "cancelled", "expired"}

(* VALID_TRANSITIONS.                                                      *)
Allowed == [s \in PlanStates |->
  CASE s = "trial"     -> {"active", "cancelled", "expired"}
    [] s = "active"    -> {"past_due", "cancelled", "expired"}
    [] s = "past_due"  -> {"active", "grace", "cancelled"}
    [] s = "grace"     -> {"active", "cancelled", "expired"}
    [] s = "cancelled" -> {"active"}
    [] s = "expired"   -> {"active"}]

(* grace_until and ends_at are counted in extensions; 0 is None, and the   *)
(* grace record with that end is a missing key.                            *)
Plans == [state : PlanStates, until : Nat]
Graces == [ends : Nat, reminded : BOOLEAN]
NoGrace == [ends |-> 0, reminded |-> FALSE]

(* An end_grace() is named by its reason, a transition() by its target.    *)
EndReasons == {"resolved", "payment_received", "unpaid"}
Ops == PlanStates \cup EndReasons \cup {"none", "start", "extend", "remind"}
Steps == {"idle", "get", "put", "get_again", "put_until", "get_grace",
          "put_grace", "del_grace"}

VARIABLES
  plan,        (* the plan record                                          *)
  grace,       (* the grace record                                         *)
  pc,          (* the command each worker issues next                      *)
  op,          (* the operation that command belongs to                    *)
  sub,         (* the plan record as each worker has read it               *)
  rec,         (* the grace record as each worker has read it              *)
  crashes,     (* workers killed so far                                    *)
  stale,       (* history: workers whose sub or rec is not what is stored, *)
               (*   because another worker wrote since they read it        *)
  irregular    (* history: "yes" once two operations have overlapped, one  *)
               (*   was cut short, or a transition() went round the        *)
               (*   GraceHandler into or out of the grace state            *)

locals == <<pc, op, sub, rec>>
vars == <<plan, grace, locals, crashes, stale, irregular>>

NoPlan == [state |-> "trial", until |-> 0]

TypeOK ==
  /\ plan \in Plans /\ grace \in Graces
  /\ pc \in [Workers -> Steps]
  /\ op \in [Workers -> Ops]
  /\ sub \in [Workers -> Plans]
  /\ rec \in [Workers -> Graces]
  /\ crashes \in 0 .. CrashLimit
  /\ stale \subseteq Workers
  /\ irregular \in {"no", "yes"}

(* create(): the new record, in any state but the one start_grace() makes. *)
Init ==
  /\ \E s \in PlanStates \ {"grace"} : plan = [state |-> s, until |-> 0]
  /\ grace = NoGrace
  /\ pc = [w \in Workers |-> "idle"]
  /\ op = [w \in Workers |-> "none"]
  /\ sub = [w \in Workers |-> NoPlan]
  /\ rec = [w \in Workers |-> NoGrace]
  /\ crashes = 0 /\ stale = {} /\ irregular = "no"

-----------------------------------------------------------------------------
Goto(w, step) == pc' = [pc EXCEPT ![w] = step] /\ UNCHANGED <<op, sub, rec>>

(* The operation returns or raises; its local variables are gone.          *)
Finish(w) ==
  /\ pc' = [pc EXCEPT ![w] = "idle"]
  /\ op' = [op EXCEPT ![w] = "none"]
  /\ sub' = [sub EXCEPT ![w] = NoPlan]
  /\ rec' = [rec EXCEPT ![w] = NoGrace]

ReadPlan(w, step) ==
  /\ sub' = [sub EXCEPT ![w] = plan]
  /\ pc' = [pc EXCEPT ![w] = step]
  /\ UNCHANGED <<op, rec>>

(* The workers that hold a plan (or grace) record they will write back.    *)
PlanHolders == {w \in Workers : pc[w] \in {"put", "put_until"}}
GraceHolders ==
  {w \in Workers : op[w] \in {"extend", "remind"}
                     /\ pc[w] \in {"get_again", "put_until", "put_grace"}}

(* The state an operation gives the plan: end_grace() knows one good       *)
(* reason, and cancels for any other.                                      *)
Target(w) ==
  CASE op[w] \in PlanStates -> op[w]
    [] op[w] = "start"      -> "grace"
    [] op[w] = "resolved"   -> "active"
    [] OTHER                -> "cancelled"

-----------------------------------------------------------------------------
(* A worker begins an operation.                                           *)
Begin(w) ==
  /\ pc[w] = "idle"
  /\ \E o \in Ops \ {"none"} :
       /\ op' = [op EXCEPT ![w] = o]
       /\ pc' = [pc EXCEPT ![w] = IF o \in {"extend", "remind"} THEN "get_grace"
                                                                ELSE "get"]
  /\ irregular' = IF \E v \in Workers : pc[v] # "idle" THEN "yes" ELSE irregular
  /\ UNCHANGED <<plan, grace, sub, rec, crashes, stale>>

(* Mutant: the transition is not validated.                                *)
GetUnchecked(w) ==
  /\ pc[w] = "get"
  /\ ReadPlan(w, "put")
  /\ stale' = stale \ {w}
  /\ UNCHANGED <<plan, grace, crashes, irregular>>

(* transition(): read and validate; InvalidTransitionError ends the        *)
(* operation, whichever it is.                                             *)
Get(w) ==
  /\ pc[w] = "get"
  /\ IF Target(w) \in Allowed[plan.state] THEN ReadPlan(w, "put") ELSE Finish(w)
  /\ stale' = stale \ {w}
  /\ UNCHANGED <<plan, grace, crashes, irregular>>

AfterPut(w) == IF op[w] \in PlanStates THEN Finish(w) ELSE Goto(w, "get_again")

Bypass(w) == op[w] \in PlanStates /\ "grace" \in {sub[w].state, op[w]}

(* transition(): write the record as it was read, with the new state.      *)
Put(w) ==
  /\ pc[w] = "put"
  /\ plan' = [sub[w] EXCEPT !.state = Target(w)]
  /\ AfterPut(w)
  /\ stale' = stale \cup (PlanHolders \ {w})
  /\ irregular' = IF Bypass(w) THEN "yes" ELSE irregular
  /\ UNCHANGED <<grace, crashes>>

(* The GraceHandler reads the plan record to update grace_until.           *)
GetAgain(w) ==
  /\ pc[w] = "get_again"
  /\ ReadPlan(w, "put_until")
  /\ stale' = IF op[w] = "extend" THEN stale ELSE stale \ {w}
  /\ UNCHANGED <<plan, grace, crashes, irregular>>

(* Mutant: the extension is not copied to the subscription.                *)
PutUntilBehind(w) ==
  /\ pc[w] = "put_until"
  /\ plan' = [sub[w] EXCEPT !.until =
       CASE op[w] = "start"  -> 1
         [] op[w] = "extend" -> rec[w].ends
         [] OTHER            -> 0]
  /\ Goto(w, IF op[w] \in EndReasons THEN "del_grace" ELSE "put_grace")
  /\ stale' = stale \cup (PlanHolders \ {w})
  /\ UNCHANGED <<grace, crashes, irregular>>

PutUntil(w) ==
  /\ pc[w] = "put_until"
  /\ plan' = [sub[w] EXCEPT !.until =
       CASE op[w] = "start"  -> 1
         [] op[w] = "extend" -> rec[w].ends + 1
         [] OTHER            -> 0]
  /\ Goto(w, IF op[w] \in EndReasons THEN "del_grace" ELSE "put_grace")
  /\ stale' = stale \cup (PlanHolders \ {w})
  /\ UNCHANGED <<grace, crashes, irregular>>

-----------------------------------------------------------------------------
(* check_grace() at the start of extend_grace(), which raises KeyError     *)
(* without a record, and of mark_reminder_sent(), which then does nothing. *)
GetGrace(w) ==
  /\ pc[w] = "get_grace"
  /\ \/ /\ op[w] = "extend" /\ grace # NoGrace /\ grace.ends < MaxEnds
        /\ rec' = [rec EXCEPT ![w] = grace]
        /\ pc' = [pc EXCEPT ![w] = "get_again"]
        /\ UNCHANGED <<op, sub>>
     \/ /\ op[w] = "remind" /\ grace # NoGrace /\ ~grace.reminded
        /\ rec' = [rec EXCEPT ![w] = grace]
        /\ pc' = [pc EXCEPT ![w] = "put_grace"]
        /\ UNCHANGED <<op, sub>>
     \/ /\ \/ grace = NoGrace
           \/ op[w] = "remind" /\ grace.reminded
           \/ op[w] = "extend" /\ grace.ends = MaxEnds
        /\ Finish(w)
  /\ stale' = stale \ {w}
  /\ UNCHANGED <<plan, grace, crashes, irregular>>

(* Mutant: the reminder is saved in a record of its own making.            *)
PutGraceAnew(w) ==
  /\ pc[w] = "put_grace"
  /\ grace' = CASE op[w] = "extend" -> [rec[w] EXCEPT !.ends = @ + 1]
                [] OTHER -> [ends |-> 1, reminded |-> op[w] = "remind"]
  /\ Finish(w)
  /\ stale' = stale \cup (GraceHolders \ {w})
  /\ UNCHANGED <<plan, crashes, irregular>>

PutGrace(w) ==
  /\ pc[w] = "put_grace"
  /\ grace' = CASE op[w] = "start"  -> [ends |-> 1, reminded |-> FALSE]
                [] op[w] = "extend" -> [rec[w] EXCEPT !.ends = @ + 1]
                [] op[w] = "remind" -> [rec[w] EXCEPT !.reminded = TRUE]
  /\ Finish(w)
  /\ stale' = stale \cup (GraceHolders \ {w})
  /\ UNCHANGED <<plan, crashes, irregular>>

DelGrace(w) ==
  /\ pc[w] = "del_grace"
  /\ grace' = NoGrace
  /\ Finish(w)
  /\ stale' = stale \cup (GraceHolders \ {w})
  /\ UNCHANGED <<plan, crashes, irregular>>

(* The worker dies, or loses Redis, between two commands.                  *)
Crash(w) ==
  /\ pc[w] # "idle"
  /\ crashes < CrashLimit /\ crashes' = crashes + 1
  /\ Finish(w)
  /\ irregular' = "yes"
  /\ UNCHANGED <<plan, grace, stale>>

Work(w) ==
  \/ Begin(w) \/ Get(w) \/ Put(w) \/ GetAgain(w) \/ PutUntil(w)
  \/ GetGrace(w) \/ PutGrace(w) \/ DelGrace(w)

Next == \E w \in Workers : Work(w) \/ Crash(w)

Spec == Init /\ [][Next]_vars

-----------------------------------------------------------------------------
Writes(w) == pc[w] \in {"put", "put_until", "put_grace"} /\ pc'[w] # pc[w]

(* "Enforced transitions": the state stored in Redis changes only along    *)
(* VALID_TRANSITIONS, even when operations overlap, unless the worker that *)
(* writes it works from a record that somebody else has written since.     *)
TransitionsEnforced ==
  [][plan'.state # plan.state =>
       \/ plan'.state \in Allowed[plan.state]
       \/ \E w \in stale : Writes(w)]_vars

(* A grace period only ever starts afresh, is extended, is marked reminded *)
(* or ends: no update takes back an extension or a reminder, or brings a   *)
(* record back that end_grace() deleted, unless the worker that writes it  *)
(* works from a record that somebody else has written since.               *)
GraceKept ==
  [][grace' # grace /\ grace' # NoGrace =>
       \/ grace' = [ends |-> 1, reminded |-> FALSE]
       \/ /\ grace # NoGrace /\ grace'.ends >= grace.ends
          /\ grace.reminded => grace'.reminded
       \/ \E w \in stale : Writes(w)]_vars

(* The two records agree at rest: a subscription is in the grace state iff *)
(* it has a grace record, and both end together.  Only overlapping or      *)
(* interrupted operations, or transitions behind the handler's back, can   *)
(* make them disagree.                                                     *)
BooksAgree ==
  irregular = "no" /\ (\A w \in Workers : pc[w] = "idle") =>
    /\ plan.state = "grace" <=> grace # NoGrace
    /\ plan.until = grace.ends
=============================================================================
