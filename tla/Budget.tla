------------------------------- MODULE Budget -------------------------------
(***************************************************************************)
(* BudgetEnforcer of kit-pay (kit_pay/budget_enforcer.py) for one          *)
(* customer: record_charge() reads the limit, reads the charges of the     *)
(* period, decides, and pushes its own charge, with nothing to hold the    *)
(* others off in between; and each of its steps asks the clock which       *)
(* period it is.  The list of a period is kept as its charges' sum for     *)
(* each time stamp.  Lists of past periods are never read, and the EXPIRE  *)
(* of 90 days that follows each push only removes those.                   *)
(***************************************************************************)
EXTENDS Integers, FiniteSets, FiniteSetsExt

CONSTANTS
  Workers,
  Amounts,       (* what a charge may be                                   *)
  Limits,        (* what the limit may be set to                           *)
  Weekly, Monthly,    (* the lengths of the periods                        *)
  Wests,         (* how far west of UTC the hosts may be                   *)
  LastTime,      (* bound: the last instant of the clock                   *)
  PushLimit      (* bound: charges pushed                                  *)

VARIABLES
  now,         (* the time, which all clocks agree on                      *)
  west,        (* the time zone of the hosts                               *)
  config,      (* the limit that is set                                    *)
  spent,       (* spent[p][t]: charges in the list of the present period p *)
               (*   that are stamped t                                     *)
  pc,          (* the next step of each worker                             *)
  charge,      (* its charge, the limit it has read, the list it has read  *)
               (*   and its charge's time stamp                            *)
  free,        (* history: the part of spent that was made with no limit   *)
  top,         (* history: the highest limit so far                        *)
  pushes

vars == <<now, west, config, spent, pc, charge, free, top, pushes>>

(* Daily budgets roll over like monthly ones.                              *)
Length == [weekly |-> Weekly, monthly |-> Monthly]
Periods == DOMAIN Length
NoLimit == [amount |-> 0, period |-> "monthly", enforced |-> FALSE]
Empty == [t \in 0 .. LastTime |-> 0]
NoCharge == [amount |-> 0, config |-> NoLimit, used |-> Empty, stamp |-> 0]

Init ==
  /\ now = 0 /\ west \in Wests /\ config = NoLimit
  /\ spent = [p \in Periods |-> Empty] /\ free = [p \in Periods |-> Empty]
  /\ top = 0 /\ pushes = 0
  /\ pc = [w \in Workers |-> "idle"]
  /\ charge = [w \in Workers |-> NoCharge]

(* _period_tag: the period it is, in UTC.                                  *)
Tag(p, t) == t \div Length[p]
Begins(p) == Tag(p, now) * Length[p]

(* _period_start: the same, but mktime() takes the Monday of a week to be  *)
(* one of local time.                                                      *)
Start(p) == Begins(p) + IF p = "weekly" THEN west ELSE 0

Total(list, stamps) == MapThenSumSet(LAMBDA t : list[t], stamps \cap DOMAIN list)

Leave(w) ==
  /\ pc' = [pc EXCEPT ![w] = "idle"]
  /\ charge' = [charge EXCEPT ![w] = NoCharge]

-----------------------------------------------------------------------------
SetLimit ==
  /\ \E a \in Limits, p \in Periods :
       /\ config' = [amount |-> a, period |-> p, enforced |-> TRUE]
       /\ top' = IF a > top THEN a ELSE top
  /\ UNCHANGED <<now, west, spent, pc, charge, free, pushes>>

(* record_charge() and check_limit(): GET the limit; without one, nothing  *)
(* is summed or enforced.                                                  *)
GetLimit(w) ==
  /\ pc[w] = "idle"
  /\ \E a \in Amounts :
       charge' = [charge EXCEPT ![w] =
         [amount |-> a, config |-> config, used |-> Empty,
          stamp |-> IF config.enforced THEN 0 ELSE now]]
  /\ pc' = [pc EXCEPT ![w] = IF config.enforced THEN "sum" ELSE "push"]
  /\ UNCHANGED <<now, west, config, spent, free, top, pushes>>

(* LRANGE of the list of the present period.                               *)
Sum(w) ==
  /\ pc[w] = "sum"
  /\ charge' = [charge EXCEPT ![w].used = spent[charge[w].config.period]]
  /\ pc' = [pc EXCEPT ![w] = "decide"]
  /\ UNCHANGED <<now, west, config, spent, free, top, pushes>>

(* Only records from the start of the period that it is now are counted.   *)
Used(w) == Total(charge[w].used, Start(charge[w].config.period) .. LastTime)

(* PaymentError when the charge exceeds what remains; else it is stamped.  *)
Block(w) ==
  /\ pc[w] = "decide" /\ Used(w) + charge[w].amount > charge[w].config.amount
  /\ Leave(w)
  /\ UNCHANGED <<now, west, config, spent, free, top, pushes>>

Stamp(w) ==
  /\ charge' = [charge EXCEPT ![w].used = Empty, ![w].stamp = now]
  /\ pc' = [pc EXCEPT ![w] = "push"]
  /\ UNCHANGED <<now, west, config, spent, free, top, pushes>>

(* Mutant: a customer with anything left may charge any amount.            *)
AllowWhileSome(w) ==
  pc[w] = "decide" /\ Used(w) < charge[w].config.amount /\ Stamp(w)

Allow(w) ==
  /\ pc[w] = "decide" /\ Used(w) + charge[w].amount <= charge[w].config.amount
  /\ Stamp(w)

(* LPUSH to the list of the present period, which may have begun since the *)
(* record was stamped.                                                     *)
Push(w) ==
  LET c == charge[w]
      Enter(lists) == [lists EXCEPT ![c.config.period][c.stamp] = @ + c.amount]
  IN
  /\ pc[w] = "push" /\ Leave(w)
  /\ pushes < PushLimit /\ pushes' = pushes + 1
  /\ spent' = Enter(spent)
  /\ free' = IF c.config.enforced THEN free ELSE Enter(free)
  /\ UNCHANGED <<now, west, config, top>>

(* The worker dies before it has pushed.                                   *)
Crash(w) ==
  /\ pc[w] # "idle" /\ Leave(w)
  /\ UNCHANGED <<now, west, config, spent, free, top, pushes>>

(* A new period has a new empty list.                                      *)
Advance ==
  LET Renew(lists) ==
        [p \in Periods |-> IF Tag(p, now + 1) = Tag(p, now) THEN lists[p] ELSE Empty]
  IN
  /\ now < LastTime /\ now' = now + 1
  /\ spent' = Renew(spent) /\ free' = Renew(free)
  /\ UNCHANGED <<west, config, pc, charge, top, pushes>>

Next ==
  \/ \E w \in Workers :
       GetLimit(w) \/ Sum(w) \/ Block(w) \/ Allow(w) \/ Push(w) \/ Crash(w)
  \/ SetLimit \/ Advance

Spec == Init /\ [][Next]_vars

-----------------------------------------------------------------------------
MaxAmount == CHOOSE a \in Amounts : \A b \in Amounts : b <= a
N == Cardinality(Workers)

(* "Spend limits that block over-budget charges": charges that race may    *)
(* exceed the limit together, but by no more than one charge for every     *)
(* other worker, whatever they do, whenever they die, and however often    *)
(* the limit or the period changes.  Charges made while there was no limit *)
(* come on top, and charges that are not counted: those stamped in one     *)
(* period and pushed in the next, of which each worker can have one, and,  *)
(* west of UTC, those of a week's first hours.                             *)
OverspendBounded ==
  \A p \in Periods :
    /\ Total(spent[p], Start(p) .. LastTime) - Total(free[p], Start(p) .. LastTime)
         <= top + (N - 1) * MaxAmount
    /\ Total(spent[p], 0 .. Begins(p) - 1) <= N * MaxAmount
=============================================================================
