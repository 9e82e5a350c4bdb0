----------------------------- MODULE CostTracker -----------------------------
(***************************************************************************)
(* CostTracker of kit-api (kit_api/cost_tracker.py) for one provider.      *)
(* record() names two keys in every period, the provider's and the         *)
(* endpoint's, asking the clock anew for each, and then sends all          *)
(* increments and TTLs in one transaction.  Costs are counted in records;  *)
(* the tokens share the fate of the endpoint's key.                        *)
(***************************************************************************)
EXTENDS Integers, Sequences, FiniteSets

CONSTANTS
  Recorders,    (* workers, each recording calls of an endpoint of its own *)
  Lengths,      (* the lengths of the periods, shortest first              *)
  MaxTime       (* bound: the last instant of the clock                    *)

VARIABLES
  wall,         (* time.time()                                             *)
  total,        (* total[p][b]: the provider's key of period p, bucket b   *)
  share,        (* share[w][p][b]: the endpoint's                          *)
  totalEnds, shareEnds,    (* when these keys expire                       *)
  named,        (* the buckets whose keys a record has named so far        *)
  made          (* history: the time at which each record began and ended  *)

vars == <<wall, total, share, totalEnds, shareEnds, named, made>>

Periods == 1 .. Len(Lengths)
Buckets == 0 .. MaxTime
PerKey(v) == [p \in Periods |-> [b \in Buckets |-> v]]

(* Mutant: a bucket's data is dropped half way through the next shortest.  *)
TTLShort(p) == Lengths[p] \div 2

TTL(p) == Lengths[p] * 2

Bucket(p, t) == t \div Lengths[p]

Init ==
  /\ wall = 0 /\ total = PerKey(0) /\ totalEnds = PerKey(0)
  /\ share = [w \in Recorders |-> PerKey(0)]
  /\ shareEnds = [w \in Recorders |-> PerKey(0)]
  /\ named = [w \in Recorders |-> <<>>]
  /\ made = {}

(* The next key, with the bucket of the present: first the provider's and  *)
(* then the endpoint's, period by period.                                  *)
NameKey(w) ==
  LET n == Len(named[w]) IN
  /\ n < 2 * Len(Lengths)
  /\ named' = [named EXCEPT ![w] =
       Append(@, [bucket |-> Bucket(n \div 2 + 1, wall), at |-> wall])]
  /\ UNCHANGED <<wall, total, share, totalEnds, shareEnds, made>>

Incr(counters, w, i) ==
  [p \in Periods |->
    [counters[p] EXCEPT ![named[w][2 * p - i].bucket] = @ + 1]]
Renew(ends, w, i) ==
  [p \in Periods |-> [ends[p] EXCEPT ![named[w][2 * p - i].bucket] = wall + TTL(p)]]

Execute(w) ==
  /\ Len(named[w]) = 2 * Len(Lengths) /\ \A r \in made : r.by # w
  /\ total' = Incr(total, w, 1) /\ totalEnds' = Renew(totalEnds, w, 1)
  /\ share' = [share EXCEPT ![w] = Incr(@, w, 0)]
  /\ shareEnds' = [shareEnds EXCEPT ![w] = Renew(@, w, 0)]
  /\ made' = made \cup {[by |-> w, from |-> named[w][1].at, to |-> wall]}
  /\ UNCHANGED <<wall, named>>

(* Time passes, and with it keys whose TTL has run out.                    *)
Pass ==
  LET Left(counters, ends) ==
        [p \in Periods |->
          [b \in Buckets |-> IF ends[p][b] > wall + 1 THEN counters[p][b] ELSE 0]]
  IN
  /\ wall < MaxTime /\ wall' = wall + 1
  /\ total' = Left(total, totalEnds)
  /\ share' = [w \in Recorders |-> Left(share[w], shareEnds[w])]
  /\ UNCHANGED <<totalEnds, shareEnds, named, made>>

Next == (\E w \in Recorders : NameKey(w) \/ Execute(w)) \/ Pass

Spec == Init /\ [][Next]_vars

(* What get_usage(), get_endpoint_usage() and check_budget() answer.       *)
Usage(p) == total[p][Bucket(p, wall)]
EndpointUsage(w, p) == share[w][p][Bucket(p, wall)]

(* "Costs ... naturally expire and roll over": the usage of the present    *)
(* period has every record made within it, and none that was made wholly   *)
(* before it, for the provider and for each endpoint, and no TTL takes any *)
(* of it back.  A record made across a boundary may count here or there,   *)
(* and differently for the two.                                            *)
UsageIsCurrent ==
  \A p \in Periods :
    LET In(t) == Bucket(p, t) = Bucket(p, wall)
        within == {r \in made : In(r.from)}
        touching == {r \in made : In(r.to)}
        Of(w, records) == {r \in records : r.by = w}
    IN
    /\ Usage(p) \in Cardinality(within) .. Cardinality(touching)
    /\ \A w \in Recorders :
         EndpointUsage(w, p)
           \in Cardinality(Of(w, within)) .. Cardinality(Of(w, touching))
=============================================================================
