----------------------------- MODULE Components -----------------------------
(***************************************************************************)
(* The components that stand alone: they share no key and no process with  *)
(* any other part.  Each is an instance of its own module over variables   *)
(* of its own; this module gives their parameters and properties names     *)
(* that do not clash, for the run and the proofs that are about all.       *)
(***************************************************************************)
EXTENDS Integers, Sequences, FiniteSets

CONSTANTS
  Workers, Amounts, Limits, Weekly, Monthly, Wests, LastTime, PushLimit,
  AppCalls, Threads, MaxRequests, Window, AppEnd,
  Recorders, Lengths, CostEnd,
  Payers, NoPayer, LapseLimit,
  Demos, DemoRetries,
  Readers, Replicas, NoReplica, Cooldown, RouterEnd,
  Rows, Keys, PageSize,
  Backends, NoResult,
  Parts, PartSize

(* The bounds speak of the greatest charge there is.                       *)
ASSUME BudgetAssumption ==
  /\ IsFiniteSet(Workers) /\ Workers # {}
  /\ IsFiniteSet(Amounts) /\ Amounts # {} /\ Amounts \subseteq Nat \ {0}
  /\ Limits \subseteq Nat
  /\ {Weekly, Monthly} \subseteq Nat \ {0}
  /\ Wests \subseteq Int
  /\ LastTime \in Nat /\ PushLimit \in Nat

ASSUME SimpleAssumption ==
  /\ AppCalls \in Nat /\ Threads \in Nat \ {0}
  /\ MaxRequests \in Nat /\ Window \in Nat \ {0} /\ AppEnd \in Nat

ASSUME CostAssumption ==
  Lengths \in Seq(Nat \ {0}) /\ Lengths # <<>> /\ CostEnd \in Nat

ASSUME PaymentAssumption == NoPayer \notin Payers

ASSUME RetryAssumption == DemoRetries \in Nat

(* With a cooldown of 0 a mark is over as soon as it is made.              *)
ASSUME RouterAssumption ==
  NoReplica \notin Replicas /\ Cooldown \in Nat \ {0} /\ RouterEnd \in Nat

ASSUME PagesAssumption ==
  IsFiniteSet(Rows) /\ Keys \subseteq Nat \ {0} /\ PageSize \in Nat \ {0}

ASSUME CaptionAssumption == NoResult \notin Backends

ASSUME GCSAssumption == Parts \in Nat /\ PartSize \in Nat \ {0}

VARIABLES
  now, west, config, spent, progress, charge, free, top, pushes,
  clock, members, stamp, keyEnds, stage, let, lost,
  wall, total, share, totalEnds, shareEnds, named, made,
  lockOf, resultOf, does, lapses, paid, excuses,
  count, failTimes, attempt, loaded, line, mixed,
  monotonic, downAt, doing, looked, stale, pool, tried, chosen, failedAt,
  pardoned,
  keyOf, table, cursor, seen, over, stayed, ends,
  job, copy, report, client, taken, stored, crossed, expired,
  lastSize, session, flight, bytes, acked

Enforcer == INSTANCE Budget WITH pc <- progress
Simple == INSTANCE SimpleRateLimiter WITH
    Requests <- AppCalls, MaxTime <- AppEnd
Cost == INSTANCE CostTracker WITH MaxTime <- CostEnd
Payment == INSTANCE PaymentKeys
Retry == INSTANCE RetryDemo WITH MaxRetries <- DemoRetries
Router == INSTANCE ReplicaRouter WITH
    Callers <- Readers, MaxTime <- RouterEnd
Pages == INSTANCE KeysetPaginator
Caption == INSTANCE CaptionJob
GCS == INSTANCE GCSAdapter

(* What each of them promises, as its module states it.                    *)
OverspendBounded == Enforcer!OverspendBounded
OvershootBounded == Simple!OvershootBounded
UsageIsCurrent == Cost!UsageIsCurrent
PaidOnce == Payment!PaidOnce
DemoIsTrue == Retry!DemoIsTrue
RoutesByHealth == Router!RoutesByHealth
EachRowOnce == Pages!EachRowOnce
PolledIsFetched == Caption!PolledIsFetched
PartsInPlace == GCS!PartsInPlace
=============================================================================
