---------------------------- MODULE MCComponents ----------------------------
(***************************************************************************)
(* Model-checking instance of the components that stand alone, and of the  *)
(* circuit breaker that one worker has to itself.  Nothing is gained from  *)
(* interleaving them: a behaviour is one of one of them, chosen at the     *)
(* start, and the states are those of all, added up.                       *)
(***************************************************************************)
EXTENDS Components, CircuitSerial

VARIABLE active

(* Only weeks depend on the time zone, so hosts west of UTC run no monthly *)
(* limits here: those are the same in the other zone.                      *)
Zones == {-1, 1}
Zoned == west = 1 /\ config'.enforced => config'.period = "weekly"

PeriodLengths == <<1, 2>>

enforcerVars == <<now, west, config, spent, progress, charge, free, top, pushes>>
simpleVars == <<clock, members, stamp, keyEnds, stage, let, lost>>
costVars == <<wall, total, share, totalEnds, shareEnds, named, made>>
paymentVars == <<lockOf, resultOf, does, lapses, paid, excuses>>
retryVars == <<count, failTimes, attempt, loaded, line, mixed>>
routerVars == <<monotonic, downAt, doing, looked, stale, pool, tried,
  chosen, failedAt, pardoned>>
pagesVars == <<keyOf, table, cursor, seen, over, stayed, ends>>
captionVars == <<job, copy, report, client, taken, stored, crossed, expired>>
gcsVars == <<lastSize, session, flight, bytes, acked>>
serialVars == <<vars, elapsed, row>>

(* The inactive components stand still, in a single initial state each.    *)
Still(name, asOneState) == active = name \/ asOneState

MCInit ==
  /\ active \in {"budget", "simple", "cost", "payment", "retry", "router",
                 "pages", "caption", "gcs", "serial"}
  /\ Enforcer!Init /\ Still("budget", west = 1)
  /\ Simple!Init /\ Cost!Init /\ Payment!Init
  /\ Retry!Init /\ Still("retry", \A d \in Demos : failTimes[d] = 0)
  /\ Router!Init
  /\ Pages!Init /\ Still("pages", table = {} /\ \A r \in Rows : keyOf[r] = 1)
  /\ Caption!Init
  /\ GCS!Init /\ Still("gcs", lastSize = 1)
  /\ SerialInit

Of(name, Step, variables) ==
  IF active = name THEN Step ELSE UNCHANGED variables

MCNext ==
  /\ UNCHANGED active
  /\ Of("budget", Enforcer!Next /\ Zoned, enforcerVars)
  /\ Of("simple", Simple!Next, simpleVars)
  /\ Of("cost", Cost!Next, costVars)
  /\ Of("payment", Payment!Next, paymentVars)
  /\ Of("retry", Retry!Next, retryVars)
  /\ Of("router", Router!Next, routerVars)
  /\ Of("pages", Pages!Next, pagesVars)
  /\ Of("caption", Caption!Next, captionVars)
  /\ Of("gcs", GCS!Next, gcsVars)
  /\ Of("serial", SerialNext, serialVars)

MCSpec == MCInit /\ [][MCNext]_<<active, enforcerVars, simpleVars, costVars,
  paymentVars, retryVars, routerVars, pagesVars, captionVars, gcsVars, serialVars>>
=============================================================================
