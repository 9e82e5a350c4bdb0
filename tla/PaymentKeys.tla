----------------------------- MODULE PaymentKeys -----------------------------
(***************************************************************************)
(* IdempotencyKeyManager of kit-pay (kit_pay/idempotency_key.py) with the  *)
(* client that the README shows for it: take the lock, pay under it, mark  *)
(* the payment completed, release the lock in a finally, and then look for *)
(* the result.  All clients carry the key of one payment.                  *)
(***************************************************************************)
EXTENDS Naturals, FiniteSets

CONSTANTS
  Payers, NoPayer,
  LapseLimit     (* bound: locks and results that run out                  *)

VARIABLES
  lockOf,        (* who set the lock (the stored value is a time, which no *)
                 (*   command looks at), or NoPayer                        *)
  resultOf,      (* whose result is stored, or NoPayer                     *)
  does,          (* the next step of each client                           *)
  lapses,
  paid,          (* history: clients whose payment has gone through        *)
  excuses        (* history: what may have let a second payment in         *)

vars == <<lockOf, resultOf, does, lapses, paid, excuses>>

Init ==
  /\ lockOf = NoPayer /\ resultOf = NoPayer
  /\ does = [p \in Payers |-> "acquire"]
  /\ lapses = 0 /\ paid = {} /\ excuses = {}

Then(p, step) == does' = [does EXCEPT ![p] = step]
Excuse(kind, applies) == excuses' = excuses \cup {k \in {kind} : applies}

(* Mutant: SET without NX.                                                 *)
LockFreeAlways == TRUE

LockFree == lockOf = NoPayer

(* The documented client never looks for a result before it locks.         *)
AcquireLock(p) ==
  /\ does[p] = "acquire"
  /\ IF LockFree
       THEN /\ lockOf' = p /\ Then(p, "pay")
            /\ Excuse("repeat of a completed payment", resultOf # NoPayer)
       ELSE Then(p, "get_result") /\ UNCHANGED <<lockOf, excuses>>
  /\ UNCHANGED <<resultOf, lapses, paid>>

Pay(p) ==
  /\ does[p] = "pay" /\ paid' = paid \cup {p}
  /\ Then(p, "store")
  /\ UNCHANGED <<lockOf, resultOf, lapses, excuses>>

Refused(p) ==
  /\ does[p] = "pay" /\ Then(p, "finally")
  /\ UNCHANGED <<lockOf, resultOf, lapses, paid, excuses>>

(* mark_completed(): the result, which has a TTL, and then the lock.       *)
StoreResult(p) ==
  /\ does[p] = "store" /\ resultOf' = p
  /\ Then(p, "release")
  /\ UNCHANGED <<lockOf, lapses, paid, excuses>>

(* The payment's result is not JSON, or Redis does not answer.             *)
StoreRaises(p) ==
  /\ does[p] = "store" /\ Then(p, "finally")
  /\ Excuse("result not stored", TRUE)
  /\ UNCHANGED <<lockOf, resultOf, lapses, paid>>

(* release_lock(): DEL, whoever holds the lock.  mark_completed() calls it *)
(* and the finally calls it again.                                         *)
Delete(p, kind) ==
  /\ lockOf' = NoPayer /\ Excuse(kind, lockOf \notin {p, NoPayer})
  /\ UNCHANGED <<resultOf, lapses, paid>>

Release(p) == does[p] = "release" /\ Delete(p, "overrun") /\ Then(p, "finally")

Finally(p) ==
  /\ does[p] = "finally" /\ Delete(p, "second release")
  /\ Then(p, "get_result")

(* get_result(): the client that finds one returns it; the other goes on   *)
(* with nothing, or tries again.                                           *)
GetResult(p) ==
  /\ does[p] = "get_result"
  /\ Then(p, "done") \/ (resultOf = NoPayer /\ Then(p, "acquire"))
  /\ UNCHANGED <<lockOf, resultOf, lapses, paid, excuses>>

Killed(p) ==
  /\ does[p] \notin {"acquire", "done"} /\ Then(p, "done")
  /\ Excuse("result not stored", does[p] = "store")
  /\ UNCHANGED <<lockOf, resultOf, lapses, paid>>

LockLapses ==
  /\ lockOf # NoPayer /\ lockOf' = NoPayer
  /\ lapses < LapseLimit /\ lapses' = lapses + 1
  /\ Excuse("overrun", does[lockOf] \in {"pay", "store"})
  /\ UNCHANGED <<resultOf, does, paid>>

(* The result's TTL runs out: a client that comes now finds no payment.    *)
ResultExpires ==
  /\ resultOf # NoPayer /\ resultOf' = NoPayer
  /\ lapses < LapseLimit /\ lapses' = lapses + 1
  /\ Excuse("result expired", TRUE)
  /\ UNCHANGED <<lockOf, does, paid>>

Next ==
  \/ \E p \in Payers :
       \/ AcquireLock(p) \/ Pay(p) \/ Refused(p) \/ StoreResult(p) \/ StoreRaises(p)
       \/ Release(p) \/ Finally(p) \/ GetResult(p) \/ Killed(p)
  \/ LockLapses \/ ResultExpires

Spec == Init /\ [][Next]_vars

(* "Prevent duplicate charges": a payment goes through twice only because  *)
(* a completed one was repeated while its result stood (the client never   *)
(* looks first) or after its result's TTL ran out, the result of one that  *)
(* went through was not stored, its lock ran out under it, or the second   *)
(* release deleted a lock that was somebody else's by then.  Two payments  *)
(* at once take one of the last two.                                       *)
PaidOnce ==
  /\ Cardinality(paid) > 1 => excuses # {}
  /\ Cardinality({p \in Payers : does[p] = "pay"}) > 1
       => excuses \cap {"overrun", "second release"} # {}
=============================================================================
