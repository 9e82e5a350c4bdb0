----------------------------- MODULE CaptionJob -----------------------------
(***************************************************************************)
(* CaptionJob of kit-media (kit_media/caption_job.py), from a submitted    *)
(* job on.  A worker of the processing backend reports that it has taken   *)
(* the job up and then how it ended; update_status() reads the whole       *)
(* record, changes it and writes it back.  The client polls, and fetches   *)
(* the result once the job is completed.                                   *)
(***************************************************************************)
EXTENDS Naturals, FiniteSets

CONSTANTS
  Backends,     (* workers; a retried job is taken up by more than one     *)
  NoResult

VARIABLES
  job,          (* the record in Redis: one record, or none                *)
  copy,         (* copy[w]: what w's update has read                       *)
  report,       (* the update each worker is about to make, or making      *)
  client,
  taken,        (* history: workers that have written to the job           *)
  stored,       (* history: results that have been written                 *)
  crossed,      (* history: an update wrote over what it had not read      *)
  expired       (* history: the record's TTL has run out                   *)

vars == <<job, copy, report, client, taken, stored, crossed, expired>>

Pending == [status |-> "pending", result |-> NoResult, error |-> FALSE]

(* submit()                                                                *)
Init ==
  /\ job = {Pending} /\ copy = [w \in Backends |-> Pending]
  /\ report = [w \in Backends |-> [status |-> "processing", read |-> FALSE]]
  /\ client = "polls"
  /\ taken = {} /\ stored = {} /\ crossed = FALSE /\ expired = FALSE

Reports(w, status, read) ==
  report' = [report EXCEPT ![w] = [status |-> status, read |-> read]]

(* _get_state(): MediaError, which ends the worker, when there is no job.  *)
Read(w) ==
  /\ ~report[w].read /\ report[w].status # "none"
  /\ IF job = {} THEN Reports(w, "none", FALSE) /\ UNCHANGED copy
     ELSE /\ \E record \in job : copy' = [copy EXCEPT ![w] = record]
          /\ Reports(w, report[w].status, TRUE)
  /\ UNCHANGED <<job, client, taken, stored, crossed, expired>>

(* Mutant: an update without a result or an error clears them.             *)
ChangedWithoutIf(w) ==
  LET s == report[w].status IN
  [status |-> s, result |-> IF s = "completed" THEN w ELSE NoResult, error |-> s = "failed"]

Changed(w) ==
  LET s == report[w].status IN
  [status |-> s,
   result |-> IF s = "completed" THEN w ELSE copy[w].result,
   error |-> s = "failed" \/ copy[w].error]

(* SET, which brings an expired record back.  Then the worker goes on to   *)
(* its end, which it reports as completed or failed, or dies.              *)
Write(w) ==
  /\ report[w].read /\ job' = {Changed(w)}
  /\ crossed' = (crossed \/ job # {copy[w]})
  /\ taken' = taken \cup {w}
  /\ stored' = IF report[w].status = "completed" THEN stored \cup {w} ELSE stored
  /\ \E next \in IF report[w].status = "processing"
                   THEN {"completed", "failed", "none"} ELSE {"none"} :
       Reports(w, next, FALSE)
  /\ UNCHANGED <<copy, client, expired>>

Poll ==
  /\ client = "polls" /\ \E record \in job : record.status = "completed"
  /\ client' = "fetches"
  /\ UNCHANGED <<job, copy, report, taken, stored, crossed, expired>>

(* get_result(): MediaError unless the job is completed still; one that is *)
(* but has no result breaks it.                                            *)
GetResult ==
  /\ client = "fetches"
  /\ \/ /\ \A record \in job : record.status # "completed"
        /\ client' = "refused"
     \/ \E record \in job :
          /\ record.status = "completed"
          /\ client' = IF record.result = NoResult THEN "broken" ELSE "has result"
  /\ UNCHANGED <<job, copy, report, taken, stored, crossed, expired>>

Expire ==
  /\ job # {} /\ job' = {} /\ expired' = TRUE
  /\ UNCHANGED <<copy, report, client, taken, stored, crossed>>

Next == (\E w \in Backends : Read(w) \/ Write(w)) \/ Poll \/ GetResult \/ Expire

Spec == Init /\ [][Next]_vars

(* A client that has polled "completed" gets a result; the exceptions are  *)
(* the job's TTL and a second worker's report.  And that report takes      *)
(* nothing from the record: once a result is stored the record has one,    *)
(* and a failed job has its error, unless two updates crossed.             *)
PolledIsFetched ==
  /\ client # "broken"
  /\ client = "refused" => expired \/ Cardinality(taken) > 1
  /\ ~crossed =>
       \A record \in job :
         /\ stored # {} => record.result \in stored
         /\ record.status = "failed" => record.error
=============================================================================
