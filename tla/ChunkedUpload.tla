---------------------------- MODULE ChunkedUpload ----------------------------
(***************************************************************************)
(* One multipart upload of ChunkedUploader (kit_media/chunked_upload.py):  *)
(* several workers send parts, complete or abort it.  Each operation reads *)
(* the JSON record from Redis, awaits the storage adapter, and writes the  *)
(* record it has read back as a whole; these are its three steps.  None of *)
(* them looks at the status in the record: whether a call is out of order  *)
(* only the adapter can tell.  The storage services are external.  S3      *)
(* keeps the last content of each part and takes nothing more once the     *)
(* upload is completed or aborted, and its adapter raises what it refuses. *)
(* The session of Google Cloud Storage takes parts until it is deleted;    *)
(* its adapter completes without asking, and aborts without looking at     *)
(* the answer.                                                             *)
(***************************************************************************)
EXTENDS Integers, FiniteSets

CONSTANTS
  Adapters,     (* the storage adapters the uploader may be given          *)
  Workers,
  Parts,        (* part numbers                                            *)
  Etags,        (* the contents a part may have, known by their ETags      *)
  NoPart,       (* the entry of a part that is not there                   *)
  FaultLimit,   (* bound: adapter calls that fail and workers killed       *)
  ExpiryLimit   (* bound: times the record's TTL runs out                  *)

ASSUME UploadAssumption ==
  /\ Adapters \subseteq {"s3", "gcs"}
  /\ NoPart \notin Etags
  /\ FaultLimit \in Nat /\ ExpiryLimit \in Nat

PartLists == [Parts -> Etags \cup {NoPart}]
NoParts == [p \in Parts |-> NoPart]

(* UploadStatus, and "gone" for a record that is not in Redis.             *)
Final == {"completed", "aborted"}
Statuses == {"initiated", "in_progress", "gone"} \cup Final
Records == [status : Statuses, parts : PartLists]
Gone == [status |-> "gone", parts |-> NoParts]

Kinds == {"none", "part", "complete", "complete_with", "abort"}
Jobs == [kind : Kinds, parts : PartLists]
NoJob == [kind |-> "none", parts |-> NoParts]

VARIABLES
  record,     (* the record in Redis                                       *)
  adapter,    (* the adapter of this uploader                              *)
  storage,    (* the upload at the storage service: open, completed ...    *)
  stored,     (* ... the parts it has received ...                         *)
  object,     (* ... and those the completed object is made of             *)
  pc,         (* the next step of each worker                              *)
  job,        (* its operation, with the part it sends or the parts it     *)
              (*   completes the upload with                               *)
  seen,       (* the record as it has read it                              *)
  stale,      (* history: workers whose record has been written, or lost,  *)
              (*   since they read it                                      *)
  acked,      (* history: what upload_part() last returned for each part   *)
  clobbered,  (* history: "yes" once a stale worker has written            *)
  faults, expiries

service == <<adapter, storage, stored, object>>
locals == <<pc, job, seen>>
counts == <<faults, expiries>>
vars == <<record, service, locals, stale, acked, clobbered, counts>>

TypeOK ==
  /\ record \in Records
  /\ adapter \in Adapters /\ storage \in {"open"} \cup Final
  /\ stored \in PartLists /\ object \in PartLists
  /\ pc \in [Workers -> {"idle", "send", "write"}]
  /\ job \in [Workers -> Jobs]
  /\ seen \in [Workers -> Records]
  /\ stale \subseteq Workers
  /\ acked \in PartLists
  /\ clobbered \in {"no", "yes"}
  /\ faults \in 0 .. FaultLimit /\ expiries \in 0 .. ExpiryLimit

(* initiate() has returned the upload id; nobody knows it before.          *)
Init ==
  /\ record = [status |-> "initiated", parts |-> NoParts]
  /\ adapter \in Adapters
  /\ storage = "open" /\ stored = NoParts /\ object = NoParts
  /\ pc = [w \in Workers |-> "idle"]
  /\ job = [w \in Workers |-> NoJob]
  /\ seen = [w \in Workers |-> Gone]
  /\ stale = {} /\ acked = NoParts /\ clobbered = "no"
  /\ faults = 0 /\ expiries = 0

(* parts with what is in news put over it.                                 *)
Overlay(parts, news) ==
  [p \in Parts |-> IF news[p] = NoPart THEN parts[p] ELSE news[p]]

-----------------------------------------------------------------------------
(* What a worker may ask for: one part; the upload completed with the      *)
(* recorded parts, or with those of the received ETags that the caller     *)
(* lists; the upload aborted.                                              *)
Requests ==
  {[kind |-> "part", parts |-> [NoParts EXCEPT ![p] = e]] : p \in Parts, e \in Etags}
    \cup {[kind |-> "complete", parts |-> record.parts],
          [kind |-> "abort", parts |-> NoParts]}
    \cup {[kind |-> "complete_with",
           parts |-> [p \in Parts |-> IF p \in S THEN acked[p] ELSE NoPart]] :
             S \in SUBSET Parts}

Read(w) ==
  /\ pc[w] = "idle" /\ record # Gone
  /\ \E j \in Requests : job' = [job EXCEPT ![w] = j]
  /\ seen' = [seen EXCEPT ![w] = record]
  /\ pc' = [pc EXCEPT ![w] = "send"]
  /\ UNCHANGED <<record, service, stale, acked, clobbered, counts>>

(* Without a record every operation raises MediaError.                     *)
NotFound == record = Gone /\ UNCHANGED vars

(* The operation returns or raises.                                        *)
Leave(w) ==
  /\ pc' = [pc EXCEPT ![w] = "idle"]
  /\ job' = [job EXCEPT ![w] = NoJob]
  /\ seen' = [seen EXCEPT ![w] = Gone]

Goto(w, step) == pc' = [pc EXCEPT ![w] = step] /\ UNCHANGED <<job, seen>>

Completing(w) == job[w].kind \in {"complete", "complete_with"}

(* S3's complete_multipart_upload: some parts, each as the service has it. *)
Completes(parts) ==
  parts # NoParts /\ \A p \in Parts : parts[p] \in {NoPart, stored[p]}

(* The calls of the GCS adapter that nothing can refuse: complete makes no *)
(* request at all, abort does not look at the answer to its DELETE.        *)
Unchecked(w) == adapter = "gcs" /\ job[w].kind # "part"

Accepted(w) ==
  \/ Unchecked(w)
  \/ storage = "open" /\ (Completing(w) => Completes(job[w].parts))

(* The adapter's call; what is not accepted is raised.                     *)
SendPart(w) ==
  /\ pc[w] = "send" /\ job[w].kind = "part" /\ Accepted(w)
  /\ stored' = Overlay(stored, job[w].parts)
  /\ Goto(w, "write")
  /\ UNCHANGED <<record, adapter, storage, object, stale, acked, clobbered, counts>>

SendComplete(w) ==
  /\ pc[w] = "send" /\ Completing(w) /\ Accepted(w)
  /\ \/ adapter = "s3" /\ storage' = "completed" /\ object' = job[w].parts
     \/ adapter = "gcs" /\ UNCHANGED <<storage, object>>
  /\ Goto(w, "write")
  /\ UNCHANGED <<record, adapter, stored, stale, acked, clobbered, counts>>

SendAbort(w) ==
  /\ pc[w] = "send" /\ job[w].kind = "abort" /\ Accepted(w)
  /\ \/ storage' = "aborted"
     \/ adapter = "gcs" /\ UNCHANGED storage
  /\ Goto(w, "write")
  /\ UNCHANGED <<record, adapter, stored, object, stale, acked, clobbered, counts>>

(* Mutant: the refusal is swallowed.                                       *)
RefusedIgnored(w) ==
  /\ pc[w] = "send" /\ ~ Accepted(w)
  /\ Goto(w, "write") /\ stale' = stale
  /\ UNCHANGED <<record, service, acked, clobbered, counts>>

Refused(w) ==
  /\ pc[w] = "send" /\ ~ Accepted(w)
  /\ Leave(w) /\ stale' = stale \ {w}
  /\ UNCHANGED <<record, service, acked, clobbered, counts>>

(* The workers whose record is overtaken when w writes.                    *)
Others(w) == {v \in Workers \ {w} : pc[v] # "idle"}

(* Mutant: completed_parts is right, but the parts are replaced.           *)
WritePartAlone(w) ==
  /\ pc[w] = "write" /\ job[w].kind = "part"
  /\ record' = [status |-> "in_progress", parts |-> job[w].parts]
  /\ acked' = Overlay(acked, job[w].parts)
  /\ clobbered' = IF w \in stale THEN "yes" ELSE clobbered
  /\ stale' = (stale \cup Others(w)) \ {w}
  /\ Leave(w)
  /\ UNCHANGED <<service, counts>>

(* upload_part(): the record it read with the part in it, "in progress".   *)
WritePart(w) ==
  /\ pc[w] = "write" /\ job[w].kind = "part"
  /\ record' = [status |-> "in_progress", parts |-> Overlay(seen[w].parts, job[w].parts)]
  /\ acked' = Overlay(acked, job[w].parts)
  /\ clobbered' = IF w \in stale THEN "yes" ELSE clobbered
  /\ stale' = (stale \cup Others(w)) \ {w}
  /\ Leave(w)
  /\ UNCHANGED <<service, counts>>

(* complete() and abort(): the record they read with the final status.     *)
WriteFinal(w) ==
  /\ pc[w] = "write" /\ job[w].kind # "part"
  /\ record' = [seen[w] EXCEPT !.status =
       IF job[w].kind = "abort" THEN "aborted" ELSE "completed"]
  /\ clobbered' = IF w \in stale THEN "yes" ELSE clobbered
  /\ stale' = (stale \cup Others(w)) \ {w}
  /\ Leave(w)
  /\ UNCHANGED <<service, acked, counts>>

(* The adapter fails before it reaches the service, or the worker dies,    *)
(* possibly after the service has done its part.                           *)
Fail(w) ==
  /\ pc[w] # "idle" /\ faults < FaultLimit /\ faults' = faults + 1
  /\ Leave(w) /\ stale' = stale \ {w}
  /\ UNCHANGED <<record, service, acked, clobbered, expiries>>

(* The TTL of the record, one day or one hour, runs out.                   *)
Expire ==
  /\ record # Gone /\ record' = Gone
  /\ expiries < ExpiryLimit /\ expiries' = expiries + 1
  /\ stale' = stale \cup {w \in Workers : pc[w] # "idle"}
  /\ UNCHANGED <<service, locals, acked, clobbered, faults>>

Work(w) ==
  \/ Read(w) \/ SendPart(w) \/ SendComplete(w) \/ SendAbort(w) \/ Refused(w)
  \/ WritePart(w) \/ WriteFinal(w) \/ Fail(w)

Next == (\E w \in Workers : Work(w)) \/ NotFound \/ Expire

Spec == Init /\ [][Next]_vars

-----------------------------------------------------------------------------
(* With S3, what the record calls completed or aborted is: however stale   *)
(* the worker that writes, a final status is written after the service has *)
(* agreed, and the service agrees once.                                    *)
FinalIsTrue ==
  adapter = "s3" /\ record.status \in Final => record.status = storage

(* With S3, a final status stays until the record expires, unless a worker *)
(* writes that had read the record before another wrote it.                *)
FinalStays ==
  [][adapter = "s3" /\ record.status \in Final /\ record'.status # record.status =>
       \/ record' = Gone
       \/ \E w \in stale : WritePart(w) \/ WriteFinal(w)]_vars

(* Resumable uploads: complete() without a list hands the adapter every    *)
(* part upload_part() has acknowledged, with its last content, and S3      *)
(* makes the object of them, unless its record is stale or a stale one has *)
(* been written before: then parts are missing and nothing tells.          *)
ObjectIsWhole ==
  [][\A w \in Workers \ stale :
       SendComplete(w) /\ job[w].kind = "complete" /\ clobbered = "no"
         => \A p \in Parts :
              /\ acked[p] \in {NoPart, job[w].parts[p]}
              /\ adapter = "s3" => acked[p] \in {NoPart, object'[p]}]_vars
=============================================================================
