------------------------- MODULE ChunkedUploadProofs -------------------------
(***************************************************************************)
(* Safety of the chunked upload, for any workers, parts and contents: with *)
(* either adapter where the record is concerned, with S3 where a final     *)
(* status is, since only S3 refuses what comes after it.                   *)
(***************************************************************************)
EXTENDS ChunkedUpload, TLAPS

(* A worker that is not stale has read the record that is stored, and      *)
(* completes with the parts in it.                                         *)
SeenInv ==
  \A w \in Workers :
    pc[w] # "idle" /\ w \notin stale =>
      /\ record # Gone /\ seen[w] = record
      /\ job[w].kind = "complete" => job[w].parts = record.parts

(* What S3 has done for those who are about to write; and since it was     *)
(* open then, what they overwrite is not final unless they are stale.      *)
SentInv ==
  \A w \in Workers :
    adapter = "s3" /\ pc[w] = "write" =>
      /\ job[w].kind = "abort" => storage = "aborted"
      /\ Completing(w) => storage = "completed"
      /\ w \notin stale => record.status \notin Final

BusyInv == \A w \in Workers : pc[w] # "idle" => job[w].kind # "none"

(* Before the first stale write, the record has all that was acknowledged. *)
AckInv ==
  clobbered = "no" /\ record # Gone =>
    \A p \in Parts : acked[p] \in {NoPart, record.parts[p]}

UploadInv == TypeOK /\ BusyInv /\ SeenInv /\ SentInv /\ AckInv /\ FinalIsTrue

-----------------------------------------------------------------------------
(* A freshly initiated upload satisfies the invariant.                     *)
LEMMA InitInv == Init => UploadInv
BY UploadAssumption DEF Init, UploadInv, TypeOK, BusyInv, SeenInv, SentInv, AckInv, FinalIsTrue,
   Records, Statuses, Final, PartLists, NoParts, Gone, Jobs, Kinds, NoJob

(* Part lists stay part lists, and requests are jobs.                      *)
LEMMA Lists ==
  /\ NoParts \in PartLists /\ Gone \in Records /\ NoJob \in Jobs
  /\ \A a, b \in PartLists : Overlay(a, b) \in PartLists
BY DEF PartLists, NoParts, Gone, Records, Statuses, NoJob, Jobs, Kinds, Overlay

(* Whatever a worker may ask for is a job, and not the empty one.          *)
LEMMA RequestsAreJobs == TypeOK => Requests \subseteq Jobs /\ \A j \in Requests : j.kind # "none"
<1> SUFFICES ASSUME TypeOK, NEW j \in Requests PROVE j \in Jobs /\ j.kind # "none"
  OBVIOUS
<1>1. CASE \E p \in Parts, e \in Etags :
             j = [kind |-> "part", parts |-> [NoParts EXCEPT ![p] = e]]
  BY <1>1 DEF Jobs, Kinds, NoParts, PartLists
<1>2. CASE j = [kind |-> "complete", parts |-> record.parts]
  BY <1>2 DEF TypeOK, Jobs, Kinds, Records
<1>3. CASE j = [kind |-> "abort", parts |-> NoParts]
  BY <1>3, Lists DEF Jobs, Kinds
<1>4. CASE \E S \in SUBSET Parts :
             j = [kind |-> "complete_with",
                  parts |-> [p \in Parts |-> IF p \in S THEN acked[p] ELSE NoPart]]
  BY <1>4 DEF TypeOK, Jobs, Kinds, PartLists
<1> QED
  BY <1>1, <1>2, <1>3, <1>4 DEF Requests

(* Every step keeps the types.                                             *)
LEMMA TypeStep == TypeOK /\ [Next]_vars => TypeOK'
<1> SUFFICES ASSUME TypeOK, [Next]_vars PROVE TypeOK'
  OBVIOUS
<1> USE UploadAssumption, Lists DEF TypeOK
<1>1. ASSUME NEW w \in Workers, Read(w) PROVE TypeOK'
  BY <1>1, RequestsAreJobs DEF Read, service, counts
<1>2. ASSUME NEW w \in Workers, SendPart(w) PROVE TypeOK'
  <2>1. job[w].parts \in PartLists
    BY DEF Jobs
  <2> QED
    BY <1>2, <2>1 DEF SendPart, Goto, counts
<1>3. ASSUME NEW w \in Workers, SendComplete(w) PROVE TypeOK'
  <2>1. job[w].parts \in PartLists
    BY DEF Jobs
  <2> QED
    BY <1>3, <2>1 DEF SendComplete, Goto, counts, Final
<1>4. ASSUME NEW w \in Workers, SendAbort(w) PROVE TypeOK'
  BY <1>4 DEF SendAbort, Goto, counts, Final
<1>5. ASSUME NEW w \in Workers, Refused(w) \/ Fail(w) PROVE TypeOK'
  BY <1>5 DEF Refused, Fail, Leave, service, counts
<1>6. ASSUME NEW w \in Workers, WritePart(w) PROVE TypeOK'
  <2>1. job[w].parts \in PartLists /\ seen[w].parts \in PartLists
    BY DEF Jobs, Records
  <2>2. record' \in Records /\ acked' \in PartLists
    BY <1>6, <2>1 DEF WritePart, Records, Statuses
  <2> QED
    BY <1>6, <2>2 DEF WritePart, Others, Leave, service, counts
<1>7. ASSUME NEW w \in Workers, WriteFinal(w) PROVE TypeOK'
  <2>1. record' \in Records
    BY <1>7 DEF WriteFinal, Records, Statuses, Final
  <2> QED
    BY <1>7, <2>1 DEF WriteFinal, Others, Leave, service, counts
<1>8. ASSUME NotFound \/ UNCHANGED vars PROVE TypeOK'
  BY <1>8 DEF NotFound, vars, service, locals, counts
<1>9. ASSUME Expire PROVE TypeOK'
  BY <1>9 DEF Expire, service, locals
<1> QED
  BY <1>1, <1>2, <1>3, <1>4, <1>5, <1>6, <1>7, <1>8, <1>9 DEF Next, Work

(* The record is written by one worker at a time, which makes the others   *)
(* stale; the service is never open again once it has closed.              *)
LEMMA SeenStep ==
  TypeOK /\ BusyInv /\ SeenInv /\ [Next]_vars => BusyInv' /\ SeenInv'
<1> SUFFICES ASSUME TypeOK, BusyInv, SeenInv, [Next]_vars PROVE BusyInv' /\ SeenInv'
  OBVIOUS
<1> USE DEF TypeOK, BusyInv, SeenInv
<1>1. ASSUME NEW w \in Workers, Read(w) PROVE BusyInv' /\ SeenInv'
  <2>1. PICK j \in Requests : job' = [job EXCEPT ![w] = j]
    BY <1>1 DEF Read
  <2>2. j.kind # "none" /\ (j.kind = "complete" => j.parts = record.parts)
    BY RequestsAreJobs DEF Requests
  <2> QED
    BY <1>1, <2>1, <2>2 DEF Read
<1>2. ASSUME NEW w \in Workers, SendPart(w) \/ SendComplete(w) \/ SendAbort(w)
      PROVE  BusyInv' /\ SeenInv'
  BY <1>2 DEF SendPart, SendComplete, SendAbort, Goto
<1>3. ASSUME NEW w \in Workers, Refused(w) \/ Fail(w) PROVE BusyInv' /\ SeenInv'
  BY <1>3 DEF Refused, Fail, Leave
<1>4. ASSUME NEW w \in Workers, WritePart(w) \/ WriteFinal(w) PROVE BusyInv' /\ SeenInv'
  BY <1>4 DEF WritePart, WriteFinal, Leave, Others
<1>5. ASSUME Expire PROVE BusyInv' /\ SeenInv'
  BY <1>5 DEF Expire, locals
<1>6. ASSUME NotFound \/ UNCHANGED vars PROVE BusyInv' /\ SeenInv'
  BY <1>6 DEF NotFound, vars, locals
<1> QED
  BY <1>1, <1>2, <1>3, <1>4, <1>5, <1>6 DEF Next, Work

(* S3 is final before a record says so.                                    *)
LEMMA SentStep ==
  TypeOK /\ BusyInv /\ SeenInv /\ SentInv /\ FinalIsTrue /\ [Next]_vars
    => SentInv' /\ FinalIsTrue'
<1> SUFFICES ASSUME TypeOK, BusyInv, SeenInv, SentInv, FinalIsTrue, [Next]_vars
             PROVE  SentInv' /\ FinalIsTrue'
  OBVIOUS
<1> USE DEF TypeOK, BusyInv, SentInv, FinalIsTrue, Final, Completing
<1>1. ASSUME NEW w \in Workers, Read(w) PROVE SentInv' /\ FinalIsTrue'
  BY <1>1 DEF Read, service
<1>2. ASSUME NEW w \in Workers, SendPart(w) \/ SendComplete(w) \/ SendAbort(w)
      PROVE  SentInv' /\ FinalIsTrue'
  <2>1. CASE adapter = "gcs"
    BY <1>2, <2>1 DEF SendPart, SendComplete, SendAbort
  <2>2. CASE adapter = "s3"
    <3>1. storage = "open"
      BY <1>2, <2>2 DEF SendPart, SendComplete, SendAbort, Accepted, Unchecked
    <3> QED
      BY <1>2, <2>2, <3>1 DEF SendPart, SendComplete, SendAbort, Goto, SeenInv
  <2> QED
    BY <2>1, <2>2, UploadAssumption
<1>3. ASSUME NEW w \in Workers, Refused(w) \/ Fail(w) PROVE SentInv' /\ FinalIsTrue'
  BY <1>3 DEF Refused, Fail, Leave, service
<1>4. ASSUME NEW w \in Workers, WritePart(w) PROVE SentInv' /\ FinalIsTrue'
  BY <1>4 DEF WritePart, Leave, Others, service
<1>5. ASSUME NEW w \in Workers, WriteFinal(w) PROVE SentInv' /\ FinalIsTrue'
  <2>1. job[w].kind \in {"abort", "complete", "complete_with"}
    BY <1>5 DEF WriteFinal, Jobs, Kinds
  <2>2. adapter = "s3" => record'.status = storage
    BY <1>5, <2>1 DEF WriteFinal, Records
  <2> QED
    BY <1>5, <2>1, <2>2 DEF WriteFinal, Leave, Others, service
<1>6. ASSUME Expire PROVE SentInv' /\ FinalIsTrue'
  BY <1>6 DEF Expire, locals, service, Gone
<1>7. ASSUME NotFound \/ UNCHANGED vars PROVE SentInv' /\ FinalIsTrue'
  BY <1>7 DEF NotFound, vars, locals, service
<1> QED
  BY <1>1, <1>2, <1>3, <1>4, <1>5, <1>6, <1>7 DEF Next, Work

(* No write but a stale one loses an acknowledged part.                    *)
LEMMA AckStep == TypeOK /\ SeenInv /\ AckInv /\ [Next]_vars => AckInv'
<1> SUFFICES ASSUME TypeOK, SeenInv, AckInv, [Next]_vars PROVE AckInv'
  OBVIOUS
<1> USE DEF TypeOK, AckInv
<1>1. ASSUME NEW w \in Workers,
             Read(w) \/ SendPart(w) \/ SendComplete(w) \/ SendAbort(w) \/ Refused(w) \/ Fail(w)
      PROVE  AckInv'
  BY <1>1 DEF Read, SendPart, SendComplete, SendAbort, Refused, Fail
<1>2. ASSUME NEW w \in Workers, WritePart(w), w \notin stale, clobbered = "no" PROVE AckInv'
  <2>1. record # Gone /\ seen[w] = record
    BY <1>2 DEF WritePart, SeenInv
  <2>2. record'.parts = Overlay(record.parts, job[w].parts)
    BY <1>2, <2>1 DEF WritePart
  <2>3. acked' = Overlay(acked, job[w].parts)
    BY <1>2 DEF WritePart
  <2> QED
    BY <1>2, <2>1, <2>2, <2>3 DEF Overlay
<1>3. ASSUME NEW w \in Workers, WriteFinal(w), w \notin stale, clobbered = "no" PROVE AckInv'
  <2>1. record # Gone /\ seen[w] = record
    BY <1>3 DEF WriteFinal, SeenInv
  <2>2. record'.parts = record.parts /\ acked' = acked
    BY <1>3, <2>1 DEF WriteFinal, Records
  <2> QED
    BY <1>3, <2>1, <2>2
<1>4. ASSUME NEW w \in Workers, WritePart(w) \/ WriteFinal(w), w \in stale \/ clobbered # "no"
      PROVE  AckInv'
  BY <1>4 DEF WritePart, WriteFinal
<1>5. ASSUME Expire \/ NotFound \/ UNCHANGED vars PROVE AckInv'
  BY <1>5 DEF Expire, NotFound, vars
<1> QED
  BY <1>1, <1>2, <1>3, <1>4, <1>5 DEF Next, Work

-----------------------------------------------------------------------------
(* The invariant on which the properties of the upload rest.               *)
THEOREM UploadInvariant == Spec => []UploadInv
<1>1. UploadInv /\ [Next]_vars => UploadInv'
  BY TypeStep, SeenStep, SentStep, AckStep DEF UploadInv
<1> QED
  BY <1>1, InitInv, PTL DEF Spec

(* The upload's variables keep their types.                                *)
THEOREM TypeCorrect == Spec => []TypeOK
BY UploadInvariant, PTL DEF UploadInv

(* With S3, which refuses what comes after a completion or an abortion, a  *)
(* record that says either is right, whoever wrote it and however stale.   *)
THEOREM FinalTrue == Spec => []FinalIsTrue
BY UploadInvariant, PTL DEF UploadInv

(* With S3, only a stale worker takes a final status back.                 *)
THEOREM FinalKept == Spec => FinalStays
<1> DEFINE Kept ==
      adapter = "s3" /\ record.status \in Final /\ record'.status # record.status =>
        \/ record' = Gone
        \/ \E w \in stale : WritePart(w) \/ WriteFinal(w)
<1>1. UploadInv /\ [Next]_vars => Kept
  <2> SUFFICES ASSUME UploadInv, [Next]_vars PROVE Kept
    OBVIOUS
  <2>1. ASSUME NEW w \in Workers, WritePart(w) \/ WriteFinal(w) PROVE Kept
    BY <2>1 DEF UploadInv, SentInv, WritePart, WriteFinal
  <2>2. ASSUME NEW w \in Workers,
               Read(w) \/ SendPart(w) \/ SendComplete(w) \/ SendAbort(w) \/ Refused(w) \/ Fail(w)
        PROVE  Kept
    BY <2>2 DEF Read, SendPart, SendComplete, SendAbort, Refused, Fail
  <2>3. ASSUME Expire \/ NotFound \/ UNCHANGED vars PROVE Kept
    BY <2>3 DEF Expire, NotFound, vars
  <2> QED
    BY <2>1, <2>2, <2>3 DEF Next, Work
<1> QED
  BY <1>1, UploadInvariant, PTL DEF Spec, FinalStays

(* With either adapter, no acknowledged part is missing from what complete *)
(* hands over from a record that no stale worker has written, nor, with    *)
(* S3, from the object.                                                    *)
THEOREM ObjectWhole == Spec => ObjectIsWhole
<1> DEFINE Whole ==
      \A w \in Workers \ stale :
        SendComplete(w) /\ job[w].kind = "complete" /\ clobbered = "no"
          => \A p \in Parts :
               /\ acked[p] \in {NoPart, job[w].parts[p]}
               /\ adapter = "s3" => acked[p] \in {NoPart, object'[p]}
<1>1. UploadInv => Whole
  BY DEF UploadInv, SeenInv, AckInv, SendComplete
<1> QED
  BY <1>1, UploadInvariant, PTL DEF ObjectIsWhole
=============================================================================
