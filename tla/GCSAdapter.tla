----------------------------- MODULE GCSAdapter -----------------------------
(***************************************************************************)
(* The multipart upload of kit-media's GCSAdapter                          *)
(* (kit_media/adapters/gcs_adapter.py): every part is a PUT to the same    *)
(* resumable session, placed by its Content-Range.  Parts are sent as a    *)
(* caller of ChunkedUploader sends them: in any order, several at once,    *)
(* and again after an error.  All are of one size but the last.            *)
(***************************************************************************)
EXTENDS Integers

CONSTANTS
  Parts,        (* how many                                                *)
  PartSize      (* of every part but the last                              *)

VARIABLES
  lastSize,
  session,      (* what the storage service has of the upload              *)
  flight,       (* parts whose PUT is under way                            *)
  bytes,        (* bytes[b]: the part that put byte b there, or 0          *)
  acked         (* parts whose upload_part() has returned                  *)

vars == <<lastSize, session, flight, bytes, acked>>

Init ==
  /\ lastSize \in 1 .. PartSize
  /\ session = "none" /\ flight = {} /\ acked = {}
  /\ bytes = [b \in 0 .. (Parts + 1) * PartSize |-> 0]

Length(n) == IF n = Parts THEN lastSize ELSE PartSize

(* initiate_multipart_upload(): a POST, which raises unless it opens one.  *)
Initiate ==
  /\ session = "none" /\ session' = "open"
  /\ UNCHANGED <<lastSize, flight, bytes, acked>>

(* Mutant: the parts are counted from zero.                                *)
OffsetFromZero(n) == n * Length(n)

(* The parts are counted from one, and taken to be as long as this one.    *)
Offset(n) == (n - 1) * Length(n)

(* upload_part(): the PUT is sent; and it lands, answered or not, or does  *)
(* not.  A part without an answer raises, and is sent again.               *)
Send(n) ==
  /\ session # "none" /\ n \notin acked /\ flight' = flight \cup {n}
  /\ UNCHANGED <<lastSize, session, bytes, acked>>

Land(n) ==
  /\ n \in flight /\ session = "open" /\ flight' = flight \ {n}
  /\ bytes' = [b \in DOMAIN bytes |->
       IF b \in Offset(n) .. Offset(n) + Length(n) - 1 THEN n ELSE bytes[b]]
  /\ acked' \in {acked, acked \cup {n}}
  /\ UNCHANGED <<lastSize, session>>

Fail(n) ==
  /\ n \in flight /\ flight' = flight \ {n}
  /\ UNCHANGED <<lastSize, session, bytes, acked>>

(* abort_multipart_upload(): a DELETE, whose answer is not looked at.      *)
(* complete_multipart_upload() makes no call.                              *)
Abort ==
  /\ session = "open" /\ session' = "gone"
  /\ UNCHANGED <<lastSize, flight, bytes, acked>>

Next ==
  \/ Initiate \/ Abort
  \/ \E n \in 1 .. Parts : Send(n) \/ Land(n) \/ Fail(n)

Spec == Init /\ [][Next]_vars

(* A part that was acknowledged is where it belongs, in whatever order and *)
(* however often the parts were sent, as long as they are equally long.  A *)
(* shorter last part goes where it would be if all were that short, and so *)
(* it is never in its place, and takes the place of that many bytes there, *)
(* and of no others.                                                       *)
PartsInPlace ==
  \A n \in acked : \A i \in 0 .. Length(n) - 1 :
    LET b == (n - 1) * PartSize + i IN
    \/ bytes[b] = n
    \/ lastSize < PartSize
       /\ (n = Parts \/ b \in (Parts - 1) * lastSize .. Parts * lastSize - 1)
=============================================================================
