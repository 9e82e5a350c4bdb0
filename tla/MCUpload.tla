------------------------------ MODULE MCUpload ------------------------------
(***************************************************************************)
(* Model-checking instance of the chunked upload.  Workers are alike, and  *)
(* contents are only compared with each other.  With GCS nothing is ever   *)
(* refused and the states multiply, so its part of the run is the one      *)
(* without failing calls, killed workers and expiry.                       *)
(***************************************************************************)
EXTENDS ChunkedUpload, TLC

UploadSymmetry == Permutations(Workers) \cup Permutations(Etags)

Calm == adapter = "gcs" => faults' = 0 /\ expiries' = 0

MCSpec == Init /\ [][Next /\ Calm]_vars
=============================================================================
