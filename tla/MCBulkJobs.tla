----------------------------- MODULE MCBulkJobs ------------------------------
(* BulkJobs for TLC. *)
EXTENDS BulkJobs, TLC

(* Bound: the disk refuses the end of a job's first run only.  The second  *)
(* run's stream may fail at any earlier point, with its process.           *)
Bounds == \A j \in Jobs, a \in Attempts : strm[<<j, a>>] = "failed" => a = 1
=============================================================================
