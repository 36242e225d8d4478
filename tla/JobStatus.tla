----------------------------- MODULE JobStatus -----------------------------
(***************************************************************************)
(* What the owner of a bulk job may rely on when it polls                  *)
(* GET /lookup/jobs/:job_id: the abstract specification that BulkJobs      *)
(* implements.  Nothing here knows of workers, locks, streams or files;    *)
(* only the status a poll returns and how often the queue has handed the   *)
(* job to a processor.                                                     *)
(*                                                                         *)
(* As long as the job was handed out once, the status moves forward only:  *)
(* queued, processing, then complete or failed.  Failed is for good;       *)
(* complete may still become failed, when the answer to the UPDATE that    *)
(* said so was lost, but never anything else.  Once the queue had to hand  *)
(* the job out again, nothing is promised but that it stays known and that *)
(* the queue stops after Deliveries attempts.                              *)
(***************************************************************************)
EXTENDS Naturals

CONSTANTS Jobs,        \* bulk jobs, by id
          Deliveries   \* how often the queue hands a job out at most

VARIABLES status,      \* job -> what a poll answers; "none" is 404
          tries        \* job -> how often a processor was given the job

vars == <<status, tries>>

Statuses == {"none", "queued", "processing", "complete", "failed"}
Final == {"complete", "failed"}

Init == /\ status = [j \in Jobs |-> "none"]
        /\ tries = [j \in Jobs |-> 0]

(* POST /lookup/jobs *)
Submit(j) == /\ status[j] = "none"
             /\ status' = [status EXCEPT ![j] = "queued"]
             /\ UNCHANGED tries

(* the queue hands the job to a processor *)
Deliver(j) == /\ status[j] # "none"
              /\ tries[j] < Deliveries
              /\ tries' = [tries EXCEPT ![j] = @ + 1]
              /\ UNCHANGED status

(* a processor reports that it begins; only a redelivery reopens a job *)
Begin(j) == /\ \/ tries[j] = 1 /\ status[j] = "queued"
               \/ tries[j] > 1
            /\ status' = [status EXCEPT ![j] = "processing"]
            /\ UNCHANGED tries

(* it reports the outcome; only a redelivery changes one already reported, *)
(* or the report that it failed after all                                  *)
End(j) == \E s \in Final :
            /\ \/ tries[j] = 1 /\ status[j] = "processing"
               \/ tries[j] = 1 /\ status[j] \in {"queued", "complete"} /\ s = "failed"
               \/ tries[j] > 1
            /\ status' = [status EXCEPT ![j] = s]
            /\ UNCHANGED tries

Next == \E j \in Jobs : Submit(j) \/ Deliver(j) \/ Begin(j) \/ End(j)

Spec == Init /\ [][Next]_vars
=============================================================================
