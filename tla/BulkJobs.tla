------------------------------ MODULE BulkJobs ------------------------------
(***************************************************************************)
(* Asynchronous bulk lookups: POST /lookup/jobs (routes/lookup.ts), the    *)
(* BullMQ queue (jobs/queue.ts), the workers that run in the API process   *)
(* and in the worker container (jobs/worker.ts), the jobs table, the CSV   *)
(* result file on the shared volume and the GET .../result route.          *)
(*                                                                         *)
(* A run <<j, a>> is attempt a at job j: BullMQ hands a job to a processor *)
(* once, and again each time it finds the job active with its lock gone    *)
(* (a stall), MaxStalled times at most.  The lock goes when the holder's   *)
(* process dies, and it can go while the holder still runs (its renewal    *)
(* was late); the run then carries on beside its successor, on the same    *)
(* row and the same file.                                                  *)
(*                                                                         *)
(* Every await of the processor is a step that may resolve or reject.      *)
(* Rejecting takes the run to "throw".  An UPDATE whose connection breaks  *)
(* rejects, and was committed by then or never is: the connection went     *)
(* with the backend that ran it.  One line of the file is one row of the   *)
(* CSV; line 0 is the header and line n the n-th number's row.             *)
(***************************************************************************)
EXTENDS Naturals, FiniteSets

CONSTANTS Jobs,         \* jobs.id
          Workers,      \* processes that called startWorker()
          ApiProcess,   \* the worker that also serves HTTP
          Total,        \* numbers in a job
          BATCH_SIZE,   \* numbers looked up between two progress updates
          Concurrency,  \* jobs a worker processes at once
          MaxStalled    \* BullMQ's maxStalledCount

ASSUME TotalAssumption == Total \in Nat \ {0}
ASSUME BatchAssumption == BATCH_SIZE \in Nat \ {0}
ASSUME ConcurrencyAssumption == Concurrency \in Nat \ {0}
ASSUME StalledAssumption == MaxStalled \in Nat \ {0}
ASSUME ApiAssumption == ApiProcess \in Workers

Attempts == 1 .. MaxStalled + 1
Runs == Jobs \X Attempts
Lines == 0 .. Total
AllLines == Lines

VARIABLES
  sub,        \* job -> where the POST handler is
  status,     \* jobs.status, "none" while there is no row
  processed,  \* jobs.processed
  path,       \* job -> is jobs.result_path set
  error,      \* job -> is jobs.error_message set
  queue,      \* job -> the BullMQ state
  stalls,     \* job -> BullMQ's stalledCounter
  lock,       \* job -> the attempt that holds the lock, 0 for none
  pc,         \* run -> the await the processor is at
  host,       \* run -> the process it runs in
  i,          \* run -> numbers looked up so far
  strm,       \* run -> its write stream
  pos,        \* run -> lines of it that reached the file
  made,       \* job -> does the file exist
  file,       \* job -> lines of the file that hold a row
  listener,   \* job -> the 'failed' listener's call
  notifier,   \* job -> the process that call runs in
  hooks,      \* job -> webhooks sent
  get         \* job -> where a GET .../result is

row == <<status, processed, path, error>>
bull == <<queue, stalls, lock>>
out == <<strm, pos, made, file>>
fail == <<listener, notifier>>
vars == <<sub, row, bull, pc, host, i, out, fail, hooks, get>>

Statuses == {"none", "queued", "processing", "complete", "failed"}
Subs == {"idle", "adding", "replied", "lost"}
QueueStates == {"none", "wait", "active", "completed", "failed"}
PCs == {"idle", "start", "lookups", "count", "progress", "ending", "finish",
        "resolve", "done", "throw", "over"}
Streams == {"none", "opening", "open", "failed", "closed"}
Listeners == {"none", "event", "update", "done", "lost"}
Gets == {"idle", "found"}

Live(r) == pc[r] \notin {"idle", "over"}
Slots(w) == Cardinality({r \in Runs : host[r] = w /\ Live(r)})
(* mutant: a short last batch counts as a full one *)
MinOf_fullBatch(a, b) == a
MinOf(a, b) == IF a <= b THEN a ELSE b

Init ==
  /\ sub = [j \in Jobs |-> "idle"]
  /\ status = [j \in Jobs |-> "none"]
  /\ processed = [j \in Jobs |-> 0]
  /\ path = [j \in Jobs |-> FALSE]
  /\ error = [j \in Jobs |-> FALSE]
  /\ queue = [j \in Jobs |-> "none"]
  /\ stalls = [j \in Jobs |-> 0]
  /\ lock = [j \in Jobs |-> 0]
  /\ pc = [r \in Runs |-> "idle"]
  /\ host = [r \in Runs |-> ApiProcess]
  /\ i = [r \in Runs |-> 0]
  /\ strm = [r \in Runs |-> "none"]
  /\ pos = [r \in Runs |-> 0]
  /\ made = [j \in Jobs |-> FALSE]
  /\ file = [j \in Jobs |-> {}]
  /\ listener = [j \in Jobs |-> "none"]
  /\ notifier = [j \in Jobs |-> ApiProcess]
  /\ hooks = [j \in Jobs |-> {}]
  /\ get = [j \in Jobs |-> "idle"]
-----------------------------------------------------------------------------
(* A process dies: SIGKILL, a fault, an unhandled rejection or an 'error'  *)
(* event nobody listens to.  Its runs and streams end where they are, a    *)
(* POST handler in it never answers, an UPDATE its 'failed' listener had   *)
(* in flight is lost.  Compose restarts it at once (restart:               *)
(* unless-stopped), so w can be given jobs again.                          *)
Die(w) ==
  /\ pc' = [r \in Runs |-> IF host[r] = w /\ Live(r) THEN "over" ELSE pc[r]]
  /\ strm' = [r \in Runs |-> IF host[r] = w /\ strm[r] \in {"opening", "open"}
                               THEN "closed" ELSE strm[r]]
  /\ listener' = [j \in Jobs |->
                    IF notifier[j] = w /\ listener[j] \in {"event", "update"}
                      THEN "lost" ELSE listener[j]]
  /\ sub' = [j \in Jobs |-> IF w = ApiProcess /\ sub[j] = "adding"
                              THEN "lost" ELSE sub[j]]
  /\ get' = [j \in Jobs |-> IF w = ApiProcess /\ get[j] = "found"
                              THEN "idle" ELSE get[j]]
  /\ UNCHANGED <<row, bull, host, i, pos, made, file, notifier, hooks>>

Crash(w) == Die(w)
-----------------------------------------------------------------------------
(* POST /lookup/jobs: INSERT the row, add to the queue, answer 202.  No    *)
(* try around the two awaits: a rejection is unhandled and ends the        *)
(* process.  An INSERT that rejects leaves nothing, so that is Crash; an   *)
(* add that Redis applied but whose answer was lost is SubmitAdd and then  *)
(* Crash, for nothing depends on whether the client saw the 202.           *)
SubmitInsert(j) ==
  /\ sub[j] = "idle"
  /\ status' = [status EXCEPT ![j] = "queued"]
  /\ sub' = [sub EXCEPT ![j] = "adding"]
  /\ UNCHANGED <<processed, path, error, bull, pc, host, i, out, fail, hooks, get>>

SubmitAdd(j) ==
  /\ sub[j] = "adding"
  /\ queue' = [queue EXCEPT ![j] = "wait"]
  /\ sub' = [sub EXCEPT ![j] = "replied"]
  /\ UNCHANGED <<row, stalls, lock, pc, host, i, out, fail, hooks, get>>

SubmitAddRejects(j) ==
  /\ sub[j] = "adding"
  /\ Die(ApiProcess)

-----------------------------------------------------------------------------
(* BullMQ, as the worker relies on it. *)

(* a worker with a free slot takes a waiting job and its lock *)
Take(w, j) ==
  LET r == <<j, stalls[j] + 1>> IN
  /\ queue[j] = "wait"
  /\ Slots(w) < Concurrency
  /\ queue' = [queue EXCEPT ![j] = "active"]
  /\ lock' = [lock EXCEPT ![j] = stalls[j] + 1]
  /\ pc' = [pc EXCEPT ![r] = "start"]
  /\ host' = [host EXCEPT ![r] = w]
  /\ UNCHANGED <<sub, row, stalls, i, out, fail, hooks, get>>

(* the lock runs out because its holder is gone *)
LockTimeout(j) ==
  /\ lock[j] # 0
  /\ ~Live(<<j, lock[j]>>)
  /\ lock' = [lock EXCEPT ![j] = 0]
  /\ UNCHANGED <<sub, row, queue, stalls, pc, host, i, out, fail, hooks, get>>

(* the lock runs out under a holder whose renewal came late *)
LockLapse(j) ==
  /\ lock[j] # 0
  /\ Live(<<j, lock[j]>>)
  /\ lock' = [lock EXCEPT ![j] = 0]
  /\ UNCHANGED <<sub, row, queue, stalls, pc, host, i, out, fail, hooks, get>>

(* a worker's stalled check finds an active job without a lock *)
Requeue(j) ==
  /\ queue[j] = "active" /\ lock[j] = 0
  /\ stalls[j] < MaxStalled
  /\ queue' = [queue EXCEPT ![j] = "wait"]
  /\ stalls' = [stalls EXCEPT ![j] = @ + 1]
  /\ UNCHANGED <<sub, row, lock, pc, host, i, out, fail, hooks, get>>

StallFail(w, j) ==
  /\ queue[j] = "active" /\ lock[j] = 0
  /\ stalls[j] = MaxStalled
  /\ queue' = [queue EXCEPT ![j] = "failed"]
  /\ listener' = [listener EXCEPT ![j] = "event"]
  /\ notifier' = [notifier EXCEPT ![j] = w]
  /\ UNCHANGED <<sub, row, stalls, lock, pc, host, i, out, hooks, get>>

(* the processor returned: the queue records it if the run still holds the *)
(* lock, and ignores it otherwise                                          *)
MoveToCompleted(r) ==
  /\ pc[r] = "done"
  /\ pc' = [pc EXCEPT ![r] = "over"]
  /\ IF lock[r[1]] = r[2]
       THEN /\ queue' = [queue EXCEPT ![r[1]] = "completed"]
            /\ lock' = [lock EXCEPT ![r[1]] = 0]
       ELSE UNCHANGED <<queue, lock>>
  /\ UNCHANGED <<sub, row, stalls, host, i, out, fail, hooks, get>>

(* the processor threw: with attempts: 1 the job fails and the worker      *)
(* emits 'failed'                                                          *)
MoveToFailed(r) ==
  /\ pc[r] = "throw"
  /\ pc' = [pc EXCEPT ![r] = "over"]
  /\ IF lock[r[1]] = r[2]
       THEN /\ queue' = [queue EXCEPT ![r[1]] = "failed"]
            /\ lock' = [lock EXCEPT ![r[1]] = 0]
            /\ listener' = [listener EXCEPT ![r[1]] = "event"]
            /\ notifier' = [notifier EXCEPT ![r[1]] = host[r]]
       ELSE UNCHANGED <<queue, lock, listener, notifier>>
  /\ UNCHANGED <<sub, row, stalls, host, i, out, hooks, get>>
-----------------------------------------------------------------------------
(* The processor of worker.ts, for a run r at job r[1]. *)

Goto(r, label) == pc' = [pc EXCEPT ![r] = label]

(* its UPDATEs of the row *)
Begins(j) ==
  /\ status' = [status EXCEPT ![j] = "processing"]
  /\ UNCHANGED <<processed, path, error>>

Counts(j, n) ==
  /\ processed' = [processed EXCEPT ![j] = n]
  /\ UNCHANGED <<status, path, error>>

(* mutant: the UPDATE forgets result_path *)
Completes_noPath(j, n) ==
  /\ status' = [status EXCEPT ![j] = "complete"]
  /\ processed' = [processed EXCEPT ![j] = n]
  /\ UNCHANGED <<path, error>>

(* status, result_path, processed, finished_at *)
Completes(j, n) ==
  /\ status' = [status EXCEPT ![j] = "complete"]
  /\ processed' = [processed EXCEPT ![j] = n]
  /\ path' = [path EXCEPT ![j] = TRUE]
  /\ UNCHANGED error

(* UPDATE ... 'processing'; then open the file for writing, which truncates *)
(* it later (StreamOpen), and hand the header to the stream                *)
Start(r) ==
  /\ pc[r] = "start"
  /\ Begins(r[1])
  /\ strm' = [strm EXCEPT ![r] = "opening"]
  /\ Goto(r, "lookups")
  /\ UNCHANGED <<sub, bull, host, i, pos, made, file, fail, hooks, get>>

(* one batch is looked up and its rows handed to the stream; a lookup that *)
(* fails yields a row too, so this await does not reject                   *)
Lookups(r) ==
  /\ pc[r] = "lookups"
  /\ i' = [i EXCEPT ![r] = MinOf(@ + BATCH_SIZE, Total)]
  /\ Goto(r, "count")
  /\ UNCHANGED <<sub, row, bull, host, out, fail, hooks, get>>

(* UPDATE jobs SET processed *)
Count(r) ==
  /\ pc[r] = "count"
  /\ Counts(r[1], i[r])
  /\ Goto(r, "progress")
  /\ UNCHANGED <<sub, bull, host, i, out, fail, hooks, get>>

(* mutant: the result is announced without ending the stream *)
Progress_noEnd(r) ==
  /\ pc[r] = "progress"
  /\ Goto(r, IF i[r] < Total THEN "lookups" ELSE "finish")
  /\ UNCHANGED <<sub, row, bull, host, i, out, fail, hooks, get>>

(* job.updateProgress, then the next batch or stream.end *)
Progress(r) ==
  /\ pc[r] = "progress"
  /\ Goto(r, IF i[r] < Total THEN "lookups" ELSE "ending")
  /\ UNCHANGED <<sub, row, bull, host, i, out, fail, hooks, get>>

(* mutant: stream.end() without its callback *)
Flushed_noCallback(r) == strm[r] \in {"opening", "open"}
(* every line handed to the stream is in the file *)
Flushed(r) == strm[r] = "open" /\ pos[r] = i[r] + 1

(* mutant: the webhook is sent before the row says complete *)
Ended_webhookFirst(r) ==
  /\ pc[r] = "ending"
  /\ Flushed(r)
  /\ strm' = [strm EXCEPT ![r] = "closed"]
  /\ hooks' = [hooks EXCEPT ![r[1]] = @ \union {"complete"}]
  /\ Goto(r, "finish")
  /\ UNCHANGED <<sub, row, bull, host, i, pos, made, file, fail, get>>

(* stream.end calls back *)
Ended(r) ==
  /\ pc[r] = "ending"
  /\ Flushed(r)
  /\ strm' = [strm EXCEPT ![r] = "closed"]
  /\ Goto(r, "finish")
  /\ UNCHANGED <<sub, row, bull, host, i, pos, made, file, fail, hooks, get>>

(* UPDATE ... 'complete' *)
Finish(r) ==
  /\ pc[r] = "finish"
  /\ Completes(r[1], i[r])
  /\ Goto(r, "resolve")
  /\ UNCHANGED <<sub, bull, host, i, out, fail, hooks, get>>

(* send the webhook without waiting for it, and return *)
Resolve(r) ==
  /\ pc[r] = "resolve"
  /\ hooks' = [hooks EXCEPT ![r[1]] = @ \union {"complete"}]
  /\ Goto(r, "done")
  /\ UNCHANGED <<sub, row, bull, host, i, out, fail, get>>

(* mutant: the processor catches the rejection and returns *)
Rejects_caught(r) ==
  /\ pc[r] \in {"start", "count", "progress", "finish"}
  /\ Goto(r, "done")
  /\ UNCHANGED <<sub, row, bull, host, i, out, fail, hooks, get>>

(* an UPDATE or updateProgress rejects; the stream stays as it is *)
Rejects(r) ==
  /\ pc[r] \in {"start", "count", "progress", "finish"}
  /\ Goto(r, "throw")
  /\ UNCHANGED <<sub, row, bull, host, i, out, fail, hooks, get>>

(* an UPDATE is committed, and rejects all the same *)
AnswerLost(r) ==
  /\ \/ pc[r] = "start" /\ Begins(r[1])
     \/ pc[r] = "count" /\ Counts(r[1], i[r])
     \/ pc[r] = "finish" /\ Completes(r[1], i[r])
  /\ Goto(r, "throw")
  /\ UNCHANGED <<sub, bull, host, i, out, fail, hooks, get>>

Processor(r) ==
  \/ Start(r) \/ Lookups(r) \/ Count(r) \/ Progress(r) \/ Ended(r) \/ Finish(r)
  \/ Resolve(r) \/ Rejects(r) \/ AnswerLost(r)
-----------------------------------------------------------------------------
(* The write stream works beside the processor that feeds it. *)

StreamOpen(r) ==
  /\ strm[r] = "opening"
  /\ strm' = [strm EXCEPT ![r] = "open"]
  /\ made' = [made EXCEPT ![r[1]] = TRUE]
  /\ file' = [file EXCEPT ![r[1]] = {}]
  /\ UNCHANGED <<sub, row, bull, pc, host, i, pos, fail, hooks, get>>

(* the lines handed over so far reach the file in one writev, at the       *)
(* stream's own offset: a stream opened later may have truncated meanwhile *)
StreamWrite(r) ==
  /\ strm[r] = "open"
  /\ pos[r] <= i[r]
  /\ file' = [file EXCEPT ![r[1]] = @ \union (pos[r] .. i[r])]
  /\ pos' = [pos EXCEPT ![r] = i[r] + 1]
  /\ UNCHANGED <<sub, row, bull, pc, host, i, strm, made, fail, hooks, get>>

(* mutant: an early 'error' listener fails the row and lets the run go on *)
StreamError_failsRow(r) ==
  /\ strm[r] \in {"opening", "open"}
  /\ status' = [status EXCEPT ![r[1]] = "failed"]
  /\ error' = [error EXCEPT ![r[1]] = TRUE]
  /\ UNCHANGED <<sub, processed, path, bull, pc, host, i, out, fail, hooks, get>>

(* the disk refuses.  In "ending" the callback given to stream.end is      *)
(* called with the error, before 'error' is emitted (Node 15 and later,    *)
(* the image has 20): resolve() takes it, the reject after it is too late, *)
(* and the run goes on as if the file were whole.  At any earlier point    *)
(* nobody listens for 'error' and the process dies; a run that comes to    *)
(* its end between the error and the event has its callback called too,    *)
(* as if the disk had refused then.                                        *)
StreamError(r) ==
  /\ strm[r] \in {"opening", "open"}
  /\ IF pc[r] = "ending"
       THEN /\ strm' = [strm EXCEPT ![r] = "failed"]
            /\ Goto(r, "finish")
            /\ UNCHANGED <<sub, row, bull, host, i, pos, made, file, fail, hooks, get>>
       ELSE Die(host[r])
-----------------------------------------------------------------------------
(* mutant: the listener sends the webhook alone *)
Notify_noUpdate(j) ==
  /\ listener[j] = "event"
  /\ listener' = [listener EXCEPT ![j] = "done"]
  /\ hooks' = [hooks EXCEPT ![j] = @ \union {"failed"}]
  /\ UNCHANGED <<sub, row, bull, pc, host, i, out, notifier, get>>

(* The 'failed' listener sends its UPDATE and its webhook and waits for    *)
(* neither; an UPDATE that rejects is swallowed.                           *)
Notify(j) ==
  /\ listener[j] = "event"
  /\ listener' = [listener EXCEPT ![j] = "update"]
  /\ hooks' = [hooks EXCEPT ![j] = @ \union {"failed"}]
  /\ UNCHANGED <<sub, row, bull, pc, host, i, out, notifier, get>>

(* One that rejects may have been committed as well: what follows is the   *)
(* same.                                                                   *)
FailedUpdate(j) ==
  /\ listener[j] = "update"
  /\ status' = [status EXCEPT ![j] = "failed"]
  /\ error' = [error EXCEPT ![j] = TRUE]
  /\ listener' = [listener EXCEPT ![j] = "done"]
  /\ UNCHANGED <<sub, processed, path, bull, pc, host, i, out, notifier, hooks, get>>

FailedUpdateRejects(j) ==
  /\ listener[j] = "update"
  /\ listener' = [listener EXCEPT ![j] = "lost"]
  /\ UNCHANGED <<sub, row, bull, pc, host, i, out, notifier, hooks, get>>
-----------------------------------------------------------------------------
(* GET .../result by the job's owner: SELECT, and if the row is complete   *)
(* and has a path, stream whatever the file then holds, or answer 410 when *)
(* there is none.  404, 409 and 500 change nothing.  One request per job   *)
(* at a time stands for all: they do not interact.                         *)
ResultSelect(j) ==
  /\ get[j] = "idle"
  /\ status[j] = "complete" /\ path[j]
  /\ get' = [get EXCEPT ![j] = "found"]
  /\ UNCHANGED <<sub, row, bull, pc, host, i, out, fail, hooks>>

ResultSend(j) ==
  /\ get[j] = "found"
  /\ get' = [get EXCEPT ![j] = "idle"]
  /\ UNCHANGED <<sub, row, bull, pc, host, i, out, fail, hooks>>
-----------------------------------------------------------------------------
Next ==
  \/ \E w \in Workers : Crash(w)
  \/ \E j \in Jobs :
       \/ SubmitInsert(j) \/ SubmitAdd(j) \/ SubmitAddRejects(j)
       \/ LockTimeout(j) \/ LockLapse(j) \/ Requeue(j)
       \/ Notify(j) \/ FailedUpdate(j) \/ FailedUpdateRejects(j)
       \/ ResultSelect(j) \/ ResultSend(j)
       \/ \E w \in Workers : Take(w, j) \/ StallFail(w, j)
  \/ \E r \in Runs :
       \/ Processor(r) \/ MoveToCompleted(r) \/ MoveToFailed(r)
       \/ StreamOpen(r) \/ StreamWrite(r) \/ StreamError(r)

Spec == Init /\ [][Next]_vars

(* BullMQ's timers run and the event loop turns: a waiting job is taken    *)
(* when a slot is free, an await is answered one way or the other, streams *)
(* drain, a dead holder's lock expires and the stalled check comes round.  *)
(* Nothing is assumed of clients, crashes, lapses or disk errors.  At most *)
(* one kind of step of each disjunction is enabled at a time.              *)
Fairness ==
  /\ \A j \in Jobs :
       /\ WF_vars(\/ LockTimeout(j) \/ Requeue(j)
                  \/ \E w \in Workers : Take(w, j) \/ StallFail(w, j))
       /\ WF_vars(Notify(j) \/ FailedUpdate(j) \/ FailedUpdateRejects(j))
  /\ \A r \in Runs :
       /\ WF_vars(Processor(r) \/ MoveToCompleted(r) \/ MoveToFailed(r))
       /\ WF_vars(StreamOpen(r) \/ StreamWrite(r))

FairSpec == Spec /\ Fairness
-----------------------------------------------------------------------------
TypeOK ==
  /\ sub \in [Jobs -> Subs]
  /\ status \in [Jobs -> Statuses]
  /\ processed \in [Jobs -> 0 .. Total]
  /\ path \in [Jobs -> BOOLEAN]
  /\ error \in [Jobs -> BOOLEAN]
  /\ queue \in [Jobs -> QueueStates]
  /\ stalls \in [Jobs -> 0 .. MaxStalled]
  /\ lock \in [Jobs -> 0 .. MaxStalled + 1]
  /\ pc \in [Runs -> PCs]
  /\ host \in [Runs -> Workers]
  /\ i \in [Runs -> 0 .. Total]
  /\ strm \in [Runs -> Streams]
  /\ pos \in [Runs -> 0 .. Total + 1]
  /\ made \in [Jobs -> BOOLEAN]
  /\ file \in [Jobs -> SUBSET Lines]
  /\ listener \in [Jobs -> Listeners]
  /\ notifier \in [Jobs -> Workers]
  /\ hooks \in [Jobs -> SUBSET {"complete", "failed"}]
  /\ get \in [Jobs -> Gets]

(* the queue has given the job to one processor at most *)
DeliveredOnce(j) == stalls[j] = 0 \/ (stalls[j] = 1 /\ queue[j] = "wait")

(* did the disk refuse the stream of one of the job's runs *)
DiskRefused(j) == \E a \in Attempts : strm[<<j, a>>] = "failed"

(* A job that was never handed out a second time and reads 'complete'      *)
(* counts every number, and has every row in its file unless the disk      *)
(* refused them: the UPDATE of worker.ts:117 waits for the stream, but     *)
(* takes an error for its end (worker.ts:112-115).                         *)
CompleteIsWhole ==
  \A j \in Jobs : status[j] = "complete" /\ DeliveredOnce(j) =>
    /\ processed[j] = Total
    /\ file[j] = AllLines \/ DiskRefused(j)

(* A reader that found 'complete' gets the whole file whenever it is read, *)
(* unless the job was handed out again or the disk refused it: nothing     *)
(* touches the file between the SELECT and the read, although the row may  *)
(* have turned to 'failed' by then (lookup.ts:287-328).                    *)
SentIsWhole ==
  \A j \in Jobs : get[j] = "found" /\ DeliveredOnce(j) =>
    file[j] = AllLines \/ DiskRefused(j)

(* Whatever was redelivered or overlapped, a complete row leads to a file: *)
(* GET .../result never answers 500 for it, and 410 only if the disk       *)
(* refused to open the file.                                               *)
CompleteHasFile ==
  \A j \in Jobs :
    /\ status[j] = "complete" => path[j]
    /\ status[j] = "complete" \/ get[j] = "found" => made[j] \/ DiskRefused(j)

(* A job delivered once sends one verdict to its webhook at most, and the  *)
(* row keeps to it: it stays complete once that was announced, and has an  *)
(* error message only when the failure was, although the UPDATE to         *)
(* 'complete' may have been committed before it (worker.ts:117-157).       *)
OneVerdict ==
  \A j \in Jobs : DeliveredOnce(j) =>
    /\ "complete" \in hooks[j] => hooks[j] = {"complete"} /\ status[j] = "complete"
    /\ error[j] => hooks[j] = {"failed"}

(* PostgreSQL and Redis agree on how a job delivered once ended, except    *)
(* that the row may not have heard of the failure, or be complete because  *)
(* only the answer to its last UPDATE was lost; then nobody was told so.   *)
StoresAgree ==
  \A j \in Jobs : DeliveredOnce(j) =>
    /\ queue[j] = "completed" => status[j] = "complete"
    /\ status[j] = "failed" => queue[j] = "failed"
    /\ queue[j] = "failed" /\ listener[j] = "done" => status[j] = "failed"
    /\ queue[j] = "failed" /\ status[j] = "complete" =>
         "complete" \notin hooks[j] /\ listener[j] # "done"

(* The openapi text for POST /lookup/jobs says the CSV is available when   *)
(* the job is complete: a complete row has a whole file, always.           *)
AvailableWhenComplete ==
  \A j \in Jobs : status[j] = "complete" => file[j] = AllLines

(* Every job the queue holds is eventually reported complete or failed, or *)
(* the report of its failure was lost with the process or the UPDATE that  *)
(* carried it: no lost lock, crash or rejected await parks it for good.    *)
JobFinishes ==
  \A j \in Jobs : queue[j] = "wait" ~>
                    (status[j] \in {"complete", "failed"} \/ listener[j] = "lost")

(* The inductive invariant behind the four properties of jobs delivered     *)
(* once.  Submitted ties the handler to the row and the queue.  HandedOut:  *)
(* attempts beyond the current one have not begun.  Once follows the single *)
(* run of a job never redelivered: its stream has put exactly the lines     *)
(* below pos into the file, all of them by its end unless it failed, and    *)
(* the row, the webhooks, the listener and a reader are where the run's pc  *)
(* allows.                                                                  *)
Submitted ==
  \A j \in Jobs :
    /\ sub[j] = "idle" => status[j] = "none"
    /\ sub[j] = "adding" => status[j] = "queued"
    /\ sub[j] # "replied" => /\ queue[j] = "none" /\ stalls[j] = 0
                             /\ status[j] \in {"none", "queued"}
    /\ sub[j] = "replied" => queue[j] # "none" /\ status[j] # "none"
    /\ status[j] = "none" => sub[j] = "idle"

HandedOut ==
  \A j \in Jobs, a \in Attempts :
    \/ a > stalls[j] + 1
    \/ a = stalls[j] + 1 /\ queue[j] \in {"none", "wait"}
    => pc[<<j, a>>] = "idle" /\ strm[<<j, a>>] = "none"

Through(r) == strm[r] = "failed" \/ (strm[r] = "closed" /\ pos[r] = Total + 1)

OnceRun(j, r) ==
  /\ file[j] = {n \in Lines : n < pos[r]}
  /\ strm[r] \in {"none", "opening"} => pos[r] = 0
  /\ pc[r] \in {"idle", "start"} => strm[r] = "none" /\ status[j] \in {"none", "queued"}
  /\ pc[r] \in {"lookups", "count", "progress", "ending", "finish"} => status[j] = "processing"
  /\ pc[r] = "ending" => i[r] = Total
  /\ pc[r] = "finish" => i[r] = Total /\ Through(r)
  /\ pc[r] \in {"resolve", "done"} => status[j] = "complete"
  /\ pc[r] = "throw" => status[j] \in {"queued", "processing", "complete"}

OnceRow(j, r) ==
  /\ status[j] = "complete" => /\ pc[r] \in {"resolve", "done", "throw", "over"}
                               /\ processed[j] = Total /\ Through(r)
  /\ error[j] <=> status[j] = "failed"
  /\ listener[j] # "none" => pc[r] = "over" /\ status[j] # "none"
  /\ listener[j] = "done" <=> status[j] = "failed"
  /\ queue[j] = "completed" => status[j] = "complete"
  /\ queue[j] = "failed" <=> listener[j] # "none"
  /\ "complete" \in hooks[j] => /\ pc[r] \in {"done", "over"} /\ listener[j] = "none"
                                /\ status[j] = "complete"
  /\ "failed" \in hooks[j] => listener[j] \in {"update", "done", "lost"}
  /\ listener[j] \in {"update", "done"} => "failed" \in hooks[j]
  /\ get[j] = "found" => Through(r)

Once == \A j \in Jobs : DeliveredOnce(j) => OnceRun(j, <<j, 1>>) /\ OnceRow(j, <<j, 1>>)

(* Behind CompleteHasFile: whoever is past the opening of a stream knows    *)
(* that the file exists, for nothing removes it.                            *)
FileKnown ==
  /\ \A r \in Runs : /\ pc[r] \in {"idle", "start"} => strm[r] = "none"
                     /\ strm[r] = "open" => made[r[1]]
                     /\ pc[r] = "finish" => made[r[1]] \/ DiskRefused(r[1])
  /\ \A j \in Jobs : /\ status[j] = "complete" => path[j]
                     /\ path[j] \/ get[j] = "found" => made[j] \/ DiskRefused(j)

IInv == TypeOK /\ Submitted /\ HandedOut /\ Once

(* Polling clients see the status change as JobStatus says. *)
Tries == [j \in Jobs |-> CASE queue[j] = "none" -> 0
                           [] queue[j] = "wait" -> stalls[j]
                           [] OTHER -> stalls[j] + 1]
Client == INSTANCE JobStatus WITH status <- status, tries <- Tries,
                                  Deliveries <- MaxStalled + 1
ClientView == Client!Spec
=============================================================================
