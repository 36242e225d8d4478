---------------------------- MODULE BulkJobsProofs ---------------------------
(***************************************************************************)
(* Proofs about BulkJobs, for any jobs, processes, job length, batch size, *)
(* concurrency and number of redeliveries.                                 *)
(***************************************************************************)
EXTENDS BulkJobs, TLAPS

USE DEF row, bull, out, fail, Begins, Counts, Completes

LEMMA RunFacts ==
  /\ \A r \in Runs : r[1] \in Jobs /\ r[2] \in Attempts /\ r = <<r[1], r[2]>>
  /\ \A j \in Jobs, a \in Attempts : <<j, a>> \in Runs
BY DEF Runs

LEMMA TypeStep == TypeOK /\ [Next]_vars => TypeOK'
<1> SUFFICES ASSUME TypeOK, [Next]_vars PROVE TypeOK'
  OBVIOUS
<1> USE TotalAssumption, BatchAssumption, StalledAssumption, ApiAssumption, RunFacts
    DEF TypeOK, Statuses, QueueStates, Subs, PCs, Streams, Listeners, Gets, Goto
<1>Die. ASSUME NEW w \in Workers, Die(w) PROVE TypeOK'
  BY <1>Die DEF Die, Live
<1>SubmitInsert. ASSUME NEW j \in Jobs, SubmitInsert(j) PROVE TypeOK'
  BY <1>SubmitInsert DEF SubmitInsert
<1>SubmitAdd. ASSUME NEW j \in Jobs, SubmitAdd(j) PROVE TypeOK'
  BY <1>SubmitAdd DEF SubmitAdd
<1>LockTimeout. ASSUME NEW j \in Jobs, LockTimeout(j) PROVE TypeOK'
  BY <1>LockTimeout DEF LockTimeout
<1>LockLapse. ASSUME NEW j \in Jobs, LockLapse(j) PROVE TypeOK'
  BY <1>LockLapse DEF LockLapse
<1>Requeue. ASSUME NEW j \in Jobs, Requeue(j) PROVE TypeOK'
  BY <1>Requeue DEF Requeue
<1>Take. ASSUME NEW w \in Workers, NEW j \in Jobs, Take(w, j) PROVE TypeOK'
  <2>1. stalls[j] + 1 \in Attempts /\ stalls[j] + 1 \in 0 .. MaxStalled + 1
    BY DEF Attempts
  <2>2. <<j, stalls[j] + 1>> \in Runs
    BY <2>1
  <2> QED
    BY <1>Take, <2>1, <2>2 DEF Take
<1>StallFail. ASSUME NEW w \in Workers, NEW j \in Jobs, StallFail(w, j) PROVE TypeOK'
  BY <1>StallFail DEF StallFail
<1>Notify. ASSUME NEW j \in Jobs, Notify(j) PROVE TypeOK'
  BY <1>Notify DEF Notify
<1>FailedUpdate. ASSUME NEW j \in Jobs, FailedUpdate(j) PROVE TypeOK'
  BY <1>FailedUpdate DEF FailedUpdate
<1>FailedUpdateRejects. ASSUME NEW j \in Jobs, FailedUpdateRejects(j) PROVE TypeOK'
  BY <1>FailedUpdateRejects DEF FailedUpdateRejects
<1>ResultSelect. ASSUME NEW j \in Jobs, ResultSelect(j) PROVE TypeOK'
  BY <1>ResultSelect DEF ResultSelect
<1>ResultSend. ASSUME NEW j \in Jobs, ResultSend(j) PROVE TypeOK'
  BY <1>ResultSend DEF ResultSend
<1>Start. ASSUME NEW r \in Runs, Start(r) PROVE TypeOK'
  BY <1>Start DEF Start
<1>Lookups. ASSUME NEW r \in Runs, Lookups(r) PROVE TypeOK'
  BY <1>Lookups DEF Lookups, MinOf
<1>Count. ASSUME NEW r \in Runs, Count(r) PROVE TypeOK'
  BY <1>Count DEF Count
<1>Progress. ASSUME NEW r \in Runs, Progress(r) PROVE TypeOK'
  BY <1>Progress DEF Progress
<1>Ended. ASSUME NEW r \in Runs, Ended(r) PROVE TypeOK'
  BY <1>Ended DEF Ended
<1>Finish. ASSUME NEW r \in Runs, Finish(r) PROVE TypeOK'
  BY <1>Finish DEF Finish
<1>Resolve. ASSUME NEW r \in Runs, Resolve(r) PROVE TypeOK'
  BY <1>Resolve DEF Resolve
<1>Rejects. ASSUME NEW r \in Runs, Rejects(r) PROVE TypeOK'
  BY <1>Rejects DEF Rejects
<1>AnswerLost. ASSUME NEW r \in Runs, AnswerLost(r) PROVE TypeOK'
  <2>1. r[1] \in Jobs /\ i[r] \in 0 .. Total
    OBVIOUS
  <2>2. /\ pc' = [pc EXCEPT ![r] = "throw"]
        /\ UNCHANGED <<sub, bull, host, i, out, fail, hooks, get>>
    BY <1>AnswerLost DEF AnswerLost
  <2>3. CASE Begins(r[1])
    BY <2>1, <2>2, <2>3
  <2>4. CASE Counts(r[1], i[r])
    BY <2>1, <2>2, <2>4
  <2>5. CASE Completes(r[1], i[r])
    BY <2>1, <2>2, <2>5
  <2> QED
    BY <1>AnswerLost, <2>3, <2>4, <2>5 DEF AnswerLost
<1>MoveToCompleted. ASSUME NEW r \in Runs, MoveToCompleted(r) PROVE TypeOK'
  <2>1. r[1] \in Jobs
    OBVIOUS
  <2>2. CASE lock[r[1]] = r[2]
    <3>1. /\ pc' = [pc EXCEPT ![r] = "over"]
          /\ queue' = [queue EXCEPT ![r[1]] = "completed"]
          /\ lock' = [lock EXCEPT ![r[1]] = 0]
          /\ UNCHANGED <<sub, row, stalls, host, i, out, fail, hooks, get>>
      BY <1>MoveToCompleted, <2>2 DEF MoveToCompleted
    <3> QED
      BY <2>1, <3>1
  <2>3. CASE lock[r[1]] # r[2]
    BY <1>MoveToCompleted, <2>3 DEF MoveToCompleted
  <2> QED
    BY <2>2, <2>3
<1>MoveToFailed. ASSUME NEW r \in Runs, MoveToFailed(r) PROVE TypeOK'
  <2>1. r[1] \in Jobs
    OBVIOUS
  <2>2. CASE lock[r[1]] = r[2]
    <3>1. /\ pc' = [pc EXCEPT ![r] = "over"]
          /\ queue' = [queue EXCEPT ![r[1]] = "failed"]
          /\ lock' = [lock EXCEPT ![r[1]] = 0]
          /\ listener' = [listener EXCEPT ![r[1]] = "event"]
          /\ notifier' = [notifier EXCEPT ![r[1]] = host[r]]
          /\ UNCHANGED <<sub, row, stalls, host, i, out, hooks, get>>
      BY <1>MoveToFailed, <2>2 DEF MoveToFailed
    <3> QED
      BY <2>1, <3>1
  <2>3. CASE lock[r[1]] # r[2]
    BY <1>MoveToFailed, <2>3 DEF MoveToFailed
  <2> QED
    BY <2>2, <2>3
<1>StreamOpen. ASSUME NEW r \in Runs, StreamOpen(r) PROVE TypeOK'
  BY <1>StreamOpen DEF StreamOpen
<1>StreamWrite. ASSUME NEW r \in Runs, StreamWrite(r) PROVE TypeOK'
  BY <1>StreamWrite DEF StreamWrite, Lines
<1>StreamError. ASSUME NEW r \in Runs, StreamError(r) PROVE TypeOK'
  <2>1. CASE pc[r] = "ending"
    <3>1. /\ strm' = [strm EXCEPT ![r] = "failed"]
          /\ pc' = [pc EXCEPT ![r] = "finish"]
          /\ UNCHANGED <<sub, row, bull, host, i, pos, made, file, fail, hooks, get>>
      BY <1>StreamError, <2>1 DEF StreamError
    <3> QED
      BY <3>1
  <2>2. CASE pc[r] # "ending"
    <3>1. host[r] \in Workers /\ Die(host[r])
      BY <1>StreamError, <2>2 DEF StreamError
    <3> QED
      BY <3>1, <1>Die
  <2> QED
    BY <2>1, <2>2
<1>SubmitAddRejects. ASSUME NEW j \in Jobs, SubmitAddRejects(j) PROVE TypeOK'
  BY <1>SubmitAddRejects, <1>Die, ApiAssumption DEF SubmitAddRejects
<1>Stutter. CASE UNCHANGED vars
  BY <1>Stutter DEF vars
<1> QED
  BY <1>Die, <1>SubmitInsert, <1>SubmitAdd, <1>LockTimeout, <1>LockLapse,
     <1>Requeue, <1>Take, <1>StallFail, <1>Notify, <1>FailedUpdate,
     <1>FailedUpdateRejects, <1>ResultSelect, <1>ResultSend, <1>Start, <1>Lookups,
     <1>Count, <1>Progress, <1>Ended, <1>Finish, <1>Resolve, <1>Rejects, <1>AnswerLost,
     <1>MoveToCompleted, <1>MoveToFailed, <1>StreamOpen, <1>StreamWrite,
     <1>StreamError, <1>SubmitAddRejects, <1>Stutter
     DEF Next, Crash, Processor

(* Every process, run and row keeps its type; the count of a job's numbers *)
(* never passes Total and a stream's offset never passes its last line.    *)
THEOREM TypeCorrect == Spec => []TypeOK
<1>1. Init => TypeOK
  BY TotalAssumption, ApiAssumption, StalledAssumption
     DEF Init, TypeOK, Statuses, QueueStates, Subs, PCs, Streams, Listeners, Gets
<1> QED
  BY <1>1, TypeStep, PTL DEF Spec

(* While its handler has not added it to the queue, no run of the job exists. *)
LEMMA NotQueued ==
  ASSUME IInv, NEW r \in Runs, pc[r] # "idle" \/ strm[r] # "none"
  PROVE  sub[r[1]] = "replied" /\ queue[r[1]] # "none"
<1> DEFINE j == r[1]
           a == r[2]
<1>1. j \in Jobs /\ a \in Attempts /\ r = <<j, a>>
  BY RunFacts
<1>2. ~(a > stalls[j] + 1) /\ ~(a = stalls[j] + 1 /\ queue[j] \in {"none", "wait"})
  BY <1>1 DEF IInv, HandedOut
<1>3. ASSUME sub[j] # "replied" \/ queue[j] = "none" PROVE queue[j] = "none" /\ stalls[j] = 0
  BY <1>1, <1>3 DEF IInv, Submitted
<1> QED
  BY <1>1, <1>2, <1>3, StalledAssumption DEF Attempts, IInv, TypeOK

(* The only run of a job never redelivered is its first. *)
LEMMA FirstRun ==
  ASSUME IInv, NEW r \in Runs, pc[r] # "idle" \/ strm[r] # "none", DeliveredOnce(r[1])
  PROVE  r = <<r[1], 1>>
<1> DEFINE j == r[1]
           a == r[2]
<1>1. j \in Jobs /\ a \in Attempts /\ r = <<j, a>>
  BY RunFacts
<1>2. ~(a > stalls[j] + 1) /\ ~(a = stalls[j] + 1 /\ queue[j] \in {"none", "wait"})
  BY <1>1 DEF IInv, HandedOut
<1>3. a \in Nat \ {0} /\ stalls[j] \in Nat
  BY <1>1, StalledAssumption DEF Attempts, IInv, TypeOK
<1>4. a = 1
  BY <1>2, <1>3 DEF DeliveredOnce
<1> QED
  BY <1>1, <1>4

(* Nor does a failure to report. *)
LEMMA NotReported ==
  ASSUME IInv, NEW j \in Jobs, listener[j] # "none"
  PROVE  sub[j] = "replied"
<1>1. ASSUME sub[j] # "replied" PROVE FALSE
  <2>1. queue[j] = "none" /\ stalls[j] = 0
    BY <1>1 DEF IInv, Submitted
  <2>2. DeliveredOnce(j) /\ listener[j] # "none"
    BY <2>1 DEF DeliveredOnce
  <2>3. pc[<<j, 1>>] = "over"
    BY <2>2 DEF IInv, Once, OnceRow
  <2>4. pc[<<j, 1>>] = "idle"
    BY <2>1, StalledAssumption DEF IInv, HandedOut, Attempts
  <2> QED
    BY <2>3, <2>4
<1> QED
  BY <1>1

LEMMA SubmittedStep == IInv /\ [Next]_vars => Submitted'
<1> SUFFICES ASSUME IInv, [Next]_vars PROVE Submitted'
  OBVIOUS
<1> QED
  <2> USE RunFacts, NotQueued, NotReported, StalledAssumption
      DEF IInv, TypeOK, Submitted, Goto, Attempts
  <2>Die. ASSUME NEW w \in Workers, Die(w) PROVE Submitted'
    BY <2>Die DEF Die, Live
  <2>SubmitInsert. ASSUME NEW k \in Jobs, SubmitInsert(k) PROVE Submitted'
    BY <2>SubmitInsert DEF SubmitInsert
  <2>SubmitAdd. ASSUME NEW k \in Jobs, SubmitAdd(k) PROVE Submitted'
    BY <2>SubmitAdd DEF SubmitAdd
  <2>LockTimeout. ASSUME NEW k \in Jobs, LockTimeout(k) PROVE Submitted'
    BY <2>LockTimeout DEF LockTimeout
  <2>LockLapse. ASSUME NEW k \in Jobs, LockLapse(k) PROVE Submitted'
    BY <2>LockLapse DEF LockLapse
  <2>Requeue. ASSUME NEW k \in Jobs, Requeue(k) PROVE Submitted'
    BY <2>Requeue DEF Requeue
  <2>Take. ASSUME NEW w \in Workers, NEW k \in Jobs, Take(w, k) PROVE Submitted'
    BY <2>Take DEF Take
  <2>StallFail. ASSUME NEW w \in Workers, NEW k \in Jobs, StallFail(w, k) PROVE Submitted'
    BY <2>StallFail DEF StallFail
  <2>Notify. ASSUME NEW k \in Jobs, Notify(k) PROVE Submitted'
    BY <2>Notify DEF Notify
  <2>FailedUpdate. ASSUME NEW k \in Jobs, FailedUpdate(k) PROVE Submitted'
    BY <2>FailedUpdate DEF FailedUpdate
  <2>FailedUpdateRejects. ASSUME NEW k \in Jobs, FailedUpdateRejects(k) PROVE Submitted'
    BY <2>FailedUpdateRejects DEF FailedUpdateRejects
  <2>ResultSelect. ASSUME NEW k \in Jobs, ResultSelect(k) PROVE Submitted'
    BY <2>ResultSelect DEF ResultSelect
  <2>ResultSend. ASSUME NEW k \in Jobs, ResultSend(k) PROVE Submitted'
    BY <2>ResultSend DEF ResultSend
  <2>Start. ASSUME NEW r \in Runs, Start(r) PROVE Submitted'
    BY <2>Start DEF Start
  <2>Lookups. ASSUME NEW r \in Runs, Lookups(r) PROVE Submitted'
    BY <2>Lookups DEF Lookups
  <2>Count. ASSUME NEW r \in Runs, Count(r) PROVE Submitted'
    BY <2>Count DEF Count
  <2>Progress. ASSUME NEW r \in Runs, Progress(r) PROVE Submitted'
    BY <2>Progress DEF Progress
  <2>Ended. ASSUME NEW r \in Runs, Ended(r) PROVE Submitted'
    BY <2>Ended DEF Ended
  <2>Finish. ASSUME NEW r \in Runs, Finish(r) PROVE Submitted'
    BY <2>Finish DEF Finish
  <2>Resolve. ASSUME NEW r \in Runs, Resolve(r) PROVE Submitted'
    BY <2>Resolve DEF Resolve
  <2>Rejects. ASSUME NEW r \in Runs, Rejects(r) PROVE Submitted'
    BY <2>Rejects DEF Rejects
  <2>AnswerLost. ASSUME NEW r \in Runs, AnswerLost(r) PROVE Submitted'
    BY <2>AnswerLost DEF AnswerLost
  <2>MoveToCompleted. ASSUME NEW r \in Runs, MoveToCompleted(r) PROVE Submitted'
    BY <2>MoveToCompleted DEF MoveToCompleted
  <2>MoveToFailed. ASSUME NEW r \in Runs, MoveToFailed(r) PROVE Submitted'
    BY <2>MoveToFailed DEF MoveToFailed
  <2>StreamOpen. ASSUME NEW r \in Runs, StreamOpen(r) PROVE Submitted'
    BY <2>StreamOpen DEF StreamOpen
  <2>StreamWrite. ASSUME NEW r \in Runs, StreamWrite(r) PROVE Submitted'
    BY <2>StreamWrite DEF StreamWrite
  <2>StreamError. ASSUME NEW r \in Runs, StreamError(r) PROVE Submitted'
    <3>1. CASE pc[r] = "ending"
      BY <2>StreamError, <3>1 DEF StreamError
    <3>2. CASE pc[r] # "ending"
      <4>1. host[r] \in Workers /\ Die(host[r])
        BY <2>StreamError, <3>2 DEF StreamError
      <4> QED
        BY <4>1, <2>Die
    <3> QED
      BY <3>1, <3>2
  <2>SubmitAddRejects. ASSUME NEW k \in Jobs, SubmitAddRejects(k) PROVE Submitted'
    BY <2>SubmitAddRejects, <2>Die, ApiAssumption DEF SubmitAddRejects
  <2>Stutter. CASE UNCHANGED vars
    BY <2>Stutter DEF vars
  <2> QED
    BY <2>Die, <2>SubmitInsert, <2>SubmitAdd, <2>LockTimeout, <2>LockLapse,
       <2>Requeue, <2>Take, <2>StallFail, <2>Notify, <2>FailedUpdate,
       <2>FailedUpdateRejects, <2>ResultSelect, <2>ResultSend, <2>Start, <2>Lookups,
       <2>Count, <2>Progress, <2>Ended, <2>Finish, <2>Resolve, <2>Rejects, <2>AnswerLost,
       <2>MoveToCompleted, <2>MoveToFailed, <2>StreamOpen, <2>StreamWrite,
       <2>StreamError, <2>SubmitAddRejects, <2>Stutter
       DEF Next, Crash, Processor

LEMMA HandedOutStep == IInv /\ [Next]_vars => HandedOut'
<1> SUFFICES ASSUME IInv, [Next]_vars PROVE HandedOut'
  OBVIOUS
<1> QED
  <2> USE RunFacts, StalledAssumption DEF IInv, TypeOK, HandedOut, Goto, Attempts
  <2>Die. ASSUME NEW w \in Workers, Die(w) PROVE HandedOut'
    BY <2>Die DEF Die, Live
  <2>SubmitInsert. ASSUME NEW k \in Jobs, SubmitInsert(k) PROVE HandedOut'
    BY <2>SubmitInsert DEF SubmitInsert
  <2>SubmitAdd. ASSUME NEW k \in Jobs, SubmitAdd(k) PROVE HandedOut'
    BY <2>SubmitAdd DEF SubmitAdd, Submitted
  <2>LockTimeout. ASSUME NEW k \in Jobs, LockTimeout(k) PROVE HandedOut'
    BY <2>LockTimeout DEF LockTimeout
  <2>LockLapse. ASSUME NEW k \in Jobs, LockLapse(k) PROVE HandedOut'
    BY <2>LockLapse DEF LockLapse
  <2>Requeue. ASSUME NEW k \in Jobs, Requeue(k) PROVE HandedOut'
    BY <2>Requeue DEF Requeue
  <2>Take. ASSUME NEW w \in Workers, NEW k \in Jobs, Take(w, k) PROVE HandedOut'
    BY <2>Take DEF Take
  <2>StallFail. ASSUME NEW w \in Workers, NEW k \in Jobs, StallFail(w, k) PROVE HandedOut'
    BY <2>StallFail DEF StallFail
  <2>Notify. ASSUME NEW k \in Jobs, Notify(k) PROVE HandedOut'
    BY <2>Notify DEF Notify
  <2>FailedUpdate. ASSUME NEW k \in Jobs, FailedUpdate(k) PROVE HandedOut'
    BY <2>FailedUpdate DEF FailedUpdate
  <2>FailedUpdateRejects. ASSUME NEW k \in Jobs, FailedUpdateRejects(k) PROVE HandedOut'
    BY <2>FailedUpdateRejects DEF FailedUpdateRejects
  <2>ResultSelect. ASSUME NEW k \in Jobs, ResultSelect(k) PROVE HandedOut'
    BY <2>ResultSelect DEF ResultSelect
  <2>ResultSend. ASSUME NEW k \in Jobs, ResultSend(k) PROVE HandedOut'
    BY <2>ResultSend DEF ResultSend
  <2>Start. ASSUME NEW r \in Runs, Start(r) PROVE HandedOut'
    BY <2>Start DEF Start
  <2>Lookups. ASSUME NEW r \in Runs, Lookups(r) PROVE HandedOut'
    BY <2>Lookups DEF Lookups
  <2>Count. ASSUME NEW r \in Runs, Count(r) PROVE HandedOut'
    BY <2>Count DEF Count
  <2>Progress. ASSUME NEW r \in Runs, Progress(r) PROVE HandedOut'
    BY <2>Progress DEF Progress
  <2>Ended. ASSUME NEW r \in Runs, Ended(r) PROVE HandedOut'
    BY <2>Ended DEF Ended
  <2>Finish. ASSUME NEW r \in Runs, Finish(r) PROVE HandedOut'
    BY <2>Finish DEF Finish
  <2>Resolve. ASSUME NEW r \in Runs, Resolve(r) PROVE HandedOut'
    BY <2>Resolve DEF Resolve
  <2>Rejects. ASSUME NEW r \in Runs, Rejects(r) PROVE HandedOut'
    BY <2>Rejects DEF Rejects
  <2>AnswerLost. ASSUME NEW r \in Runs, AnswerLost(r) PROVE HandedOut'
    BY <2>AnswerLost DEF AnswerLost
  <2>MoveToCompleted. ASSUME NEW r \in Runs, MoveToCompleted(r) PROVE HandedOut'
    BY <2>MoveToCompleted DEF MoveToCompleted
  <2>MoveToFailed. ASSUME NEW r \in Runs, MoveToFailed(r) PROVE HandedOut'
    BY <2>MoveToFailed DEF MoveToFailed
  <2>StreamOpen. ASSUME NEW r \in Runs, StreamOpen(r) PROVE HandedOut'
    BY <2>StreamOpen DEF StreamOpen
  <2>StreamWrite. ASSUME NEW r \in Runs, StreamWrite(r) PROVE HandedOut'
    BY <2>StreamWrite DEF StreamWrite
  <2>StreamError. ASSUME NEW r \in Runs, StreamError(r) PROVE HandedOut'
    <3>1. CASE pc[r] = "ending"
      BY <2>StreamError, <3>1 DEF StreamError
    <3>2. CASE pc[r] # "ending"
      <4>1. host[r] \in Workers /\ Die(host[r])
        BY <2>StreamError, <3>2 DEF StreamError
      <4> QED
        BY <4>1, <2>Die
    <3> QED
      BY <3>1, <3>2
  <2>SubmitAddRejects. ASSUME NEW k \in Jobs, SubmitAddRejects(k) PROVE HandedOut'
    BY <2>SubmitAddRejects, <2>Die, ApiAssumption DEF SubmitAddRejects
  <2>Stutter. CASE UNCHANGED vars
    BY <2>Stutter DEF vars
  <2> QED
    BY <2>Die, <2>SubmitInsert, <2>SubmitAdd, <2>LockTimeout, <2>LockLapse,
       <2>Requeue, <2>Take, <2>StallFail, <2>Notify, <2>FailedUpdate,
       <2>FailedUpdateRejects, <2>ResultSelect, <2>ResultSend, <2>Start, <2>Lookups,
       <2>Count, <2>Progress, <2>Ended, <2>Finish, <2>Resolve, <2>Rejects, <2>AnswerLost,
       <2>MoveToCompleted, <2>MoveToFailed, <2>StreamOpen, <2>StreamWrite,
       <2>StreamError, <2>SubmitAddRejects, <2>Stutter
       DEF Next, Crash, Processor

(* What the steps of other jobs, and most steps of this one, leave alone.  *)
LEMMA OnceFrame ==
  ASSUME NEW j \in Jobs, NEW r \in Runs, OnceRun(j, r) /\ OnceRow(j, r),
         pc'[r] = pc[r], strm'[r] = strm[r], pos'[r] = pos[r], i'[r] = i[r],
         file'[j] = file[j], status'[j] = status[j], processed'[j] = processed[j],
         path'[j] = path[j], error'[j] = error[j], queue'[j] = queue[j],
         listener'[j] = listener[j], hooks'[j] = hooks[j], get'[j] = get[j]
  PROVE  OnceRun(j, r)' /\ OnceRow(j, r)'
BY DEF OnceRun, OnceRow, Through

(* A counter that an increment takes to at most one was zero. *)
LEMMA FirstStall == \A n \in Nat : n + 1 \in {0, 1} => n = 0
OBVIOUS

(* A run that is not past its last batch has numbers left. *)
LEMMA LastBatch == \A n \in 0 .. Total : n < Total \/ n = Total
BY TotalAssumption

LEMMA OnceStep == IInv /\ [Next]_vars => Once'
<1> SUFFICES ASSUME IInv, [Next]_vars, NEW j \in Jobs, DeliveredOnce(j)'
             PROVE  OnceRun(j, <<j, 1>>)' /\ OnceRow(j, <<j, 1>>)'
  BY DEF Once
<1> DEFINE s == <<j, 1>>
           Kept == OnceRun(j, s)' /\ OnceRow(j, s)'
<1>s. s \in Runs
  BY RunFacts, StalledAssumption DEF Attempts
<1>t. DeliveredOnce(j) => OnceRun(j, s) /\ OnceRow(j, s)
  BY DEF IInv, Once
<1> SUFFICES Kept
  OBVIOUS
<1> QED
  <2> USE <1>s, <1>t, RunFacts, StalledAssumption, TotalAssumption
      DEF IInv, TypeOK, Goto, DeliveredOnce
  <2>Die. ASSUME NEW w \in Workers, Die(w) PROVE Kept
    BY <2>Die DEF Die, Live, OnceRun, OnceRow, Through
  <2>SubmitInsert. ASSUME NEW k \in Jobs, SubmitInsert(k) PROVE Kept
    <3>1. CASE k = j
      <4>1. queue[j] = "none" /\ stalls[j] = 0 /\ status[j] = "none"
        BY <2>SubmitInsert, <3>1 DEF SubmitInsert, Submitted
      <4>2. pc[s] = "idle" /\ strm[s] = "none"
        BY <4>1 DEF HandedOut, Attempts
      <4>3. status'[j] = "queued" /\ UNCHANGED <<processed, path, error, queue>>
            /\ UNCHANGED <<pc, i, out, fail, hooks, get>>
        BY <2>SubmitInsert, <3>1 DEF SubmitInsert
      <4>4. OnceRun(j, s)'
        BY <4>1, <4>2, <4>3 DEF OnceRun, Through
      <4>5. OnceRow(j, s)'
        BY <4>1, <4>2, <4>3 DEF OnceRow, Through
      <4> QED
        BY <4>4, <4>5
    <3>2. CASE k # j
      BY <2>SubmitInsert, <3>2, OnceFrame DEF SubmitInsert
    <3> QED
      BY <3>1, <3>2
  <2>SubmitAdd. ASSUME NEW k \in Jobs, SubmitAdd(k) PROVE Kept
    <3>1. CASE k = j
      <4>1. queue[j] = "none" /\ stalls[j] = 0
        BY <2>SubmitAdd, <3>1 DEF SubmitAdd, Submitted
      <4>2. pc[s] = "idle" /\ strm[s] = "none"
        BY <4>1 DEF HandedOut, Attempts
      <4>3. queue'[j] = "wait" /\ UNCHANGED <<row, pc, i, out, fail, hooks, get>>
        BY <2>SubmitAdd, <3>1 DEF SubmitAdd
      <4>4. OnceRun(j, s)'
        BY <4>1, <4>2, <4>3 DEF OnceRun, Through
      <4>5. OnceRow(j, s)'
        BY <4>1, <4>2, <4>3 DEF OnceRow, Through
      <4> QED
        BY <4>4, <4>5
    <3>2. CASE k # j
      BY <2>SubmitAdd, <3>2, OnceFrame DEF SubmitAdd
    <3> QED
      BY <3>1, <3>2
  <2>LockTimeout. ASSUME NEW k \in Jobs, LockTimeout(k) PROVE Kept
    BY <2>LockTimeout, OnceFrame DEF LockTimeout
  <2>LockLapse. ASSUME NEW k \in Jobs, LockLapse(k) PROVE Kept
    BY <2>LockLapse, OnceFrame DEF LockLapse
  <2>Requeue. ASSUME NEW k \in Jobs, Requeue(k) PROVE Kept
    <3>1. CASE k = j
      <4>1. stalls'[j] = stalls[j] + 1 /\ queue'[j] = "wait" /\ stalls[j] \in Nat
        BY <2>Requeue, <3>1 DEF Requeue
      <4>a. stalls'[j] = 0 \/ stalls'[j] = 1
        OBVIOUS
      <4>2. stalls[j] = 0
        BY <4>1, <4>a, FirstStall
      <4>3. OnceRun(j, s)'
        BY <2>Requeue, <4>2 DEF Requeue, OnceRun, Through
      <4>4. OnceRow(j, s)'
        BY <2>Requeue, <4>1, <4>2 DEF Requeue, OnceRow, Through
      <4> QED
        BY <4>3, <4>4
    <3>2. CASE k # j
      BY <2>Requeue, <3>2, OnceFrame DEF Requeue
    <3> QED
      BY <3>1, <3>2
  <2>Take. ASSUME NEW w \in Workers, NEW k \in Jobs, Take(w, k) PROVE Kept
    <3>1. CASE k = j
      BY <2>Take, <3>1 DEF Take, OnceRun, OnceRow, Through, HandedOut, Attempts
    <3>2. CASE k # j
      BY <2>Take, <3>2, OnceFrame DEF Take
    <3> QED
      BY <3>1, <3>2
  <2>StallFail. ASSUME NEW w \in Workers, NEW k \in Jobs, StallFail(w, k) PROVE Kept
    <3>1. CASE k = j
      BY <2>StallFail, <3>1 DEF StallFail, OnceRun, OnceRow, Through
    <3>2. CASE k # j
      BY <2>StallFail, <3>2, OnceFrame DEF StallFail
    <3> QED
      BY <3>1, <3>2
  <2>Notify. ASSUME NEW k \in Jobs, Notify(k) PROVE Kept
    <3>1. CASE k = j
      BY <2>Notify, <3>1 DEF Notify, OnceRun, OnceRow, Through
    <3>2. CASE k # j
      BY <2>Notify, <3>2, OnceFrame DEF Notify
    <3> QED
      BY <3>1, <3>2
  <2>FailedUpdate. ASSUME NEW k \in Jobs, FailedUpdate(k) PROVE Kept
    <3>1. CASE k = j
      BY <2>FailedUpdate, <3>1 DEF FailedUpdate, OnceRun, OnceRow, Through
    <3>2. CASE k # j
      BY <2>FailedUpdate, <3>2, OnceFrame DEF FailedUpdate
    <3> QED
      BY <3>1, <3>2
  <2>FailedUpdateRejects. ASSUME NEW k \in Jobs, FailedUpdateRejects(k) PROVE Kept
    <3>1. CASE k = j
      BY <2>FailedUpdateRejects, <3>1 DEF FailedUpdateRejects, OnceRun, OnceRow, Through
    <3>2. CASE k # j
      BY <2>FailedUpdateRejects, <3>2, OnceFrame DEF FailedUpdateRejects
    <3> QED
      BY <3>1, <3>2
  <2>ResultSelect. ASSUME NEW k \in Jobs, ResultSelect(k) PROVE Kept
    <3>1. CASE k = j
      BY <2>ResultSelect, <3>1 DEF ResultSelect, OnceRun, OnceRow, Through
    <3>2. CASE k # j
      BY <2>ResultSelect, <3>2, OnceFrame DEF ResultSelect
    <3> QED
      BY <3>1, <3>2
  <2>ResultSend. ASSUME NEW k \in Jobs, ResultSend(k) PROVE Kept
    <3>1. CASE k = j
      BY <2>ResultSend, <3>1 DEF ResultSend, OnceRun, OnceRow, Through
    <3>2. CASE k # j
      BY <2>ResultSend, <3>2, OnceFrame DEF ResultSend
    <3> QED
      BY <3>1, <3>2
  <2>Start. ASSUME NEW r \in Runs, Start(r) PROVE Kept
    <3>1. CASE r[1] = j
      <4>1. r = s
        BY <2>Start, <3>1, FirstRun DEF Start
      <4> QED
        BY <2>Start, <4>1 DEF Start, OnceRun, OnceRow, Through
    <3>2. CASE r[1] # j
      BY <2>Start, <3>2, OnceFrame DEF Start
    <3> QED
      BY <3>1, <3>2
  <2>Lookups. ASSUME NEW r \in Runs, Lookups(r) PROVE Kept
    <3>1. CASE r[1] = j
      <4>1. r = s
        BY <2>Lookups, <3>1, FirstRun DEF Lookups
      <4> QED
        BY <2>Lookups, <4>1 DEF Lookups, OnceRun, OnceRow, Through
    <3>2. CASE r[1] # j
      BY <2>Lookups, <3>2, OnceFrame DEF Lookups
    <3> QED
      BY <3>1, <3>2
  <2>Count. ASSUME NEW r \in Runs, Count(r) PROVE Kept
    <3>1. CASE r[1] = j
      <4>1. r = s
        BY <2>Count, <3>1, FirstRun DEF Count
      <4> QED
        BY <2>Count, <4>1 DEF Count, OnceRun, OnceRow, Through
    <3>2. CASE r[1] # j
      BY <2>Count, <3>2, OnceFrame DEF Count
    <3> QED
      BY <3>1, <3>2
  <2>Progress. ASSUME NEW r \in Runs, Progress(r) PROVE Kept
    <3>1. CASE r[1] = j
      <4>1. r = s
        BY <2>Progress, <3>1, FirstRun DEF Progress
      <4> QED
        <5>1. OnceRun(j, s) /\ OnceRow(j, s) /\ pc[s] = "progress"
          BY <2>Progress, <4>1 DEF Progress
        <5>a. i[s] \in 0 .. Total
          OBVIOUS
        <5>b. i[s] < Total \/ i[s] = Total
          BY <5>a, LastBatch
        <5>2. \/ pc'[s] = "lookups"
              \/ pc'[s] = "ending" /\ i[s] = Total
          BY <2>Progress, <4>1, <5>b DEF Progress
        <5>3. OnceRun(j, s)'
          BY <2>Progress, <5>1, <5>2 DEF Progress, OnceRun, Through
        <5>4. OnceRow(j, s)'
          BY <2>Progress, <5>1, <5>2 DEF Progress, OnceRow, Through
        <5> QED
          BY <5>3, <5>4
    <3>2. CASE r[1] # j
      BY <2>Progress, <3>2, OnceFrame DEF Progress
    <3> QED
      BY <3>1, <3>2
  <2>Ended. ASSUME NEW r \in Runs, Ended(r) PROVE Kept
    <3>1. CASE r[1] = j
      <4>1. r = s
        BY <2>Ended, <3>1, FirstRun DEF Ended
      <4> QED
        <5>1. OnceRun(j, s) /\ OnceRow(j, s) /\ pc[s] = "ending"
          BY <2>Ended, <4>1 DEF Ended
        <5>2. i[s] = Total /\ pos[s] = Total + 1 /\ status[j] = "processing"
          BY <2>Ended, <4>1, <5>1 DEF Ended, Flushed, OnceRun, Through
        <5>3. pc'[s] = "finish" /\ strm'[s] = "closed"
          BY <2>Ended, <4>1 DEF Ended
        <5>4. OnceRun(j, s)'
          BY <2>Ended, <5>1, <5>2, <5>3 DEF Ended, OnceRun, Through
        <5>5. OnceRow(j, s)'
          BY <2>Ended, <5>1, <5>2, <5>3 DEF Ended, OnceRow, Through
        <5> QED
          BY <5>4, <5>5
    <3>2. CASE r[1] # j
      BY <2>Ended, <3>2, OnceFrame DEF Ended
    <3> QED
      BY <3>1, <3>2
  <2>Finish. ASSUME NEW r \in Runs, Finish(r) PROVE Kept
    <3>1. CASE r[1] = j
      <4>1. r = s
        BY <2>Finish, <3>1, FirstRun DEF Finish
      <4> QED
        BY <2>Finish, <4>1 DEF Finish, OnceRun, OnceRow, Through
    <3>2. CASE r[1] # j
      BY <2>Finish, <3>2, OnceFrame DEF Finish
    <3> QED
      BY <3>1, <3>2
  <2>Resolve. ASSUME NEW r \in Runs, Resolve(r) PROVE Kept
    <3>1. CASE r[1] = j
      <4>1. r = s
        BY <2>Resolve, <3>1, FirstRun DEF Resolve
      <4> QED
        BY <2>Resolve, <4>1 DEF Resolve, OnceRun, OnceRow, Through
    <3>2. CASE r[1] # j
      BY <2>Resolve, <3>2, OnceFrame DEF Resolve
    <3> QED
      BY <3>1, <3>2
  <2>Rejects. ASSUME NEW r \in Runs, Rejects(r) PROVE Kept
    <3>1. CASE r[1] = j
      <4>1. r = s
        BY <2>Rejects, <3>1, FirstRun DEF Rejects
      <4> QED
        <5>1. OnceRun(j, s) /\ OnceRow(j, s)
              /\ pc[s] \in {"start", "count", "progress", "finish"}
          BY <2>Rejects, <4>1 DEF Rejects
        <5>2. status[j] \in {"none", "queued", "processing"}
          BY <5>1 DEF OnceRun, Through
        <5>3. pc'[s] = "throw" /\ status[j] # "none"
          BY <2>Rejects, <4>1, <5>1, <5>2, NotQueued DEF Rejects, Submitted
        <5>4. OnceRun(j, s)'
          BY <2>Rejects, <5>1, <5>2, <5>3 DEF Rejects, OnceRun, Through
        <5>5. OnceRow(j, s)'
          BY <2>Rejects, <5>1, <5>2, <5>3 DEF Rejects, OnceRow, Through
        <5> QED
          BY <5>4, <5>5
    <3>2. CASE r[1] # j
      BY <2>Rejects, <3>2, OnceFrame DEF Rejects
    <3> QED
      BY <3>1, <3>2
  <2>AnswerLost. ASSUME NEW r \in Runs, AnswerLost(r) PROVE Kept
    <3>1. CASE r[1] = j
      <4>1. r = s
        BY <2>AnswerLost, <3>1, FirstRun DEF AnswerLost
      <4>2. OnceRun(j, s) /\ OnceRow(j, s)
            /\ pc[s] \in {"start", "count", "finish"} /\ pc'[s] = "throw"
        BY <2>AnswerLost, <4>1 DEF AnswerLost
      <4>3. \/ pc[s] = "start" /\ status'[j] = "processing"
            \/ pc[s] = "count" /\ status'[j] = status[j]
            \/ pc[s] = "finish" /\ status'[j] = "complete" /\ processed'[j] = i[s]
        BY <2>AnswerLost, <4>1 DEF AnswerLost
      <4>4. OnceRun(j, s)'
        BY <2>AnswerLost, <4>1, <4>2, <4>3 DEF AnswerLost, OnceRun, Through
      <4>5. OnceRow(j, s)'
        BY <2>AnswerLost, <4>1, <4>2, <4>3 DEF AnswerLost, OnceRun, OnceRow, Through
      <4> QED
        BY <4>4, <4>5
    <3>2. CASE r[1] # j
      BY <2>AnswerLost, <3>2, OnceFrame DEF AnswerLost
    <3> QED
      BY <3>1, <3>2
  <2>MoveToCompleted. ASSUME NEW r \in Runs, MoveToCompleted(r) PROVE Kept
    <3>1. CASE r[1] = j
      <4>1. r = s
        BY <2>MoveToCompleted, <3>1, FirstRun DEF MoveToCompleted
      <4> QED
        BY <2>MoveToCompleted, <4>1 DEF MoveToCompleted, OnceRun, OnceRow, Through
    <3>2. CASE r[1] # j
      BY <2>MoveToCompleted, <3>2, OnceFrame DEF MoveToCompleted
    <3> QED
      BY <3>1, <3>2
  <2>MoveToFailed. ASSUME NEW r \in Runs, MoveToFailed(r) PROVE Kept
    <3>1. CASE r[1] = j
      <4>1. r = s
        BY <2>MoveToFailed, <3>1, FirstRun DEF MoveToFailed
      <4> QED
        BY <2>MoveToFailed, <4>1 DEF MoveToFailed, OnceRun, OnceRow, Through
    <3>2. CASE r[1] # j
      BY <2>MoveToFailed, <3>2, OnceFrame DEF MoveToFailed
    <3> QED
      BY <3>1, <3>2
  <2>StreamOpen. ASSUME NEW r \in Runs, StreamOpen(r) PROVE Kept
    <3>1. CASE r[1] = j
      <4>1. r = s
        BY <2>StreamOpen, <3>1, FirstRun DEF StreamOpen
      <4> QED
        BY <2>StreamOpen, <4>1 DEF StreamOpen, OnceRun, OnceRow, Through, Lines
    <3>2. CASE r[1] # j
      BY <2>StreamOpen, <3>2, OnceFrame DEF StreamOpen
    <3> QED
      BY <3>1, <3>2
  <2>StreamWrite. ASSUME NEW r \in Runs, StreamWrite(r) PROVE Kept
    <3>1. CASE r[1] = j
      <4>1. r = s
        BY <2>StreamWrite, <3>1, FirstRun DEF StreamWrite
      <4> QED
        <5>1. OnceRun(j, s) /\ OnceRow(j, s) /\ strm[s] = "open" /\ pos[s] <= i[s]
          BY <2>StreamWrite, <4>1 DEF StreamWrite
        <5>2. file'[j] = file[j] \union (pos[s] .. i[s]) /\ pos'[s] = i[s] + 1
          BY <2>StreamWrite, <4>1 DEF StreamWrite
        <5>3. file[j] = {n \in Lines : n < pos[s]} /\ pos[s] \in 0 .. Total + 1
              /\ i[s] \in 0 .. Total
          BY <5>1 DEF OnceRun, Through
        <5>4. \A n : n \in file'[j] <=> n \in Lines /\ n < pos'[s]
          BY <5>1, <5>2, <5>3 DEF Lines
        <5>5. file'[j] = {n \in Lines : n < pos'[s]}
          BY <5>4
        <5>6. pc[s] # "finish" /\ status[j] # "complete"
          BY <5>1 DEF OnceRun, OnceRow, Through
        <5>7. OnceRun(j, s)'
          BY <2>StreamWrite, <5>1, <5>5, <5>6 DEF StreamWrite, OnceRun, Through
        <5>8. OnceRow(j, s)'
          BY <2>StreamWrite, <5>1, <5>6 DEF StreamWrite, OnceRow, Through
        <5> QED
          BY <5>7, <5>8
    <3>2. CASE r[1] # j
      BY <2>StreamWrite, <3>2, OnceFrame DEF StreamWrite
    <3> QED
      BY <3>1, <3>2
  <2>StreamError. ASSUME NEW r \in Runs, StreamError(r) PROVE Kept
    <3>1. CASE pc[r] # "ending"
      <4>1. host[r] \in Workers /\ Die(host[r])
        BY <2>StreamError, <3>1 DEF StreamError
      <4> QED
        BY <4>1, <2>Die
    <3>2. CASE pc[r] = "ending"
      <4>1. CASE r[1] = j
        <5>1. r = s
          BY <2>StreamError, <3>2, <4>1, FirstRun DEF StreamError
        <5> QED
          BY <2>StreamError, <3>2, <5>1 DEF StreamError, OnceRun, OnceRow, Through
      <4>2. CASE r[1] # j
        BY <2>StreamError, <3>2, <4>2, OnceFrame DEF StreamError
      <4> QED
        BY <4>1, <4>2
    <3> QED
      BY <3>1, <3>2
  <2>SubmitAddRejects. ASSUME NEW k \in Jobs, SubmitAddRejects(k) PROVE Kept
    BY <2>SubmitAddRejects, <2>Die, ApiAssumption DEF SubmitAddRejects
  <2>Stutter. CASE UNCHANGED vars
    BY <2>Stutter, OnceFrame DEF vars
  <2> QED
    BY <2>Die, <2>SubmitInsert, <2>SubmitAdd, <2>LockTimeout, <2>LockLapse, <2>Requeue,
       <2>Take, <2>StallFail, <2>Notify, <2>FailedUpdate, <2>FailedUpdateRejects,
       <2>ResultSelect, <2>ResultSend, <2>Start, <2>Lookups, <2>Count, <2>Progress,
       <2>Ended, <2>Finish, <2>Resolve, <2>Rejects, <2>AnswerLost,
       <2>MoveToCompleted, <2>MoveToFailed,
       <2>StreamOpen, <2>StreamWrite, <2>StreamError, <2>SubmitAddRejects, <2>Stutter
       DEF Next, Crash, Processor

LEMMA InitIInv == Init => IInv
<1> SUFFICES ASSUME Init PROVE IInv
  OBVIOUS
<1>1. TypeOK
  BY TotalAssumption, ApiAssumption, StalledAssumption
     DEF Init, TypeOK, Statuses, QueueStates, Subs, PCs, Streams, Listeners, Gets
<1>2. Submitted /\ HandedOut
  BY RunFacts DEF Init, Submitted, HandedOut
<1>3. ASSUME NEW j \in Jobs PROVE OnceRun(j, <<j, 1>>) /\ OnceRow(j, <<j, 1>>)
  <2>1. <<j, 1>> \in Runs
    BY RunFacts, StalledAssumption DEF Attempts
  <2>2. file[j] = {n \in Lines : n < 0}
    BY TotalAssumption DEF Init, Lines
  <2>3. OnceRun(j, <<j, 1>>)
    BY <2>1, <2>2 DEF Init, OnceRun
  <2>4. OnceRow(j, <<j, 1>>)
    BY <2>1 DEF Init, OnceRow
  <2> QED
    BY <2>3, <2>4
<1> QED
  BY <1>1, <1>2, <1>3 DEF IInv, Once

(* The inductive invariant: what one undisturbed delivery of a job does to *)
(* its file, its row, its webhooks and its readers, for every job beside   *)
(* all the others, crashing processes and lapsing locks.                   *)
THEOREM Inductive == Spec => []IInv
<1>1. IInv /\ [Next]_vars => IInv'
  BY TypeStep, SubmittedStep, HandedOutStep, OnceStep DEF IInv
<1> QED
  BY InitIInv, <1>1, PTL DEF Spec

(* What a stream that is through has left in the file of its job.          *)
LEMMA ThroughIsWhole ==
  ASSUME IInv, NEW j \in Jobs, DeliveredOnce(j), Through(<<j, 1>>)
  PROVE  file[j] = AllLines \/ DiskRefused(j)
<1>1. CASE strm[<<j, 1>>] = "failed"
  BY <1>1, StalledAssumption DEF DiskRefused, Attempts
<1>2. CASE strm[<<j, 1>>] # "failed"
  <2>1. file[j] = {n \in Lines : n < Total + 1}
    BY <1>2 DEF IInv, Once, OnceRun, Through
  <2> QED
    BY <2>1, TotalAssumption DEF AllLines, Lines
<1> QED
  BY <1>1, <1>2

(* A job delivered once that reads 'complete' counts every number and has  *)
(* its whole result on disk, unless the disk refused it at the end, which  *)
(* worker.ts:112-115 takes for success.                                    *)
THEOREM WholeResult == Spec => []CompleteIsWhole
<1>1. IInv => CompleteIsWhole
  <2> SUFFICES ASSUME IInv, NEW j \in Jobs, status[j] = "complete", DeliveredOnce(j)
               PROVE  processed[j] = Total /\ (file[j] = AllLines \/ DiskRefused(j))
    BY DEF CompleteIsWhole
  <2>1. Through(<<j, 1>>) /\ processed[j] = Total
    BY DEF IInv, Once, OnceRow
  <2> QED
    BY <2>1, ThroughIsWhole
<1> QED
  BY Inductive, <1>1, PTL

(* Whoever downloads such a job's result gets every row the disk took,     *)
(* although the route reads the row and the file at two different times.   *)
THEOREM WholeDownload == Spec => []SentIsWhole
<1>1. IInv => SentIsWhole
  BY ThroughIsWhole DEF IInv, Once, OnceRow, SentIsWhole
<1> QED
  BY Inductive, <1>1, PTL

(* A job delivered once announces one outcome at most, and the row keeps   *)
(* to what was announced.                                                  *)
THEOREM OneStory == Spec => []OneVerdict
<1>1. IInv => OneVerdict
  <2> SUFFICES ASSUME IInv, NEW j \in Jobs, DeliveredOnce(j)
               PROVE  /\ "complete" \in hooks[j] =>
                           hooks[j] = {"complete"} /\ status[j] = "complete"
                      /\ error[j] => hooks[j] = {"failed"}
    BY DEF OneVerdict
  <2>1. OnceRow(j, <<j, 1>>) /\ hooks[j] \subseteq {"complete", "failed"}
    BY DEF IInv, Once, TypeOK
  <2> QED
    BY <2>1 DEF OnceRow
<1> QED
  BY Inductive, <1>1, PTL

(* Redis and PostgreSQL agree on how a job delivered once ended, but for a *)
(* failure the row did not hear of; nobody was told of a success then.     *)
THEOREM Agreement == Spec => []StoresAgree
<1>1. IInv => StoresAgree
  <2> SUFFICES ASSUME IInv, NEW j \in Jobs, DeliveredOnce(j)
               PROVE  /\ queue[j] = "completed" => status[j] = "complete"
                      /\ status[j] = "failed" => queue[j] = "failed"
                      /\ queue[j] = "failed" /\ listener[j] = "done" =>
                           status[j] = "failed"
                      /\ queue[j] = "failed" /\ status[j] = "complete" =>
                           "complete" \notin hooks[j] /\ listener[j] # "done"
    BY DEF StoresAgree
  <2>1. OnceRow(j, <<j, 1>>)
    BY DEF IInv, Once
  <2> QED
    BY <2>1 DEF OnceRow
<1> QED
  BY Inductive, <1>1, PTL

(* A refusal is not forgotten: a run has one stream. *)
LEMMA RefusedStays ==
  TypeOK /\ FileKnown /\ [Next]_vars => \A j \in Jobs : DiskRefused(j) => DiskRefused(j)'
<1> SUFFICES ASSUME TypeOK, FileKnown, [Next]_vars,
                    NEW j \in Jobs, NEW a \in Attempts, strm[<<j, a>>] = "failed"
             PROVE  strm'[<<j, a>>] = "failed"
  BY DEF DiskRefused
<1> DEFINE s == <<j, a>>
<1>1. s \in Runs /\ strm \in [Runs -> Streams] /\ strm[s] = "failed"
  BY RunFacts DEF TypeOK
<1>2. ASSUME NEW w \in Workers, Die(w) PROVE strm'[s] = "failed"
  BY <1>1, <1>2 DEF Die
<1>3. ASSUME NEW r \in Runs, Start(r) PROVE strm'[s] = "failed"
  BY <1>1, <1>3 DEF Start, FileKnown
<1>4. ASSUME NEW r \in Runs, Ended(r) \/ StreamOpen(r) PROVE strm'[s] = "failed"
  BY <1>1, <1>4 DEF Ended, Flushed, StreamOpen
<1>5. ASSUME NEW r \in Runs, StreamError(r) PROVE strm'[s] = "failed"
  <2>1. host[r] \in Workers
    BY DEF TypeOK
  <2> QED
    BY <1>1, <1>2, <1>5, <2>1 DEF StreamError
<1>6. ASSUME NEW k \in Jobs, SubmitAddRejects(k) PROVE strm'[s] = "failed"
  BY <1>6, <1>2, ApiAssumption DEF SubmitAddRejects
<1>7. CASE UNCHANGED strm
  BY <1>1, <1>7
<1>8. ASSUME NEW r \in Runs,
             Processor(r) \/ MoveToCompleted(r) \/ MoveToFailed(r) \/ StreamWrite(r)
      PROVE  Start(r) \/ Ended(r) \/ UNCHANGED strm
  BY <1>8 DEF Processor, Lookups, Count, Progress, Finish, Resolve, Rejects, AnswerLost,
     MoveToCompleted, MoveToFailed, StreamWrite
<1>9. ASSUME NEW k \in Jobs,
             \/ SubmitInsert(k) \/ SubmitAdd(k) \/ LockTimeout(k) \/ LockLapse(k)
             \/ Requeue(k) \/ Notify(k) \/ FailedUpdate(k) \/ FailedUpdateRejects(k)
             \/ ResultSelect(k) \/ ResultSend(k)
             \/ \E w \in Workers : Take(w, k) \/ StallFail(w, k)
      PROVE  UNCHANGED strm
  BY <1>9 DEF SubmitInsert, SubmitAdd, LockTimeout, LockLapse, Requeue, Notify,
     FailedUpdate, FailedUpdateRejects, ResultSelect, ResultSend, Take, StallFail
<1> QED
  BY <1>2, <1>3, <1>4, <1>5, <1>6, <1>7, <1>8, <1>9 DEF Next, Crash, vars

(* A complete row leads to a file, however often the job was handed out,   *)
(* unless the disk refused it.                                             *)
THEOREM ResultFound == Spec => []CompleteHasFile
<1>1. Init => FileKnown
  BY DEF Init, FileKnown
<1>2. IInv /\ FileKnown /\ [Next]_vars => FileKnown'
  <2> SUFFICES ASSUME IInv, FileKnown, [Next]_vars PROVE FileKnown'
    OBVIOUS
  <2>types. TypeOK
    BY DEF IInv
  <2>refused. \A j \in Jobs : DiskRefused(j) => DiskRefused(j)'
    BY <2>types, RefusedStays
  <2> USE <2>types, <2>refused, RunFacts, StalledAssumption DEF TypeOK, FileKnown, Goto
  <2>Die. ASSUME NEW w \in Workers, Die(w) PROVE FileKnown'
    BY <2>Die DEF Die, Live
  <2>SubmitInsert. ASSUME NEW k \in Jobs, SubmitInsert(k) PROVE FileKnown'
    BY <2>SubmitInsert DEF SubmitInsert
  <2>SubmitAdd. ASSUME NEW k \in Jobs, SubmitAdd(k) PROVE FileKnown'
    BY <2>SubmitAdd DEF SubmitAdd
  <2>LockTimeout. ASSUME NEW k \in Jobs, LockTimeout(k) PROVE FileKnown'
    BY <2>LockTimeout DEF LockTimeout
  <2>LockLapse. ASSUME NEW k \in Jobs, LockLapse(k) PROVE FileKnown'
    BY <2>LockLapse DEF LockLapse
  <2>Requeue. ASSUME NEW k \in Jobs, Requeue(k) PROVE FileKnown'
    BY <2>Requeue DEF Requeue
  <2>Take. ASSUME NEW w \in Workers, NEW k \in Jobs, Take(w, k) PROVE FileKnown'
    <3>1. stalls[k] + 1 \in Attempts
      BY DEF Attempts
    <3>2. strm[<<k, stalls[k] + 1>>] = "none"
      BY <2>Take, <3>1 DEF Take, IInv, HandedOut
    <3> QED
      BY <2>Take, <3>1, <3>2 DEF Take
  <2>StallFail. ASSUME NEW w \in Workers, NEW k \in Jobs, StallFail(w, k) PROVE FileKnown'
    BY <2>StallFail DEF StallFail
  <2>Notify. ASSUME NEW k \in Jobs, Notify(k) PROVE FileKnown'
    BY <2>Notify DEF Notify
  <2>FailedUpdate. ASSUME NEW k \in Jobs, FailedUpdate(k) PROVE FileKnown'
    BY <2>FailedUpdate DEF FailedUpdate
  <2>FailedUpdateRejects. ASSUME NEW k \in Jobs, FailedUpdateRejects(k) PROVE FileKnown'
    BY <2>FailedUpdateRejects DEF FailedUpdateRejects
  <2>ResultSelect. ASSUME NEW k \in Jobs, ResultSelect(k) PROVE FileKnown'
    BY <2>ResultSelect DEF ResultSelect
  <2>ResultSend. ASSUME NEW k \in Jobs, ResultSend(k) PROVE FileKnown'
    BY <2>ResultSend DEF ResultSend
  <2>Start. ASSUME NEW r \in Runs, Start(r) PROVE FileKnown'
    BY <2>Start DEF Start
  <2>Lookups. ASSUME NEW r \in Runs, Lookups(r) PROVE FileKnown'
    BY <2>Lookups DEF Lookups
  <2>Count. ASSUME NEW r \in Runs, Count(r) PROVE FileKnown'
    BY <2>Count DEF Count
  <2>Progress. ASSUME NEW r \in Runs, Progress(r) PROVE FileKnown'
    BY <2>Progress DEF Progress
  <2>Ended. ASSUME NEW r \in Runs, Ended(r) PROVE FileKnown'
    BY <2>Ended DEF Ended, Flushed
  <2>Finish. ASSUME NEW r \in Runs, Finish(r) PROVE FileKnown'
    BY <2>Finish DEF Finish
  <2>Resolve. ASSUME NEW r \in Runs, Resolve(r) PROVE FileKnown'
    BY <2>Resolve DEF Resolve
  <2>Rejects. ASSUME NEW r \in Runs, Rejects(r) PROVE FileKnown'
    BY <2>Rejects DEF Rejects
  <2>AnswerLost. ASSUME NEW r \in Runs, AnswerLost(r) PROVE FileKnown'
    BY <2>AnswerLost DEF AnswerLost
  <2>MoveToCompleted. ASSUME NEW r \in Runs, MoveToCompleted(r) PROVE FileKnown'
    BY <2>MoveToCompleted DEF MoveToCompleted
  <2>MoveToFailed. ASSUME NEW r \in Runs, MoveToFailed(r) PROVE FileKnown'
    BY <2>MoveToFailed DEF MoveToFailed
  <2>StreamOpen. ASSUME NEW r \in Runs, StreamOpen(r) PROVE FileKnown'
    BY <2>StreamOpen DEF StreamOpen
  <2>StreamWrite. ASSUME NEW r \in Runs, StreamWrite(r) PROVE FileKnown'
    BY <2>StreamWrite DEF StreamWrite
  <2>StreamError. ASSUME NEW r \in Runs, StreamError(r) PROVE FileKnown'
    <3>1. CASE pc[r] = "ending"
      <4>1. strm' = [strm EXCEPT ![r] = "failed"] /\ strm'[r] = "failed"
        BY <2>StreamError, <3>1 DEF StreamError
      <4>2. DiskRefused(r[1])'
        BY <4>1 DEF DiskRefused
      <4> QED
        BY <2>StreamError, <3>1, <4>1, <4>2 DEF StreamError
    <3>2. CASE pc[r] # "ending"
      <4>1. host[r] \in Workers /\ Die(host[r])
        BY <2>StreamError, <3>2 DEF StreamError
      <4> QED
        BY <4>1, <2>Die
    <3> QED
      BY <3>1, <3>2
  <2>SubmitAddRejects. ASSUME NEW k \in Jobs, SubmitAddRejects(k) PROVE FileKnown'
    BY <2>SubmitAddRejects, <2>Die, ApiAssumption DEF SubmitAddRejects
  <2>Stutter. CASE UNCHANGED vars
    BY <2>Stutter DEF vars
  <2> QED
    BY <2>Die, <2>SubmitInsert, <2>SubmitAdd, <2>LockTimeout, <2>LockLapse, <2>Requeue,
       <2>Take, <2>StallFail, <2>Notify, <2>FailedUpdate, <2>FailedUpdateRejects,
       <2>ResultSelect, <2>ResultSend, <2>Start, <2>Lookups, <2>Count, <2>Progress,
       <2>Ended, <2>Finish, <2>Resolve, <2>Rejects, <2>AnswerLost,
       <2>MoveToCompleted, <2>MoveToFailed,
       <2>StreamOpen, <2>StreamWrite, <2>StreamError, <2>SubmitAddRejects, <2>Stutter
       DEF Next, Crash, Processor
<1>3. FileKnown => CompleteHasFile
  BY DEF FileKnown, CompleteHasFile
<1> QED
  BY Inductive, <1>1, <1>2, <1>3, PTL DEF Spec
-----------------------------------------------------------------------------
(* BulkJobs implements JobStatus *)

(* only an active job is locked *)
LockedActive == \A j \in Jobs : lock[j] # 0 => queue[j] = "active"

(* BullMQ locks a job when it hands it out and releases it, or finds it    *)
(* lost, before it moves it on.                                            *)
THEOREM LockDiscipline == Spec => []LockedActive
<1>1. Init => LockedActive
  BY DEF Init, LockedActive
<1>2. IInv /\ LockedActive /\ [Next]_vars => LockedActive'
  <2> SUFFICES ASSUME IInv, LockedActive, [Next]_vars PROVE LockedActive'
    OBVIOUS
  <2> USE RunFacts, StalledAssumption DEF IInv, TypeOK, LockedActive, Goto
  <2>Die. ASSUME NEW w \in Workers, Die(w) PROVE LockedActive'
    BY <2>Die DEF Die
  <2>SubmitInsert. ASSUME NEW k \in Jobs, SubmitInsert(k) PROVE LockedActive'
    BY <2>SubmitInsert DEF SubmitInsert
  <2>SubmitAdd. ASSUME NEW k \in Jobs, SubmitAdd(k) PROVE LockedActive'
    BY <2>SubmitAdd DEF SubmitAdd, Submitted
  <2>LockTimeout. ASSUME NEW k \in Jobs, LockTimeout(k) PROVE LockedActive'
    BY <2>LockTimeout DEF LockTimeout
  <2>LockLapse. ASSUME NEW k \in Jobs, LockLapse(k) PROVE LockedActive'
    BY <2>LockLapse DEF LockLapse
  <2>Requeue. ASSUME NEW k \in Jobs, Requeue(k) PROVE LockedActive'
    BY <2>Requeue DEF Requeue
  <2>Take. ASSUME NEW w \in Workers, NEW k \in Jobs, Take(w, k) PROVE LockedActive'
    BY <2>Take DEF Take
  <2>StallFail. ASSUME NEW w \in Workers, NEW k \in Jobs, StallFail(w, k) PROVE LockedActive'
    BY <2>StallFail DEF StallFail
  <2>Notify. ASSUME NEW k \in Jobs, Notify(k) PROVE LockedActive'
    BY <2>Notify DEF Notify
  <2>FailedUpdate. ASSUME NEW k \in Jobs, FailedUpdate(k) PROVE LockedActive'
    BY <2>FailedUpdate DEF FailedUpdate
  <2>FailedUpdateRejects. ASSUME NEW k \in Jobs, FailedUpdateRejects(k) PROVE LockedActive'
    BY <2>FailedUpdateRejects DEF FailedUpdateRejects
  <2>ResultSelect. ASSUME NEW k \in Jobs, ResultSelect(k) PROVE LockedActive'
    BY <2>ResultSelect DEF ResultSelect
  <2>ResultSend. ASSUME NEW k \in Jobs, ResultSend(k) PROVE LockedActive'
    BY <2>ResultSend DEF ResultSend
  <2>Start. ASSUME NEW r \in Runs, Start(r) PROVE LockedActive'
    BY <2>Start DEF Start
  <2>Lookups. ASSUME NEW r \in Runs, Lookups(r) PROVE LockedActive'
    BY <2>Lookups DEF Lookups
  <2>Count. ASSUME NEW r \in Runs, Count(r) PROVE LockedActive'
    BY <2>Count DEF Count
  <2>Progress. ASSUME NEW r \in Runs, Progress(r) PROVE LockedActive'
    BY <2>Progress DEF Progress
  <2>Ended. ASSUME NEW r \in Runs, Ended(r) PROVE LockedActive'
    BY <2>Ended DEF Ended
  <2>Finish. ASSUME NEW r \in Runs, Finish(r) PROVE LockedActive'
    BY <2>Finish DEF Finish
  <2>Resolve. ASSUME NEW r \in Runs, Resolve(r) PROVE LockedActive'
    BY <2>Resolve DEF Resolve
  <2>Rejects. ASSUME NEW r \in Runs, Rejects(r) PROVE LockedActive'
    BY <2>Rejects DEF Rejects
  <2>AnswerLost. ASSUME NEW r \in Runs, AnswerLost(r) PROVE LockedActive'
    BY <2>AnswerLost DEF AnswerLost
  <2>MoveToCompleted. ASSUME NEW r \in Runs, MoveToCompleted(r) PROVE LockedActive'
    <3>1. \/ UNCHANGED <<queue, lock>>
          \/ /\ queue' = [queue EXCEPT ![r[1]] = "completed"]
             /\ lock' = [lock EXCEPT ![r[1]] = 0]
      BY <2>MoveToCompleted DEF MoveToCompleted
    <3> QED
      BY <3>1
  <2>MoveToFailed. ASSUME NEW r \in Runs, MoveToFailed(r) PROVE LockedActive'
    <3>1. \/ UNCHANGED <<queue, lock>>
          \/ /\ queue' = [queue EXCEPT ![r[1]] = "failed"]
             /\ lock' = [lock EXCEPT ![r[1]] = 0]
      BY <2>MoveToFailed DEF MoveToFailed
    <3> QED
      BY <3>1
  <2>StreamOpen. ASSUME NEW r \in Runs, StreamOpen(r) PROVE LockedActive'
    BY <2>StreamOpen DEF StreamOpen
  <2>StreamWrite. ASSUME NEW r \in Runs, StreamWrite(r) PROVE LockedActive'
    BY <2>StreamWrite DEF StreamWrite
  <2>StreamError. ASSUME NEW r \in Runs, StreamError(r) PROVE LockedActive'
    <3>1. CASE pc[r] = "ending"
      BY <2>StreamError, <3>1 DEF StreamError
    <3>2. CASE pc[r] # "ending"
      <4>1. host[r] \in Workers /\ Die(host[r])
        BY <2>StreamError, <3>2 DEF StreamError, IInv, TypeOK
      <4> QED
        BY <4>1, <2>Die
    <3> QED
      BY <3>1, <3>2
  <2>SubmitAddRejects. ASSUME NEW k \in Jobs, SubmitAddRejects(k) PROVE LockedActive'
    BY <2>SubmitAddRejects, <2>Die, ApiAssumption DEF SubmitAddRejects
  <2>Stutter. CASE UNCHANGED vars
    BY <2>Stutter DEF vars
  <2> QED
    BY <2>Die, <2>SubmitInsert, <2>SubmitAdd, <2>LockTimeout, <2>LockLapse, <2>Requeue,
       <2>Take, <2>StallFail, <2>Notify, <2>FailedUpdate, <2>FailedUpdateRejects,
       <2>ResultSelect, <2>ResultSend, <2>Start, <2>Lookups, <2>Count, <2>Progress,
       <2>Ended, <2>Finish, <2>Resolve, <2>Rejects, <2>AnswerLost,
       <2>MoveToCompleted, <2>MoveToFailed,
       <2>StreamOpen, <2>StreamWrite, <2>StreamError, <2>SubmitAddRejects, <2>Stutter
       DEF Next, Crash, Processor
<1> QED
  BY Inductive, <1>1, <1>2, PTL DEF Spec

(* the value of Tries at a job *)
LEMMA TriesAt ==
  ASSUME NEW j \in Jobs
  PROVE  /\ queue[j] = "none" => Tries[j] = 0
         /\ queue[j] = "wait" => Tries[j] = stalls[j]
         /\ queue[j] \notin {"none", "wait"} => Tries[j] = stalls[j] + 1
BY DEF Tries

(* A step that leaves the statuses and the counts of deliveries alone is a *)
(* stutter of JobStatus.                                                   *)
LEMMA ClientStutter ==
  ASSUME UNCHANGED status, \A j \in Jobs : Tries'[j] = Tries[j]
  PROVE  UNCHANGED Client!vars
<1>1. Tries' = Tries
  BY DEF Tries
<1> QED
  BY <1>1 DEF Client!vars

(* As long as only one run of a job has begun its count is one, and beyond *)
(* that it is more.                                                        *)
LEMMA TriesOfRun ==
  ASSUME IInv, NEW j \in Jobs, queue[j] # "none",
         DeliveredOnce(j) => pc[<<j, 1>>] # "idle"
  PROVE  \/ DeliveredOnce(j) /\ Tries[j] = 1
         \/ Tries[j] > 1
<1>1. stalls[j] \in Nat
  BY StalledAssumption DEF IInv, TypeOK
<1>2. CASE stalls[j] = 0
  <2>1. queue[j] # "wait"
    BY <1>2, StalledAssumption DEF DeliveredOnce, IInv, HandedOut, Attempts
  <2> QED
    BY <1>2, <2>1, TriesAt DEF DeliveredOnce
<1>3. CASE stalls[j] = 1 /\ queue[j] = "wait"
  BY <1>3, TriesAt DEF DeliveredOnce
<1>4. CASE stalls[j] = 1 /\ queue[j] # "wait"
  BY <1>4, TriesAt
<1>5. CASE stalls[j] > 1
  BY <1>1, <1>5, TriesAt
<1> QED
  BY <1>1, <1>2, <1>3, <1>4, <1>5

LEMMA ClientStep ==
  IInv /\ IInv' /\ LockedActive /\ [Next]_vars => [Client!Next]_(Client!vars)
<1> SUFFICES ASSUME IInv, IInv', LockedActive, [Next]_vars
             PROVE  Client!Next \/ UNCHANGED Client!vars
  OBVIOUS
<1> DEFINE Seen == Client!Next \/ UNCHANGED Client!vars
<1>same. ASSUME UNCHANGED <<status, queue, stalls>> PROVE Seen
  BY <1>same, ClientStutter DEF Tries
<1> SUFFICES Seen
  OBVIOUS
<1> QED
  <2>Die. ASSUME NEW w \in Workers, Die(w) PROVE Seen
    BY <2>Die, <1>same DEF Die
  <2>LockTimeout. ASSUME NEW k \in Jobs, LockTimeout(k) PROVE Seen
    BY <2>LockTimeout, <1>same DEF LockTimeout
  <2>LockLapse. ASSUME NEW k \in Jobs, LockLapse(k) PROVE Seen
    BY <2>LockLapse, <1>same DEF LockLapse
  <2>Notify. ASSUME NEW k \in Jobs, Notify(k) PROVE Seen
    BY <2>Notify, <1>same DEF Notify
  <2>FailedUpdateRejects. ASSUME NEW k \in Jobs, FailedUpdateRejects(k) PROVE Seen
    BY <2>FailedUpdateRejects, <1>same DEF FailedUpdateRejects
  <2>ResultSelect. ASSUME NEW k \in Jobs, ResultSelect(k) PROVE Seen
    BY <2>ResultSelect, <1>same DEF ResultSelect
  <2>ResultSend. ASSUME NEW k \in Jobs, ResultSend(k) PROVE Seen
    BY <2>ResultSend, <1>same DEF ResultSend
  <2>Lookups. ASSUME NEW r \in Runs, Lookups(r) PROVE Seen
    BY <2>Lookups, <1>same DEF Lookups
  <2>Count. ASSUME NEW r \in Runs, Count(r) PROVE Seen
    BY <2>Count, <1>same DEF Count
  <2>Progress. ASSUME NEW r \in Runs, Progress(r) PROVE Seen
    BY <2>Progress, <1>same DEF Progress
  <2>Ended. ASSUME NEW r \in Runs, Ended(r) PROVE Seen
    BY <2>Ended, <1>same DEF Ended
  <2>Resolve. ASSUME NEW r \in Runs, Resolve(r) PROVE Seen
    BY <2>Resolve, <1>same DEF Resolve
  <2>Rejects. ASSUME NEW r \in Runs, Rejects(r) PROVE Seen
    BY <2>Rejects, <1>same DEF Rejects
  <2>StreamOpen. ASSUME NEW r \in Runs, StreamOpen(r) PROVE Seen
    BY <2>StreamOpen, <1>same DEF StreamOpen
  <2>StreamWrite. ASSUME NEW r \in Runs, StreamWrite(r) PROVE Seen
    BY <2>StreamWrite, <1>same DEF StreamWrite
  <2>StreamError. ASSUME NEW r \in Runs, StreamError(r) PROVE Seen
    <3>1. CASE pc[r] = "ending"
      BY <2>StreamError, <3>1, <1>same DEF StreamError, Goto
    <3>2. CASE pc[r] # "ending"
      <4>1. host[r] \in Workers /\ Die(host[r])
        BY <2>StreamError, <3>2 DEF StreamError, IInv, TypeOK
      <4> QED
        BY <4>1, <2>Die
    <3> QED
      BY <3>1, <3>2
  <2>SubmitAddRejects. ASSUME NEW k \in Jobs, SubmitAddRejects(k) PROVE Seen
    BY <2>SubmitAddRejects, <2>Die, ApiAssumption DEF SubmitAddRejects
  <2>SubmitInsert. ASSUME NEW k \in Jobs, SubmitInsert(k) PROVE Seen
    <3>1. status[k] = "none" /\ status' = [status EXCEPT ![k] = "queued"]
      BY <2>SubmitInsert DEF SubmitInsert, IInv, Submitted
    <3>2. Tries' = Tries
      BY <2>SubmitInsert DEF SubmitInsert, Tries
    <3> QED
      BY <3>1, <3>2 DEF Client!Next, Client!Submit
  <2>SubmitAdd. ASSUME NEW k \in Jobs, SubmitAdd(k) PROVE Seen
    <3>1. queue[k] = "none" /\ stalls[k] = 0 /\ queue \in [Jobs -> QueueStates]
      BY <2>SubmitAdd DEF SubmitAdd, IInv, TypeOK, Submitted
    <3>2. UNCHANGED <<status, stalls>> /\ queue' = [queue EXCEPT ![k] = "wait"]
      BY <2>SubmitAdd DEF SubmitAdd
    <3> QED
      BY <3>1, <3>2, ClientStutter DEF Tries
  <2>Take. ASSUME NEW w \in Workers, NEW k \in Jobs, Take(w, k) PROVE Seen
    <3>1. queue[k] = "wait" /\ queue' = [queue EXCEPT ![k] = "active"]
          /\ UNCHANGED <<status, stalls>>
      BY <2>Take DEF Take
    <3>2. queue \in [Jobs -> QueueStates] /\ stalls[k] \in 0 .. MaxStalled
      BY DEF IInv, TypeOK
    <3>3. status[k] # "none"
      BY <3>1 DEF IInv, Submitted
    <3>4. Tries' = [Tries EXCEPT ![k] = @ + 1]
      BY <3>1, <3>2 DEF Tries
    <3>5. Tries[k] < MaxStalled + 1
      BY <3>1, <3>2, TriesAt, StalledAssumption
    <3> QED
      BY <3>1, <3>3, <3>4, <3>5 DEF Client!Next, Client!Deliver
  <2>Requeue. ASSUME NEW k \in Jobs, Requeue(k) PROVE Seen
    <3>1. UNCHANGED status /\ queue[k] = "active" /\ queue' = [queue EXCEPT ![k] = "wait"]
          /\ stalls' = [stalls EXCEPT ![k] = @ + 1]
      BY <2>Requeue DEF Requeue
    <3>2. queue \in [Jobs -> QueueStates] /\ stalls \in [Jobs -> 0 .. MaxStalled]
      BY DEF IInv, TypeOK
    <3> QED
      BY <3>1, <3>2, ClientStutter DEF Tries
  <2>StallFail. ASSUME NEW w \in Workers, NEW k \in Jobs, StallFail(w, k) PROVE Seen
    <3>1. UNCHANGED <<status, stalls>> /\ queue[k] = "active"
          /\ queue' = [queue EXCEPT ![k] = "failed"]
      BY <2>StallFail DEF StallFail
    <3>2. queue \in [Jobs -> QueueStates]
      BY DEF IInv, TypeOK
    <3> QED
      BY <3>1, <3>2, ClientStutter DEF Tries
  <2>MoveToCompleted. ASSUME NEW r \in Runs, MoveToCompleted(r) PROVE Seen
    <3>1. r[1] \in Jobs /\ r[2] # 0 /\ queue \in [Jobs -> QueueStates]
      BY RunFacts DEF Attempts, IInv, TypeOK
    <3>2. CASE lock[r[1]] = r[2]
      <4>1. queue[r[1]] = "active"
        BY <3>1, <3>2 DEF LockedActive
      <4>2. UNCHANGED <<status, stalls>> /\ queue' = [queue EXCEPT ![r[1]] = "completed"]
        BY <2>MoveToCompleted, <3>2 DEF MoveToCompleted
      <4> QED
        BY <3>1, <4>1, <4>2, ClientStutter DEF Tries
    <3>3. CASE lock[r[1]] # r[2]
      BY <2>MoveToCompleted, <3>3, <1>same DEF MoveToCompleted
    <3> QED
      BY <3>2, <3>3
  <2>MoveToFailed. ASSUME NEW r \in Runs, MoveToFailed(r) PROVE Seen
    <3>1. r[1] \in Jobs /\ r[2] # 0 /\ queue \in [Jobs -> QueueStates]
      BY RunFacts DEF Attempts, IInv, TypeOK
    <3>2. CASE lock[r[1]] = r[2]
      <4>1. queue[r[1]] = "active"
        BY <3>1, <3>2 DEF LockedActive
      <4>2. UNCHANGED <<status, stalls>> /\ queue' = [queue EXCEPT ![r[1]] = "failed"]
        BY <2>MoveToFailed, <3>2 DEF MoveToFailed
      <4> QED
        BY <3>1, <4>1, <4>2, ClientStutter DEF Tries
    <3>3. CASE lock[r[1]] # r[2]
      BY <2>MoveToFailed, <3>3, <1>same DEF MoveToFailed
    <3> QED
      BY <3>2, <3>3
  <2>Start. ASSUME NEW r \in Runs, Start(r) PROVE Seen
    <3>1. PICK j \in Jobs : j = r[1]
      BY RunFacts
    <3>2. pc[r] = "start" /\ status' = [status EXCEPT ![j] = "processing"] /\ Tries' = Tries
      BY <2>Start, <3>1 DEF Start, Tries
    <3>3. queue[j] # "none" /\ status[j] # "none"
      BY <3>1, <3>2, NotQueued DEF IInv, Submitted
    <3>4. DeliveredOnce(j) => r = <<j, 1>>
      BY <3>1, <3>2, FirstRun
    <3>5. \/ DeliveredOnce(j) /\ Tries[j] = 1
          \/ Tries[j] > 1
      BY <3>2, <3>3, <3>4, TriesOfRun
    <3>6. DeliveredOnce(j) => status[j] = "queued"
      BY <3>2, <3>3, <3>4 DEF IInv, Once, OnceRun
    <3> QED
      BY <3>2, <3>5, <3>6 DEF Client!Next, Client!Begin, Client!Final
  <2>Finish. ASSUME NEW r \in Runs, Finish(r) PROVE Seen
    <3>1. PICK j \in Jobs : j = r[1]
      BY RunFacts
    <3>2. pc[r] = "finish" /\ status' = [status EXCEPT ![j] = "complete"] /\ Tries' = Tries
      BY <2>Finish, <3>1 DEF Finish, Tries
    <3>3. queue[j] # "none" /\ status[j] # "none"
      BY <3>1, <3>2, NotQueued DEF IInv, Submitted
    <3>4. DeliveredOnce(j) => r = <<j, 1>>
      BY <3>1, <3>2, FirstRun
    <3>5. \/ DeliveredOnce(j) /\ Tries[j] = 1
          \/ Tries[j] > 1
      BY <3>2, <3>3, <3>4, TriesOfRun
    <3>6. DeliveredOnce(j) => status[j] = "processing"
      BY <3>2, <3>3, <3>4 DEF IInv, Once, OnceRun
    <3> QED
      BY <3>2, <3>5, <3>6 DEF Client!Next, Client!End, Client!Final
  <2>AnswerLost. ASSUME NEW r \in Runs, AnswerLost(r) PROVE Seen
    <3>1. PICK j \in Jobs : j = r[1]
      BY RunFacts
    <3>2. Tries' = Tries /\ pc[r] \in {"start", "count", "finish"}
      BY <2>AnswerLost DEF AnswerLost, Tries
    <3>3. queue[j] # "none" /\ status[j] # "none"
      BY <3>1, <3>2, NotQueued DEF IInv, Submitted
    <3>4. DeliveredOnce(j) => r = <<j, 1>>
      BY <3>1, <3>2, FirstRun
    <3>5. \/ DeliveredOnce(j) /\ Tries[j] = 1
          \/ Tries[j] > 1
      BY <3>2, <3>3, <3>4, TriesOfRun
    <3>6. CASE pc[r] = "start"
      <4>1. status' = [status EXCEPT ![j] = "processing"]
        BY <2>AnswerLost, <3>1, <3>6 DEF AnswerLost
      <4>2. DeliveredOnce(j) => status[j] = "queued"
        BY <3>6, <3>3, <3>4 DEF IInv, Once, OnceRun
      <4> QED
        BY <3>2, <3>5, <4>1, <4>2 DEF Client!Next, Client!Begin, Client!Final
    <3>7. CASE pc[r] = "count"
      BY <2>AnswerLost, <3>7, <1>same DEF AnswerLost
    <3>8. CASE pc[r] = "finish"
      <4>1. status' = [status EXCEPT ![j] = "complete"]
        BY <2>AnswerLost, <3>1, <3>8 DEF AnswerLost
      <4>2. DeliveredOnce(j) => status[j] = "processing"
        BY <3>8, <3>4 DEF IInv, Once, OnceRun
      <4> QED
        BY <3>2, <3>5, <4>1, <4>2 DEF Client!Next, Client!End, Client!Final
    <3> QED
      BY <3>2, <3>6, <3>7, <3>8
  <2>FailedUpdate. ASSUME NEW k \in Jobs, FailedUpdate(k) PROVE Seen
    <3>1. listener[k] = "update" /\ status' = [status EXCEPT ![k] = "failed"] /\ Tries' = Tries
      BY <2>FailedUpdate DEF FailedUpdate, Tries
    <3>2. queue[k] # "none"
      BY <3>1, NotReported DEF IInv, Submitted
    <3>3. DeliveredOnce(k) => /\ pc[<<k, 1>>] = "over"
                              /\ status[k] \in {"queued", "processing", "complete"}
      BY <3>1 DEF IInv, TypeOK, Statuses, Once, OnceRow
    <3>4. \/ DeliveredOnce(k) /\ Tries[k] = 1
          \/ Tries[k] > 1
      BY <3>2, <3>3, TriesOfRun
    <3> QED
      BY <3>1, <3>3, <3>4 DEF Client!Next, Client!End, Client!Final
  <2>Stutter. CASE UNCHANGED vars
    BY <2>Stutter, <1>same DEF vars
  <2> QED
    BY <2>Die, <2>SubmitInsert, <2>SubmitAdd, <2>LockTimeout, <2>LockLapse, <2>Requeue,
       <2>Take, <2>StallFail, <2>Notify, <2>FailedUpdate, <2>FailedUpdateRejects,
       <2>ResultSelect, <2>ResultSend, <2>Start, <2>Lookups, <2>Count, <2>Progress,
       <2>Ended, <2>Finish, <2>Resolve, <2>Rejects, <2>AnswerLost,
       <2>MoveToCompleted, <2>MoveToFailed,
       <2>StreamOpen, <2>StreamWrite, <2>StreamError, <2>SubmitAddRejects, <2>Stutter
       DEF Next, Crash, Processor

(* What a polling owner is told is a behaviour of JobStatus: a job handed  *)
(* out once moves queued, processing, then complete or failed for good,    *)
(* whatever the workers, the locks, the stream and the disk do.            *)
THEOREM Implements == Spec => ClientView
<1>1. Init => Client!Init
  BY DEF Init, Client!Init, Tries
<1> QED
  BY Inductive, LockDiscipline, <1>1, ClientStep, PTL DEF Spec, ClientView, Client!Spec
=============================================================================
