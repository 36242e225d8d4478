------------------------------- MODULE Requests -------------------------------
(***************************************************************************)
(* GET /lookup and POST /lookup/bulk from the header to the answer         *)
(* (auth/apiKey.ts, middleware/rateLimit.ts, routes/lookup.ts,             *)
(* db/usageLog.ts): the key is looked for in Postgres, the limiter of      *)
(* RateLimit charges it, the body is checked, the lookups run, a row of    *)
(* usage_log is sent and not awaited, the answer leaves.  Meanwhile the    *)
(* owner may revoke the key, and Postgres and Redis may fail.  All these   *)
(* requests bear key 1, and none is a login.                               *)
(***************************************************************************)
EXTENDS RateLimit, ApiKeys

VARIABLES
  phase,   \* request -> where its handlers are
  code,    \* request -> the status of its answer
  row,     \* request -> its row of usage_log, and the status it records
  late     \* requests that came when the revocation had been answered

Phases == {"new", "check", "found", "limiter", "lookup", "done"}
Codes == {200, 400, 401, 429, 503}
Rows == [at : {"none", "sent", "written", "lost"}, status : Codes \cup {None}]
NoRow == [at |-> "none", status |-> None]

serving == <<phase, code, row>>
requestVars == <<vars, keys, serving, late>>

ASSUME CodeNoneAssumption == None \notin Codes
ASSUME OneKeyAssumption == MaxKeys = 1
ASSUME NoLoginAssumption == \A r \in Requests : Kind[r] # "login"

RequestsTypeOK ==
  /\ TypeOK /\ KeysTypeOK
  /\ phase \in [Requests -> Phases]
  /\ code \in [Requests -> Codes \cup {None}]
  /\ row \in [Requests -> Rows]
  /\ late \subseteq Requests
  /\ \A r \in Requests : (code[r] # None) = (phase[r] = "done")

RequestsInit ==
  /\ Init
  /\ \E u \in Users : keys = <<[owner |-> u, live |-> TRUE]>>
  /\ phase = [r \in Requests |-> "new"]
  /\ code = [r \in Requests |-> None]
  /\ row = [r \in Requests |-> NoRow]
  /\ late = {}

Reach(r, p) == phase' = [phase EXCEPT ![r] = p] /\ UNCHANGED <<code, row>>

(* mutant: the return after res.status() is missing *)
Answer_noReturn(r, c) ==
  /\ UNCHANGED phase
  /\ code' = [code EXCEPT ![r] = c]

Answer(r, c) ==
  /\ phase' = [phase EXCEPT ![r] = "done"]
  /\ code' = [code EXCEPT ![r] = c]
-----------------------------------------------------------------------------
(* DELETE /me/keys/:key_id. *)
Revoke ==
  /\ \E u \in Users : Revocable(u, 1)
  /\ RevokeKey(1)
  /\ UNCHANGED <<vars, serving, late>>

(* requireApiKey before its query: a header without a key is refused. *)
Present(r) ==
  /\ phase[r] = "new"
  /\ \/ Reach(r, "check")
     \/ Answer(r, 401) /\ UNCHANGED row
  /\ late' = IF keys[1].live THEN late ELSE late \cup {r}
  /\ UNCHANGED <<vars, keys>>

(* mutant: revoked_at IS NULL is forgotten *)
Admits_revoked == TRUE
(* the WHERE of the query *)
Admits == keys[1].live

CheckKey(r) ==
  /\ phase[r] = "check"
  /\ \/ Admits /\ Reach(r, "found")
     \/ ~ Admits /\ Answer(r, 401) /\ UNCHANGED row
     \/ Answer(r, 503) /\ UNCHANGED row
  /\ UNCHANGED <<vars, keys, late>>

(* next(): the limiter begins. *)
Enter(r) ==
  /\ phase[r] = "found"
  /\ Arrive(r)
  /\ Reach(r, "limiter")
  /\ UNCHANGED <<keys, late>>

(* A body that is no list of numbers has been charged, as one number. *)
Unreadable(r) == Kind[r] = "bulk" => Cost[r] = 1

(* The limiter answers 429, or calls next() and the query or the body is   *)
(* checked.                                                                *)
Limited(r) ==
  /\ phase[r] = "limiter"
  /\ \/ st[r] = "denied" /\ Answer(r, 429) /\ UNCHANGED row
     \/ st[r] \in {"passed", "bypassed"} /\ Reach(r, "lookup")
     \/ st[r] \in {"passed", "bypassed"} /\ Unreadable(r) /\ Answer(r, 400) /\ UNCHANGED row
  /\ UNCHANGED <<vars, keys, late>>

(* writeUsageLog, which nobody waits for *)
Log(r, c) == row' = [row EXCEPT ![r] = [at |-> "sent", status |-> c]]

(* mutant: the 503 leaves before writeUsageLog *)
LookedUp_unlogged(r) ==
  /\ phase[r] = "lookup" /\ Kind[r] = "single"
  /\ \/ Answer(r, 200) /\ Log(r, 200)
     \/ Answer(r, 503) /\ UNCHANGED row
  /\ UNCHANGED <<vars, keys, late>>

(* lookup() is done: a number it cannot read is a valid answer, a failing  *)
(* database is 503.                                                        *)
LookedUp(r) ==
  /\ phase[r] = "lookup" /\ Kind[r] = "single"
  /\ \E c \in {200, 503} : Answer(r, c) /\ Log(r, c)
  /\ UNCHANGED <<vars, keys, late>>

(* Promise.all: a lookup that failed is an entry of the list. *)
AllLookedUp(r) ==
  /\ phase[r] = "lookup" /\ Kind[r] = "bulk"
  /\ Answer(r, 200) /\ Log(r, 200)
  /\ UNCHANGED <<vars, keys, late>>

(* The INSERT succeeds or its error is swallowed. *)
WriteUsageLog(r) ==
  /\ row[r].at = "sent"
  /\ \E o \in {"written", "lost"} : row' = [row EXCEPT ![r].at = o]
  /\ UNCHANGED <<vars, keys, phase, code, late>>
-----------------------------------------------------------------------------
(* Redis, the clock, and the limiter on its way. *)
Around ==
  /\ \/ Tick \/ RedisDown \/ Reconnect
     \/ \E r \in Requests : Proceed(r) \/ Eval(r) \/ EvalAnswerLost(r) \/ EvalError(r)
  /\ UNCHANGED <<keys, serving, late>>

RequestsNext ==
  \/ Around
  \/ Revoke
  \/ \E r \in Requests :
       \/ Present(r) \/ CheckKey(r) \/ Enter(r) \/ Limited(r)
       \/ LookedUp(r) \/ AllLookedUp(r) \/ WriteUsageLog(r)

RequestsSpec == RequestsInit /\ [][RequestsNext]_requestVars
-----------------------------------------------------------------------------
(* Once the revocation of a key was answered, a request that comes with it *)
(* is refused and leaves no trace: not in the limiter, which its owner's   *)
(* other requests share, nor in usage_log.  Those that were on their way   *)
(* are served (apiKey.ts 61-83).                                           *)
RevokedKeyUseless ==
  \A r \in late :
    /\ code[r] \in {None, 401, 503}
    /\ st[r] = "idle" /\ Units(r) \cap zset = {}
    /\ row[r] = NoRow

(* The usage the dashboards count is what was served: a row, sent, written *)
(* or lost, for each request whose lookup ran, with the status its caller  *)
(* was given, and none for one that was refused at any stage.  A 503 is    *)
(* both: a lookup that failed, which has its row, or a key that could not  *)
(* be looked for, before any limiter, which has none (lookup.ts 49-64,     *)
(* 116-128, apiKey.ts 72-83).                                              *)
UsageIsWhatWasServed ==
  \A r \in Requests :
    /\ row[r].at # "none" => row[r].status = code[r]
    /\ code[r] = 200 => row[r].at # "none"
    /\ code[r] \in {400, 401, 429} => row[r].at = "none"
    /\ code[r] = 503 => (row[r].at # "none" <=> st[r] # "idle")

(* What was served under the counter of a day or a month, but for requests *)
(* Redis failed on, is in that counter as long as Redis keeps it: each     *)
(* number of each list once (rateLimit.ts 150-171, 278-303).               *)
Served(w, x) ==
  UNION {Units(r) : r \in {q \in Requests : code[q] = 200 /\ st[q] = "passed" /\ slot[q][w] = x}}
ServedIsCharged ==
  \A w \in {"day", "month"} : \A x \in Indexes(w) :
    Cardinality(Served(w, x)) <= cnt[w][x].n \/ Expired(cnt[w][x].exp)
=============================================================================
