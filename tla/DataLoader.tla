----------------------------- MODULE DataLoader ------------------------------
(***************************************************************************)
(* The data loader: apps/data-loader/src/pipeline.ts, run by its index.ts  *)
(* for each source in turn, and the PostgreSQL tables it writes.  A loader *)
(* is one run of the container; an operator may start several.             *)
(*                                                                         *)
(* Prefixes of different sources never meet: a source has a country of its *)
(* own, the table is unique in country and prefix, and a source lists each *)
(* prefix once (sources/*.ts collect them in a Map).  A load is the pair   *)
(* of loader and source, and stands for the content of the rows it read.   *)
(*                                                                         *)
(* PostgreSQL is modelled at READ COMMITTED, the default the pool leaves   *)
(* alone.  A statement sees what was committed when it began; one that     *)
(* touches a row another transaction wrote waits for that transaction.     *)
(* DELETE then takes the rows it had seen, as they are by now; INSERT ON   *)
(* CONFLICT updates whatever row has the key by now.  Two inserts that     *)
(* wait for each other end in an error for one, which is QueryFails.  A    *)
(* connection that breaks while the loader holds it ends the process (no   *)
(* one listens for the client's 'error' event), as a crash does: Die.      *)
(***************************************************************************)
EXTENDS Naturals, FiniteSets, Sequences

CONSTANTS
  Loaders,       \* runs of the loader
  NumSources,    \* sources, numbered in the order of main
  FilePrefixes,  \* source -> prefixes its file may hold
  MinRows,       \* source -> least number of rows accepted, 0 for a stub
  Batch          \* BATCH_SIZE

Sources == 1 .. NumSources
Loads == Loaders \X Sources
Keys == UNION {{s} \X FilePrefixes[s] : s \in Sources}

ASSUME SourcesAssumption == NumSources \in Nat \ {0}
ASSUME PrefixesAssumption == \A s \in Sources : IsFiniteSet(FilePrefixes[s])
ASSUME MinRowsAssumption == MinRows \in [Sources -> Nat]
ASSUME BatchAssumption == Batch \in Nat \ {0}

VARIABLES
  pc,       \* loader -> the await it is at
  src,      \* loader -> the source it works on
  rows,     \* load -> prefixes source.load() returned
  left,     \* loader -> rows not staged yet
  staging,  \* loader -> keys in prefix_staging of its session
  victims,  \* loader -> rows its DELETE saw
  gone,     \* loader -> rows its open transaction deleted
  table,    \* prefix_allocations, as committed
  loads,    \* load -> status of its data_loads row
  history,  \* source -> loads whose swap committed, oldest first
  met       \* loads whose transaction was open beside another of the same source

vars == <<pc, src, rows, left, staging, victims, gone, table, loads, history, met>>

Steps == {"connect", "started", "load", "reject", "empty", "truncate", "stage", "begin",
          "deleting", "insert", "commit", "record", "rollback", "fail", "over"}

\* A row: born is the load that inserted it, load the one that wrote it last.
Row == [key : Keys, born : Loads, load : Loads]

Live(s) == {r \in table : r.key[1] = s}
load(l) == <<l, src[l]>>
Listed(L) == {L[2]} \X rows[L]
Done(L) == \E n \in DOMAIN history[L[2]] : history[L[2]][n] = L
Newest(s) == history[s][Len(history[s])]

TypeOK ==
  /\ pc \in [Loaders -> Steps]
  /\ src \in [Loaders -> Sources]
  /\ rows \in [Loads -> SUBSET UNION {FilePrefixes[s] : s \in Sources}]
  /\ \A L \in Loads : rows[L] \subseteq FilePrefixes[L[2]]
  /\ left \in [Loaders -> SUBSET Keys]
  /\ staging \in [Loaders -> SUBSET Keys]
  /\ victims \in [Loaders -> SUBSET Row]
  /\ gone \in [Loaders -> SUBSET Row]
  /\ table \subseteq Row
  /\ \A r, q \in table : r.key = q.key => r = q
  /\ loads \in [Loads -> {"none", "started", "success", "failed"}]
  /\ history \in [Sources -> Seq(Loads)]
  /\ met \subseteq Loads

Init ==
  /\ pc = [l \in Loaders |-> "connect"]
  /\ src = [l \in Loaders |-> 1]
  /\ rows = [L \in Loads |-> {}]
  /\ left = [l \in Loaders |-> {}]
  /\ staging = [l \in Loaders |-> {}]
  /\ victims = [l \in Loaders |-> {}]
  /\ gone = [l \in Loaders |-> {}]
  /\ table = {}
  /\ loads = [L \in Loads |-> "none"]
  /\ history = [s \in Sources |-> <<>>]
  /\ met = {}

\* Rows, and transactions on source s, another loader has not committed yet.
Held(l) == {r.key : r \in gone[l]} \cup (IF pc[l] = "commit" THEN staging[l] ELSE {})
Swapping(s) == {m \in Loaders : src[m] = s /\ pc[m] \in {"deleting", "insert", "commit"}}

Goto(l, p) == pc' = [pc EXCEPT ![l] = p]

\* loadSource returns; runPipeline takes the next source.
NextSource(l) ==
  IF src[l] < NumSources
    THEN Goto(l, "connect") /\ src' = [src EXCEPT ![l] = @ + 1]
    ELSE Goto(l, "over") /\ UNCHANGED src

\* UPDATE data_loads SET status = st WHERE id = ...
Record(l, st) ==
  loads' = [loads EXCEPT ![load(l)] = IF @ = "none" THEN @ ELSE st]

-----------------------------------------------------------------------------
(* Fetching *)

\* The client is on loan, or the pool has none: then main rejects and exits.
Connect(l) ==
  /\ pc[l] = "connect"
  /\ \/ Goto(l, "started")
     \/ Goto(l, "over")
  /\ UNCHANGED <<src, rows, left, staging, victims, gone, table, loads, history, met>>

Started(l) ==
  /\ pc[l] = "started"
  /\ loads' = [loads EXCEPT ![load(l)] = "started"]
  /\ Goto(l, "load")
  /\ UNCHANGED <<src, rows, left, staging, victims, gone, table, history, met>>

(* mutant: a source without a minimum may swap an empty file in *)
Load_noEmpty(l, R) ==
  /\ pc[l] = "load"
  /\ rows' = [rows EXCEPT ![load(l)] = R]
  /\ Goto(l, IF Cardinality(R) < MinRows[src[l]] THEN "reject" ELSE "truncate")
  /\ left' = [left EXCEPT ![l] = {src[l]} \X R]
  /\ UNCHANGED <<src, staging, victims, gone, table, loads, history, met>>

\* source.load() answers with the prefixes R.
Load(l, R) ==
  /\ pc[l] = "load"
  /\ rows' = [rows EXCEPT ![load(l)] = R]
  /\ Goto(l, IF Cardinality(R) < MinRows[src[l]] THEN "reject"
             ELSE IF R = {} THEN "empty" ELSE "truncate")
  /\ left' = [left EXCEPT ![l] = {src[l]} \X R]
  /\ UNCHANGED <<src, staging, victims, gone, table, loads, history, met>>

LoadFails(l) ==
  /\ pc[l] = "load"
  /\ Goto(l, "reject")
  /\ UNCHANGED <<src, rows, left, staging, victims, gone, table, loads, history, met>>

Reject(l) ==
  /\ pc[l] = "reject"
  /\ Record(l, "failed")
  /\ NextSource(l)
  /\ UNCHANGED <<rows, left, staging, victims, gone, table, history, met>>

Empty(l) ==
  /\ pc[l] = "empty"
  /\ Record(l, "success")
  /\ NextSource(l)
  /\ UNCHANGED <<rows, left, staging, victims, gone, table, history, met>>

-----------------------------------------------------------------------------
(* Staging *)

(* mutant: without TRUNCATE *)
Truncate_no(l) ==
  /\ pc[l] = "truncate"
  /\ Goto(l, "stage")
  /\ UNCHANGED <<src, rows, left, staging, victims, gone, table, loads, history, met>>

\* CREATE TEMP TABLE IF NOT EXISTS, TRUNCATE: the session is the last load's.
Truncate(l) ==
  /\ pc[l] = "truncate"
  /\ staging' = [staging EXCEPT ![l] = {}]
  /\ Goto(l, "stage")
  /\ UNCHANGED <<src, rows, left, victims, gone, table, loads, history, met>>

Stage(l) ==
  /\ pc[l] = "stage"
  /\ \E B \in SUBSET left[l] :
       /\ Cardinality(B) = Batch \/ (B = left[l] /\ Cardinality(B) < Batch)
       /\ staging' = [staging EXCEPT ![l] = @ \cup B]
       /\ left' = [left EXCEPT ![l] = @ \ B]
  /\ Goto(l, IF left'[l] = {} THEN "begin" ELSE "stage")
  /\ UNCHANGED <<src, rows, victims, gone, table, loads, history, met>>

-----------------------------------------------------------------------------
(* The swap *)

\* BEGIN, then DELETE ... WHERE source = ... takes its snapshot.
Delete(l) ==
  /\ pc[l] = "begin"
  /\ victims' = [victims EXCEPT ![l] = Live(src[l])]
  /\ met' = IF Swapping(src[l]) = {} THEN met
            ELSE met \cup {load(l)} \cup {load(m) : m \in Swapping(src[l])}
  /\ Goto(l, "deleting")
  /\ UNCHANGED <<src, rows, left, staging, gone, table, loads, history>>

\* It deletes those rows, unless the transaction it waited for did.
Deleted(l) ==
  /\ pc[l] = "deleting"
  /\ \A m \in Loaders \ {l} : \A v \in victims[l] : v.key \notin Held(m)
  /\ gone' = [gone EXCEPT ![l] = @ \cup
       {r \in table : \E v \in victims[l] : v.key = r.key /\ v.born = r.born}]
  /\ victims' = [victims EXCEPT ![l] = {}]
  /\ Goto(l, "insert")
  /\ UNCHANGED <<src, rows, left, staging, table, loads, history, met>>

(* mutant: COMMIT is forgotten *)
Insert_noCommit(l) ==
  /\ pc[l] = "insert"
  /\ Goto(l, "record")
  /\ UNCHANGED <<src, rows, left, staging, victims, gone, table, loads, history, met>>

\* INSERT ... SELECT FROM prefix_staging ON CONFLICT DO UPDATE.
Insert(l) ==
  /\ pc[l] = "insert"
  /\ \A m \in Loaders \ {l} : staging[l] \cap Held(m) = {}
  /\ Goto(l, "commit")
  /\ UNCHANGED <<src, rows, left, staging, victims, gone, table, loads, history, met>>

\* The row with key k that l's transaction leaves where it found the rows T.
Written(l, k, T) ==
  [key |-> k, load |-> <<l, k[1]>>,
   born |-> IF \E r \in T : r.key = k THEN (CHOOSE r \in T : r.key = k).born ELSE <<l, k[1]>>]

(* mutant: a plain INSERT, and no unique constraint to refuse it *)
Swapped_plain(l, T) == T \cup {Written(l, k, T) : k \in staging[l]}

(* mutant: ON CONFLICT DO NOTHING *)
Swapped_doNothing(l, T) ==
  T \cup {Written(l, k, T) : k \in staging[l] \ {r.key : r \in T}}

Swapped(l, T) ==
  {r \in T : r.key \notin staging[l]} \cup {Written(l, k, T) : k \in staging[l]}

Commit(l) ==
  /\ pc[l] = "commit"
  /\ table' = Swapped(l, table \ gone[l])
  /\ gone' = [gone EXCEPT ![l] = {}]
  /\ history' = [history EXCEPT ![src[l]] = Append(@, load(l))]
  /\ Goto(l, "record")
  /\ UNCHANGED <<src, rows, left, staging, victims, loads, met>>

RecordSuccess(l) ==
  /\ pc[l] = "record"
  /\ Record(l, "success")
  /\ NextSource(l)
  /\ UNCHANGED <<rows, left, staging, victims, gone, table, history, met>>

-----------------------------------------------------------------------------
(* Failures *)

\* A statement rejects; inside the transaction it undoes it.
QueryFails(l) ==
  /\ pc[l] \notin {"connect", "load", "rollback", "fail", "over"}
  /\ Goto(l, "rollback")
  /\ left' = [left EXCEPT ![l] = {}]
  /\ UNCHANGED <<src, rows, staging, victims, gone, table, loads, history, met>>

Rollback(l) ==
  /\ pc[l] = "rollback"
  /\ gone' = [gone EXCEPT ![l] = {}]
  /\ victims' = [victims EXCEPT ![l] = {}]
  /\ Goto(l, "fail")
  /\ UNCHANGED <<src, rows, left, staging, table, loads, history, met>>

\* The UPDATE to failed, whose own failure is swallowed.
Fail(l) ==
  /\ pc[l] = "fail"
  /\ Record(l, "failed") \/ UNCHANGED loads
  /\ NextSource(l)
  /\ UNCHANGED <<rows, left, staging, victims, gone, table, history, met>>

Die(l) ==
  /\ pc[l] # "over"
  /\ Goto(l, "over")
  /\ gone' = [gone EXCEPT ![l] = {}]
  /\ victims' = [victims EXCEPT ![l] = {}]
  /\ staging' = [staging EXCEPT ![l] = {}]
  /\ left' = [left EXCEPT ![l] = {}]
  /\ UNCHANGED <<src, rows, table, loads, history, met>>

Next ==
  \E l \in Loaders :
    \/ Connect(l) \/ Started(l) \/ LoadFails(l) \/ Reject(l) \/ Empty(l)
    \/ \E R \in SUBSET FilePrefixes[src[l]] : Load(l, R)
    \/ Truncate(l) \/ Stage(l)
    \/ Delete(l) \/ Deleted(l) \/ Insert(l) \/ Commit(l) \/ RecordSuccess(l)
    \/ QueryFails(l) \/ Rollback(l) \/ Fail(l) \/ Die(l)

Spec == Init /\ [][Next]_vars

-----------------------------------------------------------------------------
(* Properties *)

\* Readers see whole loads: what is live of a source is what the last committed
\* load of it listed, each row as that load wrote it, and nothing before the first
\* (pipeline.ts 106: "Atomic swap").  The exception are loads that swapped beside
\* another of the same source: the second DELETE does not see what the first
\* transaction inserts.
WholeLoad ==
  \A s \in Sources :
    IF history[s] = <<>> THEN Live(s) = {}
    ELSE Newest(s) \notin met =>
           /\ {r.key : r \in Live(s)} = Listed(Newest(s))
           /\ \A r \in Live(s) : r.load = Newest(s)

\* Overlapping swaps lose nothing: every row of the load that committed last is
\* live with its content, whatever other loads of the source did beside it.
LastWins ==
  \A s \in Sources : history[s] # <<>> =>
    \A k \in Listed(Newest(s)) : \E r \in Live(s) : r.key = k /\ r.load = Newest(s)

\* A load recorded as a success with rows did swap them in; one whose row was never
\* inserted did not (data-sources.md 115: "Record outcome in data_loads").
SuccessCommitted ==
  \A L \in Loads :
    /\ loads[L] = "success" /\ rows[L] # {} => Done(L)
    /\ loads[L] = "none" => ~ Done(L)

-----------------------------------------------------------------------------
(* Inductive invariant *)

\* What is staged, and still to be, is what the load read.
Staged ==
  \A l \in Loaders :
    /\ pc[l] = "truncate" => left[l] = Listed(load(l))
    /\ pc[l] = "stage" => staging[l] \cup left[l] = Listed(load(l))
    /\ pc[l] \in {"begin", "deleting", "insert", "commit"} => staging[l] = Listed(load(l))

\* A transaction touches rows of its source, and if it met no other it deletes all
\* of them.
Seen ==
  \A l \in Loaders :
    /\ pc[l] \notin {"insert", "commit", "rollback"} => gone[l] = {}
    /\ pc[l] = "deleting" => \A r \in victims[l] : r.key[1] = src[l]
    /\ pc[l] \in {"insert", "commit"} => \A r \in gone[l] : r.key[1] = src[l]
    /\ load(l) \notin met =>
         /\ pc[l] = "deleting" => victims[l] = Live(src[l])
         /\ pc[l] \in {"insert", "commit"} => gone[l] = Live(src[l])

\* Two open transactions of one source have met.
Met ==
  \A l, m \in Loaders :
    l # m /\ l \in Swapping(src[m]) /\ m \in Swapping(src[m]) => load(l) \in met

Histories == \A s \in Sources : \A n \in DOMAIN history[s] : history[s][n][2] = s

\* A load enters the history when it commits, with its data_loads row inserted.
Recorded ==
  \A l \in Loaders :
    /\ \A s \in Sources : s > src[l] => ~ Done(<<l, s>>)
    /\ pc[l] \in {"connect", "started", "load"} => ~ Done(load(l))
    /\ pc[l] = "load" => loads[load(l)] = "started"
    /\ pc[l] = "empty" => rows[load(l)] = {}
    /\ pc[l] \in {"truncate", "stage", "begin", "deleting", "insert", "commit"} =>
         loads[load(l)] # "none"
    /\ pc[l] = "record" => Done(load(l))

\* What a loader did not come to is untouched; what it is at has no outcome yet, and is
\* published by its commit only.
Ahead ==
  \A l \in Loaders :
    /\ \A s \in Sources : s > src[l] => loads[<<l, s>>] = "none" /\ rows[<<l, s>>] = {}
    /\ pc[l] \in {"connect", "started"} => loads[load(l)] = "none"
    /\ pc[l] \in {"connect", "started", "load"} => rows[load(l)] = {}
    /\ pc[l] \in {"truncate", "stage", "begin", "deleting", "insert", "commit"} =>
         rows[load(l)] # {} /\ ~ Done(load(l))
    /\ pc[l] # "over" => loads[load(l)] \in {"none", "started"}

IInv ==
  /\ TypeOK /\ Staged /\ Seen /\ Met /\ Histories /\ Recorded /\ Ahead
  /\ WholeLoad /\ LastWins /\ SuccessCommitted

-----------------------------------------------------------------------------
(* The abstract specification *)

\* Lookups and the operator see the tables change as PublishedTables says: a source at
\* once, by one load, whose outcome is told afterwards (pipeline.ts 17-149).
Readers == INSTANCE PublishedTables WITH
             content <- {<<r.key, r.load>> : r \in table},
             listed <- [L \in Loads |-> Listed(L)],
             outcome <- loads,
             published <- {L \in Loads : Done(L)},
             beside <- met
ReaderView == Readers!Spec
=============================================================================
