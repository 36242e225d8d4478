-------------------------- MODULE DataLoaderProofs ---------------------------
(***************************************************************************)
(* Proofs about DataLoader, for any loaders, sources, files and batches.   *)
(***************************************************************************)
EXTENDS DataLoader, TLAPS

LEMMA KeyFacts ==
  /\ \A k \in Keys : k[1] \in Sources /\ k[2] \in FilePrefixes[k[1]] /\ k = <<k[1], k[2]>>
  /\ \A s \in Sources : \A x \in FilePrefixes[s] : <<s, x>> \in Keys /\ <<s, x>>[1] = s
BY DEF Keys

LEMMA LoadFacts ==
  ASSUME TypeOK
  PROVE  /\ \A l \in Loaders : /\ load(l) \in Loads /\ load(l)[1] = l
                               /\ load(l)[2] = src[l] /\ src[l] \in Sources
         /\ \A L \in Loads : L[1] \in Loaders /\ L[2] \in Sources /\ L = <<L[1], L[2]>>
         /\ \A l \in Loaders, s \in Sources : <<l, s>> \in Loads
BY DEF TypeOK, Loads, load

LEMMA ListedKeys ==
  ASSUME TypeOK, NEW L \in Loads
  PROVE  Listed(L) \subseteq Keys /\ \A k \in Listed(L) : k[1] = L[2]
<1>1. L[2] \in Sources /\ rows[L] \subseteq FilePrefixes[L[2]]
  BY LoadFacts DEF TypeOK
<1> QED
  BY <1>1, KeyFacts DEF Listed

-----------------------------------------------------------------------------
(* What a swap makes of a table *)

LEMMA SwapResult ==
  ASSUME TypeOK, NEW l \in Loaders, NEW T, T \subseteq table
  PROVE  /\ Swapped(l, T) \subseteq Row
         /\ \A r, q \in Swapped(l, T) : r.key = q.key => r = q
         /\ \A r \in T : r.key \notin staging[l] => r \in Swapped(l, T)
         /\ \A r \in Swapped(l, T) : r.key \notin staging[l] => r \in T
         /\ \A r \in Swapped(l, T) : r.key \in staging[l] => r.load = <<l, r.key[1]>>
         /\ \A k \in staging[l] :
              \E r \in Swapped(l, T) : r.key = k /\ r.load = <<l, k[1]>>
<1>1. /\ staging[l] \subseteq Keys
      /\ T \subseteq Row
      /\ \A r, q \in T : r.key = q.key => r = q
  BY DEF TypeOK
<1>2. ASSUME NEW k \in staging[l]
      PROVE  /\ Written(l, k, T) \in Row
             /\ Written(l, k, T).key = k
             /\ Written(l, k, T).load = <<l, k[1]>>
  <2>1. <<l, k[1]>> \in Loads
    BY <1>1, KeyFacts, LoadFacts
  <2>2. CASE \E r \in T : r.key = k
    <3>1. (CHOOSE r \in T : r.key = k) \in T
      BY <2>2
    <3>2. (CHOOSE r \in T : r.key = k).born \in Loads
      BY <3>1, <1>1 DEF Row
    <3> QED
      BY <2>1, <2>2, <3>2, <1>1 DEF Written, Row
  <2>3. CASE ~ \E r \in T : r.key = k
    BY <2>1, <2>3, <1>1 DEF Written, Row
  <2> QED
    BY <2>2, <2>3
<1>3. \A r \in Swapped(l, T) :
        (r \in T /\ r.key \notin staging[l]) \/ \E k \in staging[l] : r = Written(l, k, T)
  BY DEF Swapped
<1>4. \A k \in staging[l] : Written(l, k, T) \in Swapped(l, T)
  BY DEF Swapped
<1>5. \A r \in T : r.key \notin staging[l] => r \in Swapped(l, T)
  BY DEF Swapped
<1> QED
  BY <1>1, <1>2, <1>3, <1>4, <1>5

-----------------------------------------------------------------------------
(* Types *)

LEMMA TypeStep == TypeOK /\ [Next]_vars => TypeOK'
<1> SUFFICES ASSUME TypeOK, [Next]_vars PROVE TypeOK'
  OBVIOUS
<1> USE SourcesAssumption, LoadFacts DEF TypeOK, Steps
<1>Next. ASSUME NEW l \in Loaders, NextSource(l)
         PROVE  pc' \in [Loaders -> Steps] /\ src' \in [Loaders -> Sources]
  <2>1. src[l] \in Sources /\ (src[l] < NumSources => src[l] + 1 \in Sources)
    BY DEF Sources
  <2>2. CASE src[l] < NumSources
    <3>1. /\ pc' = [pc EXCEPT ![l] = "connect"]
          /\ src' = [src EXCEPT ![l] = src[l] + 1]
      BY <1>Next, <2>2 DEF NextSource, Goto
    <3> QED
      BY <2>1, <2>2, <3>1
  <2>3. CASE ~ (src[l] < NumSources)
    BY <1>Next, <2>3 DEF NextSource, Goto
  <2> QED
    BY <2>2, <2>3
<1>Record. ASSUME NEW l \in Loaders, NEW st \in {"success", "failed"}, Record(l, st)
           PROVE  loads' \in [Loads -> {"none", "started", "success", "failed"}]
  BY <1>Record DEF Record
<1>Connect. ASSUME NEW l \in Loaders, Connect(l) PROVE TypeOK'
  BY <1>Connect DEF Connect, Goto
<1>Started. ASSUME NEW l \in Loaders, Started(l) PROVE TypeOK'
  BY <1>Started DEF Started, Goto
<1>Load. ASSUME NEW l \in Loaders, NEW R \in SUBSET FilePrefixes[src[l]], Load(l, R) PROVE TypeOK'
  <2>1. {src[l]} \X R \subseteq Keys
    BY KeyFacts
  <2>2. R \subseteq UNION {FilePrefixes[s] : s \in Sources}
    OBVIOUS
  <2>3. left' \in [Loaders -> SUBSET Keys]
    BY <1>Load, <2>1 DEF Load
  <2>4. /\ rows' \in [Loads -> SUBSET UNION {FilePrefixes[s] : s \in Sources}]
        /\ \A L \in Loads : rows'[L] \subseteq FilePrefixes[L[2]]
    BY <1>Load, <2>2 DEF Load
  <2> QED
    BY <1>Load, <2>3, <2>4 DEF Load, Goto
<1>LoadFails. ASSUME NEW l \in Loaders, LoadFails(l) PROVE TypeOK'
  BY <1>LoadFails DEF LoadFails, Goto
<1>Reject. ASSUME NEW l \in Loaders, Reject(l) PROVE TypeOK'
  BY <1>Reject, <1>Next, <1>Record DEF Reject
<1>Empty. ASSUME NEW l \in Loaders, Empty(l) PROVE TypeOK'
  BY <1>Empty, <1>Next, <1>Record DEF Empty
<1>Truncate. ASSUME NEW l \in Loaders, Truncate(l) PROVE TypeOK'
  BY <1>Truncate DEF Truncate, Goto
<1>Stage. ASSUME NEW l \in Loaders, Stage(l) PROVE TypeOK'
  BY <1>Stage DEF Stage, Goto
<1>Delete. ASSUME NEW l \in Loaders, Delete(l) PROVE TypeOK'
  <2>1. Live(src[l]) \subseteq Row
    BY DEF Live
  <2>2. {load(m) : m \in Swapping(src[l])} \subseteq Loads
    BY DEF Swapping
  <2> QED
    BY <1>Delete, <2>1, <2>2 DEF Delete, Goto
<1>Deleted. ASSUME NEW l \in Loaders, Deleted(l) PROVE TypeOK'
  BY <1>Deleted DEF Deleted, Goto
<1>Insert. ASSUME NEW l \in Loaders, Insert(l) PROVE TypeOK'
  BY <1>Insert DEF Insert, Goto
<1>Commit. ASSUME NEW l \in Loaders, Commit(l) PROVE TypeOK'
  <2>1. table' \subseteq Row /\ \A r, q \in table' : r.key = q.key => r = q
    <3>1. table' = Swapped(l, table \ gone[l]) /\ table \ gone[l] \subseteq table
      BY <1>Commit DEF Commit
    <3>2. /\ Swapped(l, table \ gone[l]) \subseteq Row
          /\ \A r, q \in Swapped(l, table \ gone[l]) : r.key = q.key => r = q
      BY <3>1, SwapResult
    <3> QED
      BY <3>1, <3>2
  <2>2. history' \in [Sources -> Seq(Loads)]
    BY <1>Commit DEF Commit
  <2> QED
    BY <1>Commit, <2>1, <2>2 DEF Commit, Goto
<1>RecordSuccess. ASSUME NEW l \in Loaders, RecordSuccess(l) PROVE TypeOK'
  BY <1>RecordSuccess, <1>Next, <1>Record DEF RecordSuccess
<1>QueryFails. ASSUME NEW l \in Loaders, QueryFails(l) PROVE TypeOK'
  BY <1>QueryFails DEF QueryFails, Goto
<1>Rollback. ASSUME NEW l \in Loaders, Rollback(l) PROVE TypeOK'
  BY <1>Rollback DEF Rollback, Goto
<1>Fail. ASSUME NEW l \in Loaders, Fail(l) PROVE TypeOK'
  BY <1>Fail, <1>Next, <1>Record DEF Fail
<1>Die. ASSUME NEW l \in Loaders, Die(l) PROVE TypeOK'
  BY <1>Die DEF Die, Goto
<1>Stutter. ASSUME UNCHANGED vars PROVE TypeOK'
  BY <1>Stutter DEF vars
<1> QED
  BY <1>Connect, <1>Started, <1>Load, <1>LoadFails, <1>Reject, <1>Empty, <1>Truncate,
     <1>Stage, <1>Delete, <1>Deleted, <1>Insert, <1>Commit, <1>RecordSuccess,
     <1>QueryFails, <1>Rollback, <1>Fail, <1>Die, <1>Stutter DEF Next

-----------------------------------------------------------------------------
(* What a step of one loader leaves alone *)

Acts(l) ==
  \/ Connect(l) \/ Started(l) \/ LoadFails(l) \/ Reject(l) \/ Empty(l)
  \/ \E R \in SUBSET FilePrefixes[src[l]] : Load(l, R)
  \/ Truncate(l) \/ Stage(l)
  \/ Delete(l) \/ Deleted(l) \/ Insert(l) \/ Commit(l) \/ RecordSuccess(l)
  \/ QueryFails(l) \/ Rollback(l) \/ Fail(l) \/ Die(l)

LEMMA NextActs == Next => \E l \in Loaders : Acts(l)
BY DEF Next, Acts

LEMMA Others ==
  ASSUME TypeOK, NEW l \in Loaders, Acts(l), NEW m \in Loaders, m # l
  PROVE  /\ pc'[m] = pc[m] /\ src'[m] = src[m] /\ load(m)' = load(m)
         /\ left'[m] = left[m] /\ staging'[m] = staging[m]
         /\ victims'[m] = victims[m] /\ gone'[m] = gone[m]
         /\ rows'[load(m)] = rows[load(m)] /\ loads'[load(m)] = loads[load(m)]
<1>1. /\ pc'[m] = pc[m] /\ src'[m] = src[m]
      /\ left'[m] = left[m] /\ staging'[m] = staging[m]
      /\ victims'[m] = victims[m] /\ gone'[m] = gone[m]
  BY DEF Acts, TypeOK, NextSource, Goto, Connect, Started, LoadFails, Reject, Empty, Load,
         Truncate, Stage, Delete, Deleted, Insert, Commit, RecordSuccess, QueryFails,
         Rollback, Fail, Die
<1>2. load(m) # load(l)
  BY DEF load
<1>3. rows'[load(m)] = rows[load(m)]
  BY <1>2, LoadFacts
  DEF Acts, TypeOK, Connect, Started, LoadFails, Reject, Empty, Load,
      Truncate, Stage, Delete, Deleted, Insert, Commit, RecordSuccess, QueryFails,
      Rollback, Fail, Die
<1>4. loads'[load(m)] = loads[load(m)]
  BY <1>2, LoadFacts
  DEF Acts, TypeOK, Record, Connect, Started, LoadFails, Reject, Empty, Load,
      Truncate, Stage, Delete, Deleted, Insert, Commit, RecordSuccess, QueryFails,
      Rollback, Fail, Die
<1> QED
  BY <1>1, <1>3, <1>4 DEF load

\* Only Commit writes the table and the history, only Load the rows, only Delete met.
LEMMA Shared ==
  ASSUME NEW l \in Loaders, Acts(l)
  PROVE  /\ Commit(l) \/ UNCHANGED <<table, history>>
         /\ Delete(l) \/ UNCHANGED met
         /\ (\E R \in SUBSET FilePrefixes[src[l]] : Load(l, R)) \/ UNCHANGED rows
BY DEF Acts, Connect, Started, LoadFails, Reject, Empty, Load,
       Truncate, Stage, Delete, Deleted, Insert, Commit, RecordSuccess, QueryFails,
       Rollback, Fail, Die

\* Going on to the next source ends every phase the invariants speak of.
Idle == {"connect", "over"}

LEMMA OwnIdle ==
  ASSUME TypeOK, NEW l \in Loaders, NextSource(l)
  PROVE  pc'[l] \in Idle
BY DEF TypeOK, NextSource, Goto, Idle

-----------------------------------------------------------------------------
(* Staging *)

StagedBy(l) ==
  /\ pc[l] = "truncate" => left[l] = Listed(load(l))
  /\ pc[l] = "stage" => staging[l] \cup left[l] = Listed(load(l))
  /\ pc[l] \in {"begin", "deleting", "insert", "commit"} => staging[l] = Listed(load(l))

LEMMA StagedStep == TypeOK /\ Staged /\ [Next]_vars => Staged'
<1> SUFFICES ASSUME TypeOK, Staged, Next PROVE Staged'
  BY DEF vars, Staged, Listed, load
<1>0. \A m \in Loaders : StagedBy(m)
  BY DEF Staged, StagedBy
<1>1. PICK l \in Loaders : Acts(l)
  BY NextActs
<1>2. ASSUME NEW m \in Loaders, m # l PROVE StagedBy(m)'
  <2>1. Listed(load(m))' = Listed(load(m))
    BY <1>1, <1>2, Others DEF Listed
  <2> QED
    BY <1>0, <1>1, <1>2, <2>1, Others DEF StagedBy
<1>3. StagedBy(l)'
  <2> USE DEF TypeOK, StagedBy
  <2>1. CASE Reject(l) \/ Empty(l) \/ RecordSuccess(l) \/ Fail(l)
    BY <2>1, OwnIdle DEF Reject, Empty, RecordSuccess, Fail, Idle
  <2>2. CASE Connect(l) \/ Started(l) \/ LoadFails(l) \/ QueryFails(l) \/ Rollback(l) \/ Die(l)
    BY <2>2 DEF Connect, Started, LoadFails, QueryFails, Rollback, Die, Goto
  <2>3. ASSUME NEW R \in SUBSET FilePrefixes[src[l]], Load(l, R) PROVE StagedBy(l)'
    <3>1. left'[l] = {src[l]} \X R /\ rows'[load(l)] = R /\ load(l)' = load(l)
      BY <2>3, LoadFacts DEF Load, load
    <3>2. pc'[l] \in {"reject", "empty", "truncate"}
      BY <2>3 DEF Load, Goto
    <3>3. Listed(load(l))' = {src[l]} \X R
      BY <3>1, LoadFacts DEF Listed
    <3> QED
      BY <3>1, <3>2, <3>3
  <2>4. CASE Truncate(l)
    <3>1. Listed(load(l))' = Listed(load(l))
      BY <2>4 DEF Truncate, Listed, load
    <3> QED
      BY <2>4, <1>0, <3>1 DEF Truncate, Goto
  <2>5. CASE Stage(l)
    <3>1. Listed(load(l))' = Listed(load(l))
      BY <2>5 DEF Stage, Listed, load
    <3>2. PICK B \in SUBSET left[l] : staging'[l] = staging[l] \cup B /\ left'[l] = left[l] \ B
      BY <2>5 DEF Stage
    <3>3. pc[l] = "stage" /\ pc'[l] = IF left'[l] = {} THEN "begin" ELSE "stage"
      BY <2>5 DEF Stage, Goto
    <3>4. staging'[l] \cup left'[l] = Listed(load(l))
      BY <1>0, <3>2, <3>3
    <3> QED
      BY <3>1, <3>3, <3>4
  <2>6. CASE Delete(l) \/ Deleted(l) \/ Insert(l) \/ Commit(l)
    <3>1. Listed(load(l))' = Listed(load(l))
      BY <2>6 DEF Delete, Deleted, Insert, Commit, Listed, load
    <3> QED
      BY <2>6, <1>0, <3>1 DEF Delete, Deleted, Insert, Commit, Goto
  <2> QED
    BY <1>1, <2>1, <2>2, <2>3, <2>4, <2>5, <2>6 DEF Acts
<1> QED
  BY <1>2, <1>3 DEF Staged, StagedBy

-----------------------------------------------------------------------------
(* Transactions that meet *)

InSwap(l) == pc[l] \in {"deleting", "insert", "commit"}

\* Only Delete opens a transaction; while it is open its source stays.
LEMMA OpensSwap ==
  ASSUME TypeOK, NEW l \in Loaders, Acts(l), InSwap(l)'
  PROVE  Delete(l) \/ (InSwap(l) /\ src'[l] = src[l])
<1> USE DEF TypeOK, InSwap
<1>1. CASE Reject(l) \/ Empty(l) \/ RecordSuccess(l) \/ Fail(l)
  BY <1>1, OwnIdle DEF Reject, Empty, RecordSuccess, Fail, Idle
<1>2. CASE \E R \in SUBSET FilePrefixes[src[l]] : Load(l, R)
  BY <1>2 DEF Load, Goto
<1>3. CASE Connect(l) \/ Started(l) \/ LoadFails(l) \/ QueryFails(l) \/ Rollback(l) \/ Die(l)
           \/ Truncate(l) \/ Stage(l)
  BY <1>3 DEF Connect, Started, LoadFails, QueryFails, Rollback, Die, Truncate, Stage, Goto
<1>4. CASE Deleted(l) \/ Insert(l) \/ Commit(l)
  BY <1>4 DEF Deleted, Insert, Commit, Goto
<1> QED
  BY <1>1, <1>2, <1>3, <1>4 DEF Acts

\* Met, in terms of a pair of loaders.
Meets(l, m) == l # m /\ src[l] = src[m] /\ InSwap(l) /\ InSwap(m) => load(l) \in met

LEMMA MetMeets == Met <=> \A l, m \in Loaders : Meets(l, m)
BY DEF Met, Meets, InSwap, Swapping

LEMMA MetStep == TypeOK /\ Met /\ [Next]_vars => Met'
<1> SUFFICES ASSUME TypeOK, Met, Next PROVE Met'
  BY DEF vars, Met, Swapping, load
<1>1. PICK a \in Loaders : Acts(a)
  BY NextActs
<1>2. met \subseteq met'
  BY <1>1, Shared DEF Delete
<1>3. ASSUME NEW l \in Loaders, NEW m \in Loaders, l # m, src'[l] = src'[m],
             InSwap(l)', InSwap(m)'
      PROVE  load(l)' \in met'
  <2>1. CASE Delete(a) /\ (a = l \/ a = m)
    <3>1. /\ src'[l] = src[l] /\ src'[m] = src[m]
          /\ met' = IF Swapping(src[a]) = {} THEN met
                    ELSE met \cup {load(a)} \cup {load(x) : x \in Swapping(src[a])}
      BY <2>1 DEF Delete
    <3>2. load(l)' = load(l)
      BY <3>1 DEF load
    <3>3. CASE a = l
      <4>1. m \in Swapping(src[a])
        BY <1>1, <1>3, <3>1, <3>3, Others DEF Swapping, InSwap
      <4> QED
        BY <3>1, <3>2, <3>3, <4>1
    <3>4. CASE a = m
      <4>1. l \in Swapping(src[a])
        BY <1>1, <1>3, <3>1, <3>4, Others DEF Swapping, InSwap
      <4> QED
        BY <3>1, <3>2, <4>1
    <3> QED
      BY <2>1, <3>3, <3>4
  <2>2. CASE ~ (Delete(a) /\ (a = l \/ a = m))
    <3>1. InSwap(l) /\ src'[l] = src[l]
      BY <1>1, <1>3, <2>2, OpensSwap, Others DEF InSwap
    <3>2. InSwap(m) /\ src'[m] = src[m]
      BY <1>1, <1>3, <2>2, OpensSwap, Others DEF InSwap
    <3>3. load(l) \in met
      BY <1>3, <3>1, <3>2, MetMeets DEF Meets
    <3> QED
      BY <1>2, <3>1, <3>3 DEF load
  <2> QED
    BY <2>1, <2>2
<1> QED
  BY <1>3 DEF Met, Swapping, InSwap

-----------------------------------------------------------------------------
(* The commit *)

SeenBy(l) ==
  /\ pc[l] \notin {"insert", "commit", "rollback"} => gone[l] = {}
  /\ pc[l] = "deleting" => \A r \in victims[l] : r.key[1] = src[l]
  /\ pc[l] \in {"insert", "commit"} => \A r \in gone[l] : r.key[1] = src[l]
  /\ load(l) \notin met =>
       /\ pc[l] = "deleting" => victims[l] = Live(src[l])
       /\ pc[l] \in {"insert", "commit"} => gone[l] = Live(src[l])

\* The rows a commit leaves: those it had not deleted and does not write, and its own.
LEMMA CommitRows ==
  ASSUME TypeOK, Staged, Seen, NEW l \in Loaders, Commit(l)
  PROVE  /\ load(l) \in Loads /\ src[l] \in Sources /\ load(l)[2] = src[l]
         /\ staging[l] = Listed(load(l)) /\ \A k \in staging[l] : k[1] = src[l]
         /\ \A r \in gone[l] : r.key[1] = src[l]
         /\ load(l) \notin met => gone[l] = Live(src[l])
         /\ \A r \in table : r \notin gone[l] /\ r.key \notin staging[l] => r \in table'
         /\ \A r \in table' : r.key \notin staging[l] => r \in table /\ r \notin gone[l]
         /\ \A r \in table' : r.key \in staging[l] => r.load = load(l)
         /\ \A k \in staging[l] : \E r \in table' : r.key = k /\ r.load = load(l)
<1> DEFINE T == table \ gone[l]
<1>1. pc[l] = "commit" /\ table' = Swapped(l, T)
  BY DEF Commit
<1>2. /\ load(l) \in Loads /\ src[l] \in Sources /\ load(l) = <<l, src[l]>>
      /\ load(l)[2] = src[l]
  BY LoadFacts DEF load
<1>3. staging[l] = Listed(load(l)) /\ \A k \in staging[l] : k[1] = src[l]
  <2>1. staging[l] = Listed(load(l))
    BY <1>1 DEF Staged
  <2> QED
    BY <2>1, <1>2, ListedKeys
<1>4. /\ \A r \in gone[l] : r.key[1] = src[l]
      /\ load(l) \notin met => gone[l] = Live(src[l])
  BY <1>1 DEF Seen
<1>5. T \subseteq table /\ \A r \in table : r \notin gone[l] <=> r \in T
  OBVIOUS
<1>6. \A r \in T : r \in table /\ r \notin gone[l]
  OBVIOUS
<1> HIDE DEF T
<1>7. /\ \A r \in T : r.key \notin staging[l] => r \in table'
      /\ \A r \in table' : r.key \notin staging[l] => r \in T
      /\ \A r \in table' : r.key \in staging[l] => r.load = <<l, r.key[1]>>
      /\ \A k \in staging[l] : \E r \in table' : r.key = k /\ r.load = <<l, k[1]>>
  BY <1>1, <1>5, SwapResult
<1>8. /\ \A r \in table' : r.key \in staging[l] => r.load = load(l)
      /\ \A k \in staging[l] : \E r \in table' : r.key = k /\ r.load = load(l)
  BY <1>2, <1>3, <1>7
<1> QED
  BY <1>2, <1>3, <1>4, <1>5, <1>6, <1>7, <1>8

LEMMA CommitResult ==
  ASSUME TypeOK, Staged, Seen, NEW l \in Loaders, Commit(l)
  PROVE  /\ \A s \in Sources : s # src[l] => Live(s)' = Live(s) /\ history'[s] = history[s]
         /\ history'[src[l]] = Append(history[src[l]], load(l))
         /\ \A k \in Listed(load(l)) : \E r \in Live(src[l])' : r.key = k /\ r.load = load(l)
         /\ load(l) \notin met =>
              \A r \in Live(src[l])' : r.key \in Listed(load(l)) /\ r.load = load(l)
<1>1. /\ src'[l] = src[l]
      /\ history' = [history EXCEPT ![src[l]] = Append(history[src[l]], load(l))]
  BY DEF Commit
<1>2. ASSUME NEW s \in Sources, s # src[l]
      PROVE  Live(s)' = Live(s) /\ history'[s] = history[s]
  <2>1. \A r \in table : r.key[1] = s => r \in table'
    BY <1>2, CommitRows
  <2>2. \A r \in table' : r.key[1] = s => r \in table
    BY <1>2, CommitRows
  <2> QED
    BY <2>1, <2>2, <1>1, <1>2 DEF Live, TypeOK
<1>3. ASSUME NEW k \in Listed(load(l))
      PROVE  \E r \in Live(src[l])' : r.key = k /\ r.load = load(l)
  <2>1. PICK r \in table' : r.key = k /\ r.load = load(l) /\ k[1] = src[l]
    BY CommitRows
  <2>2. r \in {q \in table' : q.key[1] = src'[l]}
    BY <1>1, <2>1
  <2> QED
    BY <2>1, <2>2 DEF Live
<1>4. ASSUME load(l) \notin met, NEW r \in Live(src[l])'
      PROVE  r.key \in Listed(load(l)) /\ r.load = load(l)
  <2>1. r \in table' /\ r.key[1] = src[l]
    BY <1>1 DEF Live
  <2>2. r.key \in staging[l]
    <3> SUFFICES ASSUME r.key \notin staging[l] PROVE FALSE
      OBVIOUS
    <3>1. r \in table /\ r \notin gone[l]
      BY <2>1, CommitRows
    <3>2. r \in Live(src[l])
      BY <2>1, <3>1 DEF Live
    <3> QED
      BY <1>4, <3>1, <3>2, CommitRows
  <2> QED
    BY <2>1, <2>2, CommitRows
<1>5. history'[src[l]] = Append(history[src[l]], load(l))
  BY <1>1, LoadFacts DEF TypeOK
<1> QED
  BY <1>2, <1>3, <1>4, <1>5

LEMMA SeenStep == TypeOK /\ Staged /\ Seen /\ Met /\ [Next]_vars => Seen'
<1> SUFFICES ASSUME TypeOK, Staged, Seen, Met, [Next]_vars PROVE Seen'
  OBVIOUS
<1>0. \A m \in Loaders : SeenBy(m)
  BY DEF Seen, SeenBy
<1>stutter. ASSUME UNCHANGED vars, NEW m \in Loaders PROVE SeenBy(m)'
  BY <1>0, <1>stutter DEF vars, SeenBy, Live, load
<1> SUFFICES ASSUME Next PROVE Seen'
  BY <1>stutter DEF Seen, SeenBy
<1>1. PICK l \in Loaders : Acts(l)
  BY NextActs
<1>met. met \subseteq met'
  BY <1>1, Shared DEF Delete
<1>2. ASSUME NEW m \in Loaders, m # l PROVE SeenBy(m)'
  <2>1. /\ pc'[m] = pc[m] /\ src'[m] = src[m] /\ load(m)' = load(m)
        /\ victims'[m] = victims[m] /\ gone'[m] = gone[m]
    BY <1>1, <1>2, Others
  <2>2. ASSUME InSwap(m), load(m)' \notin met' PROVE Live(src[m])' = Live(src[m])
    <3>1. CASE UNCHANGED table
      BY <2>1, <3>1 DEF Live
    <3>2. CASE Commit(l)
      <4>1. src[m] # src[l]
        BY <1>2, <1>met, <2>1, <2>2, <3>2, MetMeets DEF Meets, InSwap, Commit
      <4> QED
        BY <2>1, <3>2, <4>1, CommitResult, LoadFacts DEF Live
    <3> QED
      BY <1>1, <3>1, <3>2, Shared
  <2>3. Live(src[m])' = {r \in table' : r.key[1] = src'[m]}
    BY DEF Live
  <2>4. pc[m] \in {"deleting", "insert", "commit"} /\ load(m)' \notin met' =>
          {r \in table' : r.key[1] = src'[m]} = Live(src[m])
    BY <2>2, <2>3 DEF InSwap
  <2> QED
    BY <1>0, <1>met, <2>1, <2>4 DEF SeenBy, Live
<1>3. SeenBy(l)'
  <2> USE DEF TypeOK, SeenBy
  <2>1. CASE Reject(l) \/ Empty(l) \/ RecordSuccess(l) \/ Fail(l)
    <3>1. pc'[l] \in Idle /\ gone'[l] = gone[l] /\ gone[l] = {}
      BY <2>1, <1>0, OwnIdle DEF Reject, Empty, RecordSuccess, Fail
    <3> QED
      BY <3>1 DEF Idle
  <2>2. CASE Connect(l) \/ Started(l) \/ LoadFails(l) \/ Truncate(l) \/ Stage(l)
             \/ \E R \in SUBSET FilePrefixes[src[l]] : Load(l, R)
    <3>1. gone'[l] = gone[l] /\ gone[l] = {}
      BY <2>2, <1>0 DEF Connect, Started, LoadFails, Truncate, Stage, Load
    <3>2. pc'[l] \notin {"deleting", "insert", "commit"}
      BY <2>2 DEF Connect, Started, LoadFails, Truncate, Stage, Load, Goto
    <3> QED
      BY <3>1, <3>2
  <2>3. CASE QueryFails(l)
    BY <2>3, <1>0 DEF QueryFails, Goto
  <2>4. CASE Rollback(l) \/ Die(l)
    BY <2>4, <1>0 DEF Rollback, Die, Goto
  <2>5. CASE Delete(l)
    <3>1. /\ pc'[l] = "deleting" /\ victims'[l] = Live(src[l]) /\ gone'[l] = gone[l]
          /\ gone[l] = {} /\ src'[l] = src[l] /\ Live(src[l])' = Live(src[l])
      BY <2>5, <1>0 DEF Delete, Goto, Live
    <3> QED
      BY <3>1 DEF Live
  <2>6. CASE Deleted(l)
    <3>1. /\ pc[l] = "deleting" /\ pc'[l] = "insert" /\ src'[l] = src[l] /\ met' = met
          /\ gone[l] = {} /\ load(l)' = load(l) /\ Live(src[l])' = Live(src[l])
      BY <2>6, <1>0 DEF Deleted, Goto, Live, load
    <3>2. gone'[l] = {r \in table : \E v \in victims[l] : v.key = r.key /\ v.born = r.born}
      BY <2>6, <3>1 DEF Deleted
    <3>3. \A r \in gone'[l] : r.key[1] = src[l]
      BY <1>0, <3>1, <3>2
    <3>4. load(l) \notin met => gone'[l] = Live(src[l])
      <4> SUFFICES ASSUME load(l) \notin met PROVE gone'[l] = Live(src[l])
        OBVIOUS
      <4>1. victims[l] = Live(src[l])
        BY <1>0, <3>1
      <4>2. Live(src[l]) \subseteq table
        BY DEF Live
      <4>3. gone'[l] \subseteq Live(src[l])
        BY <3>2, <3>3 DEF Live
      <4>4. Live(src[l]) \subseteq gone'[l]
        BY <3>2, <4>1, <4>2
      <4> QED
        BY <4>3, <4>4
    <3> QED
      BY <3>1, <3>3, <3>4
  <2>7. CASE Insert(l)
    BY <2>7, <1>0 DEF Insert, Goto, Live, load
  <2>8. CASE Commit(l)
    BY <2>8 DEF Commit, Goto
  <2> QED
    BY <1>1, <2>1, <2>2, <2>3, <2>4, <2>5, <2>6, <2>7, <2>8 DEF Acts
<1> QED
  BY <1>2, <1>3 DEF Seen, SeenBy

-----------------------------------------------------------------------------
(* The history and data_loads *)

LEMMA HistoryStep ==
  ASSUME TypeOK, NEW l \in Loaders, Acts(l)
  PROVE  \/ history' = history
         \/ /\ Commit(l) /\ src[l] \in Sources /\ load(l) \in Loads
            /\ history'[src[l]] = Append(history[src[l]], load(l))
            /\ \A s \in Sources : s # src[l] => history'[s] = history[s]
<1>1. CASE Commit(l)
  <2>1. src[l] \in Sources /\ load(l) \in Loads
    BY LoadFacts
  <2>2. history' = [history EXCEPT ![src[l]] = Append(history[src[l]], load(l))]
    BY <1>1 DEF Commit
  <2>3. history \in [Sources -> Seq(Loads)]
    BY DEF TypeOK
  <2> QED
    BY <1>1, <2>1, <2>2, <2>3
<1>2. CASE UNCHANGED <<table, history>>
  BY <1>2
<1> QED
  BY <1>1, <1>2, Shared

LEMMA AppendFacts ==
  ASSUME NEW S, NEW h \in Seq(S), NEW x \in S
  PROVE  /\ Append(h, x) # <<>>
         /\ Append(h, x)[Len(Append(h, x))] = x
         /\ \A y : (\E n \in DOMAIN Append(h, x) : Append(h, x)[n] = y)
                     <=> (\E n \in DOMAIN h : h[n] = y) \/ y = x
<1>1. Len(h) \in Nat /\ Len(Append(h, x)) = Len(h) + 1 /\ DOMAIN h = 1 .. Len(h)
      /\ DOMAIN Append(h, x) = 1 .. Len(h) + 1
  OBVIOUS
<1>2. Append(h, x)[Len(h) + 1] = x /\ \A n \in 1 .. Len(h) : Append(h, x)[n] = h[n]
  OBVIOUS
<1> QED
  BY <1>1, <1>2

LEMMA DoneStep ==
  ASSUME TypeOK, NEW l \in Loaders, Acts(l), NEW L \in Loads
  PROVE  Done(L)' <=> Done(L) \/ (Commit(l) /\ L = load(l))
<1>1. CASE history' = history
  <2>1. ASSUME Commit(l) PROVE FALSE
    <3>1. history[src[l]] = Append(history[src[l]], load(l)) /\ history[src[l]] \in Seq(Loads)
      BY <1>1, <2>1, LoadFacts DEF Commit, TypeOK
    <3>2. Len(Append(history[src[l]], load(l))) = Len(history[src[l]]) + 1
          /\ Len(history[src[l]]) \in Nat
      BY <3>1
    <3> QED
      BY <3>1, <3>2
  <2> QED
    BY <1>1, <2>1 DEF Done
<1>2. CASE history' # history
  <2>1. /\ Commit(l) /\ src[l] \in Sources /\ load(l) \in Loads /\ load(l)[2] = src[l]
        /\ history'[src[l]] = Append(history[src[l]], load(l))
        /\ \A s \in Sources : s # src[l] => history'[s] = history[s]
        /\ history[src[l]] \in Seq(Loads)
    BY <1>2, HistoryStep, LoadFacts DEF TypeOK
  <2>2. CASE L[2] = src[l]
    <3> DEFINE h == history[src[l]]
               x == load(l)
    <3>0. h \in Seq(Loads) /\ x \in Loads
      BY <2>1
    <3>1. history'[L[2]] = Append(h, x) /\ history[L[2]] = h
      BY <2>1, <2>2
    <3>2. Done(L) <=> \E n \in DOMAIN h : h[n] = L
      BY <3>1 DEF Done
    <3>3. Done(L)' <=> \E n \in DOMAIN Append(h, x) : Append(h, x)[n] = L
      BY <3>1 DEF Done
    <3>4. Done(L)' <=> Done(L) \/ L = x
      <4> HIDE DEF h, x
      <4> QED
        BY <3>0, <3>2, <3>3, AppendFacts
    <3> QED
      BY <2>1, <3>4
  <2>3. CASE L[2] # src[l]
    BY <2>1, <2>3, LoadFacts DEF Done
  <2> QED
    BY <2>2, <2>3
<1> QED
  BY <1>1, <1>2

LEMMA HistoriesStep == TypeOK /\ Histories /\ [Next]_vars => Histories'
<1> SUFFICES ASSUME TypeOK, Histories, Next PROVE Histories'
  BY DEF vars, Histories
<1>1. PICK l \in Loaders : Acts(l)
  BY NextActs
<1>2. CASE history' = history
  BY <1>2 DEF Histories
<1>3. CASE history' # history
  <2>1. /\ load(l) \in Loads /\ load(l)[2] = src[l]
        /\ history'[src[l]] = Append(history[src[l]], load(l))
        /\ \A s \in Sources : s # src[l] => history'[s] = history[s]
        /\ history[src[l]] \in Seq(Loads)
    BY <1>1, <1>3, HistoryStep, LoadFacts DEF TypeOK
  <2> SUFFICES ASSUME NEW s \in Sources, NEW n \in DOMAIN history'[s]
               PROVE  history'[s][n][2] = s
    BY DEF Histories
  <2>2. CASE s # src[l]
    BY <2>1, <2>2 DEF Histories
  <2>3. CASE s = src[l]
    <3> DEFINE h == history[src[l]]
    <3>1. \E m \in DOMAIN Append(h, load(l)) : Append(h, load(l))[m] = history'[s][n]
      BY <2>1, <2>3
    <3>2. (\E m \in DOMAIN h : h[m] = history'[s][n]) \/ history'[s][n] = load(l)
      BY <2>1, <3>1, AppendFacts
    <3> QED
      BY <2>1, <2>3, <3>2 DEF Histories
  <2> QED
    BY <2>2, <2>3
<1> QED
  BY <1>2, <1>3

RecordedBy(l) ==
  /\ \A s \in Sources : s > src[l] => ~ Done(<<l, s>>)
  /\ pc[l] \in {"connect", "started", "load"} => ~ Done(load(l))
  /\ pc[l] = "load" => loads[load(l)] = "started"
  /\ pc[l] = "empty" => rows[load(l)] = {}
  /\ pc[l] \in {"truncate", "stage", "begin", "deleting", "insert", "commit"} =>
       loads[load(l)] # "none"
  /\ pc[l] = "record" => Done(load(l))

\* The next source is one no load of this loader has swapped.
LEMMA RecordedNext ==
  ASSUME TypeOK, NEW l \in Loaders, Acts(l), RecordedBy(l), NextSource(l), UNCHANGED history
  PROVE  RecordedBy(l)'
<1>1. \A L \in Loads : Done(L)' <=> Done(L)
  BY DEF Done
<1>2. \A s \in Sources : <<l, s>> \in Loads
  BY LoadFacts
<1>3. src[l] \in Nat /\ Sources \subseteq Nat
  BY SourcesAssumption, LoadFacts DEF Sources
<1>4. CASE src[l] < NumSources
  <2>1. pc'[l] = "connect" /\ src'[l] = src[l] + 1
    BY <1>4 DEF NextSource, Goto, TypeOK
  <2>2. load(l)' = <<l, src[l] + 1>> /\ src[l] + 1 \in Sources
    BY <1>3, <1>4, <2>1, SourcesAssumption, LoadFacts DEF load, Sources
  <2>3. \A s \in Sources : s > src[l] => ~ Done(<<l, s>>)'
    BY <1>1, <1>2 DEF RecordedBy
  <2>4. ~ Done(load(l))'
    <3>1. ~ Done(<<l, src[l] + 1>>)
      BY <1>3, <2>2 DEF RecordedBy
    <3> QED
      BY <2>2, <3>1 DEF Done
  <2>5. \A s \in Sources : s > src'[l] => ~ Done(<<l, s>>)'
    BY <1>3, <2>1, <2>3
  <2> QED
    BY <2>1, <2>4, <2>5 DEF RecordedBy
<1>5. CASE ~ (src[l] < NumSources)
  <2>1. pc'[l] = "over" /\ src'[l] = src[l]
    BY <1>5 DEF NextSource, Goto, TypeOK
  <2>2. \A s \in Sources : s > src[l] => ~ Done(<<l, s>>)'
    BY <1>1, <1>2 DEF RecordedBy
  <2> QED
    BY <2>1, <2>2 DEF RecordedBy
<1> QED
  BY <1>4, <1>5

LEMMA RecordedStep == TypeOK /\ Recorded /\ [Next]_vars => Recorded'
<1> SUFFICES ASSUME TypeOK, Recorded, [Next]_vars PROVE Recorded'
  OBVIOUS
<1>0. \A m \in Loaders : RecordedBy(m)
  BY DEF Recorded, RecordedBy
<1>stutter. ASSUME UNCHANGED vars, NEW m \in Loaders PROVE RecordedBy(m)'
  BY <1>0, <1>stutter DEF vars, RecordedBy, Done, load
<1> SUFFICES ASSUME Next PROVE Recorded'
  BY <1>stutter DEF Recorded, RecordedBy
<1>1. PICK l \in Loaders : Acts(l)
  BY NextActs
<1>2. ASSUME NEW m \in Loaders, m # l PROVE RecordedBy(m)'
  <2>1. /\ pc'[m] = pc[m] /\ src'[m] = src[m] /\ load(m)' = load(m)
        /\ rows'[load(m)] = rows[load(m)] /\ loads'[load(m)] = loads[load(m)]
    BY <1>1, <1>2, Others
  <2>2. \A s \in Sources : Done(<<m, s>>)' <=> Done(<<m, s>>)
    BY <1>1, <1>2, DoneStep, LoadFacts DEF load
  <2>3. Done(load(m))' <=> Done(load(m))
    <3>1. load(m) \in Loads /\ load(m) # load(l)
      BY <1>2, LoadFacts DEF load
    <3>2. ASSUME NEW L \in Loads, L = load(m) PROVE Done(L)' <=> Done(L)
      BY <1>1, <3>1, <3>2, DoneStep
    <3> QED
      BY <2>1, <3>1, <3>2 DEF Done
  <2> QED
    BY <1>0, <2>1, <2>2, <2>3 DEF RecordedBy
<1>3. RecordedBy(l)'
  <2>1. CASE Reject(l) \/ Empty(l) \/ RecordSuccess(l) \/ Fail(l)
    BY <1>0, <1>1, <2>1, RecordedNext DEF Reject, Empty, RecordSuccess, Fail
  <2>2. CASE ~ (Reject(l) \/ Empty(l) \/ RecordSuccess(l) \/ Fail(l))
    <3>1. src'[l] = src[l] /\ load(l)' = load(l)
      BY <1>1, <2>2 DEF Acts, load, Connect, Started, LoadFails, Load, Truncate, Stage, Delete,
         Deleted, Insert, Commit, QueryFails, Rollback, Die
    <3>2. \A s \in Sources : s > src[l] => ~ Done(<<l, s>>)'
      <4> SUFFICES ASSUME NEW s \in Sources, s > src[l] PROVE ~ Done(<<l, s>>)'
        OBVIOUS
      <4>1. <<l, s>> # load(l) /\ <<l, s>> \in Loads
        BY SourcesAssumption, LoadFacts DEF load, Sources
      <4> QED
        BY <1>0, <1>1, <4>1, DoneStep DEF RecordedBy
    <3>3. Done(load(l))' <=> Done(load(l)) \/ Commit(l)
      <4>1. ASSUME NEW L \in Loads, L = load(l) PROVE Done(L)' <=> Done(L) \/ Commit(l)
        BY <1>1, <4>1, DoneStep
      <4> QED
        BY <3>1, <4>1, LoadFacts DEF Done
    <3> USE <1>0, <3>1, <3>2, <3>3 DEF RecordedBy, TypeOK
    <3>4. CASE Connect(l) \/ LoadFails(l) \/ QueryFails(l) \/ Rollback(l) \/ Die(l)
      <4>1. ~ Commit(l)
        BY <3>4 DEF Commit, Connect, LoadFails, QueryFails, Rollback, Die, Goto
      <4> QED
        BY <3>4, <4>1 DEF Connect, LoadFails, QueryFails, Rollback, Die, Goto
    <3>5. CASE Started(l)
      <4>1. ~ Commit(l) /\ loads'[load(l)] = "started" /\ pc'[l] = "load" /\ pc[l] = "started"
        BY <3>5, LoadFacts DEF Commit, Started, Goto
      <4> QED
        BY <4>1
    <3>6. ASSUME NEW R \in SUBSET FilePrefixes[src[l]], Load(l, R) PROVE RecordedBy(l)'
      <4>1. /\ pc[l] = "load" /\ pc'[l] \in {"reject", "empty", "truncate"}
            /\ pc'[l] = "empty" => R = {}
            /\ rows'[load(l)] = R /\ loads' = loads
        BY <3>6, LoadFacts DEF Load, Goto
      <4> QED
        BY <4>1
    <3>7. CASE Truncate(l) \/ Stage(l) \/ Delete(l) \/ Deleted(l) \/ Insert(l)
      <4>1. /\ pc[l] \in {"truncate", "stage", "begin", "deleting", "insert"}
            /\ pc'[l] \in {"stage", "begin", "deleting", "insert", "commit"}
            /\ loads' = loads
        BY <3>7 DEF Truncate, Stage, Delete, Deleted, Insert, Goto
      <4> QED
        BY <4>1
    <3>8. CASE Commit(l)
      BY <3>8 DEF Commit, Goto
    <3> QED
      BY <1>1, <2>2, <3>4, <3>5, <3>6, <3>7, <3>8 DEF Acts
  <2> QED
    BY <2>1, <2>2
<1> QED
  BY <1>2, <1>3 DEF Recorded, RecordedBy

-----------------------------------------------------------------------------
(* What is ahead of a loader *)

AheadBy(l) ==
  /\ \A s \in Sources : s > src[l] => loads[<<l, s>>] = "none" /\ rows[<<l, s>>] = {}
  /\ pc[l] \in {"connect", "started"} => loads[load(l)] = "none"
  /\ pc[l] \in {"connect", "started", "load"} => rows[load(l)] = {}
  /\ pc[l] \in {"truncate", "stage", "begin", "deleting", "insert", "commit"} =>
       rows[load(l)] # {} /\ ~ Done(load(l))
  /\ pc[l] # "over" => loads[load(l)] \in {"none", "started"}

\* The next source is untouched.
LEMMA AheadNext ==
  ASSUME TypeOK, NEW l \in Loaders, AheadBy(l), NextSource(l), UNCHANGED rows,
         \A L \in Loads : L # load(l) => loads'[L] = loads[L]
  PROVE  AheadBy(l)'
<1>1. src[l] \in Nat /\ Sources \subseteq Nat /\ src[l] \in Sources
  BY SourcesAssumption, LoadFacts DEF Sources
<1>2. \A s \in Sources : s > src[l] => loads'[<<l, s>>] = "none" /\ rows'[<<l, s>>] = {}
  <2> SUFFICES ASSUME NEW s \in Sources, s > src[l]
               PROVE  loads'[<<l, s>>] = "none" /\ rows'[<<l, s>>] = {}
    OBVIOUS
  <2>1. <<l, s>> \in Loads /\ <<l, s>> # load(l)
    BY <1>1, LoadFacts DEF load
  <2> QED
    BY <2>1 DEF AheadBy
<1>3. CASE src[l] < NumSources
  <2>1. pc'[l] = "connect" /\ src'[l] = src[l] + 1
    BY <1>3 DEF NextSource, Goto, TypeOK
  <2>2. load(l)' = <<l, src[l] + 1>> /\ src[l] + 1 \in Sources /\ src[l] + 1 > src[l]
    BY <1>1, <1>3, <2>1, SourcesAssumption DEF load, Sources
  <2>3. loads'[load(l)'] = "none" /\ rows'[load(l)'] = {}
    BY <1>2, <2>2
  <2>4. \A s \in Sources : s > src'[l] => s > src[l]
    BY <1>1, <2>1
  <2> QED
    BY <1>2, <2>1, <2>3, <2>4 DEF AheadBy
<1>4. CASE ~ (src[l] < NumSources)
  <2>1. pc'[l] = "over" /\ src'[l] = src[l]
    BY <1>4 DEF NextSource, Goto, TypeOK
  <2> QED
    BY <1>2, <2>1 DEF AheadBy
<1> QED
  BY <1>3, <1>4

LEMMA AheadStep == TypeOK /\ Recorded /\ Ahead /\ [Next]_vars => Ahead'
<1> SUFFICES ASSUME TypeOK, Recorded, Ahead, [Next]_vars PROVE Ahead'
  OBVIOUS
<1>0. \A m \in Loaders : AheadBy(m)
  BY DEF Ahead, AheadBy
<1>stutter. ASSUME UNCHANGED vars, NEW m \in Loaders PROVE AheadBy(m)'
  BY <1>0, <1>stutter DEF vars, AheadBy, Done, load
<1> SUFFICES ASSUME Next PROVE Ahead'
  BY <1>stutter DEF Ahead, AheadBy
<1>1. PICK l \in Loaders : Acts(l)
  BY NextActs
<1>2. ASSUME NEW L \in Loads, L # load(l) PROVE rows'[L] = rows[L] /\ loads'[L] = loads[L]
  BY <1>1, <1>2, LoadFacts
  DEF TypeOK, Acts, Record, Connect, Started, LoadFails, Reject, Empty, Load, Truncate, Stage,
      Delete, Deleted, Insert, Commit, RecordSuccess, QueryFails, Rollback, Fail, Die
<1>3. ASSUME NEW m \in Loaders, m # l PROVE AheadBy(m)'
  <2>1. /\ pc'[m] = pc[m] /\ src'[m] = src[m] /\ load(m)' = load(m)
        /\ rows'[load(m)] = rows[load(m)] /\ loads'[load(m)] = loads[load(m)]
    BY <1>1, <1>3, Others
  <2>2. \A s \in Sources : rows'[<<m, s>>] = rows[<<m, s>>] /\ loads'[<<m, s>>] = loads[<<m, s>>]
    BY <1>2, <1>3, LoadFacts DEF load
  <2>3. Done(load(m))' <=> Done(load(m))
    <3>1. load(m) \in Loads /\ load(m) # load(l)
      BY <1>3, LoadFacts DEF load
    <3>2. ASSUME NEW L \in Loads, L = load(m) PROVE Done(L)' <=> Done(L)
      BY <1>1, <3>1, <3>2, DoneStep
    <3> QED
      BY <2>1, <3>1, <3>2 DEF Done
  <2> QED
    BY <1>0, <2>1, <2>2, <2>3 DEF AheadBy
<1>4. AheadBy(l)'
  <2>1. CASE Reject(l) \/ Empty(l) \/ RecordSuccess(l) \/ Fail(l)
    <3>1. NextSource(l) /\ UNCHANGED rows
      BY <2>1 DEF Reject, Empty, RecordSuccess, Fail
    <3> QED
      BY <1>0, <1>2, <3>1, AheadNext
  <2>2. CASE ~ (Reject(l) \/ Empty(l) \/ RecordSuccess(l) \/ Fail(l))
    <3>1. src'[l] = src[l] /\ load(l)' = load(l) /\ load(l) \in Loads
      BY <1>1, <2>2, LoadFacts DEF Acts, load, Connect, Started, LoadFails, Load, Truncate, Stage,
         Delete, Deleted, Insert, Commit, QueryFails, Rollback, Die
    <3>2. \A s \in Sources : s > src[l] => loads'[<<l, s>>] = "none" /\ rows'[<<l, s>>] = {}
      <4> SUFFICES ASSUME NEW s \in Sources, s > src[l]
                   PROVE  loads'[<<l, s>>] = "none" /\ rows'[<<l, s>>] = {}
        OBVIOUS
      <4>1. <<l, s>> # load(l) /\ <<l, s>> \in Loads
        BY SourcesAssumption, LoadFacts DEF load, Sources
      <4> QED
        BY <1>0, <1>2, <4>1 DEF AheadBy
    <3>3. Done(load(l))' <=> Done(load(l)) \/ Commit(l)
      <4>1. ASSUME NEW L \in Loads, L = load(l) PROVE Done(L)' <=> Done(L) \/ Commit(l)
        BY <1>1, <4>1, DoneStep
      <4> QED
        BY <3>1, <4>1, LoadFacts DEF Done
    <3>4. RecordedBy(l)
      BY DEF Recorded, RecordedBy
    <3> USE <1>0, <3>1, <3>2, <3>3 DEF AheadBy, TypeOK
    <3>5. CASE Connect(l) \/ LoadFails(l) \/ QueryFails(l) \/ Rollback(l) \/ Die(l)
      <4>1. /\ pc'[l] \in {"over", "reject", "rollback", "fail"} \/ (pc[l] = "connect" /\ pc'[l] = "started")
            /\ rows' = rows /\ loads' = loads /\ pc[l] # "over"
        BY <3>5 DEF Connect, LoadFails, QueryFails, Rollback, Die, Goto
      <4> QED
        BY <4>1
    <3>6. CASE Started(l)
      <4>1. pc[l] = "started" /\ loads'[load(l)] = "started" /\ pc'[l] = "load" /\ rows' = rows
        BY <3>6 DEF Started, Goto
      <4> QED
        BY <4>1
    <3>7. ASSUME NEW R \in SUBSET FilePrefixes[src[l]], Load(l, R) PROVE AheadBy(l)'
      <4>1. /\ pc[l] = "load" /\ pc'[l] \in {"reject", "empty", "truncate"}
            /\ pc'[l] = "truncate" => R # {}
            /\ rows'[load(l)] = R /\ loads' = loads
        BY <3>7 DEF Load, Goto
      <4>2. ~ Done(load(l))'
        BY <3>4, <3>7, <4>1 DEF RecordedBy, Commit
      <4> QED
        BY <4>1, <4>2
    <3>8. CASE Truncate(l) \/ Stage(l) \/ Delete(l) \/ Deleted(l) \/ Insert(l)
      <4>1. /\ pc[l] \in {"truncate", "stage", "begin", "deleting", "insert"}
            /\ pc'[l] \in {"stage", "begin", "deleting", "insert", "commit"}
            /\ loads' = loads /\ rows' = rows
        BY <3>8 DEF Truncate, Stage, Delete, Deleted, Insert, Goto
      <4>2. ~ Commit(l)
        BY <4>1 DEF Commit
      <4> QED
        BY <4>1, <4>2
    <3>9. CASE Commit(l)
      <4>1. pc[l] = "commit" /\ pc'[l] = "record" /\ loads' = loads /\ rows' = rows
        BY <3>9 DEF Commit, Goto
      <4> QED
        BY <4>1
    <3> QED
      BY <1>1, <2>2, <3>5, <3>6, <3>7, <3>8, <3>9 DEF Acts
  <2> QED
    BY <2>1, <2>2
<1> QED
  BY <1>3, <1>4 DEF Ahead, AheadBy

-----------------------------------------------------------------------------
(* Readers see whole loads *)

LEMMA LastDone ==
  ASSUME TypeOK, Histories, NEW s \in Sources, history[s] # <<>>
  PROVE  Newest(s) \in Loads /\ Newest(s)[2] = s /\ Done(Newest(s))
<1>1. history[s] \in Seq(Loads) /\ Len(history[s]) \in DOMAIN history[s]
  BY DEF TypeOK
<1>2. Newest(s) \in Loads /\ Newest(s)[2] = s
  BY <1>1 DEF Newest, Histories
<1> QED
  BY <1>1, <1>2 DEF Done, Newest

\* A step that is not the commit of source s leaves its last load and what that listed.
LEMMA SameLast ==
  ASSUME TypeOK, Staged, Seen, Histories, Recorded, NEW s \in Sources,
         NEW l \in Loaders, Acts(l), ~ (Commit(l) /\ s = src[l])
  PROVE  /\ history'[s] = history[s] /\ Newest(s)' = Newest(s) /\ Live(s)' = Live(s)
         /\ history[s] # <<>> => Listed(Newest(s))' = Listed(Newest(s))
<1>1. history'[s] = history[s] /\ Live(s)' = Live(s)
  <2>1. CASE Commit(l)
    BY <2>1, CommitResult
  <2>2. CASE UNCHANGED <<table, history>>
    BY <2>2 DEF Live
  <2> QED
    BY <2>1, <2>2, Shared
<1>2. Newest(s)' = Newest(s)
  BY <1>1 DEF Newest
<1>3. ASSUME history[s] # <<>> PROVE rows'[Newest(s)] = rows[Newest(s)]
  <2>1. CASE UNCHANGED rows
    BY <2>1
  <2>2. ASSUME NEW R \in SUBSET FilePrefixes[src[l]], Load(l, R)
        PROVE  rows'[Newest(s)] = rows[Newest(s)]
    <3>1. ~ Done(load(l))
      BY <2>2 DEF Load, Recorded
    <3>2. Newest(s) # load(l)
      BY <1>3, <3>1, LastDone
    <3> QED
      BY <1>3, <2>2, <3>2, LastDone, LoadFacts DEF Load, TypeOK
  <2> QED
    BY <2>1, <2>2, Shared
<1> QED
  BY <1>1, <1>2, <1>3 DEF Listed

\* The commit of source s makes its load the last, and what it staged what is listed.
LEMMA NewLast ==
  ASSUME TypeOK, Staged, Seen, NEW l \in Loaders, Commit(l), NEW s \in Sources, s = src[l]
  PROVE  /\ history'[s] # <<>> /\ Newest(s)' = load(l)
         /\ Listed(Newest(s))' = Listed(load(l))
<1>1. history[s] \in Seq(Loads) /\ load(l) \in Loads
  BY LoadFacts DEF TypeOK
<1>2. history'[s] = Append(history[s], load(l))
  BY CommitResult
<1>3. history'[s] # <<>> /\ Newest(s)' = load(l)
  BY <1>1, <1>2, AppendFacts DEF Newest
<1> QED
  BY <1>3 DEF Listed, Commit

LEMMA WholeStep ==
  TypeOK /\ Staged /\ Seen /\ Histories /\ Recorded /\ WholeLoad /\ [Next]_vars => WholeLoad'
<1> SUFFICES ASSUME TypeOK, Staged, Seen, Histories, Recorded, WholeLoad, Next
             PROVE  WholeLoad'
  BY DEF vars, WholeLoad, Live, Newest, Listed
<1>1. PICK l \in Loaders : Acts(l)
  BY NextActs
<1> SUFFICES ASSUME NEW s \in Sources
             PROVE  IF history'[s] = <<>> THEN Live(s)' = {}
                    ELSE Newest(s)' \notin met' =>
                           /\ {r.key : r \in Live(s)'} = Listed(Newest(s))'
                           /\ \A r \in Live(s)' : r.load = Newest(s)'
  BY DEF WholeLoad
<1>2. CASE Commit(l) /\ s = src[l]
  <2>1. history'[s] # <<>> /\ Newest(s)' = load(l) /\ Listed(Newest(s))' = Listed(load(l))
    BY <1>2, NewLast
  <2>2. met' = met
    BY <1>2 DEF Commit
  <2>0. Live(src[l])' = Live(s)'
    BY <1>2 DEF Live, Commit
  <2>3. \A k \in Listed(load(l)) : \E r \in Live(s)' : r.key = k
    BY <1>2, <2>0, CommitResult
  <2>4. load(l) \notin met =>
          \A r \in Live(s)' : r.key \in Listed(load(l)) /\ r.load = load(l)
    BY <1>2, CommitResult DEF Live, Commit
  <2> QED
    BY <2>1, <2>2, <2>3, <2>4
<1>3. CASE ~ (Commit(l) /\ s = src[l])
  <2>1. met \subseteq met'
    BY <1>1, Shared DEF Delete
  <2>2. /\ history'[s] = history[s] /\ Newest(s)' = Newest(s) /\ Live(s)' = Live(s)
        /\ history[s] # <<>> => Listed(Newest(s))' = Listed(Newest(s))
    BY <1>1, <1>3, SameLast
  <2> QED
    BY <2>1, <2>2 DEF WholeLoad
<1> QED
  BY <1>2, <1>3

LEMMA LastWinsStep ==
  TypeOK /\ Staged /\ Seen /\ Histories /\ Recorded /\ LastWins /\ [Next]_vars => LastWins'
<1> SUFFICES ASSUME TypeOK, Staged, Seen, Histories, Recorded, LastWins, Next
             PROVE  LastWins'
  BY DEF vars, LastWins, Live, Newest, Listed
<1>1. PICK l \in Loaders : Acts(l)
  BY NextActs
<1> SUFFICES ASSUME NEW s \in Sources, history'[s] # <<>>
             PROVE  \A k \in Listed(Newest(s))' : \E r \in Live(s)' : r.key = k /\ r.load = Newest(s)'
  BY DEF LastWins
<1>2. CASE Commit(l) /\ s = src[l]
  <2>1. Newest(s)' = load(l) /\ Listed(Newest(s))' = Listed(load(l))
    BY <1>2, NewLast
  <2>0. Live(src[l])' = Live(s)'
    BY <1>2 DEF Live, Commit
  <2>2. \A k \in Listed(load(l)) : \E r \in Live(s)' : r.key = k /\ r.load = load(l)
    BY <1>2, <2>0, CommitResult
  <2> QED
    BY <2>1, <2>2
<1>3. CASE ~ (Commit(l) /\ s = src[l])
  BY <1>1, <1>3, SameLast DEF LastWins
<1> QED
  BY <1>2, <1>3

-----------------------------------------------------------------------------
(* A success was committed *)

LEMMA SuccessStep ==
  TypeOK /\ Recorded /\ SuccessCommitted /\ [Next]_vars => SuccessCommitted'
<1> SUFFICES ASSUME TypeOK, Recorded, SuccessCommitted, Next PROVE SuccessCommitted'
  BY DEF vars, SuccessCommitted, Done
<1>1. PICK l \in Loaders : Acts(l)
  BY NextActs
<1> SUFFICES ASSUME NEW L \in Loads
             PROVE  /\ loads'[L] = "success" /\ rows'[L] # {} => Done(L)'
                    /\ loads'[L] = "none" => ~ Done(L)'
  BY DEF SuccessCommitted
<1>2. Done(L)' <=> Done(L) \/ (Commit(l) /\ L = load(l))
  BY <1>1, DoneStep
<1>3. /\ loads[L] = "success" /\ rows[L] # {} => Done(L)
      /\ loads[L] = "none" => ~ Done(L)
  BY DEF SuccessCommitted
<1> USE DEF TypeOK
<1>4. CASE L # load(l)
  <2>1. loads'[L] = loads[L] /\ rows'[L] = rows[L]
    BY <1>1, <1>4, LoadFacts
    DEF Acts, Record, Connect, Started, LoadFails, Reject, Empty, Load, Truncate, Stage, Delete,
        Deleted, Insert, Commit, RecordSuccess, QueryFails, Rollback, Fail, Die
  <2> QED
    BY <1>2, <1>3, <1>4, <2>1
<1>5. CASE L = load(l)
  <2>1. CASE Reject(l) \/ Fail(l)
    BY <1>2, <1>3, <1>5, <2>1 DEF Reject, Fail, Record, Commit
  <2>2. CASE Empty(l)
    <3>1. /\ pc[l] = "empty" /\ rows' = rows /\ rows[L] = {}
          /\ loads'[L] = IF loads[L] = "none" THEN "none" ELSE "success"
      BY <1>5, <2>2, LoadFacts DEF Empty, Record, Recorded
    <3>2. ~ Commit(l)
      BY <3>1 DEF Commit
    <3> QED
      BY <1>2, <1>3, <3>1, <3>2
  <2>3. CASE RecordSuccess(l)
    BY <1>2, <1>3, <1>5, <2>3 DEF RecordSuccess, Record, Recorded
  <2>4. CASE Started(l)
    BY <1>2, <1>3, <1>5, <2>4 DEF Started, Commit
  <2>5. ASSUME NEW R \in SUBSET FilePrefixes[src[l]], Load(l, R)
        PROVE  /\ loads'[L] = "success" /\ rows'[L] # {} => Done(L)'
               /\ loads'[L] = "none" => ~ Done(L)'
    <3>1. loads[L] = "started" /\ loads' = loads
      BY <1>5, <2>5 DEF Load, Recorded
    <3> QED
      BY <3>1
  <2>6. CASE Commit(l)
    <3>1. loads[L] # "none" /\ loads' = loads
      BY <1>5, <2>6 DEF Commit, Recorded
    <3> QED
      BY <1>2, <1>5, <2>6, <3>1
  <2>7. CASE Connect(l) \/ LoadFails(l) \/ Truncate(l) \/ Stage(l) \/ Delete(l) \/ Deleted(l)
             \/ Insert(l) \/ QueryFails(l) \/ Rollback(l) \/ Die(l)
    <3>1. UNCHANGED <<loads, rows, history>>
      BY <2>7 DEF Connect, LoadFails, Truncate, Stage, Delete, Deleted, Insert, QueryFails,
                  Rollback, Die
    <3>2. Done(L)' <=> Done(L)
      BY <3>1 DEF Done
    <3> QED
      BY <1>3, <3>1, <3>2
  <2> QED
    BY <1>1, <2>1, <2>2, <2>3, <2>4, <2>5, <2>6, <2>7 DEF Acts
<1> QED
  BY <1>4, <1>5

-----------------------------------------------------------------------------
(* The invariant *)

LEMMA InitIInv == Init => IInv
<1> SUFFICES ASSUME Init PROVE IInv
  OBVIOUS
<1>1. TypeOK
  BY SourcesAssumption DEF Init, TypeOK, Steps, Sources
<1>2. Staged /\ Seen /\ Met /\ Histories
  BY DEF Init, Staged, Seen, Met, Histories, Swapping
<1>3. \A L \in Loads : ~ Done(L)
  BY <1>1, LoadFacts DEF Init, Done
<1>4. Recorded /\ SuccessCommitted
  BY <1>1, <1>3, LoadFacts DEF Init, Recorded, SuccessCommitted
<1>5. WholeLoad /\ LastWins
  BY DEF Init, WholeLoad, LastWins, Live
<1>6. Ahead
  BY <1>1, LoadFacts DEF Init, Ahead
<1> QED
  BY <1>1, <1>2, <1>4, <1>5, <1>6 DEF IInv

\* Every reachable state satisfies the inductive invariant.
THEOREM Inductive == Spec => []IInv
<1>1. IInv /\ [Next]_vars => IInv'
  BY TypeStep, StagedStep, SeenStep, MetStep, HistoriesStep, RecordedStep,
     AheadStep, WholeStep, LastWinsStep, SuccessStep DEF IInv
<1> QED
  BY InitIInv, <1>1, PTL DEF Spec

\* What is live of a source is exactly what its last committed load listed, unless that
\* load swapped beside another of the source (pipeline.ts 106-126).
THEOREM Whole == Spec => []WholeLoad
<1>1. IInv => WholeLoad
  BY DEF IInv
<1> QED
  BY Inductive, <1>1, PTL

\* Whatever loads overlap, every row of the one that committed last is live with its
\* content.
THEOREM LatestLive == Spec => []LastWins
<1>1. IInv => LastWins
  BY DEF IInv
<1> QED
  BY Inductive, <1>1, PTL

\* A load with rows that data_loads calls a success was swapped in, and a swap has its
\* data_loads row (pipeline.ts 131-134).
THEOREM SuccessTrue == Spec => []SuccessCommitted
<1>1. IInv => SuccessCommitted
  BY DEF IInv
<1> QED
  BY Inductive, <1>1, PTL

\* The tables and data_loads have their types: however swaps overlap, a prefix has one
\* row at most among those live, and a load stages prefixes of its own source only.
THEOREM TypeCorrect == Spec => []TypeOK
<1>1. IInv => TypeOK
  BY DEF IInv
<1> QED
  BY Inductive, <1>1, PTL
-----------------------------------------------------------------------------
(* The readers' view *)

Shown == {<<r.key, r.load>> : r \in table}
Files == [L \in Loads |-> Listed(L)]
Committed == {L \in Loads : Done(L)}

LEMMA ViewInit == Init => Readers!Init
<1> SUFFICES ASSUME Init PROVE Readers!Init
  OBVIOUS
<1>1. TypeOK
  BY InitIInv DEF IInv
<1>2. \A L \in Loads : ~ Done(L) /\ Listed(L) = {}
  BY <1>1, LoadFacts DEF Init, Done, Listed
<1>3. {<<r.key, r.load>> : r \in table} = {} /\ {L \in Loads : Done(L)} = {}
  BY <1>2 DEF Init
<1>4. [L \in Loads |-> Listed(L)] = [L \in Loads |-> {}]
  BY <1>2
<1> QED
  BY <1>3, <1>4 DEF Init, Readers!Init

\* A commit is the publication of its load.
LEMMA ViewCommit ==
  ASSUME IInv, NEW l \in Loaders, Acts(l), Commit(l), NEW L \in Loads, L = load(l)
  PROVE  Readers!Publish(L)
<1> USE DEF IInv
<1> DEFINE s == src[l]
           K == staging[l]
           own == {c \in Shown : c[1][1] = s}
           kept == {<<r.key, r.load>> : r \in {q \in table' : q.key[1] = s /\ q.key \notin K}}
<1>1. /\ L \in Loads /\ s \in Sources /\ L[2] = s
      /\ K = Listed(L) /\ \A k \in K : k[1] = s
  BY CommitRows
<1>2. /\ \A r \in gone[l] : r.key[1] = s
      /\ L \notin met => gone[l] = Live(s)
      /\ \A r \in table : r \notin gone[l] /\ r.key \notin K => r \in table'
      /\ \A r \in table' : r.key \notin K => r \in table /\ r \notin gone[l]
      /\ \A r \in table' : r.key \in K => r.load = L
      /\ \A k \in K : \E r \in table' : r.key = k /\ r.load = L
  BY CommitRows
<1>3. loads[L] = "started" /\ ~ Done(L) /\ rows[L] # {}
  BY DEF Commit, Ahead, Recorded
<1>4. Listed(L) # {}
  <2>1. PICK x : x \in rows[L]
    BY <1>3
  <2>2. <<L[2], x>> \in Listed(L)
    BY <2>1 DEF Listed
  <2> QED
    BY <2>2
<1>5. L \notin met => kept = {}
  <2> SUFFICES ASSUME L \notin met, NEW r \in table', r.key[1] = s, r.key \notin K PROVE FALSE
    OBVIOUS
  <2>1. r \in table /\ r \notin gone[l]
    BY <1>2
  <2>2. r \in Live(s)
    BY <2>1 DEF Live
  <2> QED
    BY <1>2, <2>1, <2>2
<1>6. kept \subseteq own
  <2> SUFFICES ASSUME NEW r \in table', r.key[1] = s, r.key \notin K
               PROVE  <<r.key, r.load>> \in own
    OBVIOUS
  <2>1. r \in table
    BY <1>2
  <2>2. <<r.key, r.load>> \in Shown
    BY <2>1 DEF Shown
  <2> QED
    BY <2>2
<1>7. \A c \in kept : c[1] \notin Listed(L)
  BY <1>1
<1>8. Shown' = (Shown \ own) \cup kept \cup (Listed(L) \X {L})
  <2>1. ASSUME NEW c \in Shown' PROVE c \in (Shown \ own) \cup kept \cup (Listed(L) \X {L})
    <3>1. PICK r \in table' : c = <<r.key, r.load>>
      BY DEF Shown
    <3>2. CASE r.key \in K
      BY <1>1, <1>2, <3>1, <3>2
    <3>3. CASE r.key \notin K /\ r.key[1] = s
      BY <3>1, <3>3
    <3>4. CASE r.key \notin K /\ r.key[1] # s
      <4>1. c \in Shown
        BY <1>2, <3>1, <3>4 DEF Shown
      <4> QED
        BY <3>1, <3>4, <4>1
    <3> QED
      BY <3>2, <3>3, <3>4
  <2>2. ASSUME NEW c \in Shown \ own PROVE c \in Shown'
    <3>1. PICK r \in table : c = <<r.key, r.load>>
      BY DEF Shown
    <3>2. r.key[1] # s
      BY <2>2, <3>1
    <3>3. r \in table'
      BY <1>1, <1>2, <3>2
    <3> QED
      BY <3>1, <3>3 DEF Shown
  <2>3. kept \subseteq Shown'
    BY DEF Shown
  <2>4. ASSUME NEW k \in K PROVE <<k, L>> \in Shown'
    <3>1. PICK r \in table' : r.key = k /\ r.load = L
      BY <1>2
    <3> QED
      BY <3>1 DEF Shown
  <2> HIDE DEF kept, own
  <2>5. (Listed(L) \X {L}) \subseteq Shown'
    BY <1>1, <2>4
  <2> QED
    BY <2>1, <2>2, <2>3, <2>5
<1>9. Committed' = Committed \cup {L}
  BY <1>1, DoneStep DEF Committed
<1>10. Files' = Files /\ loads' = loads /\ met' = met
  BY DEF Commit, Files, Listed
<1>11. own = {c \in Shown : c[1][1] = L[2]}
  BY <1>1
<1>12. Files[L] = Listed(L) /\ L \notin Committed
  BY <1>1, <1>3 DEF Files, Committed
<1> HIDE DEF s, K, own, kept
<1>13. \E x \in SUBSET {c \in Shown : c[1][1] = L[2]} :
          /\ L \notin met => x = {}
          /\ \A c \in x : c[1] \notin Files[L]
          /\ Shown' = (Shown \ {c \in Shown : c[1][1] = L[2]}) \cup x \cup (Files[L] \X {L})
  <2>1. kept \in SUBSET {c \in Shown : c[1][1] = L[2]}
    BY <1>6, <1>11
  <2>2. Shown' = (Shown \ {c \in Shown : c[1][1] = L[2]}) \cup kept \cup (Files[L] \X {L})
    BY <1>8, <1>11, <1>12
  <2>3. \A c \in kept : c[1] \notin Files[L]
    BY <1>7, <1>12
  <2> WITNESS kept \in SUBSET {c \in Shown : c[1][1] = L[2]}
  <2> QED
    BY <1>5, <2>2, <2>3
<1> QED
  BY <1>3, <1>4, <1>9, <1>10, <1>12, <1>13
  DEF Readers!Publish, Readers!Of, Readers!Underway, Shown, Files, Committed

\* Every step is one of the abstract specification or changes nothing of it.
LEMMA ViewStep == IInv /\ [Next]_vars => [Readers!Next]_Readers!vars
<1> SUFFICES ASSUME IInv, [Next]_vars PROVE [Readers!Next]_Readers!vars
  OBVIOUS
<1> USE DEF IInv
<1>same. ASSUME UNCHANGED <<table, rows, loads, history, met>> PROVE UNCHANGED Readers!vars
  BY <1>same DEF Readers!vars, Listed, Done
<1>stutter. CASE UNCHANGED vars
  BY <1>same, <1>stutter DEF vars
<1> SUFFICES ASSUME Next PROVE [Readers!Next]_Readers!vars
  BY <1>stutter
<1>1. PICK l \in Loaders : Acts(l)
  BY NextActs
<1>2. PICK L \in Loads : L = load(l) /\ L[2] = src[l] /\ src[l] \in Sources
  BY LoadFacts
<1>3. loads[L] \in {"none", "started"} \/ pc[l] = "over"
  BY <1>2 DEF Ahead
<1>4. /\ [x \in Loads |-> Listed(x)][L] = Listed(L)
      /\ Done(L) <=> L \in {x \in Loads : Done(x)}
  BY <1>2
<1>begin. CASE Started(l)
  <2>1. loads[L] = "none" /\ loads' = [loads EXCEPT ![L] = "started"]
    BY <1>begin, <1>2 DEF Started, Ahead
  <2>2. UNCHANGED <<table, rows, history, met>>
    BY <1>begin DEF Started
  <2>3. Readers!Begin(L)
    BY <2>1, <2>2 DEF Readers!Begin, Listed, Done
  <2> QED
    BY <1>2, <2>3 DEF Readers!Next
<1>read. ASSUME NEW R \in SUBSET FilePrefixes[src[l]], Load(l, R) PROVE [Readers!Next]_Readers!vars
  <2>1. /\ loads[L] = "started" /\ ~ Done(L) /\ rows[L] = {}
        /\ rows' = [rows EXCEPT ![L] = R] /\ UNCHANGED <<table, loads, history, met>>
    BY <1>read, <1>2 DEF Load, Recorded, Ahead
  <2>2. PICK K : K = {src[l]} \X R
    OBVIOUS
  <2>3. K \in SUBSET Keys /\ \A k \in K : k[1] = L[2]
    BY <1>2, <2>2, KeyFacts
  <2>4. Listed(L) = {}
    BY <2>1 DEF Listed
  <2>5. [x \in Loads |-> Listed(x)]' = [[x \in Loads |-> Listed(x)] EXCEPT ![L] = K]
    <3>1. \A x \in Loads : Listed(x)' = IF x = L THEN K ELSE Listed(x)
      BY <1>2, <2>1, <2>2 DEF Listed, TypeOK
    <3> QED
      BY <3>1
  <2>6. Readers!ReadFile(L, K)
    BY <1>4, <2>1, <2>3, <2>4, <2>5 DEF Readers!ReadFile, Readers!Underway, Done
  <2> QED
    BY <1>2, <2>3, <2>6 DEF Readers!Next
<1>meet. CASE Delete(l)
  <2>1. UNCHANGED <<table, rows, loads, history>> /\ pc[l] = "begin"
    BY <1>meet DEF Delete
  <2>2. CASE Swapping(src[l]) = {}
    BY <1>same, <1>meet, <2>1, <2>2 DEF Delete
  <2>3. CASE Swapping(src[l]) # {}
    <3> DEFINE M == {L} \cup {load(m) : m \in Swapping(src[l])}
    <3>1. met' = met \cup M
      BY <1>meet, <1>2, <2>3 DEF Delete
    <3>2. ASSUME NEW N \in M
          PROVE  N \in Loads /\ N[2] = L[2] /\ loads[N] = "started" /\ ~ Done(N)
      <4>1. PICK m \in Loaders : /\ N = load(m) /\ src[m] = src[l]
                                 /\ pc[m] \in {"begin", "deleting", "insert", "commit"}
        BY <1>2, <2>1, <3>2 DEF Swapping
      <4>2. N \in Loads /\ N[2] = L[2]
        BY <1>2, <4>1, LoadFacts
      <4>3. loads[N] # "none" /\ loads[N] \in {"none", "started"} /\ ~ Done(N)
        BY <4>1 DEF Recorded, Ahead
      <4> QED
        BY <4>2, <4>3
    <3>3. M # {L}
      <4>1. PICK m \in Swapping(src[l]) : TRUE
        BY <2>3
      <4>2. m # l
        BY <2>1, <4>1 DEF Swapping
      <4>3. load(m) # L
        BY <1>2, <4>2 DEF load
      <4> QED
        BY <4>1, <4>3
    <3>4. M \in SUBSET Loads /\ L \in M
      BY <3>2
    <3> HIDE DEF M
    <3>5. \A N \in M : loads[N] = "started" /\ N \notin {x \in Loads : Done(x)} /\ N[2] = L[2]
      BY <3>2
    <3>6. Readers!Meet(L, M)
      BY <2>1, <3>1, <3>3, <3>4, <3>5 DEF Readers!Meet, Readers!Underway, Listed, Done
    <3> QED
      BY <1>2, <3>4, <3>6 DEF Readers!Next
  <2> QED
    BY <2>2, <2>3
<1>publish. CASE Commit(l)
  <2>1. Readers!Publish(L)
    BY <1>1, <1>2, <1>publish, ViewCommit
  <2> QED
    BY <1>2, <2>1 DEF Readers!Next
<1>end. ASSUME NEW o \in {"success", "failed"}, Record(l, o), pc[l] # "over",
               UNCHANGED <<table, rows, history, met>>,
               o = "success" => Done(L) \/ rows[L] = {}
        PROVE  [Readers!Next]_Readers!vars
  <2>1. CASE loads[L] = "none"
    <3>1. loads' = loads
      BY <1>end, <1>2, <2>1 DEF Record, TypeOK
    <3> QED
      BY <1>end, <1>same, <3>1
  <2>2. CASE loads[L] = "started"
    <3>1. loads' = [loads EXCEPT ![L] = o]
      BY <1>end, <1>2, <2>2 DEF Record
    <3>2. o = "success" => L \in {x \in Loads : Done(x)} \/ [x \in Loads |-> Listed(x)][L] = {}
      BY <1>end DEF Listed
    <3>3. Readers!End(L)
      BY <1>end, <2>2, <3>1, <3>2 DEF Readers!End, Listed, Done
    <3> QED
      BY <1>2, <3>3 DEF Readers!Next
  <2> QED
    BY <1>3, <1>end, <2>1, <2>2
<1>reject. CASE Reject(l)
  BY <1>end, <1>reject DEF Reject
<1>fail. CASE Fail(l)
  BY <1>end, <1>same, <1>fail DEF Fail
<1>empty. CASE Empty(l)
  <2>1. rows[L] = {}
    BY <1>2, <1>empty DEF Empty, Recorded
  <2> QED
    BY <1>end, <1>empty, <2>1 DEF Empty
<1>success. CASE RecordSuccess(l)
  <2>1. Done(L)
    BY <1>2, <1>success DEF RecordSuccess, Recorded
  <2> QED
    BY <1>end, <1>success, <2>1 DEF RecordSuccess
<1>inside. CASE Connect(l) \/ LoadFails(l) \/ Truncate(l) \/ Stage(l) \/ Deleted(l) \/ Insert(l)
                \/ QueryFails(l) \/ Rollback(l) \/ Die(l)
  BY <1>same, <1>inside DEF Connect, LoadFails, Truncate, Stage, Deleted, Insert, QueryFails,
     Rollback, Die
<1> QED
  BY <1>1, <1>begin, <1>read, <1>meet, <1>publish, <1>reject, <1>fail, <1>empty, <1>success,
     <1>inside DEF Acts

\* DataLoader implements PublishedTables: lookups and the operator see a source replaced at
\* once, by one load, whose success is told only afterwards (pipeline.ts 17-149).
THEOREM Publishes == Spec => ReaderView
<1>1. Init => Readers!Init
  BY ViewInit
<1> QED
  BY Inductive, <1>1, ViewStep, PTL DEF Spec, ReaderView, Readers!Spec
=============================================================================
