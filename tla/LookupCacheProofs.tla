-------------------------- MODULE LookupCacheProofs --------------------------
(***************************************************************************)
(* Proofs about LookupCache, for any callers, numbers, flushes, expiry,    *)
(* delay and loads.                                                        *)
(***************************************************************************)
EXTENDS LookupCache, TLAPS

USE DEF clock, calls, flushes

LEMMA NoneIsNoEntry == \A e \in Entry : e # None /\ e.v \in Versions /\ e.exp \in Nat
BY NoneAssumption, TTLAssumption, BoundAssumption DEF Entry, Versions

LEMMA TypeStep == TypeOK /\ [Next]_vars => TypeOK'
<1> SUFFICES ASSUME TypeOK, [Next]_vars PROVE TypeOK'
  OBVIOUS
<1> USE TTLAssumption, BoundAssumption DEF TypeOK, Versions
<1>Begin. ASSUME NEW l \in Lookups, NEW n \in Numbers, Begin(l, n) PROVE TypeOK'
  BY <1>Begin DEF Begin
<1>Hit. ASSUME NEW l \in Lookups, Hit(l) PROVE TypeOK'
  BY <1>Hit DEF Hit, Over
<1>Miss. ASSUME NEW l \in Lookups, Miss(l) PROVE TypeOK'
  BY <1>Miss DEF Miss
<1>Query. ASSUME NEW l \in Lookups, Query(l) PROVE TypeOK'
  BY <1>Query DEF Query
<1>QueryFails. ASSUME NEW l \in Lookups, QueryFails(l) PROVE TypeOK'
  BY <1>QueryFails DEF QueryFails, Over
<1>Set. ASSUME NEW l \in Lookups, Set(l) PROVE TypeOK'
  <2>1. [v |-> read[l], exp |-> now + TTL] \in Entry
    BY DEF Entry
  <2>2. cache' \in [Numbers -> Entry \cup {None}]
    BY <1>Set, <2>1 DEF Set
  <2> QED
    BY <1>Set, <2>2 DEF Set, Over
<1>SetFails. ASSUME NEW l \in Lookups, SetFails(l) PROVE TypeOK'
  BY <1>SetFails DEF SetFails, Over
<1>FlushBegin. ASSUME NEW f \in Flushes, FlushBegin(f) PROVE TypeOK'
  <2>1. Lagging \in BOOLEAN
    BY DEF Lagging
  <2> QED
    BY <1>FlushBegin, <2>1 DEF FlushBegin
<1>Scan. ASSUME NEW f \in Flushes, Scan(f) PROVE TypeOK'
  BY <1>Scan DEF Scan
<1>Del. ASSUME NEW f \in Flushes, Del(f) PROVE TypeOK'
  BY <1>Del DEF Del, Forget
<1>FlushFails. ASSUME NEW f \in Flushes, FlushFails(f) PROVE TypeOK'
  BY <1>FlushFails DEF FlushFails
<1>Commit. ASSUME Commit PROVE TypeOK'
  BY <1>Commit DEF Commit
<1>Tick. ASSUME Tick PROVE TypeOK'
  BY <1>Tick DEF Tick, Forget
<1>Stutter. ASSUME UNCHANGED vars PROVE TypeOK'
  BY <1>Stutter DEF vars
<1> QED
  BY <1>Begin, <1>Hit, <1>Miss, <1>Query, <1>QueryFails, <1>Set, <1>SetFails,
     <1>FlushBegin, <1>Scan, <1>Del, <1>FlushFails, <1>Commit, <1>Tick, <1>Stutter DEF Next

LEMMA PendingStep == TypeOK /\ Pending /\ [Next]_vars => Pending'
<1> SUFFICES ASSUME TypeOK, Pending, [Next]_vars PROVE Pending'
  OBVIOUS
<1> USE TTLAssumption, BoundAssumption DEF TypeOK, Versions, Pending
<1>Begin. ASSUME NEW l \in Lookups, NEW n \in Numbers, Begin(l, n) PROVE Pending'
  BY <1>Begin DEF Begin
<1>Miss. ASSUME NEW l \in Lookups, Miss(l) PROVE Pending'
  BY <1>Miss DEF Miss
<1>Query. ASSUME NEW l \in Lookups, Query(l) PROVE Pending'
  BY <1>Query DEF Query
<1>Over. ASSUME NEW l \in Lookups, Hit(l) \/ QueryFails(l) \/ Set(l) \/ SetFails(l)
         PROVE Pending'
  <2>1. Over(l) /\ UNCHANGED clock
    BY <1>Over DEF Hit, QueryFails, Set, SetFails
  <2>2. \A k \in Lookups : pc'[k] = "set" =>
          k # l /\ pc[k] = "set" /\ read'[k] = read[k] /\ readAt'[k] = readAt[k]
    BY <2>1 DEF Over
  <2> QED
    BY <2>1, <2>2
<1>Flush. ASSUME NEW f \in Flushes, FlushBegin(f) \/ Scan(f) \/ Del(f) \/ FlushFails(f)
          PROVE Pending'
  <2>1. UNCHANGED <<clock, calls>>
    BY <1>Flush DEF FlushBegin, Scan, Del, FlushFails
  <2> QED
    BY <2>1
<1>Commit. ASSUME Commit PROVE Pending'
  BY <1>Commit DEF Commit
<1>Tick. ASSUME Tick PROVE Pending'
  BY <1>Tick DEF Tick
<1>Stutter. ASSUME UNCHANGED vars PROVE Pending'
  BY <1>Stutter DEF vars
<1> QED
  BY <1>Begin, <1>Miss, <1>Query, <1>Over, <1>Flush, <1>Commit, <1>Tick, <1>Stutter DEF Next

LEMMA EntriesStep == TypeOK /\ Pending /\ Entries /\ [Next]_vars => Entries'
<1> SUFFICES ASSUME TypeOK, Pending, Entries, [Next]_vars PROVE Entries'
  OBVIOUS
<1> USE TTLAssumption, BoundAssumption, NoneIsNoEntry DEF TypeOK, Versions
\* Most steps leave the clock, the tables and the entries alone.
<1>Same. ASSUME UNCHANGED <<clock, cache>> PROVE Entries'
  BY <1>Same DEF Entries
<1>Set. ASSUME NEW l \in Lookups, Set(l) PROVE Entries'
  <2> SUFFICES ASSUME NEW n \in Numbers, cache'[n] # None
               PROVE  /\ now < cache'[n].exp /\ cache'[n].exp <= now + TTL
                      /\ cache'[n].v <= data
                      /\ cache'[n].v # data =>
                           cache'[n].exp <= replaced[cache'[n].v] + TTL + Delay
    BY <1>Set DEF Set, Entries
  <2>1. CASE n = num[l]
    <3>1. cache'[n] = [v |-> read[l], exp |-> now + TTL]
      BY <1>Set, <2>1 DEF Set
    <3>2. /\ readAt[l] <= now /\ now <= readAt[l] + Delay /\ read[l] <= data
          /\ read[l] # data => readAt[l] <= replaced[read[l]]
      BY <1>Set DEF Set, Pending
    <3> QED
      BY <3>1, <3>2
  <2>2. CASE n # num[l]
    BY <1>Set, <2>2 DEF Set, Entries
  <2> QED
    BY <2>1, <2>2
<1>Del. ASSUME NEW f \in Flushes, Del(f) PROVE Entries'
  BY <1>Del DEF Del, Forget, Entries
<1>Commit. ASSUME Commit PROVE Entries'
  <2> SUFFICES ASSUME NEW n \in Numbers, cache[n] # None
               PROVE  /\ now < cache[n].exp /\ cache[n].exp <= now + TTL
                      /\ cache[n].v <= data + 1
                      /\ cache[n].v # data + 1 =>
                           cache[n].exp <= replaced'[cache[n].v] + TTL + Delay
    BY <1>Commit DEF Commit, Entries
  <2>1. cache[n] \in Entry
    OBVIOUS
  <2>2. /\ now < cache[n].exp /\ cache[n].exp <= now + TTL /\ cache[n].v <= data
        /\ cache[n].v # data => cache[n].exp <= replaced[cache[n].v] + TTL + Delay
    BY DEF Entries
  <2>3. cache[n].v = data => replaced'[cache[n].v] = now
    BY <1>Commit DEF Commit
  <2>4. cache[n].v # data => replaced'[cache[n].v] = replaced[cache[n].v]
    BY <1>Commit, <2>1 DEF Commit
  <2>0. /\ now \in Nat /\ data \in Nat /\ cache[n].v \in Nat /\ cache[n].exp \in Nat
        /\ TTL \in Nat /\ Delay \in Nat
    BY <2>1 DEF Entry
  <2> HIDE DEF TypeOK
  <2>5. CASE cache[n].v = data
    BY <2>0, <2>2, <2>3, <2>5
  <2>6. CASE cache[n].v # data
    BY <2>0, <2>2, <2>4, <2>6
  <2> QED
    BY <2>5, <2>6
<1>Tick. ASSUME Tick PROVE Entries'
  <2> SUFFICES ASSUME NEW n \in Numbers, cache'[n] # None
               PROVE  /\ now + 1 < cache'[n].exp /\ cache'[n].exp <= now + 1 + TTL
                      /\ cache'[n].v <= data
                      /\ cache'[n].v # data =>
                           cache'[n].exp <= replaced[cache'[n].v] + TTL + Delay
    BY <1>Tick DEF Tick, Entries
  <2>1. cache'[n] = cache[n] /\ cache[n] \in Entry /\ ~ (cache[n].exp <= now + 1)
    BY <1>Tick DEF Tick, Forget
  <2> QED
    BY <2>1 DEF Entries
<1> QED
  BY <1>Same, <1>Set, <1>Del, <1>Commit, <1>Tick
  DEF Next, vars, Begin, Hit, Miss, Query, QueryFails, SetFails, FlushBegin, Scan, FlushFails

\* What Sweeping says of flush f.
Sweeps(f) ==
  /\ step[f] # "del" => page[f] = {} /\ more[f] = FALSE
  /\ step[f] = "del" /\ ~ more[f] => unseen[f] = {}
  /\ step[f] \notin {"scan", "del"} => unseen[f] = {}
  /\ flushed[f].v <= data
  /\ step[f] # "idle" /\ flushed[f].quiet /\ flushed[f].v = data =>
       /\ \A n \in Numbers :
            cache[n] # None /\ cache[n].v # data => n \in unseen[f] \cup page[f]
       /\ \A l \in Lookups : pc[l] = "set" => read[l] = data

LEMMA SweepingStep == TypeOK /\ Sweeping /\ [Next]_vars => Sweeping'
<1> SUFFICES ASSUME TypeOK, Sweeping, [Next]_vars, NEW f \in Flushes PROVE Sweeps(f)'
  BY DEF Sweeping, Sweeps
<1>0. Sweeps(f)
  BY DEF Sweeping, Sweeps
<1> USE TTLAssumption, BoundAssumption, NoneIsNoEntry DEF TypeOK, Versions
<1>Begin. ASSUME NEW l \in Lookups, NEW n \in Numbers, Begin(l, n) PROVE Sweeps(f)'
  BY <1>Begin, <1>0 DEF Begin, Sweeps
<1>Miss. ASSUME NEW l \in Lookups, Miss(l) PROVE Sweeps(f)'
  BY <1>Miss, <1>0 DEF Miss, Sweeps
<1>Query. ASSUME NEW l \in Lookups, Query(l) PROVE Sweeps(f)'
  BY <1>Query, <1>0 DEF Query, Sweeps
<1>Over. ASSUME NEW l \in Lookups, Hit(l) \/ QueryFails(l) \/ SetFails(l) PROVE Sweeps(f)'
  <2>1. Over(l) /\ UNCHANGED <<clock, cache, flushes>>
    BY <1>Over DEF Hit, QueryFails, SetFails
  <2>2. \A k \in Lookups : pc'[k] = "set" => pc[k] = "set" /\ read'[k] = read[k]
    BY <2>1 DEF Over
  <2> QED
    BY <1>0, <2>1, <2>2 DEF Sweeps
<1>Set. ASSUME NEW l \in Lookups, Set(l) PROVE Sweeps(f)'
  <2>1. UNCHANGED <<clock, flushes>> /\ num[l] \in Numbers /\ pc[l] = "set"
    BY <1>Set DEF Set
  <2>2. cache' = [cache EXCEPT ![num[l]] = [v |-> read[l], exp |-> now + TTL]]
    BY <1>Set DEF Set
  <2>3. \A m \in Lookups : pc'[m] = "set" => pc[m] = "set" /\ read'[m] = read[m]
    BY <1>Set DEF Set, Over
  <2> QED
    BY <1>0, <2>1, <2>2, <2>3 DEF Sweeps
<1>FlushBegin. ASSUME NEW g \in Flushes, FlushBegin(g) PROVE Sweeps(f)'
  <2>1. CASE f # g
    BY <1>FlushBegin, <1>0, <2>1 DEF FlushBegin, Sweeps
  <2>2. CASE f = g
    <3>1. /\ step'[f] = "scan" /\ page' = page /\ more' = more
          /\ unseen'[f] = {n \in Numbers : cache[n] # None}
          /\ flushed'[f] = [v |-> data, quiet |-> ~ Lagging]
          /\ UNCHANGED <<clock, calls, cache>> /\ step[f] # "del"
      BY <1>FlushBegin, <2>2 DEF FlushBegin
    <3>2. flushed'[f].v = data /\ flushed'[f].quiet = ~ Lagging
      BY <3>1
    <3> QED
      BY <1>0, <3>1, <3>2 DEF Sweeps, Lagging
  <2> QED
    BY <2>1, <2>2
<1>Scan. ASSUME NEW g \in Flushes, Scan(g) PROVE Sweeps(f)'
  <2>1. CASE f # g
    BY <1>Scan, <1>0, <2>1 DEF Scan, Sweeps
  <2>2. CASE f = g
    <3>1. PICK P \in SUBSET {n \in Numbers : cache[n] # None}, m \in BOOLEAN :
            /\ unseen[f] \subseteq P \/ m
            /\ page'[f] = P
            /\ more'[f] = (m /\ P # {})
            /\ unseen'[f] = unseen[f] \ P
            /\ step'[f] = IF P # {} THEN "del" ELSE IF m THEN "scan" ELSE "done"
      BY <1>Scan, <2>2 DEF Scan
    <3>2. UNCHANGED <<clock, calls, cache, flushed>> /\ step[f] = "scan"
      BY <1>Scan, <2>2 DEF Scan
    <3> QED
      BY <1>0, <3>1, <3>2 DEF Sweeps
  <2> QED
    BY <2>1, <2>2
<1>Del. ASSUME NEW g \in Flushes, Del(g) PROVE Sweeps(f)'
  <2>1. /\ \A n \in Numbers : cache'[n] = IF n \in page[g] THEN None ELSE cache[n]
        /\ unseen'[f] = unseen[f] \ page[g]
        /\ UNCHANGED <<clock, calls, flushed>>
    BY <1>Del DEF Del, Forget
  <2>2. CASE f # g
    <3>1. step'[f] = step[f] /\ page'[f] = page[f] /\ more'[f] = more[f]
      BY <1>Del, <2>2 DEF Del
    <3> QED
      BY <1>0, <2>1, <3>1 DEF Sweeps
  <2>3. CASE f = g
    <3>1. /\ page'[f] = {} /\ more'[f] = FALSE /\ step[f] = "del"
          /\ step'[f] = IF more[f] THEN "scan" ELSE "done"
      BY <1>Del, <2>3 DEF Del
    <3> QED
      BY <1>0, <2>1, <2>3, <3>1 DEF Sweeps
  <2> QED
    BY <2>2, <2>3
<1>FlushFails. ASSUME NEW g \in Flushes, FlushFails(g) PROVE Sweeps(f)'
  <2>1. CASE f # g
    BY <1>FlushFails, <1>0, <2>1 DEF FlushFails, Sweeps
  <2>2. CASE f = g
    BY <1>FlushFails, <1>0, <2>2 DEF FlushFails, Sweeps
  <2> QED
    BY <2>1, <2>2
<1>Commit. ASSUME Commit PROVE Sweeps(f)'
  BY <1>Commit, <1>0 DEF Commit, Sweeps
<1>Tick. ASSUME Tick PROVE Sweeps(f)'
  <2>1. PICK P \in SUBSET Numbers :
          /\ \A n \in Numbers : cache'[n] = IF n \in P THEN None ELSE cache[n]
          /\ unseen'[f] = unseen[f] \ P
    BY <1>Tick DEF Tick, Forget
  <2>2. UNCHANGED <<data, calls, step, page, more, flushed>>
    BY <1>Tick DEF Tick
  <2> QED
    BY <1>0, <2>1, <2>2 DEF Sweeps
<1>Stutter. ASSUME UNCHANGED vars PROVE Sweeps(f)'
  BY <1>Stutter, <1>0 DEF vars, Sweeps
<1> QED
  BY <1>Begin, <1>Miss, <1>Query, <1>Over, <1>Set, <1>FlushBegin, <1>Scan, <1>Del,
     <1>FlushFails, <1>Commit, <1>Tick, <1>Stutter DEF Next

LEMMA InitIInv == Init => IInv
BY TTLAssumption, BoundAssumption
DEF Init, IInv, TypeOK, Versions, Pending, Entries, Sweeping

\* Every reachable state satisfies the inductive invariant.
THEOREM Inductive == Spec => []IInv
<1>1. IInv /\ [Next]_vars => IInv'
  BY TypeStep, PendingStep, EntriesStep, SweepingStep DEF IInv
<1> QED
  BY InitIInv, <1>1, PTL DEF Spec

\* The cache never serves data replaced longer ago than the expiry and the delay of
\* a SET, whatever lookups, flushes and loads do (lookup/cache.ts).
THEOREM Staleness == Spec => []BoundedStaleness
<1>1. IInv => BoundedStaleness
  <2> SUFFICES ASSUME IInv, NEW n \in Numbers, cache[n] # None, cache[n].v # data
               PROVE  now < replaced[cache[n].v] + TTL + Delay
    BY DEF BoundedStaleness
  <2>1. cache[n] \in Entry /\ cache[n].v \in Versions /\ cache[n].exp \in Nat
    BY NoneIsNoEntry DEF IInv, TypeOK
  <2>2. replaced[cache[n].v] \in Nat /\ now \in Nat
    BY <2>1, BoundAssumption DEF IInv, TypeOK
  <2>3. now < cache[n].exp /\ cache[n].exp <= replaced[cache[n].v] + TTL + Delay
    BY DEF IInv, Entries
  <2> QED
    BY <2>1, <2>2, <2>3, TTLAssumption
<1> QED
  BY Inductive, <1>1, PTL

\* A finished flush that began while no lookup held older data leaves only entries
\* of the tables it began with, until the next load (index.ts 54-74).
THEOREM Flushed == Spec => []FlushForgets
<1>1. IInv => FlushForgets
  BY DEF IInv, Sweeping, FlushForgets
<1> QED
  BY Inductive, <1>1, PTL

\* The cache, its callers and the flushes have their types (lookup/cache.ts, index.ts 52-73).
THEOREM TypeCorrect == Spec => []TypeOK
<1>1. IInv => TypeOK
  BY DEF IInv
<1> QED
  BY Inductive, <1>1, PTL
=============================================================================
