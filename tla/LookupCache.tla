----------------------------- MODULE LookupCache -----------------------------
(***************************************************************************)
(* Lookups of GET /lookup and POST /lookup/bulk (lookup/service.ts), the   *)
(* Redis cache they share (lookup/cache.ts), the two flushes of that cache *)
(* (index.ts 54-74 and routes/admin.ts 113-132, the same loop) and, seen   *)
(* from here, the loader, which replaces the prefix tables as a whole      *)
(* (DataLoader).  The tables are a version; an answer stands for the       *)
(* version of the tables it was read from.                                 *)
(*                                                                         *)
(* A lookup is one call of lookup() at a time, and the SET it leaves       *)
(* behind: nobody awaits it.  Delay bounds how long after the read of the  *)
(* tables that SET reaches Redis.  Commands of several API processes meet  *)
(* in Redis in any order, so none is assumed for those of one.  The bulk   *)
(* worker passes no Redis to lookup() and never meets the cache.           *)
(***************************************************************************)
EXTENDS Naturals, FiniteSets

CONSTANTS
  Lookups,    \* callers of lookup()
  Numbers,    \* e164 numbers they ask for
  Flushes,    \* the cron job and the admin's reload
  TTL,        \* TTL_SECONDS
  Delay,      \* bound: from reading the tables to the SET in Redis
  MaxNow,     \* bound: the clock stops here
  MaxData,    \* bound: loads of new data
  None        \* no entry, no number

Versions == 0 .. MaxData

ASSUME TTLAssumption == TTL \in Nat \ {0} /\ Delay \in Nat
ASSUME BoundAssumption == MaxNow \in Nat /\ MaxData \in Nat
ASSUME NoneAssumption == None \notin [v : Versions, exp : Nat]

VARIABLES
  now,       \* the clock
  data,      \* version of the tables
  replaced,  \* version -> when the next one took its place
  pc,        \* lookup -> where its call is
  num,       \* lookup -> the number it asks for
  read,      \* lookup -> version it read and has not stored yet
  readAt,    \* lookup -> when
  cache,     \* number -> entry lookup:v1:<e164>
  step,      \* flush -> where it is
  page,      \* flush -> keys the last SCAN returned
  more,      \* flush -> was its cursor other than 0
  unseen,    \* flush -> keys there since it began that no SCAN returned
  flushed    \* flush -> the version and whether a lookup held an older one, when it began

clock == <<now, data, replaced>>
calls == <<pc, num, read, readAt>>
flushes == <<step, page, more, unseen, flushed>>
vars == <<clock, calls, cache, flushes>>

Entry == [v : Versions, exp : 0 .. MaxNow + TTL]

TypeOK ==
  /\ now \in 0 .. MaxNow
  /\ data \in Versions
  /\ replaced \in [Versions -> 0 .. MaxNow]
  /\ pc \in [Lookups -> {"idle", "get", "query", "set"}]
  /\ num \in [Lookups -> Numbers \cup {None}]
  /\ \A l \in Lookups : pc[l] # "idle" => num[l] \in Numbers
  /\ read \in [Lookups -> Versions]
  /\ readAt \in [Lookups -> 0 .. MaxNow]
  /\ cache \in [Numbers -> Entry \cup {None}]
  /\ step \in [Flushes -> {"idle", "scan", "del", "done"}]
  /\ page \in [Flushes -> SUBSET Numbers]
  /\ more \in [Flushes -> BOOLEAN]
  /\ unseen \in [Flushes -> SUBSET Numbers]
  /\ flushed \in [Flushes -> [v : Versions, quiet : BOOLEAN]]

Init ==
  /\ now = 0
  /\ data = 0
  /\ replaced = [v \in Versions |-> 0]
  /\ pc = [l \in Lookups |-> "idle"]
  /\ num = [l \in Lookups |-> None]
  /\ read = [l \in Lookups |-> 0]
  /\ readAt = [l \in Lookups |-> 0]
  /\ cache = [n \in Numbers |-> None]
  /\ step = [f \in Flushes |-> "idle"]
  /\ page = [f \in Flushes |-> {}]
  /\ more = [f \in Flushes |-> FALSE]
  /\ unseen = [f \in Flushes |-> {}]
  /\ flushed = [f \in Flushes |-> [v |-> 0, quiet |-> FALSE]]

\* Keys P leave Redis.
Forget(P) ==
  /\ cache' = [n \in Numbers |-> IF n \in P THEN None ELSE cache[n]]
  /\ unseen' = [f \in Flushes |-> unseen[f] \ P]

-----------------------------------------------------------------------------
(* Lookups *)

\* The call is over.
Over(l) ==
  /\ pc' = [pc EXCEPT ![l] = "idle"]
  /\ num' = [num EXCEPT ![l] = None]
  /\ read' = [read EXCEPT ![l] = 0]
  /\ readAt' = [readAt EXCEPT ![l] = 0]

\* A valid number; an invalid one is answered without cache and tables.
Begin(l, n) ==
  /\ pc[l] = "idle"
  /\ pc' = [pc EXCEPT ![l] = "get"]
  /\ num' = [num EXCEPT ![l] = n]
  /\ UNCHANGED <<clock, read, readAt, cache, flushes>>

(* mutant: a hit prolongs the entry *)
Hit_prolongs(l) ==
  /\ pc[l] = "get"
  /\ cache[num[l]] # None
  /\ cache' = [cache EXCEPT ![num[l]].exp = now + TTL]
  /\ Over(l)
  /\ UNCHANGED <<clock, flushes>>

\* The entry, with cached and lookup_id its own, is the answer.
Hit(l) ==
  /\ pc[l] = "get"
  /\ cache[num[l]] # None
  /\ Over(l)
  /\ UNCHANGED <<clock, cache, flushes>>

\* No entry, or a GET that rejects: fall through to the tables.
Miss(l) ==
  /\ pc[l] = "get"
  /\ pc' = [pc EXCEPT ![l] = "query"]
  /\ UNCHANGED <<clock, num, read, readAt, cache, flushes>>

\* The tables answer, the caller gets its response and the SET is on its way.
Query(l) ==
  /\ pc[l] = "query"
  /\ read' = [read EXCEPT ![l] = data]
  /\ readAt' = [readAt EXCEPT ![l] = now]
  /\ pc' = [pc EXCEPT ![l] = "set"]
  /\ UNCHANGED <<clock, num, cache, flushes>>

\* DB_ERROR.
QueryFails(l) ==
  /\ pc[l] = "query"
  /\ Over(l)
  /\ UNCHANGED <<clock, cache, flushes>>

(* mutant: the expiry in another unit *)
Set_unit(l) ==
  /\ pc[l] = "set"
  /\ cache' = [cache EXCEPT ![num[l]] = [v |-> read[l], exp |-> now + 1000 * TTL]]
  /\ Over(l)
  /\ UNCHANGED <<clock, flushes>>

Set(l) ==
  /\ pc[l] = "set"
  /\ cache' = [cache EXCEPT ![num[l]] = [v |-> read[l], exp |-> now + TTL]]
  /\ Over(l)
  /\ UNCHANGED <<clock, flushes>>

\* Swallowed by the .catch(() => {}).
SetFails(l) ==
  /\ pc[l] = "set"
  /\ Over(l)
  /\ UNCHANGED <<clock, cache, flushes>>

-----------------------------------------------------------------------------
(* The flush *)

\* Some lookup has read older tables and not stored them yet.
Lagging == \E l \in Lookups : pc[l] = "set" /\ read[l] # data

FlushBegin(f) ==
  /\ step[f] \in {"idle", "done"}
  /\ step' = [step EXCEPT ![f] = "scan"]
  /\ unseen' = [unseen EXCEPT ![f] = {n \in Numbers : cache[n] # None}]
  /\ flushed' = [flushed EXCEPT ![f] = [v |-> data, quiet |-> ~ Lagging]]
  /\ UNCHANGED <<clock, calls, cache, page, more>>

(* mutant: the loop ends at the first empty page *)
Scan_untilEmpty(f) ==
  /\ step[f] = "scan"
  /\ \E P \in SUBSET {n \in Numbers : cache[n] # None} :
       /\ page' = [page EXCEPT ![f] = P]
       /\ more' = [more EXCEPT ![f] = P # {}]
       /\ unseen' = [unseen EXCEPT ![f] = @ \ P]
       /\ step' = [step EXCEPT ![f] = IF P # {} THEN "del" ELSE "done"]
  /\ UNCHANGED <<clock, calls, cache, flushed>>

\* A page of present keys.  The cursor is 0 only after every key that was there
\* all along has been returned; others may or may not be.
Scan(f) ==
  /\ step[f] = "scan"
  /\ \E P \in SUBSET {n \in Numbers : cache[n] # None}, m \in BOOLEAN :
       /\ unseen[f] \subseteq P \/ m
       /\ page' = [page EXCEPT ![f] = P]
       /\ more' = [more EXCEPT ![f] = m /\ P # {}]
       /\ unseen' = [unseen EXCEPT ![f] = @ \ P]
       /\ step' = [step EXCEPT ![f] = IF P # {} THEN "del" ELSE IF m THEN "scan" ELSE "done"]
  /\ UNCHANGED <<clock, calls, cache, flushed>>

Del(f) ==
  /\ step[f] = "del"
  /\ Forget(page[f])
  /\ page' = [page EXCEPT ![f] = {}]
  /\ step' = [step EXCEPT ![f] = IF more[f] THEN "scan" ELSE "done"]
  /\ more' = [more EXCEPT ![f] = FALSE]
  /\ UNCHANGED <<clock, calls, flushed>>

\* SCAN or DEL rejects: logged, or a 500.
FlushFails(f) ==
  /\ step[f] \in {"scan", "del"}
  /\ step' = [step EXCEPT ![f] = "idle"]
  /\ page' = [page EXCEPT ![f] = {}]
  /\ more' = [more EXCEPT ![f] = FALSE]
  /\ unseen' = [unseen EXCEPT ![f] = {}]
  /\ flushed' = [flushed EXCEPT ![f] = [v |-> 0, quiet |-> FALSE]]
  /\ UNCHANGED <<clock, calls, cache>>

-----------------------------------------------------------------------------
(* The loader, and time *)

Commit ==
  /\ data < MaxData
  /\ data' = data + 1
  /\ replaced' = [replaced EXCEPT ![data] = now]
  /\ UNCHANGED <<now, calls, cache, flushes>>

Tick ==
  /\ now < MaxNow
  /\ \A l \in Lookups : pc[l] = "set" => now < readAt[l] + Delay
  /\ now' = now + 1
  /\ Forget({n \in Numbers : cache[n] # None /\ cache[n].exp <= now + 1})
  /\ UNCHANGED <<data, replaced, calls, step, page, more, flushed>>

Next ==
  \/ \E l \in Lookups :
       \/ \E n \in Numbers : Begin(l, n)
       \/ Hit(l) \/ Miss(l) \/ Query(l) \/ QueryFails(l) \/ Set(l) \/ SetFails(l)
  \/ \E f \in Flushes : FlushBegin(f) \/ Scan(f) \/ Del(f) \/ FlushFails(f)
  \/ Commit \/ Tick

Spec == Init /\ [][Next]_vars

-----------------------------------------------------------------------------
(* Properties *)

\* A hit is never staler than the entry's life and the way of a SET: data replaced
\* longer ago than that is in no entry, however often it is asked for (cache.ts 5:
\* 24 hours).
BoundedStaleness ==
  \A n \in Numbers : cache[n] # None /\ cache[n].v # data =>
    now < replaced[cache[n].v] + TTL + Delay

\* A flush that ran to its end leaves nothing older than the tables it began with,
\* provided no lookup was then about to store older data and no load came since
\* (index.ts 52-53: "so fresh prefix data is served immediately").
FlushForgets ==
  \A f \in Flushes :
    step[f] = "done" /\ flushed[f].quiet /\ flushed[f].v = data =>
      \A n \in Numbers : cache[n] # None => cache[n].v = data

\* architecture.md 232: the reload "flushes all matching keys ... before the new data
\* is written, preventing stale cache hits after a reload".
NoStaleHits ==
  \A f \in Flushes : step[f] = "done" /\ flushed[f].quiet /\ flushed[f].v + 1 = data =>
    \A n \in Numbers : cache[n] # None => cache[n].v = data

-----------------------------------------------------------------------------
(* Inductive invariant *)

\* A lookup about to store read the tables at most Delay ago, before they changed.
Pending ==
  \A l \in Lookups : pc[l] = "set" =>
    /\ readAt[l] <= now /\ now <= readAt[l] + Delay
    /\ read[l] <= data
    /\ read[l] # data => readAt[l] <= replaced[read[l]]

\* An entry lives TTL at most, and expires by the bound.
Entries ==
  \A n \in Numbers : cache[n] # None =>
    /\ now < cache[n].exp /\ cache[n].exp <= now + TTL
    /\ cache[n].v <= data
    /\ cache[n].v # data => cache[n].exp <= replaced[cache[n].v] + TTL + Delay

\* A quiet flush of the present tables: older entries are still to be returned or
\* about to be deleted, and no lookup adds one.
Sweeping ==
  \A f \in Flushes :
    /\ step[f] # "del" => page[f] = {} /\ more[f] = FALSE
    /\ step[f] = "del" /\ ~ more[f] => unseen[f] = {}
    /\ step[f] \notin {"scan", "del"} => unseen[f] = {}
    /\ flushed[f].v <= data
    /\ step[f] # "idle" /\ flushed[f].quiet /\ flushed[f].v = data =>
         /\ \A n \in Numbers :
              cache[n] # None /\ cache[n].v # data => n \in unseen[f] \cup page[f]
         /\ \A l \in Lookups : pc[l] = "set" => read[l] = data

IInv == TypeOK /\ Pending /\ Entries /\ Sweeping
=============================================================================
