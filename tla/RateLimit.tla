------------------------------ MODULE RateLimit ------------------------------
(***************************************************************************)
(* The limiters of middleware/rateLimit.ts in front of GET /lookup and     *)
(* POST /lookup/bulk (per API key: a sliding minute, a day and a month)    *)
(* and of POST /auth/login (per IP: a fixed window), and the Redis they    *)
(* count in.  All requests of the model bear the same API key, and all     *)
(* logins come from the same address: other keys use other counters.       *)
(*                                                                         *)
(* A request sends one script at a time and waits for the answer.  The     *)
(* process has one connection (redis/client.ts), so scripts reach Redis in *)
(* the order they were sent, but later: ioredis keeps them while Redis is  *)
(* away (maxRetriesPerRequest: null), and when the connection breaks sends *)
(* all those without an answer again, in the order they had, although      *)
(* Redis ran the first of them.  A script works with the instant,          *)
(* or the calendar key, its sender computed when it was sent; the keys it  *)
(* touches expire by Redis's clock, and Slack is what the code adds to the *)
(* windows for the difference.  Delay bounds that difference.  Time is     *)
(* counted in ticks, TicksPerSecond of them a second.                      *)
(***************************************************************************)
EXTENDS Integers, Sequences, FiniteSets

CONSTANTS
  Requests,        \* requests that reach a limiter
  Kind,            \* request -> "single" | "bulk" | "login"
  Cost,            \* request -> numbers it asks for
  MaxCost,         \* most numbers a bulk request may hold
  Window,          \* the sliding window
  Slack,           \* what PEXPIRE adds to it
  Delay,           \* bound: how late a script may reach a Redis that is up
  TicksPerSecond,
  MinuteLimit,     \* RATE_LIMIT_PER_MINUTE
  Limit,           \* fixed window -> requests it admits
  Period,          \* fixed window -> its length
  TTL,             \* fixed window -> life of its key from the first request
  MaxNow,          \* bound: the clock stops here
  MaxDrops,        \* bound: connections broken before an answer
  Outage           \* may Redis go away for good

Fixed == {"day", "month", "ip"}
Kinds == {"single", "bulk", "login"}

ASSUME RequestsAssumption == IsFiniteSet(Requests)
ASSUME KindAssumption == Kind \in [Requests -> Kinds]
ASSUME MaxCostAssumption == MaxCost \in Nat \ {0}
ASSUME CostAssumption ==
  /\ Cost \in [Requests -> 1 .. MaxCost]
  /\ \A r \in Requests : Kind[r] # "bulk" => Cost[r] = 1
ASSUME WindowAssumption == Window \in Nat \ {0} /\ TicksPerSecond \in Nat \ {0}
ASSUME DelayAssumption == Delay \in Nat /\ Slack \in Nat /\ Delay <= Slack
ASSUME LimitAssumption == MinuteLimit \in Nat /\ Limit \in [Fixed -> Nat]
ASSUME PeriodAssumption ==
  /\ Period \in [Fixed -> Nat \ {0}]
  /\ TTL \in [Fixed -> Nat \ {0}]
  /\ \A w \in Fixed : Period[w] + Delay <= TTL[w]
ASSUME BoundAssumption == MaxNow \in Nat /\ MaxDrops \in Nat /\ Outage \in BOOLEAN

VARIABLES
  now,     \* the clock
  up,      \* is Redis reachable
  wire,    \* scripts sent and not answered, oldest first, by request
  ran,     \* how many of them Redis ran on a connection that broke
  again,   \* requests whose minute script was run so (history, never read)
  drops,   \* connections that broke before an answer, so far
  st,      \* request -> where its limiter is
  stage,   \* request -> the window it asks or asked last
  stamp,   \* request -> the instant it gave the minute window
  slot,    \* request -> fixed window -> the index in the key it used
  retry,   \* request -> the Retry-After a refusal carried, in seconds
  zset,    \* the sorted set rl:min:<key>; a member <<r, k>> has r's stamp for a score
  zexp,    \* when that key expires
  cnt      \* fixed window -> its index -> the counter under that key

conn == <<up, wire, ran, again, drops>>
asked == <<st, stage, stamp, slot>>
vars == <<now, conn, asked, retry, zset, zexp, cnt>>

States == {"idle", "waiting", "granted", "denied", "passed", "bypassed"}
Windows == {"minute"} \union Fixed
Entries == Requests \X (1 .. MaxCost)
Times == 0 .. MaxNow
Indexes(w) == 0 .. MaxNow \div Period[w]
NoTTL == 0
Counter == [n : Nat, exp : Nat]   \* exp = NoTTL: the key never expires
Absent == [n |-> 0, exp |-> NoTTL]

MaxOf(a, b) == IF a >= b THEN a ELSE b
(* mutant: Math.floor for Math.ceil *)
CeilDiv_floor(a, b) == a \div b
CeilDiv(a, b) == (a + b - 1) \div b
Units(r) == {<<r, k>> : k \in 1 .. Cost[r]}
Score(e) == stamp[e[1]]
Index(w) == now \div Period[w]   \* dateKey(), monthKey(), windowSlot
Expired(at) == at # NoTTL /\ at < now

FirstStage(r) == IF Kind[r] = "login" THEN "ip" ELSE "minute"
NextStage(s) == CASE s = "minute" -> "day" [] s = "day" -> "month" [] OTHER -> "none"

Init ==
  /\ now = 0
  /\ up = TRUE
  /\ wire = <<>>
  /\ ran = 0
  /\ again = {}
  /\ drops = 0
  /\ st = [r \in Requests |-> "idle"]
  /\ stage = [r \in Requests |-> "none"]
  /\ stamp = [r \in Requests |-> 0]
  /\ slot = [r \in Requests |-> [w \in Fixed |-> 0]]
  /\ retry = [r \in Requests |-> 0]
  /\ zset = {}
  /\ zexp = NoTTL
  /\ cnt = [w \in Fixed |-> [x \in Indexes(w) |-> Absent]]
-----------------------------------------------------------------------------
(* the last instant at which the script r waits for may reach Redis *)
Deadline(r) == Delay + IF stage[r] = "minute" THEN stamp[r]
                       ELSE (slot[r][stage[r]] + 1) * Period[stage[r]] - 1

(* Time passes; a Redis that is up runs a script at most Delay after its   *)
(* instant or after the end of the window in its key.  What a longer       *)
(* outage does when it ends is outside this model.                         *)
Tick ==
  /\ now < MaxNow
  /\ \A r \in Requests : up /\ st[r] = "waiting" => now < Deadline(r)
  /\ now' = now + 1
  /\ UNCHANGED <<conn, asked, retry, zset, zexp, cnt>>

(* Redis goes away and stays away.  One that comes back is one that let    *)
(* its scripts wait, which Eval may do anyway.                             *)
RedisDown ==
  /\ Outage /\ up
  /\ up' = FALSE
  /\ UNCHANGED <<now, wire, ran, again, drops, asked, retry, zset, zexp, cnt>>
-----------------------------------------------------------------------------
(* The limiter sends the script of window s. *)
Send(r, s) ==
  /\ st' = [st EXCEPT ![r] = "waiting"]
  /\ stage' = [stage EXCEPT ![r] = s]
  /\ IF s = "minute"
       THEN stamp' = [stamp EXCEPT ![r] = now] /\ UNCHANGED slot
       ELSE slot' = [slot EXCEPT ![r][s] = Index(s)] /\ UNCHANGED stamp
  /\ wire' = Append(wire, r)

Arrive(r) ==
  /\ st[r] = "idle"
  /\ Send(r, FirstStage(r))
  /\ UNCHANGED <<now, up, ran, again, drops, retry, zset, zexp, cnt>>

(* the answer was yes: ask the next window, or let the request through *)
Proceed(r) ==
  /\ st[r] = "granted"
  /\ IF NextStage(stage[r]) # "none"
       THEN Send(r, NextStage(stage[r]))
       ELSE st' = [st EXCEPT ![r] = "passed"] /\ UNCHANGED <<stage, stamp, slot, wire>>
  /\ UNCHANGED <<now, up, ran, again, drops, retry, zset, zexp, cnt>>
-----------------------------------------------------------------------------
(* The scripts.  Each runs in Redis in one step. *)

(* ZREMRANGEBYSCORE -inf .. stamp - Window *)
Trim(r) == {e \in IF Expired(zexp) THEN {} ELSE zset :
              Score(e) > stamp[r] - Window}

(* mutant: a bulk request needs one free place, not one per number *)
Full_onePlace(r) == Cardinality(Trim(r)) >= MinuteLimit
Full(r) == IF Kind[r] = "bulk" THEN Cardinality(Trim(r)) + Cost[r] > MinuteLimit
                               ELSE Cardinality(Trim(r)) >= MinuteLimit

(* mutant: a sign slips in the time left *)
RetryAfter_sign(r) ==
  IF Trim(r) = {} THEN 60
  ELSE LET oldest == CHOOSE e \in Trim(r) : \A f \in Trim(r) : Score(e) <= Score(f)
       IN  CeilDiv(stamp[r] - Window - Score(oldest), TicksPerSecond)

(* seconds until the oldest entry leaves the window; 60 if there is none *)
RetryAfter(r) ==
  IF Trim(r) = {} THEN 60
  ELSE LET oldest == CHOOSE e \in Trim(r) : \A f \in Trim(r) : Score(e) <= Score(f)
       IN  CeilDiv(Score(oldest) + Window - stamp[r], TicksPerSecond)

MinuteScript(r) ==
  /\ zset' = IF Full(r) THEN Trim(r) ELSE Trim(r) \union Units(r)
  /\ zexp' = IF zset' = {} THEN NoTTL
             ELSE IF Full(r) THEN zexp ELSE now + Window + Slack
  /\ UNCHANGED cnt

(* the counter a fixed window's script finds *)
Held(r) == LET c == cnt[stage[r]][slot[r][stage[r]]]
           IN  IF Expired(c.exp) THEN Absent ELSE c

(* mutant: the bulk script keeps the single one's test *)
Sets_one(r, n) == n = 1
(* INCR and EXPIRE on 1; INCRBY and EXPIRE when nothing was there before *)
Sets(r, n) == IF Kind[r] = "bulk" THEN n <= Cost[r] ELSE n = 1

(* mutant: INCR for INCRBY *)
Counted_one(r) ==
  LET n == Held(r).n + 1
  IN  [n |-> n, exp |-> IF Sets(r, n) THEN now + TTL[stage[r]] ELSE Held(r).exp]

Counted(r) ==
  LET n == Held(r).n + Cost[r]
  IN  [n |-> n, exp |-> IF Sets(r, n) THEN now + TTL[stage[r]] ELSE Held(r).exp]

FixedScript(r) ==
  /\ cnt' = [cnt EXCEPT ![stage[r]][slot[r][stage[r]]] = Counted(r)]
  /\ UNCHANGED <<zset, zexp>>

Script(r) == IF stage[r] = "minute" THEN MinuteScript(r) ELSE FixedScript(r)

(* mutant: the counter is tested before this request is added *)
Refuses_before(r) == IF stage[r] = "minute" THEN Full(r)
                                            ELSE Held(r).n > Limit[stage[r]]
Refuses(r) == IF stage[r] = "minute" THEN Full(r)
                                     ELSE Counted(r).n > Limit[stage[r]]

(* what each 429 says *)
Advice(r) == CASE stage[r] = "minute" -> RetryAfter(r)
               [] stage[r] = "day" -> 86400
               [] stage[r] = "month" -> 2592000
               [] OTHER -> CeilDiv(Period["ip"], TicksPerSecond)

(* the script of r is the next Redis runs *)
AtRedis(r) == up /\ ran < Len(wire) /\ wire[ran + 1] = r

(* on a connection that holds, whose first script is answered first *)
Eval(r) ==
  /\ AtRedis(r) /\ ran = 0
  /\ Script(r)
  /\ wire' = Tail(wire)
  /\ st' = [st EXCEPT ![r] = IF Refuses(r) THEN "denied" ELSE "granted"]
  /\ retry' = IF Refuses(r) THEN [retry EXCEPT ![r] = Advice(r)] ELSE retry
  /\ UNCHANGED <<now, up, ran, again, drops, stage, stamp, slot>>

(* The script runs, and the connection breaks before its answer.  Those    *)
(* sent after it may run too before Redis sees the end of the connection.  *)
EvalAnswerLost(r) ==
  /\ AtRedis(r)
  /\ IF ran = 0 THEN drops < MaxDrops /\ drops' = drops + 1 ELSE UNCHANGED drops
  /\ Script(r)
  /\ ran' = ran + 1
  /\ again' = IF stage[r] = "minute" THEN again \union {r} ELSE again
  /\ UNCHANGED <<now, up, wire, asked, retry>>

(* The connection is there again, and everything unanswered is sent again. *)
Reconnect ==
  /\ up /\ ran > 0
  /\ ran' = 0
  /\ UNCHANGED <<now, up, wire, again, drops, asked, retry, zset, zexp, cnt>>

(* Redis answers with an error (out of memory, read only): the request passes *)
EvalError(r) ==
  /\ AtRedis(r) /\ ran = 0
  /\ wire' = Tail(wire)
  /\ st' = [st EXCEPT ![r] = "bypassed"]
  /\ UNCHANGED <<now, up, ran, again, drops, stage, stamp, slot, retry, zset, zexp, cnt>>
-----------------------------------------------------------------------------
Next ==
  \/ Tick \/ RedisDown \/ Reconnect
  \/ \E r \in Requests :
       Arrive(r) \/ Proceed(r) \/ Eval(r) \/ EvalAnswerLost(r) \/ EvalError(r)

Spec == Init /\ [][Next]_vars

(* The process runs its continuations and connects again, and a reachable  *)
(* Redis answers.  That Redis comes back is not assumed.                   *)
Fairness ==
  /\ WF_vars(Reconnect)
  /\ \A r \in Requests : WF_vars(Proceed(r)) /\ WF_vars(Eval(r) \/ EvalError(r))
FairSpec == Spec /\ Fairness
-----------------------------------------------------------------------------
TypeOK ==
  /\ now \in Times
  /\ up \in BOOLEAN
  /\ wire \in Seq(Requests)
  /\ ran \in 0 .. Len(wire)
  /\ again \subseteq Requests
  /\ drops \in 0 .. MaxDrops
  /\ st \in [Requests -> States]
  /\ stage \in [Requests -> Windows \union {"none"}]
  /\ stamp \in [Requests -> Times]
  /\ slot \in [Requests -> [Fixed -> Nat]]
  /\ \A r \in Requests, w \in Fixed : slot[r][w] \in Indexes(w)
  /\ retry \in [Requests -> Nat]
  /\ zset \in SUBSET Entries
  /\ zexp \in Nat
  /\ DOMAIN cnt = Fixed
  /\ \A w \in Fixed : cnt[w] \in [Indexes(w) -> Counter]

(* did window w say yes to request r *)
Rank(s) == CASE s \in {"minute", "ip"} -> 1 [] s = "day" -> 2 [] s = "month" -> 3
             [] OTHER -> 0
Yes(r, w) ==
  /\ Kind[r] = "login" <=> w = "ip"
  /\ \/ stage[r] = w /\ st[r] \in {"granted", "passed"}
     \/ Rank(stage[r]) > Rank(w)

(* the requests the minute window admitted in the last d before t, and     *)
(* their numbers                                                           *)
AdmittedBy(t, d) ==
  {q \in Requests : Yes(q, "minute") /\ stamp[q] > t - d /\ stamp[q] <= t}
Admitted(t, d) == UNION {Units(r) : r \in AdmittedBy(t, d)}

(* the numbers fixed window w admitted under its key x *)
AdmittedUnder(w, x) ==
  UNION {Units(r) : r \in {q \in Requests : Yes(q, w) /\ slot[q][w] = x}}

(* A script that is sent again comes after younger ones, which trimmed the *)
(* set up to Delay further than its own instant: what it no longer sees is *)
(* that much younger than a window.                                        *)
Late(R) == IF R \cap again = {} THEN 0 ELSE Delay

(* However requests interleave, wait for Redis or come in bulk, no stretch *)
(* of a minute, wherever it starts, holds more admitted numbers than the   *)
(* per-minute limit; where it admitted one whose script ran twice, no      *)
(* stretch of a minute less Delay does (README.md:306-310, rateLimit.ts:8-61). *)
MinuteBound ==
  \A t \in {stamp[r] : r \in Requests} :
    Cardinality(Admitted(t, Window - Late(AdmittedBy(t, Window)))) <= MinuteLimit

(* Nor does a calendar day or month, or an address's hour, hold more than  *)
(* its limit: no counter is lost or restarted while its window is still    *)
(* being charged (rateLimit.ts:30-36, 64-70, 150-184, 333-341).            *)
FixedBound ==
  \A w \in Fixed, r \in Requests :
    Yes(r, w) => Cardinality(AdmittedUnder(w, slot[r][w])) <= Limit[w]

(* Every counter in Redis will expire, whoever created it and whatever it  *)
(* was charged at once: no key stays, full, for ever.                      *)
NoImmortalCounter ==
  \A w \in Fixed : \A x \in Indexes(w) : cnt[w][x].n > 0 => cnt[w][x].exp # NoTTL

(* A single lookup refused by the minute window is told a wait of at least *)
(* a second and at most the window, or Delay more if its script ran twice  *)
(* and found an entry younger than itself; after it, if nobody else comes, *)
(* it is admitted (rateLimit.ts:20, 142).                                  *)
RetryHonest ==
  [][\A r \in Requests :
       /\ st[r] = "waiting" /\ st'[r] = "denied"
       /\ stage[r] = "minute" /\ Kind[r] = "single"
       => /\ retry'[r] \in 1 .. CeilDiv(Window + Late({r}), TicksPerSecond)
          /\ Cardinality({e \in zset' : Score(e) > stamp[r] + retry'[r] * TicksPerSecond
                                                   - Window}) < MinuteLimit]_vars

(* The openapi text of POST /lookup/bulk offers up to 1,000 numbers in one *)
(* request: a bulk request is refused only for numbers asked before it.    *)
RefusedForUse ==
  [][\A r \in Requests :
       st[r] = "waiting" /\ st'[r] = "denied" /\ stage[r] = "minute" => zset' # {}]_vars

(* README.md:329: when Redis is unavailable, requests pass through.        *)
PassesWithoutRedis ==
  \A r \in Requests : st[r] = "waiting" /\ ~up ~> st[r] # "waiting"
=============================================================================
