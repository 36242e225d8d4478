--------------------------- MODULE RateLimitProofs ---------------------------
(***************************************************************************)
(* Proofs about RateLimit, for any requests, limits, windows and periods,  *)
(* any bound on the clock and on lost answers, and with or without an      *)
(* outage.                                                                 *)
(***************************************************************************)
EXTENDS RateLimit, FiniteSetTheorems, TLAPS

-----------------------------------------------------------------------------
(* Arithmetic and finite sets. *)

LEMMA Division ==
  ASSUME NEW x \in Nat, NEW p \in Nat \ {0}
  PROVE  x \div p \in Nat /\ p * (x \div p) <= x /\ x <= p * (x \div p) + p - 1
OBVIOUS

LEMMA DivisionGrows ==
  ASSUME NEW x \in Nat, NEW y \in Nat, x <= y, NEW p \in Nat \ {0}
  PROVE  x \div p <= y \div p
OBVIOUS

LEMMA Distributes == \A x, p \in Nat : x * p = p * x /\ p * x \in Nat /\ (x + 1) * p = p * x + p
OBVIOUS

LEMMA CeilDivNat == \A x \in Nat, p \in Nat \ {0} : CeilDiv(x, p) \in Nat
  BY DEF CeilDiv

\* The least number of p that make up x.
LEMMA CeilDivIs ==
  ASSUME NEW x \in Nat, NEW p \in Nat \ {0}, x > 0
  PROVE  CeilDiv(x, p) \in Nat /\ CeilDiv(x, p) >= 1 /\ x <= p * CeilDiv(x, p)
<1>1. x + p - 1 \in Nat
  OBVIOUS
<1> DEFINE q == (x + p - 1) \div p
<1>2. q \in Nat /\ x + p - 1 <= p * q + p - 1
  BY <1>1, Division
<1>3. p * q \in Nat
  BY <1>2, Distributes
<1>4. CeilDiv(x, p) = q
  BY DEF CeilDiv
<1>5. x <= p * q
  BY <1>2, <1>3
<1>6. q # 0
  BY <1>5
<1> HIDE DEF q
<1> QED
  BY <1>2, <1>4, <1>5, <1>6

LEMMA CeilDivGrows ==
  ASSUME NEW x \in Nat, NEW y \in Nat, x <= y, NEW p \in Nat \ {0}
  PROVE  CeilDiv(x, p) <= CeilDiv(y, p)
<1>1. x + p - 1 \in Nat /\ y + p - 1 \in Nat /\ x + p - 1 <= y + p - 1
  OBVIOUS
<1> QED
  BY <1>1, DivisionGrows DEF CeilDiv

LEMMA UnitsAre ==
  ASSUME NEW r \in Requests
  PROVE  /\ Units(r) \in SUBSET Entries
         /\ \A e \in Units(r) : e[1] = r
         /\ IsFiniteSet(Units(r)) /\ Cardinality(Units(r)) <= Cost[r]
<1>1. Cost[r] \in 1 .. MaxCost /\ MaxCost \in Nat
  BY CostAssumption, MaxCostAssumption
<1>2. Units(r) \in SUBSET Entries /\ \A e \in Units(r) : e[1] = r
  BY <1>1 DEF Units, Entries
<1> DEFINE f == [k \in 1 .. Cost[r] |-> <<r, k>>]
<1>3. f \in Surjection(1 .. Cost[r], Units(r))
  BY <1>1 DEF Surjection, Units
<1>4. IsFiniteSet(1 .. Cost[r]) /\ Cardinality(1 .. Cost[r]) = Cost[r]
  BY <1>1, FS_Interval
<1>5. IsFiniteSet(Units(r)) /\ Cardinality(Units(r)) <= Cardinality(1 .. Cost[r])
  <2> HIDE DEF f
  <2> QED
    BY <1>3, <1>4, FS_Surjection
<1> QED
  BY <1>2, <1>4, <1>5

LEMMA EntriesFinite == \A E \in SUBSET Entries : IsFiniteSet(E) /\ Cardinality(E) \in Nat
<1>1. IsFiniteSet(1 .. MaxCost)
  BY MaxCostAssumption, FS_Interval
<1>2. IsFiniteSet(Entries)
  BY <1>1, RequestsAssumption, FS_Product DEF Entries
<1> QED
  BY <1>2, FS_Subset, FS_CardinalityType

LEMMA UnionBound ==
  ASSUME NEW A \in SUBSET Entries, NEW B \in SUBSET Entries, NEW C, C \subseteq A \union B
  PROVE  /\ C \in SUBSET Entries
         /\ Cardinality(C) <= Cardinality(A) + Cardinality(B)
<1>1. /\ IsFiniteSet(A) /\ IsFiniteSet(B)
      /\ Cardinality(A) \in Nat /\ Cardinality(B) \in Nat /\ Cardinality(C) \in Nat
      /\ Cardinality(A \intersect B) \in Nat /\ C \in SUBSET Entries
  BY EntriesFinite
<1>2. /\ IsFiniteSet(A \union B)
      /\ Cardinality(A \union B) = Cardinality(A) + Cardinality(B) - Cardinality(A \intersect B)
  BY <1>1, FS_Union
<1>3. Cardinality(C) <= Cardinality(A \union B)
  BY <1>2, FS_Subset
<1> QED
  BY <1>1, <1>2, <1>3

\* Among entries one has the least score, as the script's ZRANGE 0 0 assumes.
LEMMA OldestExists ==
  ASSUME NEW E, E # {}, \A e \in E : Score(e) \in Nat
  PROVE  \E e \in E : \A f \in E : Score(e) <= Score(f)
<1> DEFINE N == {Score(e) : e \in E}
<1>1. N \subseteq Nat /\ N # {}
  OBVIOUS
<1>2. PICK m \in N : \A k \in N : ~ (<<k, m>> \in OpToRel(<, Nat))
  BY <1>1, WFMin, NatLessThanWellFounded, Zenon
<1>3. \A k \in N : m <= k
  <2> SUFFICES ASSUME NEW k \in N, k < m PROVE FALSE
    BY <1>1
  <2>1. <<k, m>> \in OpToRel(<, Nat)
    BY <1>1 DEF OpToRel
  <2> QED
    BY <2>1, <1>2
<1> QED
  BY <1>3

-----------------------------------------------------------------------------
(* The invariant.                                                          *)

MinuteAt(i) == i \in 1 .. Len(wire) /\ stage[wire[i]] = "minute"

(* Scripts wait once each, and those of the minute in the order of their   *)
(* instants; those that ran and wait to run again are known.               *)
Queue ==
  /\ \A i \in 1 .. Len(wire) : st[wire[i]] = "waiting"
  /\ \A i, j \in 1 .. Len(wire) : i # j => wire[i] # wire[j]
  /\ \A i, j \in 1 .. Len(wire) :
       i < j /\ MinuteAt(i) /\ MinuteAt(j) => stamp[wire[i]] <= stamp[wire[j]]
  /\ \A i \in 1 .. ran : MinuteAt(i) => wire[i] \in again

(* A request that came asks the windows of its kind. *)
Staged ==
  \A r \in Requests :
    /\ st[r] = "idle" <=> stage[r] = "none"
    /\ stage[r] # "none" => (Kind[r] = "login" <=> stage[r] = "ip")

(* Instants and keys are of the past, and a script that waits is not too late. *)
OnTime ==
  \A r \in Requests :
    /\ stamp[r] <= now
    /\ \A w \in Fixed : Period[w] * slot[r][w] <= now
    /\ up /\ st[r] = "waiting" => now <= Deadline(r)

(* A counter outlives the scripts that charge it, has counted whatever its *)
(* window admitted, and admitted no more than the limit.                   *)
Charged ==
  \A w \in Fixed : \A x \in Indexes(w) :
    /\ cnt[w][x].n > 0 => cnt[w][x].exp # NoTTL
    /\ cnt[w][x].exp # NoTTL => cnt[w][x].exp >= Period[w] * x + TTL[w]
    /\ Cardinality(AdmittedUnder(w, x)) <= cnt[w][x].n
    /\ AdmittedUnder(w, x) # {} => Cardinality(AdmittedUnder(w, x)) <= Limit[w]

(* What the minute's scripts did so far is no later than any still to run  *)
(* for the first time, and the set outlives its entries.                   *)
Ordered ==
  /\ \A e \in zset : stage[e[1]] # "none" /\ zexp >= Score(e) + Window + Slack
  /\ \A i \in 1 .. Len(wire) : MinuteAt(i) /\ wire[i] \notin again =>
       \A e \in zset : Score(e) <= stamp[wire[i]]

(* A request that was admitted and is no longer all in the set is a window *)
(* older than every instant still to come, or, where a script runs again,  *)
(* older than what may have run meanwhile.                                 *)
Gone(q) ==
  /\ stamp[q] + Window <= now
  /\ \A i \in 1 .. Len(wire) :
       MinuteAt(i) => stamp[q] + Window <= stamp[wire[i]] + Late({wire[i]})

Kept == \A q \in Requests : Yes(q, "minute") => Units(q) \subseteq zset \/ Gone(q)

Span(t) == Window - Late(AdmittedBy(t, Window))
InSpan(t) == Admitted(t, Span(t))

Bounded ==
  /\ Cardinality(zset) <= MinuteLimit
  /\ \A t \in Times : Cardinality(InSpan(t)) <= MinuteLimit

IInv == TypeOK /\ Queue /\ Staged /\ OnTime /\ Charged /\ Ordered /\ Kept /\ Bounded

-----------------------------------------------------------------------------
(* What a kind of step does. *)

USE DEF conn, asked

\* The limiter asks window s at the present instant.
LEMMA SendIs ==
  ASSUME TypeOK, NEW r \in Requests, NEW s \in Windows, Send(r, s)
  PROVE  /\ wire' \in Seq(Requests) /\ Len(wire') = Len(wire) + 1 /\ wire'[Len(wire) + 1] = r
         /\ \A i \in 1 .. Len(wire) : wire'[i] = wire[i]
         /\ st' = [st EXCEPT ![r] = "waiting"]
         /\ stage' = [stage EXCEPT ![r] = s]
         /\ stamp' \in [Requests -> Times]
         /\ \A q \in Requests :
              stamp'[q] = IF q = r /\ s = "minute" THEN now ELSE stamp[q]
         /\ slot' \in [Requests -> [Fixed -> Nat]]
         /\ \A q \in Requests, w \in Fixed :
              slot'[q][w] = IF q = r /\ s = w THEN Index(w) ELSE slot[q][w]
         /\ \A w \in Fixed : Index(w) \in Indexes(w) /\ Period[w] * Index(w) <= now
                            /\ now <= Period[w] * Index(w) + Period[w] - 1
<1>1. \A w \in Fixed : Index(w) \in Indexes(w) /\ Period[w] * Index(w) <= now
                      /\ now <= Period[w] * Index(w) + Period[w] - 1
  <2> TAKE w \in Fixed
  <2>1. Period[w] \in Nat \ {0} /\ now \in Nat /\ MaxNow \in Nat /\ now <= MaxNow
    BY PeriodAssumption, BoundAssumption DEF TypeOK, Times
  <2>2. now \div Period[w] \in Nat /\ MaxNow \div Period[w] \in Nat
        /\ now \div Period[w] <= MaxNow \div Period[w]
    BY <2>1, Division, DivisionGrows
  <2>3. Period[w] * (now \div Period[w]) <= now
        /\ now <= Period[w] * (now \div Period[w]) + Period[w] - 1
    BY <2>1, Division
  <2> QED
    BY <2>2, <2>3 DEF Index, Indexes
<1>2. \A w \in Fixed : Index(w) \in Nat
  BY <1>1, BoundAssumption, PeriodAssumption, Division DEF Indexes
<1>3. /\ wire' \in Seq(Requests) /\ Len(wire') = Len(wire) + 1 /\ wire'[Len(wire) + 1] = r
      /\ \A i \in 1 .. Len(wire) : wire'[i] = wire[i]
  BY DEF Send, TypeOK
<1>4. CASE s = "minute"
  <2>1. slot' = slot /\ stamp' = [stamp EXCEPT ![r] = now] /\ s \notin Fixed
    BY <1>4 DEF Send, Fixed
  <2>2. slot' \in [Requests -> [Fixed -> Nat]] /\ stamp' \in [Requests -> Times]
    BY <2>1 DEF TypeOK
  <2>3. \A q \in Requests : stamp'[q] = IF q = r /\ s = "minute" THEN now ELSE stamp[q]
    BY <1>4, <2>1 DEF TypeOK
  <2>4. \A q \in Requests, w \in Fixed :
          slot'[q][w] = IF q = r /\ s = w THEN Index(w) ELSE slot[q][w]
    BY <2>1
  <2> QED
    BY <1>1, <1>3, <2>2, <2>3, <2>4 DEF Send
<1>5. CASE s # "minute"
  <2>1. s \in Fixed
    BY <1>5 DEF Windows
  <2>2. slot' = [slot EXCEPT ![r][s] = Index(s)] /\ stamp' = stamp
    BY <1>5 DEF Send
  <2>3. slot' \in [Requests -> [Fixed -> Nat]]
    BY <1>2, <2>1, <2>2 DEF TypeOK
  <2>4. \A q \in Requests, w \in Fixed :
          slot'[q][w] = IF q = r /\ s = w THEN Index(w) ELSE slot[q][w]
    BY <2>1, <2>2 DEF TypeOK
  <2> QED
    BY <1>1, <1>3, <1>5, <2>2, <2>3, <2>4 DEF Send, TypeOK
<1> QED
  BY <1>4, <1>5

\* The script that is next was sent by a request that waits for a window of its kind.
LEMMA HeadIs ==
  ASSUME TypeOK, Queue, Staged, NEW r \in Requests, AtRedis(r)
  PROVE  /\ Len(wire) \in Nat /\ ran \in Nat
         /\ ran + 1 \in 1 .. Len(wire) /\ wire[ran + 1] = r
         /\ st[r] = "waiting" /\ stage[r] \in Windows
         /\ stage[r] # "minute" => stage[r] \in Fixed
<1>1. wire \in Seq(Requests) /\ ran \in 0 .. Len(wire) /\ ran < Len(wire) /\ wire[ran + 1] = r
  BY DEF AtRedis, TypeOK
<1>2. Len(wire) \in Nat /\ ran \in Nat /\ ran + 1 \in 1 .. Len(wire)
  BY <1>1
<1>3. st[r] = "waiting"
  BY <1>1, <1>2 DEF Queue
<1>4. stage[r] \in Windows
  BY <1>3 DEF Staged, TypeOK
<1> QED
  BY <1>1, <1>2, <1>3, <1>4 DEF Windows

\* When it is answered the others move up.
LEMMA TailIs ==
  ASSUME TypeOK, Queue, Staged, NEW r \in Requests, AtRedis(r), ran = 0
  PROVE  /\ Len(wire) \in Nat /\ 1 \in 1 .. Len(wire) /\ wire[1] = r
         /\ Tail(wire) \in Seq(Requests) /\ Len(Tail(wire)) = Len(wire) - 1
         /\ \A i \in 1 .. Len(wire) - 1 : Tail(wire)[i] = wire[i + 1] /\ Tail(wire)[i] # r
<1>1. Len(wire) \in Nat /\ 1 \in 1 .. Len(wire) /\ wire[1] = r /\ wire \in Seq(Requests)
  BY HeadIs DEF TypeOK
<1>2. /\ Tail(wire) \in Seq(Requests) /\ Len(Tail(wire)) = Len(wire) - 1
      /\ \A i \in 1 .. Len(wire) - 1 : Tail(wire)[i] = wire[i + 1]
  BY <1>1
<1>3. \A i \in 1 .. Len(wire) - 1 : wire[i + 1] # r
  BY <1>1 DEF Queue
<1> QED
  BY <1>1, <1>2, <1>3

\* What a resend may cost.
LEMMA LateIs ==
  \A R : Late(R) \in {0, Delay} /\ Late(R) \in Nat /\ Late(R) <= Delay /\ (R \cap again = {} => Late(R) = 0)
BY DelayAssumption DEF Late

\* A script of a fixed window finds the counter of its window, not yet expired.
LEMMA HeldIs ==
  ASSUME TypeOK, Queue, Staged, OnTime, Charged, NEW r \in Requests, AtRedis(r),
         stage[r] # "minute"
  PROVE  /\ stage[r] \in Fixed /\ slot[r][stage[r]] \in Indexes(stage[r])
         /\ slot[r][stage[r]] \in Nat
         /\ Held(r) = cnt[stage[r]][slot[r][stage[r]]]
         /\ Held(r) \in Counter
         /\ Period[stage[r]] * slot[r][stage[r]] <= now
<1> DEFINE w == stage[r]
           x == slot[r][w]
           c == cnt[w][x]
<1>1. w \in Fixed /\ st[r] = "waiting" /\ up
  BY HeadIs DEF AtRedis
<1>2. x \in Indexes(w) /\ x \in Nat /\ c \in Counter /\ now \in Nat
  BY <1>1 DEF TypeOK, Times
<1>3. /\ Period[w] \in Nat \ {0} /\ TTL[w] \in Nat \ {0} /\ Delay \in Nat
      /\ Period[w] + Delay <= TTL[w]
  BY <1>1, PeriodAssumption, DelayAssumption
<1>4. Deadline(r) = Delay + ((x + 1) * Period[w] - 1)
  BY DEF Deadline
<1>5. now <= Delay + ((x + 1) * Period[w] - 1)
  BY <1>1, <1>4 DEF OnTime
<1>6. Period[w] * x \in Nat /\ (x + 1) * Period[w] - 1 <= Period[w] * x + Period[w] - 1
  BY <1>2, <1>3, Distributes
<1>7. c.exp # NoTTL => c.exp >= Period[w] * x + TTL[w]
  BY <1>1, <1>2 DEF Charged
<1>8. c.exp \in Nat
  BY <1>2 DEF Counter
<1>9. ~ Expired(c.exp)
  <2> DEFINE P == Period[w] * x
             D == (x + 1) * Period[w]
  <2>1. P \in Nat /\ D \in Int /\ D - 1 <= P + Period[w] - 1 /\ now <= Delay + (D - 1)
    BY <1>2, <1>3, <1>5, <1>6
  <2>2. c.exp # NoTTL => c.exp >= P + TTL[w]
    BY <1>7
  <2> HIDE DEF P, D, c
  <2> QED
    BY <2>1, <2>2, <1>2, <1>3, <1>8 DEF Expired
<1>10. Held(r) = c
  BY <1>9 DEF Held
<1>11. Period[w] * x <= now
  BY <1>1 DEF OnTime
<1> QED
  BY <1>1, <1>2, <1>10, <1>11

\* What the trim leaves, and what it takes although the set may have expired.
LEMMA TrimIs ==
  ASSUME TypeOK, Queue, Staged, OnTime, Ordered, NEW r \in Requests, AtRedis(r),
         stage[r] = "minute"
  PROVE  /\ Trim(r) \in SUBSET zset /\ Trim(r) \in SUBSET Entries
         /\ \A e \in Trim(r) : Score(e) + Window > stamp[r]
         /\ \A e \in zset : Score(e) \in Nat /\ (e \notin Trim(r) => Score(e) + Window <= stamp[r])
<1>1. zset \in SUBSET Entries /\ Window \in Nat /\ stamp[r] \in Nat /\ now \in Nat /\ zexp \in Nat
  BY WindowAssumption DEF TypeOK, Times
<1>2. \A e \in zset : Score(e) \in Nat
  BY <1>1 DEF TypeOK, Times, Score, Entries
<1>3. Trim(r) \in SUBSET zset
  BY DEF Trim
<1>4. \A e \in Trim(r) : Score(e) + Window > stamp[r]
  BY <1>1, <1>2, <1>3 DEF Trim
<1>5. now <= Delay + stamp[r]
  BY HeadIs DEF AtRedis, OnTime, Deadline
<1>6. ASSUME NEW e \in zset, e \notin Trim(r) PROVE Score(e) + Window <= stamp[r]
  <2>1. CASE Expired(zexp)
    <3>1. zexp >= Score(e) + Window + Slack
      BY DEF Ordered
    <3> QED
      BY <1>1, <1>2, <1>5, <2>1, <3>1, DelayAssumption DEF Expired
  <2>2. CASE ~ Expired(zexp)
    BY <1>1, <1>2, <1>6, <2>2 DEF Trim
  <2> QED
    BY <2>1, <2>2
<1> QED
  BY <1>1, <1>2, <1>3, <1>4, <1>6

\* The script that runs is the earliest of the minute's that have yet to run; those that ran
\* are not much older.
LEMMA RunsInOrder ==
  ASSUME TypeOK, Queue, Staged, OnTime, NEW r \in Requests, AtRedis(r), stage[r] = "minute"
  PROVE  \A i \in 1 .. Len(wire) :
           MinuteAt(i) => stamp[r] <= stamp[wire[i]] + Late({wire[i]})
<1> SUFFICES ASSUME NEW i \in 1 .. Len(wire), MinuteAt(i)
             PROVE  stamp[r] <= stamp[wire[i]] + Late({wire[i]})
  OBVIOUS
<1>1. /\ Len(wire) \in Nat /\ ran \in Nat /\ ran + 1 \in 1 .. Len(wire) /\ wire[ran + 1] = r
      /\ MinuteAt(ran + 1) /\ wire[i] \in Requests
  BY HeadIs DEF MinuteAt, TypeOK
<1>2. /\ stamp[r] \in Nat /\ stamp[wire[i]] \in Nat /\ stamp[r] <= now /\ now \in Nat
      /\ Delay \in Nat
  BY <1>1, DelayAssumption DEF TypeOK, Times, OnTime
<1>3. CASE i <= ran
  <2>1. wire[i] \in again /\ st[wire[i]] = "waiting" /\ stage[wire[i]] = "minute"
    BY <1>1, <1>3 DEF Queue, MinuteAt
  <2>2. now <= Delay + stamp[wire[i]]
    BY <1>1, <2>1 DEF OnTime, Deadline, AtRedis
  <2>3. Late({wire[i]}) = Delay
    BY <2>1 DEF Late
  <2> QED
    BY <1>2, <2>2, <2>3
<1>4. CASE i = ran + 1
  BY <1>1, <1>2, <1>4, LateIs
<1>5. CASE ran + 1 < i
  <2>1. stamp[r] <= stamp[wire[i]]
    BY <1>1, <1>5 DEF Queue
  <2>2. Late({wire[i]}) \in Nat
    BY LateIs
  <2> QED
    BY <1>2, <2>1, <2>2
<1> QED
  BY <1>1, <1>3, <1>4, <1>5

LEMMA NotFull ==
  ASSUME NEW r \in Requests, ~ Full(r), Cardinality(Trim(r)) \in Nat
  PROVE  Cardinality(Trim(r)) + Cost[r] <= MinuteLimit
BY CostAssumption, MaxCostAssumption, LimitAssumption DEF Full

\* Redis runs the minute's script of r, whose answer may be lost or not.
LEMMA MinuteRuns ==
  ASSUME TypeOK, Queue, Staged, OnTime, Ordered, Kept, Bounded,
         NEW r \in Requests, AtRedis(r), stage[r] = "minute", MinuteScript(r)
  PROVE  /\ zset' \in SUBSET Entries /\ zexp' \in Nat
         /\ Cardinality(zset') <= MinuteLimit
         /\ \A e \in zset' : /\ stage[e[1]] # "none" /\ (e \in zset \/ Score(e) = stamp[r])
                            /\ zexp' >= Score(e) + Window + Slack
         /\ \A q \in Requests : Yes(q, "minute") => Units(q) \subseteq zset' \/ Gone(q)
         /\ ~ Full(r) => Units(r) \subseteq zset'
<1>1. /\ now \in Nat /\ zexp \in Nat /\ stamp[r] \in Nat /\ stamp[r] <= now
      /\ Window \in Nat \ {0} /\ Slack \in Nat /\ Cost[r] \in Nat /\ MinuteLimit \in Nat
  BY WindowAssumption, DelayAssumption, CostAssumption, LimitAssumption
     DEF TypeOK, Times, OnTime
<1>2. MinuteAt(ran + 1) /\ wire[ran + 1] = r /\ ran + 1 \in 1 .. Len(wire)
  BY HeadIs DEF MinuteAt
<1>3. /\ Trim(r) \in SUBSET zset /\ Trim(r) \in SUBSET Entries
      /\ \A e \in zset : Score(e) \in Nat /\ (e \notin Trim(r) => Score(e) + Window <= stamp[r])
  BY TrimIs
<1>4. \A e \in zset : /\ stage[e[1]] # "none" /\ Score(e) <= now
                     /\ zexp >= Score(e) + Window + Slack
  BY DEF Ordered, OnTime, Score, TypeOK, Entries
<1>5. /\ Units(r) \in SUBSET Entries /\ Cardinality(Units(r)) <= Cost[r]
      /\ \A e \in Units(r) : e[1] = r /\ Score(e) = stamp[r]
  BY UnitsAre DEF Score
<1>6. stage[r] # "none"
  BY DEF Windows
<1>7. Trim(r) \subseteq zset'
  BY DEF MinuteScript
<1>8. \A q \in Requests : Yes(q, "minute") => Units(q) \subseteq zset' \/ Gone(q)
  <2> SUFFICES ASSUME NEW q \in Requests, Yes(q, "minute"), ~ Units(q) \subseteq zset'
               PROVE  Gone(q)
    OBVIOUS
  <2>1. CASE Gone(q)
    BY <2>1
  <2>2. CASE Units(q) \subseteq zset
    <3>1. PICK e \in Units(q) : e \notin Trim(r)
      BY <1>7
    <3>2. e \in zset /\ Score(e) = stamp[q]
      BY <2>2, UnitsAre DEF Score
    <3>3. stamp[q] + Window <= stamp[r]
      BY <1>3, <3>1, <3>2
    <3>4. \A i \in 1 .. Len(wire) :
            MinuteAt(i) => stamp[r] <= stamp[wire[i]] + Late({wire[i]})
      BY RunsInOrder
    <3>5. stamp[q] \in Nat /\ stamp[q] + Window <= now
      BY <1>1, <3>3 DEF TypeOK, Times
    <3>6. ASSUME NEW i \in 1 .. Len(wire), MinuteAt(i)
          PROVE  stamp[q] + Window <= stamp[wire[i]] + Late({wire[i]})
      <4>1. stamp[wire[i]] \in Nat /\ Late({wire[i]}) \in Nat
        BY LateIs DEF TypeOK, Times
      <4>2. stamp[r] <= stamp[wire[i]] + Late({wire[i]})
        BY <3>4, <3>6
      <4> QED
        BY <1>1, <3>3, <3>5, <4>1, <4>2
    <3> QED
      BY <3>5, <3>6 DEF Gone
  <2> QED
    BY <2>1, <2>2 DEF Kept
<1>9. CASE Full(r)
  <2>1. zset' = Trim(r) /\ (zset' # {} => zexp' = zexp) /\ (zset' = {} => zexp' = NoTTL)
    BY <1>9 DEF MinuteScript
  <2>2. IsFiniteSet(zset) /\ Cardinality(zset) \in Nat /\ Cardinality(Trim(r)) \in Nat
    BY <1>3, EntriesFinite DEF TypeOK
  <2>3. Cardinality(Trim(r)) <= Cardinality(zset)
    BY <1>3, <2>2, FS_Subset
  <2>4. Cardinality(zset') <= MinuteLimit
    BY <1>1, <2>1, <2>2, <2>3 DEF Bounded
  <2>5. zexp' \in Nat
    BY <1>1, <2>1 DEF NoTTL
  <2> QED
    BY <1>3, <1>4, <1>8, <1>9, <2>1, <2>4, <2>5
<1>10. CASE ~ Full(r)
  <2>1. zset' = Trim(r) \union Units(r)
    BY <1>10 DEF MinuteScript
  <2>2. zset' = {} \/ zexp' = now + Window + Slack
    BY <1>10 DEF MinuteScript
  <2>3. Cardinality(Trim(r)) \in Nat /\ Cardinality(Units(r)) \in Nat /\ Cardinality(zset') \in Nat
        /\ zset' \in SUBSET Entries
    BY <1>3, <1>5, <2>1, EntriesFinite
  <2>4. Cardinality(zset') <= Cardinality(Trim(r)) + Cardinality(Units(r))
    BY <1>3, <1>5, <2>1, UnionBound
  <2>5. Cardinality(Trim(r)) + Cost[r] <= MinuteLimit
    BY <1>10, <2>3, NotFull
  <2>6. Cardinality(zset') <= MinuteLimit
    BY <1>1, <1>5, <2>3, <2>4, <2>5
  <2>7. zexp' \in Nat
    BY <1>1, <2>2 DEF MinuteScript, NoTTL
  <2>8. \A e \in zset' : /\ stage[e[1]] # "none" /\ Score(e) <= now /\ Score(e) \in Nat
                         /\ (e \in zset \/ Score(e) = stamp[r])
    BY <1>1, <1>3, <1>4, <1>5, <1>6, <2>1
  <2>9. \A e \in zset' : zexp' >= Score(e) + Window + Slack
    BY <1>1, <2>2, <2>8
  <2> QED
    BY <1>8, <1>10, <2>1, <2>3, <2>6, <2>7, <2>8, <2>9
<1> QED
  BY <1>9, <1>10

\* Redis runs the script of a fixed window, whose answer may be lost or not.
LEMMA FixedRuns ==
  ASSUME TypeOK, Queue, Staged, OnTime, Charged, NEW r \in Requests, AtRedis(r),
         stage[r] # "minute", FixedScript(r)
  PROVE  /\ stage[r] \in Fixed /\ slot[r][stage[r]] \in Indexes(stage[r])
         /\ Counted(r) \in Counter
         /\ Counted(r).n = cnt[stage[r]][slot[r][stage[r]]].n + Cost[r]
         /\ Counted(r).exp # NoTTL
         /\ Counted(r).exp >= Period[stage[r]] * slot[r][stage[r]] + TTL[stage[r]]
         /\ DOMAIN cnt' = Fixed
         /\ \A w \in Fixed : cnt'[w] \in [Indexes(w) -> Counter]
         /\ \A w \in Fixed : \A x \in Indexes(w) :
              cnt'[w][x] = IF w = stage[r] /\ x = slot[r][w] THEN Counted(r) ELSE cnt[w][x]
<1> DEFINE w == stage[r]
           x == slot[r][w]
           P == Period[w] * x
<1>1. /\ w \in Fixed /\ x \in Indexes(w) /\ x \in Nat
      /\ Held(r) = cnt[w][x] /\ Held(r) \in Counter /\ P <= now
  BY HeldIs
<1>2. /\ Period[w] \in Nat \ {0} /\ TTL[w] \in Nat \ {0} /\ now \in Nat
      /\ Cost[r] \in Nat \ {0} /\ (Kind[r] # "bulk" => Cost[r] = 1)
  BY <1>1, PeriodAssumption, CostAssumption, MaxCostAssumption DEF TypeOK, Times
<1>3. P \in Nat
  BY <1>1, <1>2, Distributes
<1>4. /\ Held(r).n \in Nat /\ Held(r).exp \in Nat
      /\ Held(r).n > 0 => Held(r).exp # NoTTL
      /\ Held(r).exp # NoTTL => Held(r).exp >= P + TTL[w]
  BY <1>1 DEF Charged, Counter
<1> HIDE DEF P, w, x
<1>5. /\ Counted(r).n = Held(r).n + Cost[r]
      /\ Counted(r) = [n |-> Counted(r).n, exp |-> Counted(r).exp]
      /\ Counted(r).exp = IF Sets(r, Counted(r).n) THEN now + TTL[w] ELSE Held(r).exp
  BY DEF Counted, w
<1>6. ~ Sets(r, Counted(r).n) => Held(r).n > 0
  BY <1>2, <1>4, <1>5 DEF Sets
<1>7. Counted(r).exp \in Nat /\ Counted(r).exp # NoTTL /\ Counted(r).exp >= P + TTL[w]
  BY <1>1, <1>2, <1>3, <1>4, <1>5, <1>6 DEF NoTTL
<1>8. Counted(r) \in Counter
  <2>1. Counted(r).n \in Nat
    BY <1>2, <1>4, <1>5
  <2> QED
    BY <1>5, <1>7, <2>1 DEF Counter
<1>9. cnt' = [cnt EXCEPT ![w][x] = Counted(r)]
  BY DEF FixedScript, w, x
<1>10. DOMAIN cnt' = Fixed /\ cnt'[w] = [cnt[w] EXCEPT ![x] = Counted(r)]
       /\ \A v \in Fixed : v # w => cnt'[v] = cnt[v]
  BY <1>1, <1>9 DEF TypeOK
<1>11. cnt'[w] \in [Indexes(w) -> Counter]
       /\ \A y \in Indexes(w) : cnt'[w][y] = IF y = x THEN Counted(r) ELSE cnt[w][y]
  BY <1>1, <1>8, <1>10 DEF TypeOK
<1>12. \A v \in Fixed : cnt'[v] \in [Indexes(v) -> Counter]
  BY <1>10, <1>11 DEF TypeOK
<1>13. \A v \in Fixed : \A y \in Indexes(v) :
         cnt'[v][y] = IF v = w /\ y = slot[r][v] THEN Counted(r) ELSE cnt[v][y]
  BY <1>10, <1>11 DEF x
<1> QED
  BY <1>1, <1>5, <1>7, <1>8, <1>10, <1>12, <1>13 DEF P, w, x

\* A limiter goes on: it sends its next script, or lets the request through.
Sends(r, s) ==
  /\ \/ st[r] = "idle" /\ s = FirstStage(r)
     \/ st[r] = "granted" /\ s = NextStage(stage[r])
  /\ Send(r, s)
  /\ UNCHANGED <<now, up, ran, again, drops, retry, zset, zexp, cnt>>
Passes(r) ==
  /\ st[r] = "granted" /\ NextStage(stage[r]) = "none"
  /\ st' = [st EXCEPT ![r] = "passed"]
  /\ UNCHANGED <<now, up, wire, ran, again, drops, stage, stamp, slot, retry, zset, zexp, cnt>>

LEMMA GoesOn ==
  ASSUME NEW r \in Requests, Arrive(r) \/ Proceed(r)
  PROVE  Passes(r) \/ \E s \in Windows : Sends(r, s)
<1>1. FirstStage(r) \in Windows
  BY DEF FirstStage, Windows, Fixed
<1>2. NextStage(stage[r]) # "none" => NextStage(stage[r]) \in Windows
  BY DEF NextStage, Windows, Fixed
<1>3. CASE Arrive(r)
  BY <1>1, <1>3 DEF Arrive, Sends
<1>4. CASE Proceed(r) /\ NextStage(stage[r]) # "none"
  BY <1>2, <1>4 DEF Proceed, Sends
<1>5. CASE Proceed(r) /\ NextStage(stage[r]) = "none"
  BY <1>5 DEF Proceed, Passes
<1> QED
  BY <1>3, <1>4, <1>5

\* What such a request asks, and that no window's verdict changes by it.
LEMMA SendsIs ==
  ASSUME TypeOK, Staged, NEW r \in Requests, NEW s \in Windows, Sends(r, s)
  PROVE  /\ Kind[r] = "login" <=> s = "ip"
         /\ s \in {"minute", "ip"} <=> stage[r] = "none"
         /\ ~ Yes(r, s)
         /\ \A q \in Requests, w \in Windows : Yes(q, w)' <=> Yes(q, w)
<1>1. /\ st' = [st EXCEPT ![r] = "waiting"]
      /\ stage' = [stage EXCEPT ![r] = s]
      /\ st \in [Requests -> States] /\ stage \in [Requests -> Windows \union {"none"}]
  BY SendIs DEF Sends, TypeOK
<1>2. Kind[r] \in Kinds
  BY KindAssumption
<1>3. CASE st[r] = "idle" /\ s = FirstStage(r)
  <2>1. stage[r] = "none" /\ st'[r] = "waiting" /\ stage'[r] = s
    BY <1>1, <1>3 DEF Staged
  <2>2. /\ Kind[r] = "login" <=> s = "ip"
        /\ s = "minute" \/ s = "ip"
    BY <1>3 DEF FirstStage
  <2>3. \A w \in Windows : ~ Yes(r, w)
    BY <2>1 DEF Yes, Rank, Windows, Fixed
  <2>4. \A w \in Windows : ~ Yes(r, w)'
    BY <2>1, <2>2 DEF Yes, Rank, Windows, Fixed
  <2> QED
    BY <1>1, <2>1, <2>2, <2>3, <2>4 DEF Yes
<1>4. CASE st[r] = "granted" /\ s = NextStage(stage[r])
  <2>1. /\ st'[r] = "waiting" /\ stage'[r] = s
        /\ Kind[r] = "login" <=> stage[r] = "ip"
        /\ \/ stage[r] = "minute" /\ s = "day"
           \/ stage[r] = "day" /\ s = "month"
    BY <1>1, <1>4 DEF Staged, NextStage, Windows, Fixed
  <2>2. \A w \in Windows : Yes(r, w)' <=> Yes(r, w)
    BY <1>4, <2>1 DEF Yes, Rank, Windows, Fixed
  <2>3. ~ Yes(r, s)
    BY <2>1 DEF Yes, Rank
  <2> QED
    BY <1>1, <2>1, <2>2, <2>3 DEF Yes
<1> QED
  BY <1>3, <1>4 DEF Sends

LEMMA PassesIs ==
  ASSUME TypeOK, NEW r \in Requests, Passes(r)
  PROVE  \A q \in Requests, w \in Windows : Yes(q, w)' <=> Yes(q, w)
<1>1. st' = [st EXCEPT ![r] = "passed"] /\ stage' = stage /\ st[r] = "granted"
      /\ st \in [Requests -> States]
  BY DEF Passes, TypeOK
<1> QED
  BY <1>1 DEF Yes

\* An answer is a yes of the window that was asked, or no yes.
LEMMA AnswerIs ==
  ASSUME TypeOK, Staged, NEW r \in Requests, st[r] = "waiting", UNCHANGED stage,
         NEW a \in {"granted", "denied", "bypassed"}, st' = [st EXCEPT ![r] = a]
  PROVE  \A q \in Requests, w \in Windows :
           Yes(q, w)' <=> Yes(q, w) \/ (q = r /\ w = stage[r] /\ a = "granted")
<1>1. stage[r] \in Windows /\ (Kind[r] = "login" <=> stage[r] = "ip")
  BY DEF Staged, TypeOK
<1>2. st'[r] = a /\ \A q \in Requests \ {r} : st'[q] = st[q]
  BY DEF TypeOK
<1>3. \A w \in Windows : Yes(r, w)' <=> Yes(r, w) \/ (w = stage[r] /\ a = "granted")
  BY <1>1, <1>2 DEF Yes, Rank, Windows, Fixed
<1> QED
  BY <1>2, <1>3 DEF Yes

LEMMA AdviceNat ==
  ASSUME TypeOK, Queue, Staged, OnTime, Ordered, NEW r \in Requests, AtRedis(r)
  PROVE  Advice(r) \in Nat
<1>1. stage[r] \in Windows
  BY HeadIs
<1>2. CASE stage[r] = "minute"
  <2>1. /\ Trim(r) \in SUBSET zset /\ \A e \in zset : Score(e) \in Nat
        /\ \A e \in Trim(r) : Score(e) + Window > stamp[r]
    BY <1>2, TrimIs
  <2>2. CASE Trim(r) = {}
    BY <1>2, <2>2 DEF Advice, RetryAfter
  <2>3. CASE Trim(r) # {}
    <3> DEFINE oldest == CHOOSE e \in Trim(r) : \A f \in Trim(r) : Score(e) <= Score(f)
    <3>1. oldest \in Trim(r)
      BY <2>1, <2>3, OldestExists
    <3>2. RetryAfter(r) = CeilDiv(Score(oldest) + Window - stamp[r], TicksPerSecond)
      BY <2>3 DEF RetryAfter
    <3> HIDE DEF oldest
    <3>3. Score(oldest) + Window - stamp[r] \in Nat
      BY <2>1, <3>1, WindowAssumption DEF TypeOK, Times
    <3> QED
      BY <1>2, <3>2, <3>3, CeilDivNat, WindowAssumption DEF Advice
  <2> QED
    BY <2>2, <2>3
<1>3. CeilDiv(Period["ip"], TicksPerSecond) \in Nat
  BY CeilDivNat, PeriodAssumption, WindowAssumption DEF Fixed
<1> QED
  BY <1>1, <1>2, <1>3 DEF Advice, Windows, Fixed

\* A script that runs leaves what it counts in well formed.
LEMMA ScriptTypes ==
  ASSUME TypeOK, Queue, Staged, OnTime, Charged, Ordered, Kept, Bounded,
         NEW r \in Requests, AtRedis(r), Script(r)
  PROVE  /\ zset' \in SUBSET Entries /\ zexp' \in Nat
         /\ DOMAIN cnt' = Fixed
         /\ \A w \in Fixed : cnt'[w] \in [Indexes(w) -> Counter]
<1>1. CASE stage[r] = "minute"
  <2>1. MinuteScript(r) /\ cnt' = cnt
    BY <1>1 DEF Script, MinuteScript
  <2> QED
    BY <1>1, <2>1, MinuteRuns DEF TypeOK
<1>2. CASE stage[r] # "minute"
  <2>1. FixedScript(r) /\ zset' = zset /\ zexp' = zexp
    BY <1>2 DEF Script, FixedScript
  <2> QED
    BY <1>2, <2>1, FixedRuns DEF TypeOK
<1> QED
  BY <1>1, <1>2

LEMMA TypeStep == IInv /\ [Next]_vars => TypeOK'
<1> SUFFICES ASSUME IInv, [Next]_vars PROVE TypeOK'
  OBVIOUS
<1>0. TypeOK /\ Queue /\ Staged /\ OnTime /\ Charged /\ Ordered /\ Kept /\ Bounded
  BY DEF IInv
<1>Tick. ASSUME Tick PROVE TypeOK'
  BY <1>0, <1>Tick, BoundAssumption DEF Tick, TypeOK, Times
<1>RedisDown. ASSUME RedisDown \/ Reconnect PROVE TypeOK'
  <2>1. ran' \in 0 .. Len(wire')
    BY <1>0, <1>RedisDown DEF RedisDown, Reconnect, TypeOK
  <2> QED
    BY <1>0, <1>RedisDown, <2>1 DEF RedisDown, Reconnect, TypeOK
<1>Sends. ASSUME NEW r \in Requests, NEW s \in Windows, Sends(r, s) PROVE TypeOK'
  <2>1. Send(r, s) /\ UNCHANGED <<now, up, ran, again, drops, retry, zset, zexp, cnt>>
    BY <1>Sends DEF Sends
  <2>2. /\ wire' \in Seq(Requests) /\ stamp' \in [Requests -> Times]
        /\ slot' \in [Requests -> [Fixed -> Nat]]
        /\ st' = [st EXCEPT ![r] = "waiting"]
        /\ stage' = [stage EXCEPT ![r] = s]
    BY <1>0, <2>1, SendIs
  <2>3. \A q \in Requests, w \in Fixed : slot'[q][w] \in Indexes(w)
    <3>1. \A q \in Requests, w \in Fixed :
            slot'[q][w] = (IF q = r /\ s = w THEN Index(w) ELSE slot[q][w])
            /\ Index(w) \in Indexes(w)
      BY <1>0, <2>1, SendIs
    <3> QED
      BY <1>0, <3>1 DEF TypeOK
  <2>4. st' \in [Requests -> States] /\ stage' \in [Requests -> Windows \union {"none"}]
    BY <1>0, <2>2 DEF TypeOK, States
  <2>5. ran' \in 0 .. Len(wire')
    <3>1. Len(wire') = Len(wire) + 1 /\ Len(wire) \in Nat /\ ran \in 0 .. Len(wire) /\ ran' = ran
      BY <1>0, <2>1, SendIs DEF TypeOK
    <3> QED
      BY <3>1
  <2> QED
    BY <1>0, <2>1, <2>2, <2>3, <2>4, <2>5 DEF TypeOK
<1>Passes. ASSUME NEW r \in Requests, Passes(r) PROVE TypeOK'
  BY <1>0, <1>Passes DEF Passes, TypeOK, States
<1>Eval. ASSUME NEW r \in Requests, Eval(r) PROVE TypeOK'
  <2>1. AtRedis(r) /\ Script(r)
    BY <1>Eval DEF Eval
  <2>2. wire' \in Seq(Requests) /\ ran' \in 0 .. Len(wire')
    BY <1>0, <1>Eval, <2>1, TailIs DEF Eval
  <2>3. retry' \in [Requests -> Nat]
    BY <1>0, <1>Eval, <2>1, AdviceNat DEF Eval, TypeOK
  <2>4. st' \in [Requests -> States]
    BY <1>0, <1>Eval DEF Eval, TypeOK, States
  <2> QED
    BY <1>0, <1>Eval, <2>1, <2>2, <2>3, <2>4, ScriptTypes DEF Eval, TypeOK
<1>EvalAnswerLost. ASSUME NEW r \in Requests, EvalAnswerLost(r) PROVE TypeOK'
  <2>1. AtRedis(r) /\ Script(r)
    BY <1>EvalAnswerLost DEF EvalAnswerLost
  <2>2. drops' \in 0 .. MaxDrops /\ ran' \in 0 .. Len(wire') /\ again' \subseteq Requests
    BY <1>0, <1>EvalAnswerLost, <2>1, HeadIs, BoundAssumption DEF EvalAnswerLost, TypeOK
  <2> QED
    BY <1>0, <1>EvalAnswerLost, <2>1, <2>2, ScriptTypes DEF EvalAnswerLost, TypeOK
<1>EvalError. ASSUME NEW r \in Requests, EvalError(r) PROVE TypeOK'
  <2>1. wire' \in Seq(Requests) /\ ran' \in 0 .. Len(wire')
    BY <1>0, <1>EvalError, TailIs DEF EvalError
  <2> QED
    BY <1>0, <1>EvalError, <2>1 DEF EvalError, TypeOK, States
<1>Stutter. ASSUME UNCHANGED vars PROVE TypeOK'
  BY <1>0, <1>Stutter DEF vars, TypeOK
<1> QED
  BY <1>Tick, <1>RedisDown, <1>Sends, <1>Passes, GoesOn, <1>Eval, <1>EvalAnswerLost, <1>EvalError,
     <1>Stutter DEF Next

LEMMA QueueStep == IInv /\ [Next]_vars => Queue'
<1> SUFFICES ASSUME IInv, [Next]_vars PROVE Queue'
  OBVIOUS
<1>0. TypeOK /\ Queue /\ Staged /\ OnTime
  BY DEF IInv
<1>Same. ASSUME UNCHANGED <<wire, st, stage, stamp>>,
                \A i \in 1 .. ran' : MinuteAt(i) => wire[i] \in again'
         PROVE  Queue'
  BY <1>0, <1>Same DEF Queue, MinuteAt
<1>Rest. ASSUME UNCHANGED <<wire, ran, again, st, stage, stamp>> PROVE Queue'
  BY <1>0, <1>Rest, <1>Same DEF Queue
<1>Sends. ASSUME NEW r \in Requests, NEW s \in Windows, Sends(r, s) PROVE Queue'
  <2> DEFINE n == Len(wire)
  <2>1. /\ wire' \in Seq(Requests) /\ Len(wire') = n + 1 /\ wire'[n + 1] = r
        /\ \A i \in 1 .. n : wire'[i] = wire[i] /\ wire[i] \in Requests
        /\ n \in Nat
    BY <1>0, <1>Sends, SendIs DEF Sends, TypeOK
  <2>2. /\ st' = [st EXCEPT ![r] = "waiting"]
        /\ stage' = [stage EXCEPT ![r] = s]
        /\ \A q \in Requests : stamp'[q] = IF q = r /\ s = "minute" THEN now ELSE stamp[q]
    BY <1>0, <1>Sends, SendIs DEF Sends
  <2>3. st[r] # "waiting"
    BY <1>Sends DEF Sends
  <2>4. \A i \in 1 .. n : wire[i] # r
    BY <1>0, <2>3 DEF Queue
  <2>5. /\ \A q \in Requests : st'[q] = IF q = r THEN "waiting" ELSE st[q]
        /\ \A q \in Requests : stage'[q] = IF q = r THEN s ELSE stage[q]
    BY <1>0, <2>2 DEF TypeOK
  <2>6. \A i \in 1 .. Len(wire') : st'[wire'[i]] = "waiting"
    <3> TAKE i \in 1 .. Len(wire')
    <3>1. i = n + 1 \/ i \in 1 .. n
      BY <2>1
    <3> QED
      BY <1>0, <2>1, <2>5, <3>1 DEF Queue
  <2>7. \A i, j \in 1 .. Len(wire') : i # j => wire'[i] # wire'[j]
    <3> TAKE i, j \in 1 .. Len(wire')
    <3>1. (i = n + 1 \/ i \in 1 .. n) /\ (j = n + 1 \/ j \in 1 .. n)
      BY <2>1
    <3> QED
      BY <1>0, <2>1, <2>4, <3>1 DEF Queue
  <2>8. ASSUME NEW i \in 1 .. Len(wire'), NEW j \in 1 .. Len(wire'), i < j,
               stage'[wire'[i]] = "minute", stage'[wire'[j]] = "minute"
        PROVE  stamp'[wire'[i]] <= stamp'[wire'[j]]
    <3>1. i \in 1 .. n /\ (j = n + 1 \/ j \in 1 .. n)
      BY <2>1, <2>8
    <3>2. wire'[i] = wire[i] /\ wire[i] \in Requests /\ wire[i] # r
          /\ stage[wire[i]] = "minute" /\ stamp'[wire'[i]] = stamp[wire[i]]
      BY <2>1, <2>2, <2>4, <2>5, <2>8, <3>1
    <3>3. CASE j = n + 1
      <4>1. wire'[j] = r /\ s = "minute" /\ stamp'[r] = now
        BY <2>1, <2>2, <2>5, <2>8, <3>3
      <4> QED
        BY <1>0, <3>2, <4>1 DEF OnTime
    <3>4. CASE j \in 1 .. n
      <4>1. wire'[j] = wire[j] /\ stage[wire[j]] = "minute" /\ stamp'[wire'[j]] = stamp[wire[j]]
        BY <2>1, <2>2, <2>4, <2>5, <2>8, <3>4
      <4> QED
        BY <1>0, <2>8, <3>1, <3>2, <3>4, <4>1 DEF Queue, MinuteAt
    <3> QED
      BY <3>1, <3>3, <3>4
  <2>9. \A i \in 1 .. ran' : MinuteAt(i)' => wire'[i] \in again'
    <3> SUFFICES ASSUME NEW i \in 1 .. ran', MinuteAt(i)' PROVE wire'[i] \in again'
      OBVIOUS
    <3>1. ran' = ran /\ again' = again /\ i \in 1 .. n
      BY <1>0, <1>Sends, <2>1 DEF Sends, TypeOK
    <3>2. MinuteAt(i)
      BY <2>1, <2>4, <2>5, <3>1 DEF MinuteAt
    <3> QED
      BY <1>0, <2>1, <3>1, <3>2 DEF Queue
  <2> QED
    BY <2>6, <2>7, <2>8, <2>9 DEF Queue, MinuteAt
<1>Passes. ASSUME NEW r \in Requests, Passes(r) PROVE Queue'
  <2>1. \A i \in 1 .. Len(wire) : wire[i] \in Requests /\ st'[wire[i]] = st[wire[i]]
    BY <1>0, <1>Passes DEF Passes, Queue, TypeOK
  <2> QED
    BY <1>0, <1>Passes, <2>1 DEF Passes, Queue, MinuteAt
<1>Answered. ASSUME NEW r \in Requests, AtRedis(r), ran = 0, ran' = 0, wire' = Tail(wire),
                    NEW a, st' = [st EXCEPT ![r] = a], UNCHANGED <<stage, stamp>>
             PROVE  Queue'
  <2> DEFINE n == Len(wire) - 1
  <2>1. /\ Len(wire') = n /\ n \in Nat
        /\ \A i \in 1 .. n : wire'[i] = wire[i + 1] /\ wire'[i] # r /\ i + 1 \in 1 .. Len(wire)
    BY <1>0, <1>Answered, TailIs
  <2>2. \A i \in 1 .. n : st'[wire'[i]] = "waiting"
    BY <1>0, <1>Answered, <2>1 DEF Queue, TypeOK
  <2>3. \A i, j \in 1 .. n : i # j => wire'[i] # wire'[j]
    BY <1>0, <2>1 DEF Queue
  <2>4. \A i, j \in 1 .. n : i < j /\ stage[wire'[i]] = "minute" /\ stage[wire'[j]] = "minute"
                              => stamp[wire'[i]] <= stamp[wire'[j]]
    <3> SUFFICES ASSUME NEW i \in 1 .. n, NEW j \in 1 .. n, i < j,
                        stage[wire'[i]] = "minute", stage[wire'[j]] = "minute"
                 PROVE  stamp[wire'[i]] <= stamp[wire'[j]]
      OBVIOUS
    <3>1. i + 1 \in 1 .. Len(wire) /\ j + 1 \in 1 .. Len(wire) /\ i + 1 < j + 1
          /\ wire'[i] = wire[i + 1] /\ wire'[j] = wire[j + 1]
      BY <2>1
    <3>2. MinuteAt(i + 1) /\ MinuteAt(j + 1)
      BY <3>1 DEF MinuteAt
    <3> QED
      BY <1>0, <3>1, <3>2 DEF Queue
  <2> HIDE DEF n
  <2> QED
    BY <1>Answered, <2>1, <2>2, <2>3, <2>4 DEF Queue, MinuteAt
<1>Eval. ASSUME NEW r \in Requests, Eval(r) PROVE Queue'
  BY <1>Eval, <1>Answered DEF Eval
<1>EvalError. ASSUME NEW r \in Requests, EvalError(r) PROVE Queue'
  BY <1>EvalError, <1>Answered DEF EvalError
<1>EvalAnswerLost. ASSUME NEW r \in Requests, EvalAnswerLost(r) PROVE Queue'
  <2>1. /\ ran \in Nat /\ wire[ran + 1] = r /\ ran' = ran + 1
        /\ again' = IF stage[r] = "minute" THEN again \union {r} ELSE again
    BY <1>0, <1>EvalAnswerLost, HeadIs DEF EvalAnswerLost
  <2>2. ASSUME NEW i \in 1 .. ran', MinuteAt(i) PROVE wire[i] \in again'
    <3>1. i \in 1 .. ran \/ i = ran + 1
      BY <2>1
    <3> QED
      BY <1>0, <2>1, <2>2, <3>1 DEF Queue, MinuteAt
  <2> QED
    BY <1>EvalAnswerLost, <1>Same, <2>2 DEF EvalAnswerLost
<1>Reconnect. ASSUME Reconnect PROVE Queue'
  BY <1>Reconnect, <1>Same DEF Reconnect
<1> QED
  BY <1>Rest, <1>Sends, <1>Passes, GoesOn, <1>Eval, <1>EvalError, <1>EvalAnswerLost, <1>Reconnect
     DEF Next, vars, Tick, RedisDown

LEMMA StagedStep == IInv /\ [Next]_vars => Staged'
<1> SUFFICES ASSUME IInv, [Next]_vars PROVE Staged'
  OBVIOUS
<1>0. TypeOK /\ Queue /\ Staged
  BY DEF IInv
<1>Same. ASSUME UNCHANGED <<st, stage>> PROVE Staged'
  BY <1>0, <1>Same DEF Staged
<1>Sends. ASSUME NEW r \in Requests, NEW s \in Windows, Sends(r, s) PROVE Staged'
  <2>1. /\ st' = [st EXCEPT ![r] = "waiting"]
        /\ stage' = [stage EXCEPT ![r] = s]
        /\ Kind[r] = "login" <=> s = "ip"
        /\ s # "none"
    BY <1>0, <1>Sends, SendIs, SendsIs DEF Sends, Windows, Fixed
  <2> QED
    BY <1>0, <2>1 DEF Staged, TypeOK
<1>Passes. ASSUME NEW r \in Requests, Passes(r) PROVE Staged'
  BY <1>0, <1>Passes DEF Passes, Staged, TypeOK
<1>Answered. ASSUME NEW r \in Requests, AtRedis(r), NEW a, a # "idle",
                    st' = [st EXCEPT ![r] = a], UNCHANGED stage
             PROVE  Staged'
  <2>1. st[r] = "waiting"
    BY <1>0, <1>Answered, HeadIs
  <2> QED
    BY <1>0, <1>Answered, <2>1 DEF Staged, TypeOK
<1>Eval. ASSUME NEW r \in Requests, Eval(r) PROVE Staged'
  <2> DEFINE a == IF Refuses(r) THEN "denied" ELSE "granted"
  <2>1. a # "idle"
    OBVIOUS
  <2>2. AtRedis(r) /\ st' = [st EXCEPT ![r] = a] /\ UNCHANGED stage
    BY <1>Eval DEF Eval
  <2> HIDE DEF a
  <2> QED
    BY <2>1, <2>2, <1>Answered
<1>EvalError. ASSUME NEW r \in Requests, EvalError(r) PROVE Staged'
  BY <1>EvalError, <1>Answered DEF EvalError
<1> QED
  BY <1>Same, <1>Sends, <1>Passes, GoesOn, <1>Eval, <1>EvalError
     DEF Next, vars, Tick, RedisDown, EvalAnswerLost, Reconnect

LEMMA OnTimeStep == IInv /\ [Next]_vars => OnTime'
<1> SUFFICES ASSUME IInv, [Next]_vars PROVE OnTime'
  OBVIOUS
<1>0. TypeOK /\ Queue /\ Staged /\ OnTime
  BY DEF IInv
<1>1. now \in Nat /\ Delay \in Nat
  BY <1>0, DelayAssumption DEF TypeOK, Times
\* Nobody begins to wait.
<1>Same. ASSUME UNCHANGED <<now, stage, stamp, slot>>, up' => up,
                \A q \in Requests : st'[q] = "waiting" => st[q] = "waiting"
         PROVE  OnTime'
  BY <1>0, <1>Same DEF OnTime, Deadline
<1>Tick. ASSUME Tick PROVE OnTime'
  <2> SUFFICES ASSUME NEW r \in Requests
               PROVE  /\ stamp[r] <= now'
                      /\ \A w \in Fixed : Period[w] * slot[r][w] <= now'
                      /\ up /\ st[r] = "waiting" => now' <= Deadline(r)
    BY <1>Tick DEF Tick, OnTime, Deadline
  <2>1. now' = now + 1 /\ (up /\ st[r] = "waiting" => now < Deadline(r))
    BY <1>Tick DEF Tick
  <2>2. stamp[r] \in Nat /\ stamp[r] <= now
    BY <1>0 DEF OnTime, TypeOK, Times
  <2>3. up /\ st[r] = "waiting" => Deadline(r) \in Int
    <3>1. \A w \in Fixed : (slot[r][w] + 1) * Period[w] \in Int
      BY <1>0, PeriodAssumption DEF TypeOK
    <3>2. st[r] = "waiting" => stage[r] = "minute" \/ stage[r] \in Fixed
      BY <1>0 DEF Staged, TypeOK, Windows
    <3> QED
      BY <1>1, <2>2, <3>1, <3>2 DEF Deadline
  <2>4. \A w \in Fixed : Period[w] * slot[r][w] <= now'
    <3> TAKE w \in Fixed
    <3>1. Period[w] * slot[r][w] \in Int
      BY <1>0, PeriodAssumption DEF TypeOK
    <3>2. Period[w] * slot[r][w] <= now
      BY <1>0 DEF OnTime
    <3> QED
      BY <1>1, <2>1, <3>1, <3>2
  <2> QED
    BY <1>1, <2>1, <2>2, <2>3, <2>4
<1>Sends. ASSUME NEW r \in Requests, NEW s \in Windows, Sends(r, s) PROVE OnTime'
  <2>1. /\ st' = [st EXCEPT ![r] = "waiting"]
        /\ stage' = [stage EXCEPT ![r] = s]
        /\ now' = now /\ up' = up
    BY <1>0, <1>Sends, SendIs DEF Sends
  <2>2. /\ \A q \in Requests : stamp'[q] = IF q = r /\ s = "minute" THEN now ELSE stamp[q]
        /\ \A q \in Requests, w \in Fixed :
              slot'[q][w] = IF q = r /\ s = w THEN Index(w) ELSE slot[q][w]
        /\ \A w \in Fixed : /\ Index(w) \in Indexes(w)
                           /\ Period[w] * Index(w) <= now
                           /\ now <= Period[w] * Index(w) + Period[w] - 1
    BY <1>0, <1>Sends, SendIs DEF Sends
  <2>3. \A q \in Requests : stamp'[q] <= now'
    BY <1>0, <1>1, <2>1, <2>2 DEF OnTime
  <2>4. \A q \in Requests, w \in Fixed : Period[w] * slot'[q][w] <= now'
    BY <1>0, <2>1, <2>2 DEF OnTime
  <2>5. ASSUME NEW q \in Requests \ {r}, up', st'[q] = "waiting" PROVE now' <= Deadline(q)'
    <3>1. st[q] = "waiting" /\ stage'[q] = stage[q] /\ stamp'[q] = stamp[q]
          /\ \A w \in Fixed : slot'[q][w] = slot[q][w]
      BY <1>0, <2>1, <2>2, <2>5 DEF TypeOK
    <3>2. stage[q] = "minute" \/ stage[q] \in Fixed
      BY <1>0, <3>1 DEF Staged, TypeOK, Windows
    <3>3. Deadline(q)' = Deadline(q)
      BY <3>1, <3>2 DEF Deadline
    <3> QED
      BY <1>0, <2>1, <2>5, <3>1, <3>3 DEF OnTime
  <2>6. now' <= Deadline(r)'
    <3>1. stage'[r] = s
      BY <1>0, <2>1 DEF TypeOK
    <3>2. CASE s = "minute"
      BY <1>1, <2>1, <2>2, <3>1, <3>2 DEF Deadline
    <3>3. CASE s # "minute"
      <4>1. s \in Fixed /\ slot'[r][s] = Index(s)
        BY <2>2, <3>3 DEF Windows
      <4>2. Index(s) \in Nat /\ Period[s] \in Nat
        BY <2>2, <4>1, PeriodAssumption DEF Indexes
      <4>3. (Index(s) + 1) * Period[s] = Period[s] * Index(s) + Period[s]
            /\ Period[s] * Index(s) \in Nat
        BY <4>2, Distributes
      <4>4. Deadline(r)' = Delay + ((Index(s) + 1) * Period[s] - 1)
        BY <3>1, <3>3, <4>1 DEF Deadline
      <4> DEFINE D == (Index(s) + 1) * Period[s]
                 P == Period[s] * Index(s)
      <4>5. /\ D = P + Period[s] /\ P \in Nat /\ Deadline(r)' = Delay + (D - 1)
            /\ now <= P + Period[s] - 1
        BY <2>2, <4>1, <4>3, <4>4
      <4> HIDE DEF D, P
      <4> QED
        BY <1>1, <2>1, <4>2, <4>5
    <3> QED
      BY <3>2, <3>3
  <2> QED
    BY <2>3, <2>4, <2>5, <2>6 DEF OnTime
<1>Passes. ASSUME NEW r \in Requests, Passes(r) PROVE OnTime'
  BY <1>0, <1>Passes, <1>Same DEF Passes, TypeOK
<1>Eval. ASSUME NEW r \in Requests, Eval(r) PROVE OnTime'
  BY <1>0, <1>Eval, <1>Same DEF Eval, TypeOK
<1>EvalError. ASSUME NEW r \in Requests, EvalError(r) PROVE OnTime'
  BY <1>0, <1>EvalError, <1>Same DEF EvalError, TypeOK
<1>Rest. ASSUME UNCHANGED <<now, st, stage, stamp, slot>>, up' => up PROVE OnTime'
  BY <1>Rest, <1>Same
<1> QED
  BY <1>Tick, <1>Sends, <1>Passes, GoesOn, <1>Eval, <1>EvalError, <1>Rest
     DEF Next, vars, RedisDown, EvalAnswerLost, Reconnect

\* What a window admitted under a key changes only when it says yes.
LEMMA UnderSame ==
  ASSUME \A q \in Requests, w \in Fixed :
           /\ Yes(q, w)' <=> Yes(q, w)
           /\ Yes(q, w) => slot'[q][w] = slot[q][w]
  PROVE  \A w \in Fixed : \A x : AdmittedUnder(w, x)' = AdmittedUnder(w, x)
BY DEF AdmittedUnder

LEMMA UnderTypes == \A w, x : AdmittedUnder(w, x) \in SUBSET Entries
BY UnitsAre DEF AdmittedUnder

LEMMA ChargedStep == IInv /\ [Next]_vars => Charged'
<1> SUFFICES ASSUME IInv, [Next]_vars PROVE Charged'
  OBVIOUS
<1>0. TypeOK /\ Queue /\ Staged /\ OnTime /\ Charged
  BY DEF IInv
<1>Same. ASSUME UNCHANGED cnt,
                \A w \in Fixed : \A x : AdmittedUnder(w, x)' = AdmittedUnder(w, x)
         PROVE  Charged'
  BY <1>0, <1>Same DEF Charged
<1>Asked. ASSUME UNCHANGED <<st, stage, slot>>
          PROVE  \A w \in Fixed : \A x : AdmittedUnder(w, x)' = AdmittedUnder(w, x)
  BY <1>Asked, UnderSame DEF Yes
<1>Sends. ASSUME NEW r \in Requests, NEW s \in Windows, Sends(r, s) PROVE Charged'
  <2>1. ~ Yes(r, s) /\ \A q \in Requests, w \in Windows : Yes(q, w)' <=> Yes(q, w)
    BY <1>0, <1>Sends, SendsIs
  <2>2. /\ \A q \in Requests, w \in Fixed :
              slot'[q][w] = IF q = r /\ s = w THEN Index(w) ELSE slot[q][w]
        /\ cnt' = cnt
    BY <1>0, <1>Sends, SendIs DEF Sends
  <2>3. \A q \in Requests, w \in Fixed :
          /\ Yes(q, w)' <=> Yes(q, w)
          /\ Yes(q, w) => slot'[q][w] = slot[q][w]
    BY <2>1, <2>2 DEF Windows
  <2>4. \A w \in Fixed : \A x : AdmittedUnder(w, x)' = AdmittedUnder(w, x)
    BY <2>3, UnderSame
  <2> QED
    BY <1>Same, <2>2, <2>4
<1>Passes. ASSUME NEW r \in Requests, Passes(r) PROVE Charged'
  <2>1. \A q \in Requests, w \in Fixed : Yes(q, w)' <=> Yes(q, w)
    BY <1>0, <1>Passes, PassesIs DEF Windows
  <2>2. slot' = slot /\ cnt' = cnt
    BY <1>Passes DEF Passes
  <2> QED
    BY <1>Same, <2>1, <2>2, UnderSame
\* A script that runs, and what its answer is made of.
<1>Runs. ASSUME NEW r \in Requests, AtRedis(r), Script(r), UNCHANGED <<stage, slot>>,
                NEW a \in {"granted", "denied", "waiting"}, st' = [st EXCEPT ![r] = a],
                a = "granted" => ~ Refuses(r)
         PROVE  Charged'
  <2>1. st[r] = "waiting" /\ st \in [Requests -> States] /\ stage[r] \in Windows
    BY <1>0, <1>Runs, HeadIs DEF TypeOK
  <2>2. \A q \in Requests, w \in Fixed :
          Yes(q, w)' <=> Yes(q, w) \/ (q = r /\ w = stage[r] /\ a = "granted")
    <3>1. CASE a = "waiting"
      <4>1. \A q \in Requests : st'[q] = st[q]
        BY <1>Runs, <2>1, <3>1
      <4> QED
        BY <1>Runs, <3>1, <4>1 DEF Yes
    <3>2. CASE a \in {"granted", "denied"}
      BY <1>0, <1>Runs, <2>1, <3>2, AnswerIs DEF Windows
    <3> QED
      BY <3>1, <3>2
  <2>3. CASE stage[r] = "minute"
    <3>1. cnt' = cnt
      BY <1>Runs, <2>3 DEF Script, MinuteScript
    <3>2. \A q \in Requests, w \in Fixed : Yes(q, w)' <=> Yes(q, w)
      BY <2>2, <2>3 DEF Fixed
    <3> QED
      BY <1>Runs, <1>Same, <3>1, <3>2, UnderSame
  <2>4. CASE stage[r] # "minute"
    <3>0. PICK w \in Fixed : \E x \in Indexes(w) : w = stage[r] /\ x = slot[r][w]
      BY <1>0, <1>Runs, <2>4, HeldIs
    <3>. PICK x \in Indexes(w) : w = stage[r] /\ x = slot[r][w]
      BY <3>0
    <3> DEFINE C == AdmittedUnder(w, x)
    <3>1. FixedScript(r)
      BY <1>Runs, <2>4 DEF Script
    <3>2. /\ w \in Fixed /\ x \in Indexes(w)
          /\ Counted(r) \in Counter /\ w = stage[r] /\ x = slot[r][w]
          /\ Counted(r).n = cnt[w][x].n + Cost[r]
          /\ Counted(r).exp # NoTTL
          /\ Counted(r).exp >= Period[w] * x + TTL[w]
          /\ \A v \in Fixed : \A y \in Indexes(v) :
               cnt'[v][y] = IF v = w /\ y = slot[r][v] THEN Counted(r) ELSE cnt[v][y]
      BY <1>0, <1>Runs, <2>4, <3>1, FixedRuns
    <3>3. \A v \in Fixed : \A y \in Indexes(v) :
            v # w \/ y # x => AdmittedUnder(v, y)' = AdmittedUnder(v, y)
      <4> SUFFICES ASSUME NEW v \in Fixed, NEW y \in Indexes(v), v # w \/ y # x
                   PROVE  AdmittedUnder(v, y)' = AdmittedUnder(v, y)
        OBVIOUS
      <4>1. \A q \in Requests : Yes(q, v)' /\ slot'[q][v] = y <=> Yes(q, v) /\ slot[q][v] = y
        BY <1>Runs, <2>2
      <4> QED
        BY <4>1 DEF AdmittedUnder
    <3>4. C' \subseteq C \union Units(r) /\ (a # "granted" => C' \subseteq C)
      <4> DEFINE Q == {q \in Requests : Yes(q, w) /\ slot[q][w] = x}
                 R == {q \in Requests : Yes(q, w)' /\ slot[q][w] = x}
      <4>0. \A q \in Requests : Yes(q, w)' <=> Yes(q, w) \/ (q = r /\ a = "granted")
        BY <2>2
      <4>1. R \subseteq Q \union {r} /\ (a # "granted" => R \subseteq Q)
        BY <4>0
      <4>2. C = UNION {Units(q) : q \in Q}
        BY DEF AdmittedUnder
      <4>3. C' = UNION {Units(q) : q \in R}
        BY <1>Runs DEF AdmittedUnder
      <4> HIDE DEF Q, R, C
      <4> QED
        BY <4>1, <4>2, <4>3
    <3>5. /\ C \in SUBSET Entries /\ C' \in SUBSET Entries /\ Units(r) \in SUBSET Entries
          /\ Cardinality(C) \in Nat /\ Cardinality(C') \in Nat /\ Cardinality(Units(r)) \in Nat
          /\ Cardinality(Units(r)) <= Cost[r] /\ Cost[r] \in Nat
          /\ cnt[w][x].n \in Nat
      <4>1. C \in SUBSET Entries /\ Units(r) \in SUBSET Entries /\ Cardinality(Units(r)) <= Cost[r]
        BY UnderTypes, UnitsAre
      <4>2. C' \in SUBSET Entries
        BY <3>4, <4>1
      <4>3. cnt[w][x] \in Counter
        BY <1>0, <3>2 DEF TypeOK
      <4> HIDE DEF C
      <4> QED
        BY <4>1, <4>2, <4>3, EntriesFinite, CostAssumption, MaxCostAssumption DEF Counter
    <3>6. Cardinality(C) <= cnt[w][x].n /\ (C # {} => Cardinality(C) <= Limit[w])
      BY <1>0, <3>2 DEF Charged
    <3>7. Cardinality(C') <= Counted(r).n
      <4>1. Cardinality(C') <= Cardinality(C) + Cardinality(Units(r))
        BY <3>4, <3>5, UnionBound
      <4> HIDE DEF C
      <4> QED
        BY <3>2, <3>5, <3>6, <4>1
    <3>8. C' # {} => Cardinality(C') <= Limit[w]
      <4>1. CASE a = "granted"
        <5>1. ~ (Counted(r).n > Limit[w])
          BY <1>Runs, <2>4, <4>1 DEF Refuses
        <5>2. Limit[w] \in Nat /\ Counted(r).n \in Nat
          BY <3>2, LimitAssumption DEF Counter
        <5> HIDE DEF C
        <5> QED
          BY <3>5, <3>7, <5>1, <5>2
      <4>2. CASE a # "granted"
        <5>1. C' \subseteq C /\ IsFiniteSet(C)
          BY <3>4, <3>5, <4>2, EntriesFinite
        <5>2. Cardinality(C') <= Cardinality(C)
          BY <5>1, FS_Subset
        <5>3. Limit[w] \in Nat
          BY <3>2, LimitAssumption
        <5> HIDE DEF C
        <5> QED
          BY <3>5, <3>6, <5>1, <5>2, <5>3
      <4> QED
        BY <4>1, <4>2
    <3>9. \A v \in Fixed : \A y \in Indexes(v) :
            /\ cnt'[v][y].n > 0 => cnt'[v][y].exp # NoTTL
            /\ cnt'[v][y].exp # NoTTL => cnt'[v][y].exp >= Period[v] * y + TTL[v]
            /\ Cardinality(AdmittedUnder(v, y)') <= cnt'[v][y].n
            /\ AdmittedUnder(v, y)' # {} => Cardinality(AdmittedUnder(v, y)') <= Limit[v]
      <4> TAKE v \in Fixed
      <4> TAKE y \in Indexes(v)
      <4>1. CASE v = w /\ y = x
        <5>1. cnt'[v][y] = Counted(r)
          BY <3>2, <4>1
        <5>2. AdmittedUnder(v, y)' = C'
          BY <1>Runs, <4>1 DEF AdmittedUnder
        <5> HIDE DEF C
        <5> QED
          BY <3>2, <3>7, <3>8, <4>1, <5>1, <5>2
      <4>2. CASE ~ (v = w /\ y = x)
        <5>1. cnt'[v][y] = cnt[v][y] /\ AdmittedUnder(v, y)' = AdmittedUnder(v, y)
          BY <3>2, <3>3, <4>2
        <5> QED
          BY <1>0, <5>1 DEF Charged
      <4> QED
        BY <4>1, <4>2
    <3> QED
      BY <3>9 DEF Charged
  <2> QED
    BY <2>3, <2>4
<1>Eval. ASSUME NEW r \in Requests, Eval(r) PROVE Charged'
  <2> DEFINE a == IF Refuses(r) THEN "denied" ELSE "granted"
  <2>1. a \in {"granted", "denied", "waiting"} /\ (a = "granted" => ~ Refuses(r))
    OBVIOUS
  <2>2. AtRedis(r) /\ Script(r) /\ UNCHANGED <<stage, slot>> /\ st' = [st EXCEPT ![r] = a]
    BY <1>Eval DEF Eval
  <2> HIDE DEF a
  <2> QED
    BY <1>Runs, <2>1, <2>2
<1>EvalAnswerLost. ASSUME NEW r \in Requests, EvalAnswerLost(r) PROVE Charged'
  <2>1. AtRedis(r) /\ Script(r) /\ UNCHANGED <<st, stage, slot>>
    BY <1>EvalAnswerLost DEF EvalAnswerLost
  <2>2. st' = [st EXCEPT ![r] = "waiting"]
    BY <1>0, <2>1, HeadIs DEF TypeOK
  <2> QED
    BY <1>Runs, <2>1, <2>2
<1>EvalError. ASSUME NEW r \in Requests, EvalError(r) PROVE Charged'
  <2>1. AtRedis(r) /\ UNCHANGED <<stage, slot, cnt>> /\ st' = [st EXCEPT ![r] = "bypassed"]
    BY <1>EvalError DEF EvalError
  <2>2. st[r] = "waiting"
    BY <1>0, <2>1, HeadIs
  <2>3. \A q \in Requests, w \in Fixed : Yes(q, w)' <=> Yes(q, w)
    BY <1>0, <2>1, <2>2, AnswerIs DEF Windows
  <2> QED
    BY <1>Same, <2>1, <2>3, UnderSame
<1>Rest. ASSUME UNCHANGED <<st, stage, slot, cnt>> PROVE Charged'
  BY <1>Rest, <1>Same, <1>Asked
<1> QED
  BY <1>Sends, <1>Passes, GoesOn, <1>Eval, <1>EvalAnswerLost, <1>EvalError, <1>Rest
     DEF Next, vars, Tick, RedisDown, Reconnect

\* The places of the minute's scripts in what is left when the first one was answered.
LEMMA MinuteTailIs ==
  ASSUME TypeOK, Queue, Staged, NEW r \in Requests, AtRedis(r), ran = 0, wire' = Tail(wire),
         UNCHANGED stage, NEW i \in 1 .. Len(wire'), MinuteAt(i)'
  PROVE  i + 1 \in 1 .. Len(wire) /\ MinuteAt(i + 1) /\ wire'[i] = wire[i + 1]
<1>1. Len(wire') = Len(wire) - 1 /\ Len(wire) \in Nat /\ wire'[i] = wire[i + 1]
  BY TailIs
<1>2. i + 1 \in 1 .. Len(wire)
  BY <1>1
<1> QED
  BY <1>1, <1>2 DEF MinuteAt

LEMMA OrderedStep == IInv /\ [Next]_vars => Ordered'
<1> SUFFICES ASSUME IInv, [Next]_vars PROVE Ordered'
  OBVIOUS
<1>0. TypeOK /\ Queue /\ Staged /\ OnTime /\ Charged /\ Ordered /\ Kept /\ Bounded
  BY DEF IInv
<1>Same. ASSUME UNCHANGED <<wire, again, stage, stamp, zset, zexp>> PROVE Ordered'
  BY <1>0, <1>Same DEF Ordered, MinuteAt, Score
<1>Sends. ASSUME NEW r \in Requests, NEW s \in Windows, Sends(r, s) PROVE Ordered'
  <2> DEFINE n == Len(wire)
  <2>1. /\ Len(wire') = n + 1 /\ wire'[n + 1] = r /\ n \in Nat
        /\ \A i \in 1 .. n : wire'[i] = wire[i] /\ wire[i] \in Requests
        /\ \A q \in Requests : stage'[q] = IF q = r THEN s ELSE stage[q]
        /\ \A q \in Requests : stamp'[q] = IF q = r /\ s = "minute" THEN now ELSE stamp[q]
        /\ zset' = zset /\ zexp' = zexp /\ again' = again
    BY <1>0, <1>Sends, SendIs DEF Sends, TypeOK
  <2>3. \A i \in 1 .. n : wire[i] # r
    BY <1>0, <1>Sends DEF Sends, Queue
  <2>4. s # "none" /\ (s = "minute" => stage[r] = "none")
    BY <1>0, <1>Sends, SendsIs DEF Windows, Fixed
  <2>5. \A e \in zset : e[1] \in Requests /\ stage[e[1]] # "none"
    BY <1>0 DEF Ordered, TypeOK, Entries
  <2>6. \A e \in zset : stage'[e[1]] # "none" /\ Score(e)' = Score(e)
    BY <2>1, <2>4, <2>5 DEF Score
  <2>8. ASSUME NEW i \in 1 .. Len(wire'), MinuteAt(i)', wire'[i] \notin again'
        PROVE  \A e \in zset : Score(e) <= stamp'[wire'[i]]
    <3>1. stage'[wire'[i]] = "minute"
      BY <2>8 DEF MinuteAt
    <3>2. CASE i \in 1 .. n
      <4>1. wire'[i] = wire[i] /\ stamp'[wire'[i]] = stamp[wire[i]] /\ MinuteAt(i)
            /\ wire[i] \notin again
        BY <2>1, <2>3, <2>8, <3>1, <3>2 DEF MinuteAt
      <4> QED
        BY <1>0, <3>2, <4>1 DEF Ordered
    <3>3. CASE i = n + 1
      <4>1. stamp'[wire'[i]] = now
        BY <2>1, <3>1, <3>3
      <4>2. \A q \in Requests : stamp[q] <= now
        BY <1>0 DEF OnTime
      <4> QED
        BY <2>5, <4>1, <4>2 DEF Score
    <3> QED
      BY <2>1, <3>2, <3>3
  <2>9. \A i \in 1 .. Len(wire') : MinuteAt(i)' /\ wire'[i] \notin again' =>
          \A e \in zset' : Score(e)' <= stamp'[wire'[i]]
    BY <2>1, <2>6, <2>8
  <2>10. \A e \in zset' : stage'[e[1]] # "none" /\ zexp' >= Score(e)' + Window + Slack
    BY <1>0, <2>1, <2>6 DEF Ordered
  <2> QED
    BY <2>9, <2>10 DEF Ordered
<1>Passes. ASSUME NEW r \in Requests, Passes(r) PROVE Ordered'
  BY <1>Passes, <1>Same DEF Passes
\* The set changes by the minute's script that is next.
<1>Runs. ASSUME NEW r \in Requests, AtRedis(r), stage[r] = "minute", MinuteScript(r),
                UNCHANGED <<stage, stamp>>
         PROVE  /\ \A e \in zset' : stage[e[1]] # "none" /\ zexp' >= Score(e) + Window + Slack
                /\ \A i \in 1 .. Len(wire) : MinuteAt(i) /\ wire[i] \notin again =>
                     \A e \in zset' : Score(e) <= stamp[wire[i]]
  <2>1. \A e \in zset' : /\ stage[e[1]] # "none" /\ (e \in zset \/ Score(e) = stamp[r])
                        /\ zexp' >= Score(e) + Window + Slack
    BY <1>0, <1>Runs, MinuteRuns
  <2>2. \A i \in 1 .. Len(wire) :
          MinuteAt(i) => stamp[r] <= stamp[wire[i]] + Late({wire[i]})
    BY <1>0, <1>Runs, RunsInOrder
  <2>3. \A i \in 1 .. Len(wire) : MinuteAt(i) /\ wire[i] \notin again =>
          stamp[r] <= stamp[wire[i]]
    <3> SUFFICES ASSUME NEW i \in 1 .. Len(wire), MinuteAt(i), wire[i] \notin again
                 PROVE  stamp[r] <= stamp[wire[i]]
      OBVIOUS
    <3>1. stamp[wire[i]] \in Nat /\ Late({wire[i]}) = 0
      BY <1>0, LateIs DEF TypeOK, Times
    <3>2. stamp[r] <= stamp[wire[i]] + Late({wire[i]})
      BY <2>2
    <3> QED
      BY <3>1, <3>2
  <2>4. \A i \in 1 .. Len(wire) : MinuteAt(i) /\ wire[i] \notin again =>
          \A e \in zset : Score(e) <= stamp[wire[i]]
    BY <1>0 DEF Ordered
  <2>5. \A i \in 1 .. Len(wire) : MinuteAt(i) /\ wire[i] \notin again =>
          \A e \in zset' : Score(e) <= stamp[wire[i]]
    BY <2>1, <2>3, <2>4
  <2> QED
    BY <2>1, <2>5
<1>Answered. ASSUME NEW r \in Requests, AtRedis(r), ran = 0, wire' = Tail(wire),
                    UNCHANGED <<again, stage, stamp>>,
                    IF stage[r] = "minute" THEN MinuteScript(r) \/ UNCHANGED <<zset, zexp>>
                                           ELSE UNCHANGED <<zset, zexp>>
             PROVE  Ordered'
  <2>1. /\ \A e \in zset' : stage[e[1]] # "none" /\ zexp' >= Score(e) + Window + Slack
        /\ \A i \in 1 .. Len(wire) : MinuteAt(i) /\ wire[i] \notin again =>
             \A e \in zset' : Score(e) <= stamp[wire[i]]
    BY <1>0, <1>Answered, <1>Runs DEF Ordered
  <2>4. \A i \in 1 .. Len(wire') : MinuteAt(i)' =>
          i + 1 \in 1 .. Len(wire) /\ MinuteAt(i + 1) /\ wire'[i] = wire[i + 1]
    BY <1>0, <1>Answered, MinuteTailIs
  <2>5. \A e : Score(e)' = Score(e)
    BY <1>Answered DEF Score
  <2>6. \A i \in 1 .. Len(wire') : MinuteAt(i)' /\ wire'[i] \notin again' =>
          \A e \in zset' : Score(e)' <= stamp'[wire'[i]]
    BY <1>Answered, <2>1, <2>4, <2>5
  <2>7. \A e \in zset' : stage'[e[1]] # "none" /\ zexp' >= Score(e)' + Window + Slack
    BY <1>Answered, <2>1, <2>5
  <2> QED
    BY <2>6, <2>7 DEF Ordered
<1>Eval. ASSUME NEW r \in Requests, Eval(r) PROVE Ordered'
  <2>2. AtRedis(r) /\ ran = 0 /\ wire' = Tail(wire) /\ UNCHANGED <<again, stage, stamp>>
    BY <1>Eval DEF Eval
  <2>3. IF stage[r] = "minute" THEN MinuteScript(r) \/ UNCHANGED <<zset, zexp>>
                               ELSE UNCHANGED <<zset, zexp>>
    BY <1>Eval DEF Eval, Script, FixedScript
  <2> QED
    BY <1>Answered, <2>2, <2>3
<1>EvalAnswerLost. ASSUME NEW r \in Requests, EvalAnswerLost(r) PROVE Ordered'
  <2>1. AtRedis(r) /\ Script(r) /\ UNCHANGED <<stage, stamp, wire>> /\ again \subseteq again'
    BY <1>EvalAnswerLost DEF EvalAnswerLost
  <2>2. CASE stage[r] = "minute"
    <3>1. /\ \A e \in zset' : stage[e[1]] # "none" /\ zexp' >= Score(e) + Window + Slack
          /\ \A i \in 1 .. Len(wire) : MinuteAt(i) /\ wire[i] \notin again =>
               \A e \in zset' : Score(e) <= stamp[wire[i]]
      BY <1>Runs, <2>1, <2>2 DEF Script
    <3> QED
      BY <2>1, <3>1 DEF Ordered, MinuteAt, Score
  <2>3. CASE stage[r] # "minute"
    <3>1. UNCHANGED <<zset, zexp, again>>
      BY <1>EvalAnswerLost, <2>1, <2>3 DEF Script, FixedScript, EvalAnswerLost
    <3> QED
      BY <1>Same, <2>1, <3>1
  <2> QED
    BY <2>2, <2>3
<1>EvalError. ASSUME NEW r \in Requests, EvalError(r) PROVE Ordered'
  BY <1>EvalError, <1>Answered DEF EvalError
<1> QED
  BY <1>Sends, <1>Passes, GoesOn, <1>Eval, <1>EvalAnswerLost, <1>EvalError, <1>Same
     DEF Next, vars, Tick, RedisDown, Reconnect

LEMMA KeptStep == IInv /\ [Next]_vars => Kept'
<1> SUFFICES ASSUME IInv, [Next]_vars PROVE Kept'
  OBVIOUS
<1>0. TypeOK /\ Queue /\ Staged /\ OnTime /\ Charged /\ Ordered /\ Kept /\ Bounded
  BY DEF IInv
<1>1. now \in Nat /\ Window \in Nat \ {0} /\ \A q \in Requests : stamp[q] \in Nat /\ stamp[q] <= now
  BY <1>0, WindowAssumption DEF TypeOK, Times, OnTime
<1>Same. ASSUME UNCHANGED <<now, wire, again, stage, stamp, zset>>,
                \A q \in Requests : Yes(q, "minute")' => Yes(q, "minute")
         PROVE  Kept'
  BY <1>0, <1>Same DEF Kept, Gone, MinuteAt, Late
<1>Tick. ASSUME Tick PROVE Kept'
  <2>1. \A q \in Requests : Yes(q, "minute")' => Yes(q, "minute")
    BY <1>Tick DEF Tick, Yes
  <2>2. now' = now + 1 /\ UNCHANGED <<wire, again, stage, stamp, zset>>
    BY <1>Tick DEF Tick
  <2>3. \A q \in Requests : Gone(q) => Gone(q)'
    BY <1>1, <2>2 DEF Gone, MinuteAt, Late
  <2> QED
    BY <1>0, <2>1, <2>2, <2>3 DEF Kept
<1>Sends. ASSUME NEW r \in Requests, NEW s \in Windows, Sends(r, s) PROVE Kept'
  <2> DEFINE n == Len(wire)
  <2>1. /\ Len(wire') = n + 1 /\ wire'[n + 1] = r /\ n \in Nat
        /\ \A i \in 1 .. n : wire'[i] = wire[i] /\ wire[i] \in Requests
        /\ \A q \in Requests : stage'[q] = IF q = r THEN s ELSE stage[q]
        /\ \A q \in Requests : stamp'[q] = IF q = r /\ s = "minute" THEN now ELSE stamp[q]
        /\ zset' = zset /\ now' = now /\ again' = again
    BY <1>0, <1>Sends, SendIs DEF Sends, TypeOK
  <2>2. \A q \in Requests : Yes(q, "minute")' => Yes(q, "minute")
    BY <1>0, <1>Sends, SendsIs DEF Windows
  <2>3. \A i \in 1 .. n : wire[i] # r
    BY <1>0, <1>Sends DEF Sends, Queue
  <2>4. \A q \in Requests : Yes(q, "minute") => stamp'[q] = stamp[q]
    BY <1>0, <1>Sends, <2>1, SendsIs
  <2>5. ASSUME NEW q \in Requests, Yes(q, "minute"), Gone(q) PROVE Gone(q)'
    <3>1. stamp[q] + Window <= now /\ stamp'[q] = stamp[q]
      BY <2>4, <2>5 DEF Gone
    <3>2. ASSUME NEW i \in 1 .. Len(wire'), MinuteAt(i)'
          PROVE  stamp[q] + Window <= stamp'[wire'[i]] + Late({wire[i]})'
      <4>0. Late({wire[i]})' \in Nat
        BY DelayAssumption DEF Late
      <4>1. stage'[wire'[i]] = "minute"
        BY <3>2 DEF MinuteAt
      <4>2. CASE i \in 1 .. n
        <5>1. MinuteAt(i) /\ stamp'[wire'[i]] = stamp[wire[i]] /\ wire'[i] = wire[i]
          BY <2>1, <2>3, <4>1, <4>2 DEF MinuteAt
        <5>2. Late({wire[i]})' = Late({wire[i]})
          BY <2>1, <5>1 DEF Late
        <5> QED
          BY <2>5, <4>2, <5>1, <5>2 DEF Gone
      <4>3. CASE i = n + 1
        <5>1. stamp'[wire'[i]] = now
          BY <2>1, <4>1, <4>3
        <5> QED
          BY <1>1, <2>5, <3>1, <4>0, <5>1
      <4> QED
        BY <2>1, <4>2, <4>3
    <3>3. stamp'[q] + Window <= now'
      BY <2>1, <3>1
    <3> QED
      BY <3>1, <3>2, <3>3 DEF Gone
  <2> QED
    BY <1>0, <2>1, <2>2, <2>5 DEF Kept
<1>Passes. ASSUME NEW r \in Requests, Passes(r) PROVE Kept'
  BY <1>0, <1>Passes, <1>Same, PassesIs DEF Passes, Windows
<1>Answered. ASSUME NEW r \in Requests, AtRedis(r), ran = 0, wire' = Tail(wire),
                    UNCHANGED <<now, again, stage, stamp>>,
                    NEW a \in {"granted", "denied", "bypassed"}, st' = [st EXCEPT ![r] = a],
                    \/ UNCHANGED zset /\ ~ (stage[r] = "minute" /\ a = "granted")
                    \/ stage[r] = "minute" /\ MinuteScript(r) /\ (a = "granted" => ~ Full(r))
             PROVE  Kept'
  <2>1. \A q \in Requests :
          Yes(q, "minute")' => Yes(q, "minute") \/ (q = r /\ stage[r] = "minute" /\ a = "granted")
    BY <1>0, <1>Answered, AnswerIs, HeadIs DEF Windows
  <2>2. \A q \in Requests : Yes(q, "minute")' => Units(q) \subseteq zset' \/ Gone(q)
    BY <1>0, <1>Answered, MinuteRuns, <2>1 DEF Kept
  <2>3. \A i \in 1 .. Len(wire') : MinuteAt(i)' =>
          i + 1 \in 1 .. Len(wire) /\ MinuteAt(i + 1) /\ wire'[i] = wire[i + 1]
    BY <1>0, <1>Answered, MinuteTailIs
  <2>4. \A q \in Requests : Gone(q) => Gone(q)'
    BY <1>Answered, <2>3 DEF Gone, Late
  <2> QED
    BY <2>2, <2>4 DEF Kept
<1>Eval. ASSUME NEW r \in Requests, Eval(r) PROVE Kept'
  <2> DEFINE a == IF Refuses(r) THEN "denied" ELSE "granted"
  <2>1. a \in {"granted", "denied", "bypassed"} /\ (a = "granted" => ~ Refuses(r))
    OBVIOUS
  <2>2. AtRedis(r) /\ ran = 0 /\ wire' = Tail(wire) /\ UNCHANGED <<now, again, stage, stamp>>
        /\ st' = [st EXCEPT ![r] = a]
    BY <1>Eval DEF Eval
  <2>3. \/ UNCHANGED zset /\ ~ (stage[r] = "minute" /\ a = "granted")
        \/ stage[r] = "minute" /\ MinuteScript(r) /\ (a = "granted" => ~ Full(r))
    BY <1>Eval, <2>1 DEF Eval, Script, FixedScript, Refuses
  <2> HIDE DEF a
  <2> QED
    BY <1>Answered, <2>1, <2>2, <2>3
<1>EvalAnswerLost. ASSUME NEW r \in Requests, EvalAnswerLost(r) PROVE Kept'
  <2>1. AtRedis(r) /\ Script(r) /\ UNCHANGED <<now, st, stage, stamp, wire>>
        /\ again \subseteq again'
    BY <1>EvalAnswerLost DEF EvalAnswerLost
  <2>2. \A q \in Requests :
          /\ Yes(q, "minute")' => Yes(q, "minute")
          /\ Gone(q) => Gone(q)'
    <3>1. \A i \in 1 .. Len(wire) : stamp[wire[i]] \in Nat
      BY <1>0, <1>1 DEF TypeOK
    <3>2. \A q \in Requests : Gone(q) => Gone(q)'
      <4> SUFFICES ASSUME NEW q \in Requests, Gone(q) PROVE Gone(q)'
        OBVIOUS
      <4>1. ASSUME NEW i \in 1 .. Len(wire), MinuteAt(i)
            PROVE  stamp[q] + Window <= stamp[wire[i]] + Late({wire[i]})'
        <5>1. Late({wire[i]}) \in Nat /\ Late({wire[i]})' \in Nat
              /\ Late({wire[i]}) <= Late({wire[i]})'
          BY <2>1, DelayAssumption DEF Late
        <5>2. stamp[q] + Window <= stamp[wire[i]] + Late({wire[i]})
          BY <4>1 DEF Gone
        <5>3. stamp[q] \in Nat /\ Window \in Nat /\ stamp[wire[i]] \in Nat
          BY <1>1, <3>1
        <5> DEFINE L == Late({wire[i]})
                   M == Late({wire[i]})'
        <5>4. L \in Nat /\ M \in Nat /\ L <= M /\ stamp[q] + Window <= stamp[wire[i]] + L
          BY <5>1, <5>2
        <5> HIDE DEF L, M
        <5>5. stamp[q] + Window <= stamp[wire[i]] + M
          BY <5>3, <5>4
        <5> QED
          BY <5>5 DEF M
      <4> QED
        BY <2>1, <4>1 DEF Gone, MinuteAt
    <3> QED
      BY <2>1, <3>2 DEF Yes
  <2>3. CASE stage[r] = "minute"
    <3>1. \A q \in Requests : Yes(q, "minute") => Units(q) \subseteq zset' \/ Gone(q)
      BY <1>0, <2>1, <2>3, MinuteRuns DEF Script
    <3> QED
      BY <2>2, <3>1 DEF Kept
  <2>4. CASE stage[r] # "minute"
    <3>1. zset' = zset
      BY <2>1, <2>4 DEF Script, FixedScript
    <3> QED
      BY <1>0, <2>2, <3>1 DEF Kept
  <2> QED
    BY <2>3, <2>4
<1>EvalError. ASSUME NEW r \in Requests, EvalError(r) PROVE Kept'
  <2>1. AtRedis(r) /\ ran = 0 /\ wire' = Tail(wire) /\ UNCHANGED <<now, again, stage, stamp, zset>>
        /\ st' = [st EXCEPT ![r] = "bypassed"]
    BY <1>EvalError DEF EvalError
  <2> QED
    BY <1>Answered, <2>1
<1>Rest. ASSUME UNCHANGED <<now, wire, again, st, stage, stamp, zset>> PROVE Kept'
  BY <1>Rest, <1>Same DEF Yes
<1> QED
  BY <1>Tick, <1>Sends, <1>Passes, GoesOn, <1>Eval, <1>EvalAnswerLost, <1>EvalError, <1>Rest
     DEF Next, vars, RedisDown, Reconnect

\* What the minute admitted changes only when it says yes.
LEMMA AtSame ==
  ASSUME \A q \in Requests :
           /\ Yes(q, "minute")' <=> Yes(q, "minute")
           /\ Yes(q, "minute") => stamp'[q] = stamp[q] /\ (q \in again' <=> q \in again)
  PROVE  \A t : InSpan(t)' = InSpan(t)
<1> SUFFICES ASSUME NEW t PROVE InSpan(t)' = InSpan(t)
  OBVIOUS
<1>1. \A d : AdmittedBy(t, d)' = AdmittedBy(t, d)
  BY DEF AdmittedBy
<1>2. \A d : AdmittedBy(t, d) \cap again' = {} <=> AdmittedBy(t, d) \cap again = {}
  BY DEF AdmittedBy
<1>3. Span(t)' = Span(t)
  BY <1>1, <1>2 DEF Span, Late
<1>4. \A d : Admitted(t, d)' = Admitted(t, d)
  BY <1>1 DEF Admitted
<1> QED
  BY <1>3, <1>4 DEF InSpan

LEMMA BoundedStep == IInv /\ [Next]_vars => Bounded'
<1> SUFFICES ASSUME IInv, [Next]_vars PROVE Bounded'
  OBVIOUS
<1>0. TypeOK /\ Queue /\ Staged /\ OnTime /\ Charged /\ Ordered /\ Kept /\ Bounded
  BY DEF IInv
<1>Same. ASSUME UNCHANGED zset, \A t : InSpan(t)' = InSpan(t) PROVE Bounded'
  BY <1>0, <1>Same DEF Bounded
<1>Sends. ASSUME NEW r \in Requests, NEW s \in Windows, Sends(r, s) PROVE Bounded'
  <2>1. \A q \in Requests :
          /\ Yes(q, "minute")' <=> Yes(q, "minute")
          /\ Yes(q, "minute") => stamp'[q] = stamp[q] /\ (q \in again' <=> q \in again)
    <3>1. ~ Yes(r, s) /\ \A q \in Requests : Yes(q, "minute")' <=> Yes(q, "minute")
      BY <1>0, <1>Sends, SendsIs DEF Windows
    <3>2. \A q \in Requests : stamp'[q] = IF q = r /\ s = "minute" THEN now ELSE stamp[q]
      BY <1>0, <1>Sends, SendIs DEF Sends
    <3>3. again' = again
      BY <1>Sends DEF Sends
    <3> QED
      BY <3>1, <3>2, <3>3
  <2>2. \A t : InSpan(t)' = InSpan(t)
    BY <2>1, AtSame
  <2> QED
    BY <1>Same, <1>Sends, <2>2 DEF Sends
<1>Passes. ASSUME NEW r \in Requests, Passes(r) PROVE Bounded'
  <2>1. \A q \in Requests : Yes(q, "minute")' <=> Yes(q, "minute")
    BY <1>0, <1>Passes, PassesIs DEF Windows
  <2>2. \A t : InSpan(t)' = InSpan(t)
    BY <1>Passes, <2>1, AtSame DEF Passes
  <2> QED
    BY <1>Same, <1>Passes, <2>2 DEF Passes
\* Whatever is not a yes of the minute leaves what it admitted alone.
<1>Answered. ASSUME NEW r \in Requests, AtRedis(r), UNCHANGED <<again, stage, stamp>>,
                    NEW a \in {"granted", "denied", "bypassed"}, st' = [st EXCEPT ![r] = a],
                    ~ (stage[r] = "minute" /\ a = "granted")
             PROVE  \A t : InSpan(t)' = InSpan(t)
  <2>1. st[r] = "waiting" /\ "minute" \in Windows
    BY <1>0, <1>Answered, HeadIs DEF Windows
  <2>2. \A q \in Requests : Yes(q, "minute")' <=> Yes(q, "minute")
    BY <1>0, <1>Answered, <2>1, AnswerIs
  <2> QED
    BY <1>Answered, <2>2, AtSame
<1>Runs. ASSUME NEW r \in Requests, AtRedis(r), Script(r)
         PROVE  Cardinality(zset') <= MinuteLimit
  <2>1. CASE stage[r] = "minute"
    BY <1>0, <1>Runs, <2>1, MinuteRuns DEF Script
  <2>2. CASE stage[r] # "minute"
    BY <1>0, <1>Runs, <2>2 DEF Script, FixedScript, Bounded
  <2> QED
    BY <2>1, <2>2
\* The numbers of the stretch that ends at t are all in the set the script leaves, or r's
\* are not among them.
<1>Granted. ASSUME NEW r \in Requests, AtRedis(r), MinuteScript(r), stage[r] = "minute", ~ Full(r),
                   UNCHANGED <<again, stage, stamp>>, st' = [st EXCEPT ![r] = "granted"],
                   NEW t \in Times
            PROVE  Cardinality(InSpan(t)') <= MinuteLimit
  <2>0. st[r] = "waiting" /\ "minute" \in Windows
    BY <1>0, <1>Granted, HeadIs DEF Windows
  <2>1. \A q \in Requests : Yes(q, "minute")' <=> Yes(q, "minute") \/ q = r
    BY <1>0, <1>Granted, <2>0, AnswerIs
  <2>2. /\ zset' \in SUBSET Entries /\ Cardinality(zset') <= MinuteLimit
        /\ \A q \in Requests : Yes(q, "minute") =>
              Units(q) \subseteq zset' \/ stamp[q] + Window <= stamp[r] + Late({r})
        /\ Units(r) \subseteq zset'
    <3>1. /\ zset' \in SUBSET Entries /\ Cardinality(zset') <= MinuteLimit
          /\ \A q \in Requests : Yes(q, "minute") => Units(q) \subseteq zset' \/ Gone(q)
          /\ Units(r) \subseteq zset'
      BY <1>0, <1>Granted, MinuteRuns
    <3>2. ran + 1 \in 1 .. Len(wire) /\ wire[ran + 1] = r /\ MinuteAt(ran + 1)
      BY <1>0, <1>Granted, HeadIs DEF MinuteAt
    <3> QED
      BY <3>1, <3>2 DEF Gone
  <2>3. /\ Window \in Nat \ {0} /\ t \in Nat /\ MinuteLimit \in Nat
        /\ \A q \in Requests : stamp[q] \in Nat
        /\ \A R : Late(R) \in Nat /\ Late(R)' = Late(R)
    BY <1>0, <1>Granted, LateIs, WindowAssumption, LimitAssumption DEF TypeOK, Times, Late
  <2>4. CASE stamp[r] > t - Window /\ stamp[r] <= t
    <3> DEFINE d == Span(t)'
    <3>0. d \in Int /\ d <= Window - Late({r})
      <4>1. r \in AdmittedBy(t, Window)'
        BY <1>Granted, <2>1, <2>4 DEF AdmittedBy
      <4>2. Late({r}) <= Late(AdmittedBy(t, Window)')
        BY <4>1, DelayAssumption DEF Late
      <4>3. d = Window - Late(AdmittedBy(t, Window)')
        BY <1>Granted DEF Span, Late
      <4>4. Late(AdmittedBy(t, Window)') \in Nat /\ Late({r}) \in Nat
        BY <2>3
      <4> QED
        BY <2>3, <4>2, <4>3, <4>4
    <3> HIDE DEF d
    <3>1. \A q \in Requests :
            Yes(q, "minute")' /\ stamp[q] > t - d /\ stamp[q] <= t => Units(q) \subseteq zset'
      <4> SUFFICES ASSUME NEW q \in Requests, Yes(q, "minute")', stamp[q] > t - d, stamp[q] <= t
                   PROVE  Units(q) \subseteq zset'
        OBVIOUS
      <4>1. CASE q = r
        BY <2>2, <4>1
      <4>2. CASE q # r
        <5>1. Yes(q, "minute") /\ Late({r}) \in Nat
          BY <2>1, <2>3, <4>2
        <5>2. ~ (stamp[q] + Window <= stamp[r] + Late({r}))
          BY <2>3, <2>4, <3>0, <5>1
        <5> QED
          BY <2>2, <5>1, <5>2
      <4> QED
        BY <4>1, <4>2
    <3>2. InSpan(t)' \subseteq zset'
      BY <1>Granted, <3>1 DEF InSpan, Admitted, AdmittedBy, d
    <3>3. IsFiniteSet(zset') /\ Cardinality(zset') \in Nat /\ Cardinality(InSpan(t)') \in Nat
      BY <2>2, <3>2, EntriesFinite
    <3>4. Cardinality(InSpan(t)') <= Cardinality(zset')
      BY <3>2, <3>3, FS_Subset
    <3> QED
      BY <2>2, <2>3, <3>3, <3>4
  <2>5. CASE ~ (stamp[r] > t - Window /\ stamp[r] <= t)
    <3>1. \A d \in Int : d <= Window => AdmittedBy(t, d)' = AdmittedBy(t, d)
      <4> SUFFICES ASSUME NEW d \in Int, d <= Window PROVE AdmittedBy(t, d)' = AdmittedBy(t, d)
        OBVIOUS
      <4>1. ~ (stamp[r] > t - d /\ stamp[r] <= t)
        BY <2>3, <2>5
      <4>2. \A q \in Requests :
              Yes(q, "minute")' /\ stamp'[q] > t - d /\ stamp'[q] <= t
              <=> Yes(q, "minute") /\ stamp[q] > t - d /\ stamp[q] <= t
        BY <1>Granted, <2>1, <4>1
      <4> QED
        BY <4>2 DEF AdmittedBy
    <3>2. AdmittedBy(t, Window)' = AdmittedBy(t, Window) /\ Window \in Int /\ Window <= Window
      BY <2>3, <3>1
    <3>3. Span(t)' = Span(t) /\ Span(t) \in Int /\ Span(t) <= Window
      <4>1. Span(t)' = Span(t)
        BY <1>Granted, <3>2 DEF Span, Late
      <4>2. Late(AdmittedBy(t, Window)) \in Nat
        BY <2>3
      <4> QED
        BY <2>3, <4>1, <4>2 DEF Span
    <3>4. InSpan(t)' = InSpan(t)
      BY <3>1, <3>3 DEF InSpan, Admitted
    <3> QED
      BY <1>0, <3>4 DEF Bounded
  <2> QED
    BY <2>4, <2>5
<1>Eval. ASSUME NEW r \in Requests, Eval(r) PROVE Bounded'
  <2> DEFINE a == IF Refuses(r) THEN "denied" ELSE "granted"
  <2>1. a \in {"granted", "denied", "bypassed"} /\ (a = "granted" => ~ Refuses(r))
    OBVIOUS
  <2>2. AtRedis(r) /\ Script(r) /\ UNCHANGED <<again, stage, stamp>> /\ st' = [st EXCEPT ![r] = a]
    BY <1>Eval DEF Eval
  <2> HIDE DEF a
  <2>3. CASE stage[r] = "minute" /\ a = "granted"
    <3>1. \A t \in Times : Cardinality(InSpan(t)') <= MinuteLimit
      BY <1>Granted, <2>1, <2>2, <2>3 DEF Script, Refuses
    <3> QED
      BY <1>Runs, <2>2, <3>1 DEF Bounded
  <2>4. CASE ~ (stage[r] = "minute" /\ a = "granted")
    <3>1. \A t : InSpan(t)' = InSpan(t)
      BY <1>Answered, <2>1, <2>2, <2>4
    <3> QED
      BY <1>0, <1>Runs, <2>2, <3>1 DEF Bounded
  <2> QED
    BY <2>3, <2>4
<1>EvalAnswerLost. ASSUME NEW r \in Requests, EvalAnswerLost(r) PROVE Bounded'
  <2>1. AtRedis(r) /\ Script(r) /\ UNCHANGED <<st, stage, stamp>>
        /\ again' = IF stage[r] = "minute" THEN again \union {r} ELSE again
    BY <1>EvalAnswerLost DEF EvalAnswerLost
  <2>2. \A q \in Requests :
          /\ Yes(q, "minute")' <=> Yes(q, "minute")
          /\ Yes(q, "minute") => stamp'[q] = stamp[q] /\ (q \in again' <=> q \in again)
    <3>1. st[r] = "waiting" /\ (stage[r] = "minute" => ~ Yes(r, "minute"))
      BY <1>0, <2>1, HeadIs DEF Yes, Rank
    <3> QED
      BY <2>1, <3>1 DEF Yes
  <2>3. \A t : InSpan(t)' = InSpan(t)
    BY <2>2, AtSame
  <2> QED
    BY <1>0, <1>Runs, <2>1, <2>3 DEF Bounded
<1>EvalError. ASSUME NEW r \in Requests, EvalError(r) PROVE Bounded'
  <2>1. AtRedis(r) /\ UNCHANGED <<again, stage, stamp, zset>> /\ st' = [st EXCEPT ![r] = "bypassed"]
    BY <1>EvalError DEF EvalError
  <2>2. \A t : InSpan(t)' = InSpan(t)
    BY <1>Answered, <2>1
  <2> QED
    BY <1>Same, <2>1, <2>2
<1>Rest. ASSUME UNCHANGED <<again, st, stage, stamp, zset>> PROVE Bounded'
  <2>1. \A t : InSpan(t)' = InSpan(t)
    BY <1>Rest, AtSame DEF Yes
  <2> QED
    BY <1>Rest, <1>Same, <2>1
<1> QED
  BY <1>Sends, <1>Passes, GoesOn, <1>Eval, <1>EvalAnswerLost, <1>EvalError, <1>Rest
     DEF Next, vars, Tick, RedisDown, Reconnect
-----------------------------------------------------------------------------
LEMMA InitIInv == Init => IInv
<1> SUFFICES ASSUME Init PROVE IInv
  OBVIOUS
<1> USE DEF Init
<1>1. \A w \in Fixed : Period[w] \in Nat \ {0} /\ MaxNow \div Period[w] \in Nat /\ 0 \in Indexes(w)
  <2> TAKE w \in Fixed
  <2>1. Period[w] \in Nat \ {0} /\ MaxNow \in Nat
    BY PeriodAssumption, BoundAssumption
  <2>2. MaxNow \div Period[w] \in Nat
    BY <2>1, Division
  <2> QED
    BY <2>1, <2>2 DEF Indexes
<1>2. TypeOK
  <2>1. slot \in [Requests -> [Fixed -> Nat]]
    OBVIOUS
  <2>2. \A w \in Fixed : cnt[w] \in [Indexes(w) -> Counter]
    BY DEF Counter, Absent, NoTTL
  <2> QED
    BY <1>1, <2>1, <2>2, BoundAssumption DEF TypeOK, Times, States, NoTTL
<1>3. \A q \in Requests, w \in Windows : ~ Yes(q, w)
  BY DEF Yes, Rank, Windows, Fixed
<1>4. Cardinality({}) = 0
  BY FS_EmptySet
<1>5. Queue /\ Staged /\ Ordered /\ Kept
  BY <1>3 DEF Queue, Staged, Ordered, Kept, Windows
<1>6. OnTime
  <2>1. \A w \in Fixed : Period[w] * 0 <= 0
    BY <1>1
  <2> QED
    BY <2>1 DEF OnTime
<1>7. Charged
  <2>1. \A w \in Fixed, x \in Nat : AdmittedUnder(w, x) = {}
    BY <1>3 DEF AdmittedUnder, Windows
  <2>2. \A w \in Fixed : \A x \in Indexes(w) :
          x \in Nat /\ cnt[w][x].n = 0 /\ cnt[w][x].exp = NoTTL
    BY <1>1 DEF Indexes, Absent
  <2>3. \A w \in Fixed : \A x \in Indexes(w) :
          AdmittedUnder(w, x) = {} /\ Cardinality(AdmittedUnder(w, x)) = 0
    BY <1>4, <2>1, <2>2
  <2> QED
    BY <2>2, <2>3 DEF Charged
<1>8. Bounded
  <2>1. \A t \in Times : InSpan(t) = {}
    BY <1>3 DEF InSpan, Admitted, AdmittedBy, Windows
  <2>2. \A t \in Times : Cardinality(InSpan(t)) = 0
    BY <1>4, <2>1
  <2>3. Cardinality(zset) = 0 /\ 0 <= MinuteLimit
    BY <1>4, LimitAssumption
  <2> QED
    BY <2>2, <2>3 DEF Bounded
<1> QED
  BY <1>2, <1>5, <1>6, <1>7, <1>8 DEF IInv

(* Between any two steps of the limiters and Redis the invariant holds.    *)
THEOREM Inductive == Spec => []IInv
<1>1. IInv /\ [Next]_vars => IInv'
  BY TypeStep, QueueStep, StagedStep, OnTimeStep, ChargedStep, OrderedStep, KeptStep,
     BoundedStep DEF IInv
<1> QED
  BY InitIInv, <1>1, PTL DEF Spec

(* Every reachable state is well formed; a refusal's Retry-After, in       *)
(* particular, is a number of seconds (rateLimit.ts:20, 142).              *)
THEOREM TypeCorrect == Spec => []TypeOK
<1>1. IInv => TypeOK
  BY DEF IInv
<1> QED
  BY <1>1, Inductive, PTL

(* No stretch of a minute holds more admitted numbers than the limit,      *)
(* whatever the requests, their sizes and the delays up to the slack of    *)
(* the set's expiry; if a script of one of them ran twice, no stretch of a *)
(* minute less the delay does (rateLimit.ts:8-61, redis/client.ts:5-10).   *)
THEOREM Minute == Spec => []MinuteBound
<1>1. IInv => MinuteBound
  BY DEF IInv, Bounded, InSpan, Span, MinuteBound, TypeOK
<1> QED
  BY <1>1, Inductive, PTL

(* No day, month or hour of an address admits more than its limit: its     *)
(* counter lives until the last script that charges it has run             *)
(* (rateLimit.ts:30-36, 64-70, 150-184, 333-341).                          *)
THEOREM Calendar == Spec => []FixedBound
<1>1. IInv => FixedBound
  <2> SUFFICES ASSUME IInv, NEW w \in Fixed, NEW r \in Requests, Yes(r, w)
               PROVE  Cardinality(AdmittedUnder(w, slot[r][w])) <= Limit[w]
    BY DEF FixedBound
  <2>1. slot[r][w] \in Indexes(w)
    BY DEF IInv, TypeOK
  <2>2. <<r, 1>> \in Units(r)
    BY CostAssumption, MaxCostAssumption DEF Units
  <2>3. AdmittedUnder(w, slot[r][w]) # {}
    BY <2>2 DEF AdmittedUnder
  <2> QED
    BY <2>1, <2>3 DEF IInv, Charged
<1> QED
  BY <1>1, Inductive, PTL

(* Whoever created a counter and whatever it was charged at once, it       *)
(* expires (rateLimit.ts:30-36, 64-70).                                    *)
THEOREM CountersExpire == Spec => []NoImmortalCounter
<1>1. IInv => NoImmortalCounter
  BY DEF IInv, Charged, NoImmortalCounter
<1> QED
  BY <1>1, Inductive, PTL

(* Unless the limit is zero, a refused single lookup is told to wait at    *)
(* least a second and at most the window, or the delay more if its script  *)
(* ran after younger ones that ran first, and then there is room for it:   *)
(* the set never holds more than the limit, and its oldest entry, which    *)
(* the answer was computed from, has left (rateLimit.ts:20, 142).          *)
THEOREM Honest == ASSUME MinuteLimit > 0 PROVE Spec => RetryHonest
<1> DEFINE Step ==
      \A r \in Requests :
        /\ st[r] = "waiting" /\ st'[r] = "denied"
        /\ stage[r] = "minute" /\ Kind[r] = "single"
        => /\ retry'[r] \in 1 .. CeilDiv(Window + Late({r}), TicksPerSecond)
           /\ Cardinality({e \in zset' : Score(e) > stamp[r] + retry'[r] * TicksPerSecond
                                                    - Window}) < MinuteLimit
<1>1. IInv /\ [Next]_vars => [Step]_vars
  <2> SUFFICES ASSUME IInv, Next, NEW r \in Requests,
                      st[r] = "waiting", st'[r] = "denied",
                      stage[r] = "minute", Kind[r] = "single"
               PROVE  /\ retry'[r] \in 1 .. CeilDiv(Window + Late({r}), TicksPerSecond)
                      /\ Cardinality({e \in zset' : Score(e) > stamp[r] + retry'[r] * TicksPerSecond
                                                                - Window}) < MinuteLimit
    OBVIOUS
  <2>0. TypeOK /\ Queue /\ Staged /\ OnTime /\ Ordered /\ Bounded
    BY DEF IInv
  <2>1. Eval(r) /\ Refuses(r)
    <3>1. \A q \in Requests :
            Arrive(q) \/ Proceed(q) \/ EvalAnswerLost(q) \/ EvalError(q) => st'[r] # "denied"
      <4>1. \A q \in Requests : ~ Passes(q)
               /\ \A s \in Windows : ~ Sends(q, s)
        <5> SUFFICES ASSUME NEW q \in Requests, NEW s \in Windows, Passes(q) \/ Sends(q, s)
                     PROVE  FALSE
          BY DEF Windows
        <5>1. CASE Passes(q)
          BY <2>0, <5>1 DEF Passes, TypeOK
        <5>2. CASE Sends(q, s)
          BY <2>0, <5>2 DEF Sends, Send, TypeOK
        <5> QED
          BY <5>1, <5>2
      <4>2. \A q \in Requests : ~ EvalAnswerLost(q) /\ ~ EvalError(q)
        BY <2>0 DEF EvalAnswerLost, EvalError, TypeOK
      <4> QED
        BY <4>1, <4>2, GoesOn
    <3>2. PICK q \in Requests : Eval(q)
      BY <3>1 DEF Next, Tick, RedisDown, Reconnect
    <3>3. st' = [st EXCEPT ![q] = IF Refuses(q) THEN "denied" ELSE "granted"]
      BY <3>2 DEF Eval
    <3> QED
      BY <2>0, <3>2, <3>3 DEF TypeOK
  <2>2. AtRedis(r) /\ Full(r) /\ zset' = Trim(r) /\ retry' = [retry EXCEPT ![r] = Advice(r)]
    BY <2>1 DEF Eval, Refuses, Script, MinuteScript
  <2>3. /\ Trim(r) \in SUBSET zset /\ Trim(r) \in SUBSET Entries
        /\ \A e \in zset : Score(e) \in Nat
        /\ \A e \in Trim(r) : Score(e) + Window > stamp[r]
    BY <2>0, <2>2, TrimIs
  <2>4. \A e \in Trim(r) : Score(e) <= stamp[r] + Late({r})
    <3>1. /\ ran + 1 \in 1 .. Len(wire) /\ wire[ran + 1] = r /\ MinuteAt(ran + 1)
          /\ stamp[r] \in Nat /\ now <= Delay + stamp[r]
      BY <2>0, <2>2, HeadIs DEF MinuteAt, OnTime, Deadline, AtRedis, TypeOK, Times
    <3>2. CASE r \in again
      <4>1. \A e \in Trim(r) : Score(e) <= now
        BY <2>0, <2>3 DEF OnTime, Score, Entries
      <4>2. Late({r}) = Delay /\ Delay \in Nat /\ now \in Nat
        BY <2>0, <3>2, DelayAssumption DEF Late, TypeOK, Times
      <4> QED
        BY <2>3, <3>1, <4>1, <4>2
    <3>3. CASE r \notin again
      <4>1. \A e \in Trim(r) : Score(e) <= stamp[r]
        BY <2>0, <2>3, <3>1, <3>3 DEF Ordered
      <4> QED
        BY <3>1, <3>3, <4>1, LateIs
    <3> QED
      BY <3>2, <3>3
  <2>5. /\ IsFiniteSet(Trim(r)) /\ Cardinality(Trim(r)) \in Nat
        /\ Cardinality(Trim(r)) <= MinuteLimit /\ MinuteLimit \in Nat
    <3>1. IsFiniteSet(zset) /\ Cardinality(zset) \in Nat /\ IsFiniteSet(Trim(r))
          /\ Cardinality(Trim(r)) \in Nat
      BY <2>0, <2>3, EntriesFinite DEF TypeOK
    <3>2. Cardinality(Trim(r)) <= Cardinality(zset)
      BY <2>3, <3>1, FS_Subset
    <3> QED
      BY <2>0, <3>1, <3>2, LimitAssumption DEF Bounded
  <2>6. Trim(r) # {}
    BY <2>2, <2>5, FS_EmptySet DEF Full
  <2> DEFINE oldest == CHOOSE e \in Trim(r) : \A f \in Trim(r) : Score(e) <= Score(f)
             left == Score(oldest) + Window - stamp[r]
  <2>7. oldest \in Trim(r)
    BY <2>3, <2>6, OldestExists
  <2>8. retry'[r] = CeilDiv(left, TicksPerSecond)
    BY <2>0, <2>2, <2>6 DEF Advice, RetryAfter, TypeOK
  <2>9. /\ Window \in Nat /\ TicksPerSecond \in Nat \ {0} /\ stamp[r] \in Nat
        /\ Score(oldest) \in Nat
        /\ left \in Nat /\ left > 0 /\ left <= Window + Late({r}) /\ Window + Late({r}) \in Nat
    <3>1. Window \in Nat /\ TicksPerSecond \in Nat \ {0} /\ stamp[r] \in Nat /\ Late({r}) \in Nat
      BY <2>0, WindowAssumption, LateIs DEF TypeOK, Times
    <3> HIDE DEF oldest
    <3>2. /\ Score(oldest) \in Nat /\ Score(oldest) <= stamp[r] + Late({r})
          /\ Score(oldest) + Window > stamp[r]
      BY <2>3, <2>4, <2>7
    <3> DEFINE S == Score(oldest)
               L == Late({r})
    <3>3. S \in Nat /\ L \in Nat /\ S <= stamp[r] + L /\ S + Window > stamp[r]
          /\ left = S + Window - stamp[r]
      BY <3>1, <3>2
    <3> HIDE DEF S, L, left
    <3>4. left \in Nat /\ left > 0 /\ left <= Window + L /\ Window + L \in Nat
      BY <3>1, <3>3
    <3> QED
      BY <3>1, <3>3, <3>4 DEF S, L
  <2> HIDE DEF oldest
  <2>10. /\ retry'[r] \in Nat /\ retry'[r] >= 1 /\ left <= TicksPerSecond * retry'[r]
         /\ retry'[r] <= CeilDiv(Window + Late({r}), TicksPerSecond)
         /\ CeilDiv(Window + Late({r}), TicksPerSecond) \in Nat
    <3> HIDE DEF left
    <3> QED
      BY <2>8, <2>9, CeilDivIs, CeilDivGrows, CeilDivNat
  <2>11. retry'[r] * TicksPerSecond = TicksPerSecond * retry'[r]
         /\ TicksPerSecond * retry'[r] \in Nat
    BY <2>9, <2>10, Distributes
  <2> DEFINE S == {e \in zset' : Score(e) > stamp[r] + retry'[r] * TicksPerSecond - Window}
  <2>12. oldest \notin S
    <3> DEFINE T == retry'[r] * TicksPerSecond
    <3>1. T \in Nat /\ left <= T
      BY <2>10, <2>11
    <3>2. ~ (Score(oldest) > stamp[r] + T - Window)
      <4> HIDE DEF T
      <4> QED
        BY <2>9, <3>1
    <3> QED
      BY <3>2
  <2>13. S \subseteq Trim(r) /\ S # Trim(r)
    BY <2>2, <2>7, <2>12
  <2> HIDE DEF S, left
  <2>14. /\ Cardinality(S) <= Cardinality(Trim(r))
         /\ Cardinality(S) # Cardinality(Trim(r)) /\ Cardinality(S) \in Nat
    <3>1. Cardinality(S) \in Nat
      BY <2>3, <2>13, EntriesFinite
    <3> QED
      BY <2>5, <2>13, <3>1, FS_Subset
  <2>15. Cardinality(S) < MinuteLimit
    BY <2>5, <2>14
  <2> QED
    BY <2>10, <2>15 DEF S
<1> QED
  BY <1>1, Inductive, PTL DEF Spec, RetryHonest
=============================================================================
