---------------------------- MODULE RequestsProofs ----------------------------
(***************************************************************************)
(* Proofs about Requests, for any requests and limits.  The limiter in it  *)
(* is the RateLimit that RateLimitProofs is about: every step of Requests  *)
(* is one of its steps or leaves its state alone, so that what is proved   *)
(* there holds here.                                                       *)
(***************************************************************************)
EXTENDS Requests, RateLimitProofs, SequenceTheorems

USE DEF serving

OneKey == Len(keys) = 1

(* Before the limiter nothing was charged, a lookup was let through by it,  *)
(* before the answer nothing was written, and a request that came after    *)
(* the revocation never gets past the query of its key.                    *)
OnTheWay ==
  \A r \in Requests :
    /\ phase[r] \in {"new", "check", "found"} => st[r] = "idle"
    /\ phase[r] = "lookup" => st[r] # "idle"
    /\ phase[r] # "done" => row[r] = NoRow
    /\ st[r] = "passed" => stage[r] \in {"month", "ip"}
    /\ r \in late => /\ keys[1].live = FALSE
                     /\ phase[r] \in {"check", "done"} /\ st[r] = "idle"
                     /\ code[r] \in {None, 401, 503} /\ row[r] = NoRow

RInv == IInv /\ RequestsTypeOK /\ OneKey /\ OnTheWay /\ UsageIsWhatWasServed
-----------------------------------------------------------------------------
LEMMA OneElement ==
  ASSUME NEW S, NEW s \in Seq(S), Len(s) = 1
  PROVE  s \in [1 .. 1 -> S] /\ 1 \in DOMAIN s /\ s[1] \in S
<1>1. s \in [1 .. Len(s) -> S]
  BY LenProperties
<1>2. 1 \in 1 .. 1
  OBVIOUS
<1>3. s \in [1 .. 1 -> S]
  BY <1>1
<1> QED
  BY <1>2, <1>3

LEMMA LimiterInit == RequestsInit => Init
BY DEF RequestsInit

LEMMA LimiterStep == [RequestsNext]_requestVars => [Next]_vars
<1> SUFFICES ASSUME [RequestsNext]_requestVars PROVE [Next]_vars
  OBVIOUS
<1>1. CASE Around
  BY <1>1 DEF Around, Next
<1>2. CASE Revoke
  BY <1>2 DEF Revoke
<1>3. ASSUME NEW r \in Requests, Enter(r) PROVE Next
  BY <1>3 DEF Enter, Next
<1>4. ASSUME NEW r \in Requests,
             \/ Present(r) \/ CheckKey(r) \/ Limited(r)
             \/ LookedUp(r) \/ AllLookedUp(r) \/ WriteUsageLog(r)
      PROVE  UNCHANGED vars
  BY <1>4 DEF Present, CheckKey, Limited, LookedUp, AllLookedUp, WriteUsageLog
<1>5. CASE UNCHANGED requestVars
  BY <1>5 DEF requestVars
<1> QED
  BY <1>1, <1>2, <1>3, <1>4, <1>5 DEF RequestsNext

LEMMA LimiterInv == IInv /\ [Next]_vars => IInv'
BY TypeStep, QueueStep, StagedStep, OnTimeStep, ChargedStep, OrderedStep, KeptStep,
   BoundedStep DEF IInv

\* The limiter moves no request that has not come, and lets nobody through before the
\* last window.
LEMMA AroundIs ==
  ASSUME IInv, OnTheWay, Around
  PROVE  /\ UNCHANGED <<keys, phase, code, row, late>>
         /\ \A r \in Requests :
              /\ st[r] = "idle" <=> st'[r] = "idle"
              /\ st'[r] = "passed" => stage'[r] \in {"month", "ip"}
<1>0. TypeOK /\ Queue /\ Staged
  BY DEF IInv
<1>1. UNCHANGED <<keys, phase, code, row, late>>
  BY DEF Around
<1>2. \A r \in Requests : st[r] = "passed" => stage[r] \in {"month", "ip"}
  BY DEF OnTheWay
<1>3. CASE UNCHANGED <<st, stage>>
  BY <1>1, <1>2, <1>3
<1>4. ASSUME NEW q \in Requests, NEW s \in Windows, Sends(q, s)
      PROVE  \A r \in Requests :
               /\ r # q => (st[r] = "idle" <=> st'[r] = "idle")
               /\ st'[q] # "idle"
               /\ st'[r] = "passed" => stage'[r] \in {"month", "ip"}
  <2>1. st' = [st EXCEPT ![q] = "waiting"] /\ stage' = [stage EXCEPT ![q] = s]
    BY <1>4 DEF Sends, Send
  <2> QED
    BY <1>0, <1>2, <2>1 DEF TypeOK
<1>5. ASSUME NEW q \in Requests, Proceed(q)
      PROVE  \A r \in Requests :
               /\ st[r] = "idle" <=> st'[r] = "idle"
               /\ st'[r] = "passed" => stage'[r] \in {"month", "ip"}
  <2>1. st[q] = "granted"
    BY <1>5 DEF Proceed
  <2>2. CASE Passes(q)
    <3>1. stage[q] \in {"month", "ip"} /\ st' = [st EXCEPT ![q] = "passed"] /\ stage' = stage
      BY <1>0, <2>1, <2>2 DEF Passes, NextStage, Staged, TypeOK, Windows, Fixed
    <3> QED
      BY <1>0, <1>2, <2>1, <3>1 DEF TypeOK
  <2>3. CASE \E s \in Windows : Sends(q, s)
    BY <1>4, <2>1, <2>3
  <2> QED
    BY <1>5, <2>2, <2>3, GoesOn
<1>6. ASSUME NEW q \in Requests, AtRedis(q), UNCHANGED stage,
             NEW a, a \notin {"passed", "idle"}, st' = [st EXCEPT ![q] = a]
      PROVE  \A r \in Requests :
               /\ st[r] = "idle" <=> st'[r] = "idle"
               /\ st'[r] = "passed" => stage'[r] \in {"month", "ip"}
  <2>1. st[q] = "waiting"
    BY <1>0, <1>6, HeadIs
  <2> QED
    BY <1>0, <1>2, <1>6, <2>1 DEF TypeOK
<1>7. ASSUME NEW q \in Requests, Eval(q)
      PROVE  \A r \in Requests :
               /\ st[r] = "idle" <=> st'[r] = "idle"
               /\ st'[r] = "passed" => stage'[r] \in {"month", "ip"}
  <2> DEFINE a == IF Refuses(q) THEN "denied" ELSE "granted"
  <2>1. a \notin {"passed", "idle"}
    OBVIOUS
  <2>2. AtRedis(q) /\ UNCHANGED stage /\ st' = [st EXCEPT ![q] = a]
    BY <1>7 DEF Eval
  <2> HIDE DEF a
  <2> QED
    BY <1>6, <2>1, <2>2
<1>8. ASSUME NEW q \in Requests, EvalError(q)
      PROVE  \A r \in Requests :
               /\ st[r] = "idle" <=> st'[r] = "idle"
               /\ st'[r] = "passed" => stage'[r] \in {"month", "ip"}
  <2>1. AtRedis(q) /\ UNCHANGED stage /\ st' = [st EXCEPT ![q] = "bypassed"]
    BY <1>8 DEF EvalError
  <2> QED
    BY <1>6, <2>1
<1>9. CASE Tick \/ RedisDown \/ Reconnect \/ \E r \in Requests : EvalAnswerLost(r)
  BY <1>3, <1>9 DEF Tick, RedisDown, Reconnect, EvalAnswerLost, asked, conn
<1>10. (Tick \/ RedisDown \/ Reconnect \/ \E r \in Requests : EvalAnswerLost(r))
       \/ \E r \in Requests : Proceed(r) \/ Eval(r) \/ EvalError(r)
  BY DEF Around
<1> QED
  BY <1>1, <1>5, <1>7, <1>8, <1>9, <1>10

LEMMA RequestsTypeStep == RInv /\ [RequestsNext]_requestVars => RequestsTypeOK' /\ OneKey'
<1> SUFFICES ASSUME RInv, [RequestsNext]_requestVars PROVE RequestsTypeOK' /\ OneKey'
  OBVIOUS
<1>0. IInv /\ OnTheWay /\ OneKey /\ KeysTypeOK /\ TypeOK'
      /\ phase \in [Requests -> Phases] /\ code \in [Requests -> Codes \union {None}]
      /\ row \in [Requests -> Rows] /\ late \subseteq Requests
      /\ \A r \in Requests : (code[r] # None) = (phase[r] = "done")
  BY LimiterStep, LimiterInv DEF RInv, IInv, RequestsTypeOK
<1> USE CodeNoneAssumption
<1>Same. ASSUME UNCHANGED <<keys, phase, code, row, late>> PROVE RequestsTypeOK' /\ OneKey'
  BY <1>0, <1>Same DEF RequestsTypeOK, KeysTypeOK, OneKey
<1>Revoke. ASSUME Revoke PROVE RequestsTypeOK' /\ OneKey'
  <2>1. keys \in Seq([owner : Users, live : BOOLEAN]) /\ Len(keys) = 1 /\ Len(keys) <= MaxKeys
        /\ keys' = [keys EXCEPT ![1].live = FALSE]
    BY <1>0, <1>Revoke DEF Revoke, RevokeKey, KeysTypeOK, OneKey
  <2>2. keys' \in Seq([owner : Users, live : BOOLEAN]) /\ Len(keys') = 1
    <3>1. keys[1] \in [owner : Users, live : BOOLEAN]
      BY <2>1, OneElement
    <3>2. [keys[1] EXCEPT !.live = FALSE] \in [owner : Users, live : BOOLEAN]
      BY <3>1
    <3>3. keys' = [keys EXCEPT ![1] = [keys[1] EXCEPT !.live = FALSE]]
      BY <2>1
    <3>4. Len(keys') = Len(keys) /\ keys' \in Seq([owner : Users, live : BOOLEAN])
      BY <2>1, <3>2, <3>3
    <3> QED
      BY <2>1, <3>4
  <2> QED
    BY <1>0, <1>Revoke, <2>1, <2>2 DEF Revoke, RequestsTypeOK, KeysTypeOK, OneKey
\* A handler moves on, or answers.
<1>Moves. ASSUME NEW r \in Requests, UNCHANGED keys, late' \subseteq Requests,
                 row' \in [Requests -> Rows],
                 \/ /\ phase[r] # "done" /\ UNCHANGED code
                    /\ \E p \in Phases \ {"done"} : phase' = [phase EXCEPT ![r] = p]
                 \/ \E c \in Codes : Answer(r, c)
                 \/ UNCHANGED <<phase, code>>
          PROVE  RequestsTypeOK' /\ OneKey'
  <2>1. phase' \in [Requests -> Phases] /\ code' \in [Requests -> Codes \union {None}]
        /\ \A q \in Requests : (code'[q] # None) = (phase'[q] = "done")
    <3>1. CASE \E c \in Codes : Answer(r, c)
      BY <1>0, <3>1 DEF Answer, Phases
    <3>2. CASE phase[r] # "done" /\ UNCHANGED code
               /\ \E p \in Phases \ {"done"} : phase' = [phase EXCEPT ![r] = p]
      BY <1>0, <3>2
    <3>3. CASE UNCHANGED <<phase, code>>
      BY <1>0, <3>3
    <3> QED
      BY <1>Moves, <3>1, <3>2, <3>3
  <2> QED
    BY <1>0, <1>Moves, <2>1 DEF RequestsTypeOK, KeysTypeOK, OneKey
<1>Present. ASSUME NEW r \in Requests, Present(r) PROVE RequestsTypeOK' /\ OneKey'
  <2>1. late' \subseteq Requests /\ UNCHANGED <<keys, row>> /\ phase[r] # "done"
    BY <1>0, <1>Present DEF Present, Reach
  <2>2. \/ UNCHANGED code /\ phase' = [phase EXCEPT ![r] = "check"]
        \/ Answer(r, 401)
    BY <1>Present DEF Present, Reach
  <2> QED
    BY <1>0, <1>Moves, <2>1, <2>2 DEF Phases, Codes
<1>CheckKey. ASSUME NEW r \in Requests, CheckKey(r) PROVE RequestsTypeOK' /\ OneKey'
  <2>1. UNCHANGED <<keys, row, late>> /\ phase[r] # "done"
    BY <1>CheckKey DEF CheckKey, Reach
  <2>2. \/ UNCHANGED code /\ phase' = [phase EXCEPT ![r] = "found"]
        \/ Answer(r, 401) \/ Answer(r, 503)
    BY <1>CheckKey DEF CheckKey, Reach
  <2> QED
    BY <1>0, <1>Moves, <2>1, <2>2 DEF Phases, Codes
<1>Enter. ASSUME NEW r \in Requests, Enter(r) PROVE RequestsTypeOK' /\ OneKey'
  <2>1. UNCHANGED <<keys, row, late, code>> /\ phase[r] # "done"
        /\ phase' = [phase EXCEPT ![r] = "limiter"]
    BY <1>Enter DEF Enter, Reach
  <2> QED
    BY <1>0, <1>Moves, <2>1 DEF Phases
<1>Limited. ASSUME NEW r \in Requests, Limited(r) PROVE RequestsTypeOK' /\ OneKey'
  <2>1. UNCHANGED <<keys, row, late>> /\ phase[r] # "done"
    BY <1>Limited DEF Limited, Reach
  <2>2. \/ UNCHANGED code /\ phase' = [phase EXCEPT ![r] = "lookup"]
        \/ Answer(r, 429) \/ Answer(r, 400)
    BY <1>Limited DEF Limited, Reach
  <2> QED
    BY <1>0, <1>Moves, <2>1, <2>2 DEF Phases, Codes
<1>Logged. ASSUME NEW r \in Requests, NEW c \in Codes, Log(r, c)
           PROVE  row' \in [Requests -> Rows]
  BY <1>0, <1>Logged DEF Log, Rows
<1>LookedUp. ASSUME NEW r \in Requests, LookedUp(r) \/ AllLookedUp(r)
             PROVE  RequestsTypeOK' /\ OneKey'
  <2>1. PICK c \in Codes : Answer(r, c) /\ Log(r, c)
    BY <1>LookedUp DEF LookedUp, AllLookedUp, Codes
  <2>2. UNCHANGED <<keys, late>>
    BY <1>LookedUp DEF LookedUp, AllLookedUp
  <2> QED
    BY <1>0, <1>Logged, <1>Moves, <2>1, <2>2
<1>WriteUsageLog. ASSUME NEW r \in Requests, WriteUsageLog(r) PROVE RequestsTypeOK' /\ OneKey'
  <2>1. row' \in [Requests -> Rows] /\ UNCHANGED <<keys, phase, code, late>>
    BY <1>0, <1>WriteUsageLog DEF WriteUsageLog, Rows
  <2> QED
    BY <1>0, <1>Moves, <2>1
<1> QED
  BY <1>0, <1>Same, <1>Revoke, <1>Present, <1>CheckKey, <1>Enter, <1>Limited, <1>LookedUp,
     <1>WriteUsageLog, AroundIs DEF RequestsNext, requestVars

\* A step of r's handler is about r only.
LEMMA HandlerIs ==
  ASSUME RequestsTypeOK, NEW r \in Requests,
         \/ Present(r) \/ CheckKey(r) \/ Enter(r) \/ Limited(r)
         \/ LookedUp(r) \/ AllLookedUp(r) \/ WriteUsageLog(r)
  PROVE  /\ UNCHANGED keys
         /\ \A q \in Requests : q # r =>
              /\ phase'[q] = phase[q] /\ code'[q] = code[q] /\ row'[q] = row[q]
              /\ st'[q] = st[q] /\ stage'[q] = stage[q]
              /\ q \in late' <=> q \in late
<1>0. /\ phase \in [Requests -> Phases] /\ code \in [Requests -> Codes \union {None}]
      /\ row \in [Requests -> Rows] /\ late \subseteq Requests /\ TypeOK
  BY DEF RequestsTypeOK
<1>1. UNCHANGED keys /\ \A q \in Requests : q # r => (q \in late' <=> q \in late)
  BY DEF Present, CheckKey, Enter, Limited, LookedUp, AllLookedUp, WriteUsageLog
<1>2. \A q \in Requests : q # r =>
        phase'[q] = phase[q] /\ code'[q] = code[q] /\ row'[q] = row[q]
  BY <1>0 DEF Present, CheckKey, Enter, Limited, LookedUp, AllLookedUp, WriteUsageLog,
              Reach, Answer, Log
<1>3. \A q \in Requests : q # r => st'[q] = st[q] /\ stage'[q] = stage[q]
  <2>1. CASE Enter(r)
    BY <1>0, <2>1 DEF Enter, Arrive, Send, TypeOK
  <2>2. CASE UNCHANGED vars
    BY <2>2 DEF vars, asked
  <2> QED
    BY <2>1, <2>2 DEF Present, CheckKey, Limited, LookedUp, AllLookedUp, WriteUsageLog
<1> QED
  BY <1>1, <1>2, <1>3

LEMMA OnTheWayStep == RInv /\ [RequestsNext]_requestVars => OnTheWay'
<1> SUFFICES ASSUME RInv, [RequestsNext]_requestVars PROVE OnTheWay'
  OBVIOUS
<1> DEFINE Right(r) ==
      /\ phase[r] \in {"new", "check", "found"} => st[r] = "idle"
      /\ phase[r] = "lookup" => st[r] # "idle"
      /\ phase[r] # "done" => row[r] = NoRow
      /\ st[r] = "passed" => stage[r] \in {"month", "ip"}
      /\ r \in late => /\ keys[1].live = FALSE
                       /\ phase[r] \in {"check", "done"} /\ st[r] = "idle"
                       /\ code[r] \in {None, 401, 503} /\ row[r] = NoRow
<1>0. /\ IInv /\ OnTheWay /\ TypeOK /\ OneKey /\ RequestsTypeOK
      /\ keys \in Seq([owner : Users, live : BOOLEAN])
      /\ phase \in [Requests -> Phases] /\ code \in [Requests -> Codes \union {None}]
      /\ row \in [Requests -> Rows] /\ late \subseteq Requests
      /\ st \in [Requests -> States] /\ stage \in [Requests -> Windows \union {"none"}]
  BY DEF RInv, RequestsTypeOK, KeysTypeOK, TypeOK
<1>00. keys[1].live \in BOOLEAN /\ 1 \in DOMAIN keys
  <2>1. keys[1] \in [owner : Users, live : BOOLEAN] /\ 1 \in DOMAIN keys
    BY <1>0, OneElement DEF OneKey
  <2> QED
    BY <2>1
<1>1. \A r \in Requests : Right(r)
  BY <1>0 DEF OnTheWay
<1>Same. CASE /\ UNCHANGED <<phase, code, row, late>>
              /\ keys[1].live = FALSE => keys'[1].live = FALSE
              /\ \A r \in Requests : /\ st[r] = "idle" <=> st'[r] = "idle"
                                     /\ st'[r] = "passed" => stage'[r] \in {"month", "ip"}
  <2> SUFFICES ASSUME NEW r \in Requests PROVE Right(r)'
    BY DEF OnTheWay
  <2>1. Right(r) /\ (st[r] = "idle" <=> st'[r] = "idle")
        /\ (st'[r] = "passed" => stage'[r] \in {"month", "ip"})
        /\ (keys[1].live = FALSE => keys'[1].live = FALSE)
    BY <1>1, <1>Same
  <2>2. UNCHANGED <<phase, code, row, late>>
    BY <1>Same
  <2> QED
    BY <2>1, <2>2
<1>Stutter. CASE UNCHANGED requestVars
  BY <1>1, <1>Same, <1>Stutter DEF requestVars, vars, asked
<1>Around. CASE Around
  BY <1>0, <1>Same, <1>Around, AroundIs
<1>Revoke. CASE Revoke
  <2>1. keys' = [keys EXCEPT ![1].live = FALSE]
    BY <1>Revoke DEF Revoke, RevokeKey
  <2>2. keys[1] \in [owner : Users, live : BOOLEAN] /\ keys \in [1 .. 1 -> [owner : Users, live : BOOLEAN]]
    BY <1>0, OneElement DEF OneKey
  <2>3. keys'[1].live = FALSE
    BY <1>00, <2>1, <2>2, Zenon
  <2> QED
    BY <1>1, <1>Same, <1>Revoke, <2>3 DEF Revoke, vars, asked
\* Of the others nothing changes.
<1>Own. ASSUME NEW r \in Requests,
               \/ Present(r) \/ CheckKey(r) \/ Enter(r) \/ Limited(r)
               \/ LookedUp(r) \/ AllLookedUp(r) \/ WriteUsageLog(r),
               Right(r)'
        PROVE  OnTheWay'
  BY <1>0, <1>1, <1>Own, HandlerIs DEF OnTheWay
<1>Present. ASSUME NEW r \in Requests, Present(r) PROVE OnTheWay'
  <2>1. phase[r] = "new" /\ st[r] = "idle" /\ row[r] = NoRow /\ code[r] = None /\ r \notin late
    BY <1>0, <1>1, <1>Present DEF Present, RequestsTypeOK
  <2>2. UNCHANGED <<keys, row>> /\ st' = st /\ stage' = stage
    BY <1>Present DEF Present, Reach, vars, asked
  <2>3. phase'[r] \in {"check", "done"} /\ code'[r] \in {None, 401}
    BY <1>0, <1>Present, <2>1 DEF Present, Reach, Answer
  <2>4. r \in late' => keys[1].live = FALSE
    BY <1>00, <1>Present, <2>1 DEF Present
  <2>5. Right(r)'
    BY <2>1, <2>2, <2>3, <2>4
  <2> QED
    BY <1>Own, <1>Present, <2>5
<1>CheckKey. ASSUME NEW r \in Requests, CheckKey(r) PROVE OnTheWay'
  <2>1. phase[r] = "check" /\ st[r] = "idle" /\ row[r] = NoRow /\ code[r] = None
    BY <1>0, <1>1, <1>CheckKey DEF CheckKey, RequestsTypeOK
  <2>2. UNCHANGED <<keys, row, late>> /\ st' = st /\ stage' = stage
    BY <1>CheckKey DEF CheckKey, Reach, vars, asked
  <2>3. phase'[r] \in {"found", "done"} /\ code'[r] \in {None, 401, 503}
        /\ (phase'[r] = "found" => keys[1].live)
    BY <1>0, <1>CheckKey, <2>1 DEF CheckKey, Reach, Answer, Admits
  <2>4. Right(r)'
    BY <1>1, <2>1, <2>2, <2>3
  <2> QED
    BY <1>Own, <1>CheckKey, <2>4
<1>Enter. ASSUME NEW r \in Requests, Enter(r) PROVE OnTheWay'
  <2>1. phase[r] = "found" /\ r \notin late /\ row[r] = NoRow
    BY <1>1, <1>Enter DEF Enter
  <2>2. phase'[r] = "limiter" /\ UNCHANGED <<row, late>> /\ st'[r] = "waiting"
    BY <1>0, <1>Enter DEF Enter, Reach, Arrive, Send
  <2>3. Right(r)'
    BY <2>1, <2>2
  <2> QED
    BY <1>Own, <1>Enter, <2>3
<1>Later. ASSUME NEW r \in Requests, Limited(r) \/ LookedUp(r) \/ AllLookedUp(r)
          PROVE  OnTheWay'
  <2>1. r \notin late /\ late' = late /\ st' = st /\ stage' = stage
    BY <1>1, <1>Later DEF Limited, LookedUp, AllLookedUp, vars, asked
  <2>2. phase'[r] \in {"lookup", "done"} /\ (phase'[r] # "done" => row'[r] = row[r])
        /\ phase[r] # "done" /\ (phase'[r] = "lookup" => st[r] # "idle")
    BY <1>0, <1>Later DEF Limited, LookedUp, AllLookedUp, Reach, Answer
  <2>3. Right(r)'
    BY <1>1, <2>1, <2>2
  <2> QED
    BY <1>Own, <1>Later, <2>3
<1>WriteUsageLog. ASSUME NEW r \in Requests, WriteUsageLog(r) PROVE OnTheWay'
  <2>1. phase[r] = "done" /\ r \notin late
    BY <1>1, <1>WriteUsageLog DEF WriteUsageLog, NoRow
  <2>2. UNCHANGED <<phase, code, late>> /\ st' = st /\ stage' = stage
    BY <1>WriteUsageLog DEF WriteUsageLog, vars, asked
  <2>3. Right(r)'
    BY <1>1, <2>1, <2>2
  <2> QED
    BY <1>Own, <1>WriteUsageLog, <2>3
<1> QED
  BY <1>Stutter, <1>Around, <1>Revoke, <1>Present, <1>CheckKey, <1>Enter, <1>Later,
     <1>WriteUsageLog DEF RequestsNext

LEMMA UsageStep == RInv /\ [RequestsNext]_requestVars => UsageIsWhatWasServed'
<1> SUFFICES ASSUME RInv, [RequestsNext]_requestVars PROVE UsageIsWhatWasServed'
  OBVIOUS
<1> DEFINE True(r) ==
      /\ row[r].at # "none" => row[r].status = code[r]
      /\ code[r] = 200 => row[r].at # "none"
      /\ code[r] \in {400, 401, 429} => row[r].at = "none"
      /\ code[r] = 503 => (row[r].at # "none" <=> st[r] # "idle")
<1>0. /\ OnTheWay /\ RequestsTypeOK /\ IInv
      /\ phase \in [Requests -> Phases] /\ code \in [Requests -> Codes \union {None}]
      /\ row \in [Requests -> Rows]
  BY DEF RInv, RequestsTypeOK
<1>1. \A r \in Requests : True(r) /\ (phase[r] # "done" => row[r] = NoRow /\ code[r] = None)
  BY <1>0 DEF RInv, UsageIsWhatWasServed, OnTheWay, RequestsTypeOK
<1>Same. CASE UNCHANGED <<code, row>> /\ \A r \in Requests : st[r] = "idle" <=> st'[r] = "idle"
  BY <1>1, <1>Same DEF UsageIsWhatWasServed
<1>Around. CASE Around
  BY <1>0, <1>Same, <1>Around, AroundIs
<1>Revoke. CASE Revoke \/ UNCHANGED requestVars
  BY <1>Same, <1>Revoke DEF Revoke, requestVars, vars, asked
<1>Own. ASSUME NEW r \in Requests,
               \/ Present(r) \/ CheckKey(r) \/ Enter(r) \/ Limited(r)
               \/ LookedUp(r) \/ AllLookedUp(r) \/ WriteUsageLog(r),
               True(r)'
        PROVE  UsageIsWhatWasServed'
  BY <1>0, <1>1, <1>Own, HandlerIs DEF UsageIsWhatWasServed
<1>Refused. ASSUME NEW r \in Requests, Present(r) \/ CheckKey(r) \/ Enter(r) \/ Limited(r)
            PROVE  UsageIsWhatWasServed'
  <2>1. phase[r] # "done" /\ row' = row /\ code'[r] \in {None, 400, 401, 429, 503}
    BY <1>0, <1>1, <1>Refused DEF Present, CheckKey, Enter, Limited, Reach, Answer
  <2>2. code'[r] = 503 => st'[r] = "idle"
    <3>1. code[r] # 503
      BY <1>1, <2>1, CodeNoneAssumption DEF Codes
    <3>2. CASE CheckKey(r)
      BY <1>0, <3>2 DEF CheckKey, OnTheWay, vars, asked
    <3>3. CASE ~ CheckKey(r)
      BY <1>0, <1>Refused, <3>1, <3>3 DEF Present, Enter, Limited, Reach, Answer
    <3> QED
      BY <3>2, <3>3
  <2>3. True(r)'
    BY <1>1, <2>1, <2>2, CodeNoneAssumption DEF NoRow, Codes
  <2> QED
    BY <1>Own, <1>Refused, <2>3
<1>Served. ASSUME NEW r \in Requests, LookedUp(r) \/ AllLookedUp(r)
           PROVE  UsageIsWhatWasServed'
  <2>1. PICK c \in {200, 503} : Answer(r, c) /\ Log(r, c)
    BY <1>Served DEF LookedUp, AllLookedUp
  <2>2. code'[r] = c /\ row'[r].at = "sent" /\ row'[r].status = c
        /\ st'[r] = st[r] /\ st[r] # "idle"
    BY <1>0, <1>Served, <2>1 DEF Answer, Log, LookedUp, AllLookedUp, OnTheWay, vars, asked
  <2>3. True(r)'
    BY <2>2
  <2> QED
    BY <1>Own, <1>Served, <2>3
<1>Written. ASSUME NEW r \in Requests, WriteUsageLog(r) PROVE UsageIsWhatWasServed'
  <2>1. row[r] \in Rows /\ row[r].at = "sent" /\ UNCHANGED code
    BY <1>0, <1>Written DEF WriteUsageLog
  <2>2. PICK o \in {"written", "lost"} : row' = [row EXCEPT ![r].at = o]
    BY <1>Written DEF WriteUsageLog
  <2>3. row'[r].at = o /\ row'[r].status = row[r].status /\ st' = st
    BY <1>0, <1>Written, <2>1, <2>2 DEF Rows, WriteUsageLog, vars, asked
  <2>4. True(r)'
    BY <1>1, <2>1, <2>2, <2>3
  <2> QED
    BY <1>Own, <1>Written, <2>4
<1> QED
  BY <1>Around, <1>Revoke, <1>Refused, <1>Served, <1>Written DEF RequestsNext
-----------------------------------------------------------------------------
LEMMA RequestsInitInv == RequestsInit => RInv
<1> SUFFICES ASSUME RequestsInit PROVE RInv
  OBVIOUS
<1>1. IInv /\ TypeOK
  BY LimiterInit, InitIInv DEF IInv
<1>2. PICK u \in Users : keys = <<[owner |-> u, live |-> TRUE]>>
  BY DEF RequestsInit
<1>3. keys \in Seq([owner : Users, live : BOOLEAN]) /\ Len(keys) = 1
  BY <1>2
<1>4. NoRow \in Rows /\ NoRow.at = "none"
  BY DEF NoRow, Rows
<1>5. RequestsTypeOK
  BY <1>1, <1>3, <1>4, OneKeyAssumption
     DEF RequestsInit, RequestsTypeOK, KeysTypeOK, Phases
<1>6. OnTheWay
  BY DEF RequestsInit, Init, OnTheWay
<1>7. UsageIsWhatWasServed
  BY <1>4, CodeNoneAssumption DEF RequestsInit, UsageIsWhatWasServed, Codes
<1> QED
  BY <1>1, <1>3, <1>5, <1>6, <1>7 DEF RInv, OneKey

\* The invariant of the composition.
THEOREM RequestsInductive == RequestsSpec => []RInv
<1>1. RInv /\ [RequestsNext]_requestVars => RInv'
  BY LimiterStep, LimiterInv, RequestsTypeStep, OnTheWayStep, UsageStep DEF RInv
<1> QED
  BY <1>1, RequestsInitInv, PTL DEF RequestsSpec

\* The limiter in front of the lookups (lookup.ts 14-24) is the one of RateLimit, whatever
\* comes before and after it: every theorem about it holds of the requests that pass here.
THEOREM LimiterWithin == RequestsSpec => Spec
BY LimiterInit, LimiterStep, PTL DEF RequestsSpec, Spec

\* Every request is at a handler, has an answer exactly when it is done, and at most one row
\* (auth/apiKey.ts 34-91, lookup.ts 28-131).
THEOREM RequestsTypeCorrect == RequestsSpec => []RequestsTypeOK
<1>1. RInv => RequestsTypeOK
  BY DEF RInv
<1> QED
  BY <1>1, RequestsInductive, PTL

\* A key is of no use once its revocation was answered, and nothing that comes with it is
\* charged to anybody (apiKey.ts 61-83).
THEOREM RevokedUseless == RequestsSpec => []RevokedKeyUseless
<1>1. RInv => RevokedKeyUseless
  <2> SUFFICES ASSUME RInv, NEW r \in late
               PROVE  /\ code[r] \in {None, 401, 503}
                      /\ st[r] = "idle" /\ Units(r) \cap zset = {}
                      /\ row[r] = NoRow
    BY DEF RevokedKeyUseless
  <2>1. r \in Requests /\ code[r] \in {None, 401, 503} /\ st[r] = "idle" /\ row[r] = NoRow
    BY DEF RInv, RequestsTypeOK, OnTheWay
  <2>2. stage[r] = "none" /\ \A e \in zset : stage[e[1]] # "none"
    BY <2>1 DEF RInv, IInv, Staged, Ordered
  <2>3. \A e \in Units(r) : e[1] = r
    BY <2>1, UnitsAre
  <2> QED
    BY <2>1, <2>2, <2>3
<1> QED
  BY <1>1, RequestsInductive, PTL

\* usage_log tells what was served, and nothing else: of the 503s, those of lookups that
\* failed and none of the keys that could not be checked (lookup.ts 49-64, 116-128,
\* apiKey.ts 72-83).
THEOREM UsageTrue == RequestsSpec => []UsageIsWhatWasServed
<1>1. RInv => UsageIsWhatWasServed
  BY DEF RInv
<1> QED
  BY <1>1, RequestsInductive, PTL

\* What was served was charged, each number of a list once (rateLimit.ts 150-171, 278-303).
THEOREM ChargedForService == RequestsSpec => []ServedIsCharged
<1>1. RInv => ServedIsCharged
  <2> SUFFICES ASSUME RInv, NEW w \in {"day", "month"}, NEW x \in Indexes(w)
               PROVE  Cardinality(Served(w, x)) <= cnt[w][x].n
    BY DEF ServedIsCharged
  <2>0. IInv /\ OnTheWay /\ TypeOK /\ Staged /\ Charged
    BY DEF RInv, IInv
  <2>1. \A q \in Requests : st[q] = "passed" => Yes(q, w)
    <3> SUFFICES ASSUME NEW q \in Requests, st[q] = "passed" PROVE Yes(q, w)
      OBVIOUS
    <3>1. stage[q] \in {"month", "ip"} /\ Kind[q] # "login"
      BY <2>0, NoLoginAssumption DEF OnTheWay
    <3>2. stage[q] = "month"
      BY <2>0, <3>1 DEF Staged
    <3> QED
      BY <3>1, <3>2 DEF Yes, Rank
  <2>2. Served(w, x) \subseteq AdmittedUnder(w, x)
    BY <2>1 DEF Served, AdmittedUnder
  <2>3. AdmittedUnder(w, x) \in SUBSET Entries
    BY UnderTypes
  <2>4. /\ IsFiniteSet(AdmittedUnder(w, x)) /\ Cardinality(AdmittedUnder(w, x)) \in Nat
        /\ Cardinality(Served(w, x)) \in Nat
    BY <2>2, <2>3, EntriesFinite
  <2>5. Cardinality(Served(w, x)) <= Cardinality(AdmittedUnder(w, x))
    BY <2>2, <2>4, FS_Subset
  <2>6. Cardinality(AdmittedUnder(w, x)) <= cnt[w][x].n /\ cnt[w][x].n \in Nat
    BY <2>0 DEF Charged, TypeOK, Fixed, Counter
  <2> QED
    BY <2>4, <2>5, <2>6
<1> QED
  BY <1>1, RequestsInductive, PTL
=============================================================================
