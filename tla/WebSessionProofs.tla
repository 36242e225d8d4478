-------------------------- MODULE WebSessionProofs ---------------------------
(***************************************************************************)
(* Proofs about WebSession, for any tabs, fibers, users, sessions and      *)
(* expiries.                                                               *)
(***************************************************************************)
EXTENDS WebSession, SequenceTheorems, TLAPS

\* The sessions a call names exist.
Known(c) ==
  /\ c.row # None => c.row <= Len(rows)
  /\ c.tok # None => c.tok.row <= Len(rows)

\* What a step of the API does to the call of c and to the sessions.
Served(c) ==
  /\ http[c] # None
  /\ http'[c] # None
  /\ http'[c].op = http[c].op
  /\ \A d \in Callers \ {c} : http'[d] = http[d]
  /\ Len(rows) <= Len(rows')
  /\ \A r \in 1 .. Len(rows) : rows'[r].user = rows[r].user
  /\ http'[c].code \in {0, 200} => http[c].code \in {0, 200} /\ http'[c].row = http[c].row
  /\ http[c].op \in {"me", "jobs"} /\ http'[c].tok # None => http'[c].tok = http[c].tok
  /\ http[c].op = "me" /\ http'[c].code \in {0, 200} => http'[c].tok = http[c].tok

-----------------------------------------------------------------------------
(* Calls *)

LEMMA NoneIsNothing ==
  /\ None \notin Users
  /\ None \notin Numbers
  /\ None \notin Token
  /\ None \notin Calls
BY NoneAssumption

\* A new call.
LEMMA CallIs ==
  ASSUME NEW o \in {"register", "login", "refresh", "logout", "me", "jobs"},
         NEW u \in Users \cup {None}, NEW r \in Numbers \cup {None},
         NEW t \in Token \cup {None}
  PROVE  /\ Call(o, u, r, t) \in Calls
         /\ Call(o, u, r, t) # None
         /\ Call(o, u, r, t).op = o
         /\ Call(o, u, r, t).user = u
         /\ Call(o, u, r, t).row = r
         /\ Call(o, u, r, t).tok = t
         /\ Call(o, u, r, t).at = "sent"
         /\ Call(o, u, r, t).code = 0
         /\ Call(o, u, r, t).dead => r # None /\ ~ rows[r].live
<1>1. (IF r = None THEN FALSE ELSE ~ rows[r].live) \in BOOLEAN
  OBVIOUS
<1>2. Call(o, u, r, t) \in Calls
  <2> DEFINE d == IF r = None THEN FALSE ELSE ~ rows[r].live
  <2>1. d \in BOOLEAN
    BY <1>1
  <2>2. Call(o, u, r, t) = [op |-> o, user |-> u, row |-> r, tok |-> t, at |-> "sent",
                            code |-> 0, dead |-> d]
    BY DEF Call
  <2> HIDE DEF d
  <2> QED
    BY <2>1, <2>2 DEF Calls
<1> QED
  BY <1>2, NoneIsNothing DEF Call

\* A refusal says nothing but that.
LEMMA RefuseIs ==
  ASSUME NEW c \in Callers, NEW code \in {401, 500}, ServerTypeOK, http[c] # None,
         Refuse(c, code)
  PROVE  /\ http' \in [Callers -> Calls \cup {None}]
         /\ \A d \in Callers \ {c} : http'[d] = http[d]
         /\ http'[c] \in Calls
         /\ http'[c].op = http[c].op
         /\ http'[c].user = None
         /\ http'[c].row = None
         /\ http'[c].tok = None
         /\ http'[c].at = "done"
         /\ http'[c].code = code
         /\ ~ http'[c].dead
<1> DEFINE n == Call(http[c].op, None, None, None)
<1>1. http[c] \in Calls /\ http \in [Callers -> Calls \cup {None}]
  BY DEF ServerTypeOK
<1>2. http[c].op \in {"register", "login", "refresh", "logout", "me", "jobs"}
  BY <1>1 DEF Calls
<1>3. /\ n \in Calls
      /\ n.op = http[c].op
      /\ n.user = None
      /\ n.row = None
      /\ n.tok = None
      /\ ~ n.dead
  BY <1>2, CallIs
<1> HIDE DEF n
<1> DEFINE m == [n EXCEPT !.at = "done", !.code = code]
<1>4. m \in Calls
  <2> DEFINE x == [n EXCEPT !.at = "done"]
  <2>1. x \in Calls
    BY <1>3 DEF Calls
  <2>2. m = [x EXCEPT !.code = code]
    OBVIOUS
  <2> HIDE DEF x, m
  <2> QED
    BY <2>1, <2>2 DEF Calls
<1>5. m.op = n.op /\ m.user = n.user
  BY <1>3 DEF Calls
<1>6. m.row = n.row /\ m.tok = n.tok
  BY <1>3 DEF Calls
<1>7. m.at = "done" /\ m.code = code /\ m.dead = n.dead
  BY <1>3 DEF Calls
<1>8. http' = [http EXCEPT ![c] = m]
  BY <1>1 DEF Refuse, n
<1> HIDE DEF m
<1> QED
  BY <1>1, <1>3, <1>4, <1>5, <1>6, <1>7, <1>8

\* A grant brings a token, or none.
LEMMA GrantIs ==
  ASSUME NEW c \in Callers, NEW t \in Token \cup {None}, ServerTypeOK, http[c] # None,
         Grant(c, t)
  PROVE  /\ http' \in [Callers -> Calls \cup {None}]
         /\ \A d \in Callers \ {c} : http'[d] = http[d]
         /\ http'[c] \in Calls
         /\ http'[c].op = http[c].op
         /\ http'[c].user = http[c].user
         /\ http'[c].row = http[c].row
         /\ http'[c].tok = t
         /\ http'[c].at = "done"
         /\ http'[c].code = 200
         /\ http'[c].dead = http[c].dead
<1>1. http[c] \in Calls /\ http \in [Callers -> Calls \cup {None}]
  BY DEF ServerTypeOK
<1> DEFINE n == [http[c] EXCEPT !.at = "done", !.code = 200, !.tok = t]
<1>2. n \in Calls
  <2> DEFINE x == [http[c] EXCEPT !.at = "done"]
             y == [x EXCEPT !.code = 200]
  <2>1. x \in Calls
    BY <1>1 DEF Calls
  <2>2. n = [y EXCEPT !.tok = t]
    OBVIOUS
  <2> HIDE DEF x, n
  <2>3. y \in Calls
    BY <2>1 DEF Calls
  <2> HIDE DEF y
  <2> QED
    BY <2>2, <2>3 DEF Calls
<1>3. /\ n.op = http[c].op /\ n.user = http[c].user
      /\ n.row = http[c].row /\ n.dead = http[c].dead
  BY <1>1 DEF Calls
<1>4. n.tok = t
  BY <1>1 DEF Calls
<1>5. n.at = "done" /\ n.code = 200
  <2> DEFINE x == [http[c] EXCEPT !.at = "done"]
             y == [x EXCEPT !.code = 200]
  <2>1. x.at = "done" /\ "at" \in DOMAIN x /\ "code" \in DOMAIN x
    BY <1>1 DEF Calls
  <2>2. n = [y EXCEPT !.tok = t]
    OBVIOUS
  <2> HIDE DEF x, n
  <2>3. y.at = "done" /\ y.code = 200
    BY <2>1
  <2> HIDE DEF y
  <2> QED
    BY <2>2, <2>3
<1>6. http' = [http EXCEPT ![c] = n]
  <2> DEFINE h1 == [http EXCEPT ![c].at = "done"]
             h2 == [h1 EXCEPT ![c].code = 200]
             x == [http[c] EXCEPT !.at = "done"]
             y == [x EXCEPT !.code = 200]
  <2>1. h1 = [http EXCEPT ![c] = x]
    OBVIOUS
  <2>2. h2 = [http EXCEPT ![c] = y]
    <3>1. h2 = [h1 EXCEPT ![c] = [h1[c] EXCEPT !.code = 200]]
      OBVIOUS
    <3> HIDE DEF x, h1
    <3> QED
      BY <1>1, <2>1, <3>1
  <2>3. http' = [h2 EXCEPT ![c] = [h2[c] EXCEPT !.tok = t]]
    BY DEF Grant
  <2>4. n = [y EXCEPT !.tok = t]
    OBVIOUS
  <2> HIDE DEF n, x, y, h1, h2
  <2> QED
    BY <1>1, <2>2, <2>3, <2>4
<1> HIDE DEF n
<1> QED
  BY <1>1, <1>2, <1>3, <1>4, <1>5, <1>6

LEMMA GotoIs ==
  ASSUME NEW c \in Callers, NEW s \in {"insert", "pair"}, ServerTypeOK, http[c] # None,
         Goto(c, s)
  PROVE  /\ http' \in [Callers -> Calls \cup {None}]
         /\ \A d \in Callers \ {c} : http'[d] = http[d]
         /\ http'[c] \in Calls
         /\ http'[c].op = http[c].op
         /\ http'[c].user = http[c].user
         /\ http'[c].row = http[c].row
         /\ http'[c].tok = http[c].tok
         /\ http'[c].at = s
         /\ http'[c].code = http[c].code
         /\ http'[c].dead = http[c].dead
<1>1. http[c] \in Calls /\ http \in [Callers -> Calls \cup {None}]
  BY DEF ServerTypeOK
<1> DEFINE n == [http[c] EXCEPT !.at = s]
<1>2. /\ n \in Calls
      /\ n.op = http[c].op
      /\ n.user = http[c].user
      /\ n.row = http[c].row
      /\ n.tok = http[c].tok
      /\ n.at = s
      /\ n.code = http[c].code
      /\ n.dead = http[c].dead
  BY <1>1 DEF Calls
<1>3. http' = [http EXCEPT ![c] = n]
  BY <1>1 DEF Goto
<1> HIDE DEF n
<1> QED
  BY <1>1, <1>2, <1>3

-----------------------------------------------------------------------------
(* Steps of the API *)

\* No session disappears, changes hands or comes back to life.
Grows ==
  /\ rows' \in Seq([user : Users, live : BOOLEAN])
  /\ Len(rows) <= Len(rows')
  /\ Len(rows') <= MaxRows
  /\ \A r \in 1 .. Len(rows) :
       rows'[r].user = rows[r].user /\ (rows'[r].live => rows[r].live)

LEMMA SameRows ==
  ServerTypeOK /\ rows' = rows => Grows
BY DEF ServerTypeOK, Grows

LEMMA RevocationGrows ==
  ASSUME NEW r, ServerTypeOK, rows' = [rows EXCEPT ![r].live = FALSE]
  PROVE  Grows
<1>1. /\ rows \in Seq([user : Users, live : BOOLEAN])
      /\ Len(rows) \in Nat
      /\ DOMAIN rows = 1 .. Len(rows)
  BY DEF ServerTypeOK
<1>2. rows' \in [1 .. Len(rows) -> [user : Users, live : BOOLEAN]]
  <2>1. rows \in [1 .. Len(rows) -> [user : Users, live : BOOLEAN]]
    BY <1>1, LenProperties
  <2>2. ASSUME NEW x \in [user : Users, live : BOOLEAN]
        PROVE  [x EXCEPT !.live = FALSE] \in [user : Users, live : BOOLEAN]
    OBVIOUS
  <2> QED
    BY <2>1, <2>2
<1>3. rows' \in Seq([user : Users, live : BOOLEAN]) /\ Len(rows') = Len(rows)
  BY <1>1, <1>2
<1>4. \A q \in 1 .. Len(rows) :
        rows'[q].user = rows[q].user /\ (rows'[q].live => rows[q].live)
  <2>1. \A q \in 1 .. Len(rows) : rows[q] \in [user : Users, live : BOOLEAN]
    BY <1>1, ElementOfSeq
  <2> QED
    BY <1>1, <2>1
<1> QED
  BY <1>1, <1>3, <1>4 DEF Grows, ServerTypeOK

\* It is enough to look at the call that was served.
LEMMA OneServed ==
  ASSUME NEW c \in Callers, ServerTypeOK, Handled, Grows,
         users' \in [Users -> Nat], epoch' \in [Numbers -> 0 .. MaxEpoch],
         http' \in [Callers -> Calls \cup {None}],
         \A d \in Callers \ {c} : http'[d] = http[d],
         Known(http[c])', Answered(http[c])'
  PROVE  ServerTypeOK' /\ Handled'
<1>1. ASSUME NEW d \in Callers, http'[d] # None
      PROVE  Known(http[d])' /\ Answered(http[d])'
  <2>1. CASE d = c
    BY <2>1
  <2>2. CASE d # c
    <3>1. http'[d] = http[d] /\ http[d] # None /\ http[d] \in Calls
      BY <1>1, <2>2 DEF ServerTypeOK
    <3>2. Known(http[d]) /\ Answered(http[d])
      BY <3>1 DEF ServerTypeOK, Handled, Known
    <3>3. Len(rows) \in Nat /\ Len(rows') \in Nat
      BY DEF ServerTypeOK, Grows
    <3>4. http[d].row # None => http[d].row \in Nat
      BY <3>1, BoundsAssumption DEF Calls, Numbers
    <3>5. http[d].tok # None => http[d].tok.row \in 1 .. MaxRows
      BY <3>1, BoundsAssumption DEF Calls, Token, Numbers
    <3>6. Known(http[d])'
      BY <3>1, <3>2, <3>3, <3>4, <3>5, BoundsAssumption DEF Known, Grows
    <3>7. http[d].tok # None => rows'[http[d].tok.row].user = rows[http[d].tok.row].user
      BY <3>2, <3>3, <3>5, BoundsAssumption DEF Known, Grows
    <3>8. http[d].row # None => (rows'[http[d].row].live => rows[http[d].row].live)
      <4>1. http[d].row # None => http[d].row \in 1 .. Len(rows)
        BY <3>1, <3>2, <3>3, BoundsAssumption DEF Known, Calls, Numbers
      <4> QED
        BY <4>1 DEF Grows
    <3>9. Answered(http[d])'
      BY <3>1, <3>2, <3>7, <3>8 DEF Answered
    <3> QED
      BY <3>6, <3>9
  <2> QED
    BY <2>1, <2>2
<1>2. Handled'
  BY <1>1 DEF Handled
<1> QED
  BY <1>1, <1>2 DEF ServerTypeOK, Grows, Known

LEMMA ServerStepServes ==
  ASSUME NEW c \in Callers, ServerTypeOK, Handled, ServerStep(c)
  PROVE  ServerTypeOK' /\ Handled' /\ Grows /\ Served(c)
<1>0. http[c] # None
  BY DEF ServerStep, RegisterSelect, RegisterInsert, LoginSelect, CreateTokenPair, Refresh,
         Logout, Me, SubmitJob, Fails, Lost, Is
<1>1. http[c] \in Calls /\ Known(http[c]) /\ Answered(http[c])
  BY <1>0 DEF ServerTypeOK, Handled, Known
<1>2. http[c].tok \in Token \cup {None}
  BY <1>1 DEF Calls
<1>3. http[c].op \in {"register", "login", "refresh", "logout", "me", "jobs"}
  BY <1>1 DEF Calls
<1>Refuse. ASSUME NEW code \in {401, 500}, Refuse(c, code), UNCHANGED server
           PROVE  ServerTypeOK' /\ Handled' /\ Grows /\ Served(c)
  <2>1. Grows
    BY <1>Refuse, SameRows DEF server
  <2>2. /\ http' \in [Callers -> Calls \cup {None}]
        /\ \A d \in Callers \ {c} : http'[d] = http[d]
        /\ http'[c] \in Calls
        /\ http'[c].op = http[c].op
        /\ http'[c].row = None
        /\ http'[c].tok = None
        /\ http'[c].at = "done"
        /\ http'[c].code = code
        /\ ~ http'[c].dead
    BY <1>0, <1>Refuse, RefuseIs
  <2>3. Known(http[c])' /\ Answered(http[c])'
    BY <2>2 DEF Known, Answered
  <2>4. ServerTypeOK' /\ Handled'
    <3>1. users' \in [Users -> Nat] /\ epoch' \in [Numbers -> 0 .. MaxEpoch]
      BY <1>Refuse DEF server, ServerTypeOK
    <3> QED
      BY <2>1, <2>2, <2>3, <3>1, OneServed
  <2>5. http'[c] # None
    BY <2>2, NoneIsNothing
  <2>6. Served(c)
    BY <1>0, <1>Refuse, <2>1, <2>2, <2>5 DEF Served, Grows
  <2> QED
    BY <2>1, <2>4, <2>6
<1>Goto. ASSUME NEW s \in {"insert", "pair"}, Goto(c, s), rows' = rows, epoch' = epoch,
                users' \in [Users -> Nat],
                http[c].op \in {"register", "login"}, http[c].at # "done"
         PROVE  ServerTypeOK' /\ Handled' /\ Grows /\ Served(c)
  <2>1. Grows
    BY <1>Goto, SameRows
  <2>2. /\ http' \in [Callers -> Calls \cup {None}]
        /\ \A d \in Callers \ {c} : http'[d] = http[d]
        /\ http'[c] \in Calls
        /\ http'[c].op = http[c].op
        /\ http'[c].user = http[c].user
        /\ http'[c].row = http[c].row
        /\ http'[c].tok = http[c].tok
        /\ http'[c].at = s
        /\ http'[c].code = http[c].code
    BY <1>0, <1>Goto, GotoIs
  <2>3. Known(http[c])' /\ Answered(http[c])'
    BY <1>1, <1>Goto, <2>2 DEF Known, Answered
  <2>4. ServerTypeOK' /\ Handled'
    BY <1>Goto, <2>1, <2>2, <2>3, OneServed DEF ServerTypeOK
  <2>5. Served(c)
    BY <1>0, <1>Goto, <2>1, <2>2, NoneIsNothing DEF Served, Grows
  <2> QED
    BY <2>1, <2>4, <2>5
<1>Grant. ASSUME NEW k \in Token \cup {None}, Grant(c, k), Grows,
                 UNCHANGED <<users, epoch>>,
                 k # None => k.row <= Len(rows'),
                 http[c].op # "logout" => k # None,
                 http[c].op = "refresh" => k.row = http[c].row /\ ~ http[c].dead,
                 http[c].op \in {"register", "login"} =>
                   http[c].user \in Users /\ rows'[k.row].user = http[c].user,
                 http[c].op \in {"me", "jobs"} => k = http[c].tok,
                 http[c].op # "jobs", http[c].code = 0
          PROVE  ServerTypeOK' /\ Handled' /\ Grows /\ Served(c)
  <2>1. /\ http' \in [Callers -> Calls \cup {None}]
        /\ \A d \in Callers \ {c} : http'[d] = http[d]
        /\ http'[c] \in Calls
        /\ http'[c].op = http[c].op
        /\ http'[c].user = http[c].user
        /\ http'[c].row = http[c].row
        /\ http'[c].tok = k
        /\ http'[c].at = "done"
        /\ http'[c].code = 200
        /\ http'[c].dead = http[c].dead
    BY <1>0, <1>Grant, GrantIs
  <2>2. Len(rows) \in Nat /\ Len(rows') \in Nat
    BY DEF ServerTypeOK, Grows
  <2>3. http[c].row # None => http[c].row \in Nat
    BY <1>1, BoundsAssumption DEF Calls, Numbers
  <2>4. Known(http[c])'
    BY <1>1, <1>Grant, <2>1, <2>2, <2>3 DEF Known, Grows
  <2>5. Answered(http[c])'
    BY <1>Grant, <2>1 DEF Answered
  <2>6. ServerTypeOK' /\ Handled'
    BY <1>Grant, <2>1, <2>4, <2>5, OneServed DEF ServerTypeOK
  <2>7. Served(c)
    BY <1>0, <1>Grant, <2>1, NoneIsNothing DEF Served, Grows
  <2> QED
    BY <1>Grant, <2>6, <2>7
<1>RegisterSelect. CASE RegisterSelect(c)
  BY <1>RegisterSelect, <1>Refuse, <1>Goto DEF RegisterSelect, Is, server, ServerTypeOK
<1>RegisterInsert. CASE RegisterInsert(c)
  <2>1. http[c].op = "register" /\ http[c].at = "insert" /\ rows' = rows /\ epoch' = epoch
    BY <1>RegisterInsert DEF RegisterInsert, Is
  <2>2. CASE users[http[c].user] = 0
    <3>1. Goto(c, "pair")
      BY <1>RegisterInsert, <2>2 DEF RegisterInsert
    <3>2. users' \in [Users -> Nat]
      BY <1>RegisterInsert, <2>2 DEF RegisterInsert, ServerTypeOK
    <3> QED
      BY <2>1, <3>1, <3>2, <1>Goto
  <2>3. CASE users[http[c].user] # 0
    BY <1>RegisterInsert, <2>1, <2>3, <1>Refuse DEF RegisterInsert, server
  <2> QED
    BY <2>2, <2>3
<1>LoginSelect. CASE LoginSelect(c)
  BY <1>LoginSelect, <1>Refuse, <1>Goto DEF LoginSelect, Is, server, ServerTypeOK
<1>CreateTokenPair. CASE CreateTokenPair(c)
  <2> DEFINE n == Len(rows) + 1
             k == [row |-> n, epoch |-> epoch[n]]
  <2>1. /\ http[c].op \in {"register", "login"}
        /\ http[c].code = 0
        /\ http[c].user \in Users
    BY <1>1, <1>CreateTokenPair DEF CreateTokenPair, Answered
  <2>2. rows \in Seq([user : Users, live : BOOLEAN]) /\ Len(rows) \in Nat /\ Len(rows) < MaxRows
    BY <1>CreateTokenPair DEF CreateTokenPair, ServerTypeOK
  <2>3. n \in Numbers
    BY <2>2, BoundsAssumption DEF Numbers
  <2>4. k \in Token
    BY <2>3 DEF Token, ServerTypeOK
  <2>5. rows' = Append(rows, [user |-> http[c].user, live |-> TRUE])
    BY <1>CreateTokenPair DEF CreateTokenPair
  <2>6. [user |-> http[c].user, live |-> TRUE] \in [user : Users, live : BOOLEAN]
    BY <2>1
  <2>7. /\ rows' \in Seq([user : Users, live : BOOLEAN])
        /\ Len(rows') = n
        /\ \A r \in 1 .. Len(rows) : rows'[r] = rows[r]
        /\ rows'[n] = [user |-> http[c].user, live |-> TRUE]
    BY <2>2, <2>5, <2>6, AppendProperties
  <2>8. Grows
    BY <2>2, <2>7, BoundsAssumption DEF Grows
  <2>9. Grant(c, k) /\ UNCHANGED <<users, epoch>>
    BY <1>CreateTokenPair DEF CreateTokenPair
  <2>10. k.row = n
    OBVIOUS
  <2>11. rows'[n].user = http[c].user
    BY <2>7
  <2> HIDE DEF k
  <2>12. k # None
    BY <2>4, NoneIsNothing
  <2> QED
    BY <2>1, <2>2, <2>4, <2>7, <2>8, <2>9, <2>10, <2>11, <2>12, <1>Grant
<1>Refresh. CASE Refresh(c)
  <2>1. http[c].op = "refresh" /\ http[c].at = "sent" /\ UNCHANGED server
    BY <1>Refresh DEF Refresh, Is
  <2>2. http[c].code = 0
    BY <1>1, <2>1 DEF Answered
  <2>3. http[c].row \in Numbers /\ http[c].row <= Len(rows)
    BY <1>1, <2>1, <2>2 DEF Answered, Known, Calls
  <2>4. Session(http[c].row) \in Token /\ Session(http[c].row).row = http[c].row
    BY <2>3 DEF Session, Token, ServerTypeOK
  <2>5. CASE rows[http[c].row].live /\ Grant(c, Session(http[c].row))
    BY <1>1, <2>1, <2>2, <2>3, <2>4, <2>5, <1>Grant, SameRows, NoneIsNothing DEF server, Answered
  <2>6. CASE Refuse(c, 500)
    BY <2>1, <2>6, <1>Refuse
  <2> QED
    BY <1>Refresh, <2>5, <2>6 DEF Refresh
<1>Logout. CASE Logout(c)
  <2>1. http[c].op = "logout" /\ http[c].at = "sent" /\ Grant(c, None) /\ UNCHANGED <<users, epoch>>
    BY <1>Logout DEF Logout, Is
  <2>2. http[c].code = 0
    BY <1>1, <2>1 DEF Answered
  <2>3. Grows
    BY <1>Logout, RevocationGrows DEF Logout
  <2> QED
    BY <2>1, <2>2, <2>3, <1>Grant
<1>Me. CASE Me(c)
  <2>1. http[c].op = "me" /\ http[c].at = "sent" /\ UNCHANGED server
    BY <1>Me DEF Me, Is
  <2>2. http[c].code = 0
    BY <1>1, <2>1 DEF Answered
  <2>3. CASE Valid(http[c].tok) /\ Grant(c, http[c].tok)
    BY <1>1, <1>2, <2>1, <2>2, <2>3, <1>Grant, SameRows DEF server, Valid, Known
  <2>4. CASE Refuse(c, 401)
    BY <2>1, <2>4, <1>Refuse
  <2> QED
    BY <1>Me, <2>3, <2>4 DEF Me
<1>SubmitJob. CASE SubmitJob(c)
  BY <1>SubmitJob, <1>Refuse DEF SubmitJob
<1>Fails. CASE Fails(c)
  <2>1. http[c].at # "done" /\ http[c].code = 0 /\ UNCHANGED server
    BY <1>1, <1>Fails DEF Fails, Answered, Calls
  <2>2. CASE http[c].op = "logout" /\ Grant(c, None)
    BY <2>1, <2>2, <1>Grant, SameRows DEF server
  <2>3. CASE Refuse(c, 500)
    BY <2>1, <2>3, <1>Refuse
  <2> QED
    BY <1>Fails, <2>2, <2>3 DEF Fails
<1>Lost. CASE Lost(c)
  BY <1>Lost, <1>Refuse DEF Lost
<1> QED
  BY <1>RegisterSelect, <1>RegisterInsert, <1>LoginSelect, <1>CreateTokenPair, <1>Refresh,
     <1>Logout, <1>Me, <1>SubmitJob, <1>Fails, <1>Lost DEF ServerStep

LEMMA ExpiryServes ==
  ASSUME ServerTypeOK, Handled, Expiry
  PROVE  ServerTypeOK' /\ Handled' /\ Grows /\ http' = http
<1> PICK r \in DOMAIN rows : AccessExpires(r) \/ RefreshExpires(r)
  BY DEF Expiry
<1>1. r \in Numbers
  BY BoundsAssumption DEF ServerTypeOK, Numbers
<1>2. http' = http /\ users' = users
  BY DEF AccessExpires, RefreshExpires
<1>3. Grows
  BY SameRows, RevocationGrows DEF AccessExpires, RefreshExpires
<1>4. epoch' \in [Numbers -> 0 .. MaxEpoch]
  <2>1. CASE AccessExpires(r)
    BY <1>1, <2>1, BoundsAssumption DEF AccessExpires, ServerTypeOK
  <2>2. CASE RefreshExpires(r)
    BY <2>2 DEF RefreshExpires, ServerTypeOK
  <2> QED
    BY <2>1, <2>2
<1>5. ASSUME NEW d \in Callers, http[d] # None
      PROVE  Known(http[d])' /\ Answered(http[d])'
  <2>1. http[d] \in Calls /\ Known(http[d]) /\ Answered(http[d])
    BY <1>5 DEF ServerTypeOK, Handled, Known
  <2>2. Len(rows) \in Nat /\ Len(rows') \in Nat
    BY DEF ServerTypeOK, Grows
  <2>3. http[d].row # None => http[d].row \in Nat
    BY <2>1, BoundsAssumption DEF Calls, Numbers
  <2>4. http[d].tok # None => http[d].tok.row \in 1 .. MaxRows
    BY <2>1, BoundsAssumption DEF Calls, Token, Numbers
  <2>5. Known(http[d])'
    BY <1>2, <1>3, <2>1, <2>2, <2>3, <2>4, BoundsAssumption DEF Known, Grows
  <2>6. http[d].tok # None => rows'[http[d].tok.row].user = rows[http[d].tok.row].user
    BY <1>3, <2>1, <2>2, <2>4, BoundsAssumption DEF Known, Grows
  <2>7. http[d].row # None => (rows'[http[d].row].live => rows[http[d].row].live)
    <3>1. http[d].row # None => http[d].row \in 1 .. Len(rows)
      BY <2>1, <2>2, BoundsAssumption DEF Known, Calls, Numbers
    <3> QED
      BY <1>3, <3>1 DEF Grows
  <2>8. Answered(http[d])'
    BY <1>2, <2>1, <2>6, <2>7 DEF Answered
  <2> QED
    BY <2>5, <2>8
<1> QED
  BY <1>2, <1>3, <1>4, <1>5 DEF ServerTypeOK, Handled, Known, Grows

-----------------------------------------------------------------------------
(* Steps of the browser *)

LEMMA Placed ==
  /\ Fibers \subseteq Callers
  /\ Tabs \subseteq Callers
  /\ \A f \in Fibers : TabOf[f] \in Tabs /\ f \notin Tabs
BY FibersAssumption

\* A call that is new may be made.
Sent(c) == c \in Calls /\ Known(c) /\ Answered(c) /\ c # None

LEMMA AskIs ==
  ASSUME NEW o \in {"me", "jobs"}, NEW a \in Token \cup {None},
         a # None => a.row <= Len(rows)
  PROVE  /\ Sent(Ask(o, a))
         /\ Ask(o, a).op = o
         /\ Ask(o, a).code = 0
         /\ Ask(o, a).tok = IF o = "me" THEN a ELSE None
<1> DEFINE k == IF o = "me" THEN a ELSE None
<1>1. k \in Token \cup {None}
  OBVIOUS
<1>2. Ask(o, a) = Call(o, None, None, k)
  BY DEF Ask
<1> HIDE DEF k
<1>3. /\ Ask(o, a) \in Calls
      /\ Ask(o, a) # None
      /\ Ask(o, a).op = o
      /\ Ask(o, a).row = None
      /\ Ask(o, a).tok = k
      /\ Ask(o, a).at = "sent"
      /\ Ask(o, a).code = 0
  BY <1>1, <1>2, CallIs
<1>4. Known(Ask(o, a))
  BY <1>3 DEF Known, k
<1>5. Answered(Ask(o, a))
  BY <1>3 DEF Answered
<1> QED
  BY <1>3, <1>4, <1>5 DEF Sent, k

LEMMA BrowserServes ==
  ASSUME ServerTypeOK, Handled, UNCHANGED server, DOMAIN http' = Callers,
         http' = [c \in Callers |-> http'[c]],
         \A c \in Callers : http'[c] = http[c] \/ http'[c] = None \/ Sent(http'[c])
  PROVE  ServerTypeOK' /\ Handled'
<1>1. http' \in [Callers -> Calls \cup {None}]
  BY DEF ServerTypeOK, Sent
<1>2. ASSUME NEW c \in Callers, http'[c] # None
      PROVE  Known(http'[c]) /\ Answered(http'[c])
  BY <1>2 DEF ServerTypeOK, Handled, Known, Sent
<1>3. rows' = rows
  BY DEF server
<1>4. \A c \in Callers : http'[c] # None => Answered(http[c])'
  BY <1>2, <1>3 DEF Answered
<1> QED
  BY <1>1, <1>2, <1>3, <1>4 DEF server, ServerTypeOK, Handled, Known

\* What a load of t's page leaves, and leaves alone.
Blanked(t) ==
  /\ shown'[t] = None /\ data'[t] = {} /\ asked'[t] = FALSE
  /\ \A s \in Tabs \ {t} :
       /\ http'[s] = http[s] /\ shown'[s] = shown[s]
       /\ data'[s] = data[s] /\ asked'[s] = asked[s]
  /\ \A f \in Fibers : TabOf[f] = t =>
       /\ http'[f] = None /\ pc'[f] = "idle" /\ asks'[f] = None
       /\ again'[f] = FALSE /\ sends'[f] = 0 /\ kept'[f] = FALSE
  /\ \A f \in Fibers : TabOf[f] # t =>
       /\ http'[f] = http[f] /\ pc'[f] = pc[f] /\ asks'[f] = asks[f]
       /\ again'[f] = again[f] /\ sends'[f] = sends[f] /\ kept'[f] = kept[f]

LEMMA LoadPageIs ==
  ASSUME NEW t \in Tabs, TypeOK, Handled, LoadPage(t)
  PROVE  /\ ServerTypeOK' /\ Handled'
         /\ UNCHANGED <<server, storage, mixed>>
         /\ behind' = [behind EXCEPT ![t] = FALSE]
         /\ shown' \in [Tabs -> Users \cup {None}]
         /\ data' \in [Tabs -> SUBSET Users]
         /\ asked' \in [Tabs -> BOOLEAN]
         /\ leaving' \in [Tabs -> BOOLEAN]
         /\ pc' \in [Fibers -> {"idle", "login", "logout", "request", "refresh"}]
         /\ asks' \in [Fibers -> {"me", "jobs", None}]
         /\ again' \in [Fibers -> BOOLEAN]
         /\ sends' \in [Fibers -> Nat]
         /\ kept' \in [Fibers -> BOOLEAN]
         /\ http'[t] # None =>
              access # None /\ http'[t].op = "me" /\ http'[t].code = 0 /\ http'[t].tok = access
         /\ Blanked(t)
<1> DEFINE a == access
<1>1. a # None => Sent(Ask("me", a)) /\ Ask("me", a).op = "me" /\ Ask("me", a).code = 0 /\ Ask("me", a).tok = a
  BY AskIs DEF TypeOK
<1>2. http' = [c \in Callers |->
                 IF c = t /\ a # None THEN Ask("me", a)
                 ELSE IF c = t \/ (c \in Fibers /\ TabOf[c] = t) THEN None ELSE http[c]]
  BY DEF LoadPage
<1> HIDE DEF a
<1>3. \A c \in Callers : http'[c] = http[c] \/ http'[c] = None \/ Sent(http'[c])
  BY <1>1, <1>2
<1>4. ServerTypeOK' /\ Handled'
  <2>1. DOMAIN http' = Callers /\ http' = [c \in Callers |-> http'[c]]
    BY <1>2
  <2> QED
    BY <1>3, <2>1, BrowserServes DEF TypeOK, LoadPage
<1>5. /\ http'[t] # None =>
           access # None /\ http'[t].op = "me" /\ http'[t].code = 0 /\ http'[t].tok = access
      /\ \A s \in Tabs \ {t} : http'[s] = http[s]
      /\ \A f \in Fibers : http'[f] = IF TabOf[f] = t THEN None ELSE http[f]
  BY <1>1, <1>2, Placed DEF a
<1>6. /\ shown' \in [Tabs -> Users \cup {None}]
      /\ data' \in [Tabs -> SUBSET Users]
      /\ asked' \in [Tabs -> BOOLEAN]
      /\ leaving' \in [Tabs -> BOOLEAN]
      /\ shown'[t] = None /\ data'[t] = {} /\ asked'[t] = FALSE
      /\ \A s \in Tabs \ {t} :
           shown'[s] = shown[s] /\ data'[s] = data[s] /\ asked'[s] = asked[s]
  BY DEF LoadPage, TypeOK
<1>7. /\ pc' \in [Fibers -> {"idle", "login", "logout", "request", "refresh"}]
      /\ asks' \in [Fibers -> {"me", "jobs", None}]
      /\ again' \in [Fibers -> BOOLEAN]
      /\ sends' \in [Fibers -> Nat]
      /\ kept' \in [Fibers -> BOOLEAN]
  BY DEF LoadPage, TypeOK
<1>8. \A f \in Fibers :
        /\ pc'[f] = IF TabOf[f] = t THEN "idle" ELSE pc[f]
        /\ asks'[f] = IF TabOf[f] = t THEN None ELSE asks[f]
        /\ again'[f] = (again[f] /\ TabOf[f] # t)
        /\ sends'[f] = IF TabOf[f] = t THEN 0 ELSE sends[f]
        /\ kept'[f] = (kept[f] /\ TabOf[f] # t)
  BY DEF LoadPage
<1>9. \A f \in Fibers : again[f] \in BOOLEAN /\ kept[f] \in BOOLEAN
  BY DEF TypeOK
<1>10. Blanked(t)
  BY <1>5, <1>6, <1>8, <1>9 DEF Blanked
<1> QED
  BY <1>4, <1>5, <1>6, <1>7, <1>10 DEF LoadPage

\* What a fiber that ends leaves, and leaves alone.
Ended(f) ==
  /\ http'[f] = None /\ pc'[f] = "idle" /\ asks'[f] = None
  /\ again'[f] = FALSE /\ sends'[f] = 0 /\ kept'[f] = FALSE
  /\ \A t \in Tabs : http'[t] = http[t]
  /\ \A g \in Fibers \ {f} :
       /\ http'[g] = http[g] /\ pc'[g] = pc[g] /\ asks'[g] = asks[g]
       /\ again'[g] = again[g] /\ sends'[g] = sends[g] /\ kept'[g] = kept[g]

LEMMA OverIs ==
  ASSUME NEW f \in Fibers, TypeOK, Handled, UNCHANGED server, Over(f)
  PROVE  /\ ServerTypeOK' /\ Handled'
         /\ pc' \in [Fibers -> {"idle", "login", "logout", "request", "refresh"}]
         /\ asks' \in [Fibers -> {"me", "jobs", None}]
         /\ again' \in [Fibers -> BOOLEAN]
         /\ sends' \in [Fibers -> Nat]
         /\ kept' \in [Fibers -> BOOLEAN]
         /\ Ended(f)
<1>1. http' = [http EXCEPT ![f] = None]
  BY DEF Over
<1>2. DOMAIN http' = Callers /\ http' = [c \in Callers |-> http'[c]]
  BY <1>1 DEF TypeOK, ServerTypeOK
<1>3. /\ \A c \in Callers : http'[c] = http[c] \/ http'[c] = None
      /\ http'[f] = None
      /\ \A t \in Tabs : http'[t] = http[t]
      /\ \A g \in Fibers \ {f} : http'[g] = http[g]
  BY <1>1, Placed DEF TypeOK, ServerTypeOK
<1>4. ServerTypeOK' /\ Handled'
  BY <1>2, <1>3, BrowserServes DEF TypeOK
<1> QED
  BY <1>3, <1>4 DEF Over, Ended, TypeOK

\* No call changes but that of fiber f.
Only(f) ==
  /\ \A t \in Tabs : http'[t] = http[t]
  /\ \A g \in Fibers \ {f} : http'[g] = http[g]

LEMMA SendIs ==
  ASSUME NEW f \in Fibers, NEW x, Sent(x) \/ x = None, TypeOK, Handled, UNCHANGED server,
         http' = [http EXCEPT ![f] = x]
  PROVE  /\ ServerTypeOK' /\ Handled'
         /\ http'[f] = x
         /\ Only(f)
<1>1. DOMAIN http' = Callers /\ http' = [c \in Callers |-> http'[c]]
  BY DEF TypeOK, ServerTypeOK
<1>2. /\ \A c \in Callers : http'[c] = http[c] \/ http'[c] = None \/ Sent(http'[c])
      /\ http'[f] = x
      /\ \A t \in Tabs : http'[t] = http[t]
      /\ \A g \in Fibers \ {f} : http'[g] = http[g]
  BY Placed DEF TypeOK, ServerTypeOK
<1> QED
  BY <1>1, <1>2, BrowserServes DEF Only, TypeOK

LEMMA ClearIs ==
  ASSUME NEW t \in Tabs, TypeOK, ClearSessionState(t, kept)
  PROVE  /\ data' \in [Tabs -> SUBSET Users]
         /\ data'[t] = {}
         /\ \A s \in Tabs \ {t} : data'[s] = data[s]
         /\ kept' \in [Fibers -> BOOLEAN]
         /\ \A g \in Fibers : TabOf[g] = t => ~ kept'[g]
         /\ \A g \in Fibers : TabOf[g] # t => kept'[g] = kept[g]
BY DEF ClearSessionState, TypeOK

\* What a fiber's call is, by where the fiber is.
LEMMA CallOf ==
  ASSUME NEW f \in Fibers, TypeOK, Handled, Waiting
  PROVE  /\ http[f] # None => http[f] \in Calls /\ Known(http[f]) /\ Answered(http[f])
         /\ pc[f] = "idle" => http[f] = None
         /\ pc[f] = "login" /\ http[f].code = 200 =>
              /\ http[f].tok \in Token /\ http[f].tok.row \in 1 .. Len(rows)
              /\ http[f].user \in Users /\ rows[http[f].tok.row].user = http[f].user
         /\ pc[f] = "refresh" /\ http[f].code = 200 =>
              /\ http[f].tok \in Token /\ http[f].tok.row \in 1 .. Len(rows)
              /\ http[f].tok.row = http[f].row
         /\ pc[f] = "request" /\ http[f].code = 200 =>
              asks[f] = "me" /\ http[f].tok \in Token /\ http[f].tok.row \in 1 .. Len(rows)
         /\ pc[f] \in {"request", "refresh"} => asks[f] \in {"me", "jobs"}
<1>1. http[f] # None => http[f] \in Calls /\ Known(http[f]) /\ Answered(http[f])
  BY Placed DEF TypeOK, ServerTypeOK, Known, Handled
<1>2. http[f] # None /\ http[f].tok # None =>
        http[f].tok \in Token /\ http[f].tok.row \in 1 .. Len(rows)
  <2>1. http[f] # None /\ http[f].tok # None =>
          http[f].tok \in Token /\ http[f].tok.row \in 1 .. MaxRows /\ http[f].tok.row <= Len(rows)
    BY <1>1 DEF Calls, Token, Numbers, Known
  <2> QED
    BY <2>1, BoundsAssumption DEF TypeOK, ServerTypeOK
<1>3. pc[f] \in {"request", "refresh"} => asks[f] \in {"me", "jobs"}
  BY DEF Waiting, Waits, TypeOK
<1> QED
  BY <1>1, <1>2, <1>3 DEF TypeOK, Waiting, Waits, Answered

LEMMA StoredRows ==
  ASSUME TypeOK
  PROVE  /\ access \in Token \cup {None} /\ refresh \in Numbers \cup {None}
         /\ access # None => access.row \in 1 .. Len(rows)
         /\ refresh # None => refresh \in 1 .. Len(rows) /\ refresh <= Len(rows)
         /\ \A r \in 1 .. Len(rows) : rows[r].user \in Users
<1>1. rows \in Seq([user : Users, live : BOOLEAN]) /\ Len(rows) \in Nat /\ Len(rows) <= MaxRows
  BY DEF TypeOK, ServerTypeOK
<1>2. \A r \in 1 .. Len(rows) : rows[r] \in [user : Users, live : BOOLEAN]
  BY <1>1, ElementOfSeq
<1>3. access # None => access \in Token /\ access.row <= Len(rows)
  BY DEF TypeOK
<1>4. access # None => access.row \in 1 .. Len(rows)
  BY <1>1, <1>3, BoundsAssumption DEF Token, Numbers
<1>5. refresh # None => refresh \in 1 .. Len(rows)
  BY DEF TypeOK
<1>6. refresh # None => refresh \in Numbers /\ refresh <= Len(rows)
  BY <1>1, <1>5, BoundsAssumption DEF Numbers
<1> QED
  BY <1>2, <1>3, <1>4, <1>5, <1>6

\* The call that carries the stored refresh token.
LEMMA BearIs ==
  ASSUME NEW o \in {"refresh", "logout"}, TypeOK, refresh # None
  PROVE  /\ Sent(Call(o, None, refresh, None))
         /\ Call(o, None, refresh, None).op = o
         /\ Call(o, None, refresh, None).row = refresh
         /\ Call(o, None, refresh, None).code = 0
<1>1. refresh \in Numbers /\ refresh <= Len(rows)
  BY StoredRows
<1>2. /\ Call(o, None, refresh, None) \in Calls
      /\ Call(o, None, refresh, None) # None
      /\ Call(o, None, refresh, None).op = o
      /\ Call(o, None, refresh, None).row = refresh
      /\ Call(o, None, refresh, None).tok = None
      /\ Call(o, None, refresh, None).at = "sent"
      /\ Call(o, None, refresh, None).code = 0
      /\ Call(o, None, refresh, None).dead => ~ rows[refresh].live
  BY <1>1, CallIs
<1>3. Known(Call(o, None, refresh, None)) /\ Answered(Call(o, None, refresh, None))
  BY <1>1, <1>2 DEF Known, Answered
<1> QED
  BY <1>2, <1>3 DEF Sent

\* What each of the other steps does to the calls.
LEMMA LoadedIs ==
  ASSUME NEW t \in Tabs, TypeOK, Handled, Loaded(t)
  PROVE  /\ ServerTypeOK' /\ Handled'
         /\ http'[t] = None
         /\ \A s \in Tabs \ {t} : http'[s] = http[s]
         /\ \A f \in Fibers : http'[f] = http[f]
<1>1. http' = [http EXCEPT ![t] = None] /\ UNCHANGED server
  BY DEF Loaded
<1>2. DOMAIN http' = Callers /\ http' = [c \in Callers |-> http'[c]]
  BY <1>1 DEF TypeOK, ServerTypeOK
<1>3. /\ \A c \in Callers : http'[c] = http[c] \/ http'[c] = None
      /\ http'[t] = None
      /\ \A s \in Tabs \ {t} : http'[s] = http[s]
      /\ \A f \in Fibers : http'[f] = http[f]
  BY <1>1, Placed DEF TypeOK, ServerTypeOK
<1> QED
  BY <1>1, <1>2, <1>3, BrowserServes DEF TypeOK

LEMMA LogInIs ==
  ASSUME NEW f \in Fibers, NEW o \in {"register", "login"}, NEW u \in Users, TypeOK, Handled,
         LogIn(f, o, u)
  PROVE  /\ ServerTypeOK' /\ Handled'
         /\ http'[f] # None /\ http'[f].op = o
         /\ Only(f)
<1> DEFINE x == Call(o, u, None, None)
<1>1. /\ x \in Calls
      /\ x # None
      /\ x.op = o
      /\ x.user = u
      /\ x.row = None
      /\ x.tok = None
      /\ x.at = "sent"
      /\ x.code = 0
  BY CallIs
<1>2. http' = [http EXCEPT ![f] = x] /\ UNCHANGED server
  BY DEF LogIn
<1> HIDE DEF x
<1>3. Sent(x)
  BY <1>1 DEF Sent, Known, Answered
<1> QED
  BY <1>1, <1>2, <1>3, SendIs

LEMMA LogOutIs ==
  ASSUME NEW f \in Fibers, TypeOK, Handled, LogOut(f)
  PROVE  /\ ServerTypeOK' /\ Handled'
         /\ http'[f] # None => http'[f].op = "logout"
         /\ Only(f)
<1> DEFINE x == IF refresh = None THEN None ELSE Call("logout", None, refresh, None)
<1>1. (Sent(x) /\ x.op = "logout") \/ x = None
  BY BearIs
<1>2. http' = [http EXCEPT ![f] = x] /\ UNCHANGED server
  BY DEF LogOut
<1> HIDE DEF x
<1> QED
  BY <1>1, <1>2, SendIs

LEMMA LoggedOutIs ==
  ASSUME NEW f \in Fibers, TypeOK, Handled, LoggedOut(f)
  PROVE  /\ ServerTypeOK' /\ Handled'
         /\ http'[f] = None
         /\ Only(f)
<1>1. http' = [http EXCEPT ![f] = None] /\ UNCHANGED server
  BY DEF LoggedOut
<1> QED
  BY <1>1, SendIs

LEMMA RequestIs ==
  ASSUME NEW f \in Fibers, NEW o \in {"me", "jobs"}, TypeOK, Handled, Request(f, o)
  PROVE  /\ ServerTypeOK' /\ Handled'
         /\ http'[f] # None /\ http'[f].op = o
         /\ http'[f].tok = IF o = "me" THEN access ELSE None
         /\ Only(f)
<1> DEFINE x == Ask(o, access)
<1>1. Sent(x) /\ x.op = o /\ x.tok = IF o = "me" THEN access ELSE None
  BY StoredRows, AskIs DEF TypeOK
<1>2. http' = [http EXCEPT ![f] = x] /\ UNCHANGED server
  BY DEF Request
<1> HIDE DEF x
<1>3. x # None
  BY <1>1 DEF Sent
<1>4. ServerTypeOK' /\ Handled' /\ http'[f] = x /\ Only(f)
  BY <1>1, <1>2, SendIs
<1> QED
  BY <1>1, <1>3, <1>4

LEMMA UnauthorizedIs ==
  ASSUME NEW f \in Fibers, TypeOK, Handled, Unauthorized(f)
  PROVE  /\ ServerTypeOK' /\ Handled'
         /\ http'[f] # None /\ http'[f].op = "refresh" /\ http'[f].row = refresh
         /\ Only(f)
<1> DEFINE x == Call("refresh", None, refresh, None)
<1>1. Sent(x) /\ x.op = "refresh" /\ x.row = refresh
  BY BearIs DEF Unauthorized
<1>2. http' = [http EXCEPT ![f] = x] /\ UNCHANGED server
  BY DEF Unauthorized
<1> HIDE DEF x
<1>3. x # None
  BY <1>1 DEF Sent
<1> QED
  BY <1>1, <1>2, <1>3, SendIs

LEMMA RefreshedIs ==
  ASSUME NEW f \in Fibers, TypeOK, Handled, Waiting, Refreshed(f)
  PROVE  /\ ServerTypeOK' /\ Handled'
         /\ access' \in Token /\ access'.row \in 1 .. Len(rows) /\ access'.row = http[f].row
         /\ http'[f] # None /\ http'[f].op = asks[f]
         /\ http'[f].tok # None => http'[f].tok = access'
         /\ Only(f)
<1> DEFINE x == Ask(asks[f], http[f].tok)
<1>1. /\ http[f].tok \in Token /\ http[f].tok.row \in 1 .. Len(rows)
      /\ http[f].tok.row = http[f].row
      /\ asks[f] \in {"me", "jobs"}
  BY CallOf DEF Refreshed, Refreshing
<1>2. http[f].tok.row <= Len(rows)
  BY <1>1 DEF TypeOK, ServerTypeOK
<1>3. Sent(x) /\ x.op = asks[f] /\ (x.tok # None => x.tok = http[f].tok)
  BY <1>1, <1>2, AskIs
<1>4. http' = [http EXCEPT ![f] = x] /\ UNCHANGED server /\ access' = http[f].tok
  BY DEF Refreshed
<1> HIDE DEF x
<1>5. x # None
  BY <1>3 DEF Sent
<1> QED
  BY <1>1, <1>3, <1>4, <1>5, SendIs

\* All but the server's part of TypeOK.
BrowserTypeOK ==
  /\ access # None => access \in Token /\ access.row <= Len(rows)
  /\ refresh # None => refresh \in 1 .. Len(rows)
  /\ shown \in [Tabs -> Users \cup {None}]
  /\ data \in [Tabs -> SUBSET Users]
  /\ pc \in [Fibers -> {"idle", "login", "logout", "request", "refresh"}]
  /\ asks \in [Fibers -> {"me", "jobs", None}]
  /\ again \in [Fibers -> BOOLEAN]
  /\ sends \in [Fibers -> Nat]
  /\ kept \in [Fibers -> BOOLEAN]
  /\ asked \in [Tabs -> BOOLEAN]
  /\ leaving \in [Tabs -> BOOLEAN]
  /\ mixed \in BOOLEAN
  /\ behind \in [Tabs -> BOOLEAN]
  /\ \A f \in Fibers : pc[f] = "idle" => http[f] = None

LEMMA LoadPageTypes ==
  ASSUME NEW t \in Tabs, TypeOK, Handled, LoadPage(t)
  PROVE  BrowserTypeOK' /\ ServerTypeOK' /\ Handled'
<1>1. /\ shown' \in [Tabs -> Users \cup {None}]
      /\ data' \in [Tabs -> SUBSET Users]
      /\ asked' \in [Tabs -> BOOLEAN]
      /\ leaving' \in [Tabs -> BOOLEAN]
      /\ pc' \in [Fibers -> {"idle", "login", "logout", "request", "refresh"}]
      /\ asks' \in [Fibers -> {"me", "jobs", None}]
      /\ again' \in [Fibers -> BOOLEAN]
      /\ sends' \in [Fibers -> Nat]
      /\ kept' \in [Fibers -> BOOLEAN]
  BY LoadPageIs
<1>2. ASSUME NEW f \in Fibers
      PROVE  /\ TabOf[f] = t => http'[f] = None
             /\ TabOf[f] # t => http'[f] = http[f] /\ pc'[f] = pc[f]
  <2>1. Blanked(t)
    BY LoadPageIs
  <2> QED
    BY <2>1 DEF Blanked
<1>3. \A f \in Fibers : pc'[f] = "idle" => http'[f] = None
  BY <1>2 DEF TypeOK
<1>4. ServerTypeOK' /\ Handled'
  BY LoadPageIs
<1>5. /\ mixed' \in BOOLEAN /\ behind' \in [Tabs -> BOOLEAN]
      /\ access' # None => access' \in Token /\ access'.row <= Len(rows')
      /\ refresh' # None => refresh' \in 1 .. Len(rows')
  <2>1. UNCHANGED <<rows, access, refresh, mixed>> /\ behind' = [behind EXCEPT ![t] = FALSE]
    BY LoadPageIs DEF server, storage
  <2> QED
    BY <2>1 DEF TypeOK
<1> QED
  BY <1>1, <1>3, <1>4, <1>5 DEF BrowserTypeOK

LEMMA TypeStep == TypeOK /\ Handled /\ Waiting /\ [Next]_vars => TypeOK' /\ Handled'
<1> SUFFICES ASSUME TypeOK, Handled, Waiting, [Next]_vars PROVE TypeOK' /\ Handled'
  OBVIOUS
<1> USE DEF storage, tabs, fibers, ghosts
<1>0. ASSUME ServerTypeOK', Handled', BrowserTypeOK' PROVE TypeOK' /\ Handled'
  BY <1>0 DEF TypeOK, BrowserTypeOK
<1>1. BrowserTypeOK /\ ServerTypeOK
  BY DEF TypeOK, BrowserTypeOK
<1>Server. ASSUME NEW c \in Callers, ServerStep(c), UNCHANGED <<storage, tabs, fibers, ghosts>>
           PROVE  TypeOK' /\ Handled'
  <2>1. ServerTypeOK' /\ Handled' /\ Grows /\ Served(c)
    BY <1>1, <1>Server, ServerStepServes
  <2>2. BrowserTypeOK'
    <3>1. Len(rows) \in Nat /\ Len(rows') \in Nat /\ Len(rows) <= Len(rows')
      BY <1>1, <2>1 DEF ServerTypeOK, Grows
    <3>2. access # None => access.row \in Nat
      BY StoredRows
    <3>3. ASSUME NEW f \in Fibers, pc'[f] = "idle" PROVE http'[f] = None
      <4>1. http[f] = None
        BY <1>1, <1>Server, <3>3 DEF BrowserTypeOK
      <4>2. f \in Callers \ {c}
        BY <2>1, <4>1, Placed DEF Served
      <4> QED
        BY <2>1, <4>1, <4>2 DEF Served
    <3> QED
      BY <1>1, <1>Server, <3>1, <3>2, <3>3 DEF BrowserTypeOK
  <2> QED
    BY <2>1, <2>2, <1>0
<1>Expiry. ASSUME Expiry, UNCHANGED <<storage, tabs, fibers, ghosts>> PROVE TypeOK' /\ Handled'
  <2>1. ServerTypeOK' /\ Handled' /\ Grows /\ http' = http
    BY <1>1, <1>Expiry, ExpiryServes
  <2>2. BrowserTypeOK'
    <3>1. Len(rows) \in Nat /\ Len(rows') \in Nat /\ Len(rows) <= Len(rows')
      BY <1>1, <2>1 DEF ServerTypeOK, Grows
    <3>2. access # None => access.row \in Nat
      BY StoredRows
    <3> QED
      BY <1>1, <1>Expiry, <2>1, <3>1, <3>2 DEF BrowserTypeOK
  <2> QED
    BY <2>1, <2>2, <1>0
<1>Reload. ASSUME NEW t \in Tabs, Reload(t) \/ Unload(t) PROVE TypeOK' /\ Handled'
  BY <1>0, <1>Reload, LoadPageTypes DEF Reload, Unload
<1>Loaded. ASSUME NEW t \in Tabs, Loaded(t) PROVE TypeOK' /\ Handled'
  <2>1. http[t] # None /\ http[t] \in Calls /\ Known(http[t])
    BY <1>1, <1>Loaded, Placed DEF Loaded, Done, ServerTypeOK, Known
  <2>2. http[t].code = 200 => http[t].tok # None
    BY <1>Loaded, <2>1 DEF Waiting, Loading
  <2>3. http[t].code = 200 => http[t].tok.row \in 1 .. Len(rows)
    BY <1>1, <2>1, <2>2, BoundsAssumption DEF Calls, Token, Numbers, Known, ServerTypeOK
  <2>4. shown' \in [Tabs -> Users \cup {None}]
    BY <1>1, <1>Loaded, <2>3, StoredRows DEF Loaded, BrowserTypeOK
  <2>5. ServerTypeOK' /\ Handled' /\ \A f \in Fibers : http'[f] = http[f]
    BY <1>Loaded, LoadedIs
  <2>6. BrowserTypeOK'
    BY <1>1, <1>Loaded, <2>4, <2>5 DEF Loaded, BrowserTypeOK, server
  <2> QED
    BY <2>5, <2>6, <1>0
<1>LogIn. ASSUME NEW f \in Fibers, NEW o \in {"register", "login"}, NEW u \in Users, LogIn(f, o, u)
          PROVE  TypeOK' /\ Handled'
  <2>1. ServerTypeOK' /\ Handled' /\ Only(f)
    BY <1>LogIn, LogInIs
  <2>2. data' \in [Tabs -> SUBSET Users] /\ kept' \in [Fibers -> BOOLEAN]
    BY <1>LogIn, Placed, ClearIs DEF LogIn
  <2>3. BrowserTypeOK'
    BY <1>1, <1>LogIn, <2>1, <2>2 DEF LogIn, Only, BrowserTypeOK, server
  <2> QED
    BY <2>1, <2>3, <1>0
<1>LoggedIn. ASSUME NEW f \in Fibers, LoggedIn(f) PROVE TypeOK' /\ Handled'
  <2>1. Over(f) /\ UNCHANGED server
    BY <1>LoggedIn DEF LoggedIn
  <2>2. access' \in Token /\ access'.row \in 1 .. Len(rows) /\ refresh' = access'.row
    BY <1>LoggedIn, CallOf DEF LoggedIn
  <2>3. shown' \in [Tabs -> Users \cup {None}] /\ asked' \in [Tabs -> BOOLEAN]
    <3>1. http[f].user \in Users
      BY <1>LoggedIn, CallOf DEF LoggedIn
    <3>2. SigningIn(TabOf[f], Fibers \ {f}) \in BOOLEAN
      BY DEF SigningIn
    <3> QED
      BY <1>1, <1>LoggedIn, <3>1, <3>2 DEF LoggedIn, BrowserTypeOK
  <2>4. mixed' \in BOOLEAN /\ behind' \in [Tabs -> BOOLEAN]
    <3>1. \A s \in Tabs : (s # TabOf[f] \/ (http[TabOf[f]] # None \/ asked[TabOf[f]])) \in BOOLEAN
      OBVIOUS
    <3> QED
      BY <1>LoggedIn, <3>1 DEF LoggedIn, Unheard
  <2>5. ServerTypeOK' /\ Handled'
    BY <2>1, OverIs
  <2>6. /\ pc' \in [Fibers -> {"idle", "login", "logout", "request", "refresh"}]
        /\ asks' \in [Fibers -> {"me", "jobs", None}]
        /\ again' \in [Fibers -> BOOLEAN]
        /\ sends' \in [Fibers -> Nat]
        /\ kept' \in [Fibers -> BOOLEAN]
        /\ \A g \in Fibers : pc'[g] = "idle" => http'[g] = None
    BY <1>1, <2>1, OverIs DEF Ended, BrowserTypeOK
  <2>7. data' = data /\ rows' = rows /\ leaving' = leaving
    BY <1>LoggedIn DEF LoggedIn, server
  <2>8. BrowserTypeOK'
    BY <1>1, <2>2, <2>3, <2>4, <2>6, <2>7 DEF BrowserTypeOK, ServerTypeOK
  <2> QED
    BY <2>5, <2>8, <1>0
<1>LogInFails. ASSUME NEW f \in Fibers, LogInFails(f) PROVE TypeOK' /\ Handled'
  <2>1. Over(f) /\ UNCHANGED server
    BY <1>LogInFails DEF LogInFails
  <2>2. SigningIn(TabOf[f], Fibers \ {f}) \in BOOLEAN
    BY DEF SigningIn
  <2>3. /\ ServerTypeOK' /\ Handled'
        /\ pc' \in [Fibers -> {"idle", "login", "logout", "request", "refresh"}]
        /\ asks' \in [Fibers -> {"me", "jobs", None}]
        /\ again' \in [Fibers -> BOOLEAN]
        /\ sends' \in [Fibers -> Nat]
        /\ kept' \in [Fibers -> BOOLEAN]
        /\ \A g \in Fibers : pc'[g] = "idle" => http'[g] = None
    BY <1>1, <2>1, OverIs DEF Ended, BrowserTypeOK
  <2>4. asked' \in [Tabs -> BOOLEAN]
    BY <1>1, <1>LogInFails, <2>2 DEF LogInFails, BrowserTypeOK
  <2>5. BrowserTypeOK'
    BY <1>1, <1>LogInFails, <2>3, <2>4 DEF LogInFails, BrowserTypeOK, server
  <2> QED
    BY <2>3, <2>5, <1>0
<1>LogOut. ASSUME NEW f \in Fibers, LogOut(f) PROVE TypeOK' /\ Handled'
  <2>1. ServerTypeOK' /\ Handled' /\ Only(f)
    BY <1>LogOut, LogOutIs
  <2>2. BrowserTypeOK'
    BY <1>1, <1>LogOut, <2>1 DEF LogOut, Only, BrowserTypeOK, server
  <2> QED
    BY <2>1, <2>2, <1>0
<1>LoggedOut. ASSUME NEW f \in Fibers, LoggedOut(f) PROVE TypeOK' /\ Handled'
  <2>1. ServerTypeOK' /\ Handled' /\ http'[f] = None /\ Only(f)
    BY <1>LoggedOut, LoggedOutIs
  <2>2. data' \in [Tabs -> SUBSET Users] /\ kept' \in [Fibers -> BOOLEAN]
    BY <1>LoggedOut, Placed, ClearIs DEF LoggedOut
  <2>3. mixed' \in BOOLEAN /\ behind' \in [Tabs -> BOOLEAN]
    <3>1. \A s \in Tabs : (s # TabOf[f] \/ behind[TabOf[f]]) \in BOOLEAN
      OBVIOUS
    <3> QED
      BY <1>LoggedOut, <3>1 DEF LoggedOut, Unheard
  <2>4. BrowserTypeOK'
    BY <1>1, <1>LoggedOut, <2>1, <2>2, <2>3
    DEF LoggedOut, RemoveTokens, Only, BrowserTypeOK, server
  <2> QED
    BY <2>1, <2>4, <1>0
<1>Request. ASSUME NEW f \in Fibers, NEW o \in {"me", "jobs"}, Request(f, o) PROVE TypeOK' /\ Handled'
  <2>1. ServerTypeOK' /\ Handled' /\ Only(f)
    BY <1>Request, RequestIs
  <2>2. SigningIn(TabOf[f], Fibers) \in BOOLEAN
    BY DEF SigningIn
  <2>3. BrowserTypeOK'
    BY <1>1, <1>Request, <2>1, <2>2 DEF Request, Only, BrowserTypeOK, server
  <2> QED
    BY <2>1, <2>3, <1>0
<1>Settled. ASSUME NEW f \in Fibers, Settled(f) PROVE TypeOK' /\ Handled'
  <2>1. Over(f) /\ UNCHANGED server
    BY <1>Settled DEF Settled
  <2>2. /\ ServerTypeOK' /\ Handled'
        /\ pc' \in [Fibers -> {"idle", "login", "logout", "request", "refresh"}]
        /\ asks' \in [Fibers -> {"me", "jobs", None}]
        /\ again' \in [Fibers -> BOOLEAN]
        /\ sends' \in [Fibers -> Nat]
        /\ kept' \in [Fibers -> BOOLEAN]
        /\ \A g \in Fibers : pc'[g] = "idle" => http'[g] = None
    BY <1>1, <2>1, OverIs DEF Ended, BrowserTypeOK
  <2>3. data' \in [Tabs -> SUBSET Users]
    <3>1. CASE http[f].code = 200
      <4>1. rows[http[f].tok.row].user \in Users
        BY <1>Settled, <3>1, CallOf, StoredRows DEF Settled
      <4>2. data \in [Tabs -> SUBSET Users] /\ TabOf[f] \in Tabs
        BY <1>1, Placed DEF BrowserTypeOK
      <4>3. data[TabOf[f]] \cup {rows[http[f].tok.row].user} \in SUBSET Users
        BY <4>1, <4>2
      <4> QED
        BY <1>Settled, <4>2, <4>3 DEF Settled
    <3>2. CASE http[f].code # 200
      BY <1>1, <1>Settled, <3>2 DEF Settled, BrowserTypeOK
    <3> QED
      BY <3>1, <3>2
  <2>4. BrowserTypeOK'
    BY <1>1, <1>Settled, <2>2, <2>3 DEF Settled, BrowserTypeOK, server
  <2> QED
    BY <2>2, <2>4, <1>0
<1>Unauthorized. ASSUME NEW f \in Fibers, Unauthorized(f) PROVE TypeOK' /\ Handled'
  <2>1. ServerTypeOK' /\ Handled' /\ Only(f)
    BY <1>Unauthorized, UnauthorizedIs
  <2>2. BrowserTypeOK'
    BY <1>1, <1>Unauthorized, <2>1 DEF Unauthorized, Only, BrowserTypeOK, server
  <2> QED
    BY <2>1, <2>2, <1>0
<1>Unauthenticated. ASSUME NEW f \in Fibers, Unauthenticated(f) PROVE TypeOK' /\ Handled'
  <2>1. Over(f) /\ UNCHANGED server
    BY <1>Unauthenticated DEF Unauthenticated, Redirect
  <2>2. /\ ServerTypeOK' /\ Handled'
        /\ pc' \in [Fibers -> {"idle", "login", "logout", "request", "refresh"}]
        /\ asks' \in [Fibers -> {"me", "jobs", None}]
        /\ again' \in [Fibers -> BOOLEAN]
        /\ sends' \in [Fibers -> Nat]
        /\ kept' \in [Fibers -> BOOLEAN]
        /\ \A g \in Fibers : pc'[g] = "idle" => http'[g] = None
    BY <1>1, <2>1, OverIs DEF Ended, BrowserTypeOK
  <2>3. leaving' \in [Tabs -> BOOLEAN]
    BY <1>1, <1>Unauthenticated DEF Unauthenticated, Redirect, BrowserTypeOK
  <2>4. BrowserTypeOK'
    BY <1>1, <1>Unauthenticated, <2>2, <2>3 DEF Unauthenticated, Redirect, BrowserTypeOK, server
  <2> QED
    BY <2>2, <2>4, <1>0
<1>Refreshed. ASSUME NEW f \in Fibers, Refreshed(f) PROVE TypeOK' /\ Handled'
  <2>1. /\ ServerTypeOK' /\ Handled' /\ Only(f)
        /\ access' \in Token /\ access'.row \in 1 .. Len(rows)
    BY <1>Refreshed, RefreshedIs
  <2>2. BrowserTypeOK'
    BY <1>1, <1>Refreshed, <2>1 DEF Refreshed, Only, BrowserTypeOK, server, ServerTypeOK
  <2> QED
    BY <2>1, <2>2, <1>0
<1>RefreshFails. ASSUME NEW f \in Fibers, RefreshFails(f) PROVE TypeOK' /\ Handled'
  <2>1. Over(f) /\ UNCHANGED server
    BY <1>RefreshFails DEF RefreshFails, Redirect
  <2>2. /\ ServerTypeOK' /\ Handled'
        /\ pc' \in [Fibers -> {"idle", "login", "logout", "request", "refresh"}]
        /\ asks' \in [Fibers -> {"me", "jobs", None}]
        /\ again' \in [Fibers -> BOOLEAN]
        /\ sends' \in [Fibers -> Nat]
        /\ kept' \in [Fibers -> BOOLEAN]
        /\ \A g \in Fibers : pc'[g] = "idle" => http'[g] = None
    BY <1>1, <2>1, OverIs DEF Ended, BrowserTypeOK
  <2>3. leaving' \in [Tabs -> BOOLEAN]
    BY <1>1, <1>RefreshFails DEF RefreshFails, Redirect, BrowserTypeOK
  <2>4. mixed' \in BOOLEAN /\ behind' \in [Tabs -> BOOLEAN]
    <3>1. \A s \in Tabs : (s # TabOf[f] \/ (behind[TabOf[f]] \/ mixed)) \in BOOLEAN
      OBVIOUS
    <3> QED
      BY <1>RefreshFails, <3>1 DEF RefreshFails, Unheard
  <2>5. BrowserTypeOK'
    BY <1>1, <1>RefreshFails, <2>2, <2>3, <2>4
    DEF RefreshFails, RemoveTokens, Redirect, BrowserTypeOK, server
  <2> QED
    BY <2>2, <2>5, <1>0
<1>Stutter. ASSUME UNCHANGED vars PROVE TypeOK' /\ Handled'
  <2>1. BrowserTypeOK' /\ ServerTypeOK'
    BY <1>1, <1>Stutter DEF vars, BrowserTypeOK, ServerTypeOK, server
  <2>2. Handled'
    BY <1>Stutter DEF vars, Handled, Answered, server
  <2> QED
    BY <2>1, <2>2, <1>0
<1> QED
  BY <1>Server, <1>Expiry, <1>Reload, <1>Loaded, <1>LogIn, <1>LoggedIn, <1>LogInFails,
     <1>LogOut, <1>LoggedOut, <1>Request, <1>Settled, <1>Unauthorized, <1>Unauthenticated,
     <1>Refreshed, <1>RefreshFails, <1>Stutter DEF Next

-----------------------------------------------------------------------------
(* What fibers and page loads wait for *)

\* Nothing of fiber g changes.
Left(g) ==
  /\ http'[g] = http[g] /\ pc'[g] = pc[g] /\ asks'[g] = asks[g]
  /\ again'[g] = again[g] /\ sends'[g] = sends[g] /\ kept'[g] = kept[g]

LEMMA LeftWaits ==
  ASSUME NEW g \in Fibers, Waits(g), Left(g)
  PROVE  Waits(g)'
BY DEF Waits, Left

\* A step of fiber f alone.
LEMMA OneWaits ==
  ASSUME NEW f \in Fibers, Waiting, Waits(f)',
         \A g \in Fibers \ {f} : Left(g), \A t \in Tabs : http'[t] = http[t]
  PROVE  Waiting'
<1>1. \A g \in Fibers : Waits(g)'
  BY LeftWaits DEF Waiting
<1>2. \A t \in Tabs : Loading(t)'
  BY DEF Waiting, Loading
<1> QED
  BY <1>1, <1>2 DEF Waiting

LEMMA EndedWaits ==
  ASSUME NEW f \in Fibers, Waiting, Ended(f)
  PROVE  Waiting'
<1>1. Waits(f)'
  BY DEF Ended, Waits
<1> QED
  BY <1>1, OneWaits DEF Ended, Left

LEMMA BlankedWaits ==
  ASSUME NEW t \in Tabs, Waiting, Blanked(t), Loading(t)'
  PROVE  Waiting'
<1>1. ASSUME NEW g \in Fibers PROVE Waits(g)'
  <2>1. CASE TabOf[g] = t
    BY <2>1 DEF Blanked, Waits
  <2>2. CASE TabOf[g] # t
    BY <2>2, LeftWaits DEF Blanked, Left, Waiting
  <2> QED
    BY <2>1, <2>2
<1>2. ASSUME NEW s \in Tabs PROVE Loading(s)'
  BY DEF Blanked, Loading, Waiting
<1> QED
  BY <1>1, <1>2 DEF Waiting

LEMMA WaitingStep == TypeOK /\ Handled /\ Waiting /\ [Next]_vars => Waiting'
<1> SUFFICES ASSUME TypeOK, Handled, Waiting, [Next]_vars PROVE Waiting'
  OBVIOUS
<1> USE DEF storage, tabs, fibers, ghosts
<1>0. ServerTypeOK /\ (\A f \in Fibers : Waits(f)) /\ (\A t \in Tabs : Loading(t))
  BY DEF TypeOK, Waiting
<1>Server. ASSUME NEW c \in Callers, ServerStep(c), UNCHANGED <<storage, tabs, fibers, ghosts>>
           PROVE  Waiting'
  <2>1. Served(c)
    BY <1>0, <1>Server, ServerStepServes
  <2>2. ASSUME NEW f \in Fibers PROVE Waits(f)'
    <3>1. CASE f = c
      BY <1>0, <1>Server, <2>1, <3>1 DEF Served, Waits
    <3>2. CASE f # c
      BY <1>0, <1>Server, <2>1, <3>2, LeftWaits, Placed DEF Served, Left
    <3> QED
      BY <3>1, <3>2
  <2>3. ASSUME NEW t \in Tabs PROVE Loading(t)'
    <3>1. CASE t = c
      BY <1>0, <2>1, <3>1 DEF Served, Loading
    <3>2. CASE t # c
      BY <1>0, <2>1, <3>2, Placed DEF Served, Loading
    <3> QED
      BY <3>1, <3>2
  <2> QED
    BY <2>2, <2>3 DEF Waiting
<1>Expiry. ASSUME Expiry, UNCHANGED <<storage, tabs, fibers, ghosts>> PROVE Waiting'
  <2>1. http' = http
    BY <1>0, <1>Expiry, ExpiryServes
  <2> QED
    BY <1>Expiry, <2>1 DEF Waiting, Waits, Loading
<1>Reload. ASSUME NEW t \in Tabs, Reload(t) \/ Unload(t) PROVE Waiting'
  <2>1. /\ Blanked(t)
        /\ http'[t] # None => access # None /\ http'[t].op = "me" /\ http'[t].tok = access
    BY <1>Reload, LoadPageIs DEF Reload, Unload
  <2>2. Loading(t)'
    BY <2>1 DEF Loading
  <2> QED
    BY <2>1, <2>2, BlankedWaits
<1>Loaded. ASSUME NEW t \in Tabs, Loaded(t) PROVE Waiting'
  <2>1. /\ http'[t] = None
        /\ \A s \in Tabs \ {t} : http'[s] = http[s]
        /\ \A f \in Fibers : http'[f] = http[f]
    BY <1>Loaded, LoadedIs
  <2> QED
    BY <1>Loaded, <2>1 DEF Loaded, Waiting, Waits, Loading
<1>LogIn. ASSUME NEW f \in Fibers, NEW o \in {"register", "login"}, NEW u \in Users, LogIn(f, o, u)
          PROVE  Waiting'
  <2>1. Only(f) /\ http'[f] # None /\ http'[f].op = o
    BY <1>LogIn, LogInIs
  <2>2. \A g \in Fibers : kept'[g] => kept[g] /\ TabOf[g] # TabOf[f]
    BY <1>LogIn, Placed, ClearIs DEF LogIn
  <2>3. ASSUME NEW g \in Fibers PROVE Waits(g)'
    <3>1. CASE g = f
      BY <1>0, <1>LogIn, <2>1, <2>2, <3>1 DEF LogIn, Waits, TypeOK
    <3>2. CASE g # f
      BY <1>0, <1>LogIn, <2>1, <2>2, <3>2 DEF LogIn, Only, Waits, TypeOK
    <3> QED
      BY <3>1, <3>2
  <2> QED
    BY <1>0, <2>1, <2>3 DEF Only, Waiting, Loading
<1>Over. ASSUME NEW f \in Fibers,
                LoggedIn(f) \/ LogInFails(f) \/ Settled(f) \/ Unauthenticated(f) \/ RefreshFails(f)
         PROVE  Waiting'
  <2>1. Over(f) /\ UNCHANGED server
    BY <1>Over DEF LoggedIn, LogInFails, Settled, Unauthenticated, RefreshFails, Redirect
  <2>2. Ended(f)
    BY <2>1, OverIs
  <2> QED
    BY <2>2, EndedWaits
<1>LogOut. ASSUME NEW f \in Fibers, LogOut(f) PROVE Waiting'
  <2>1. Only(f) /\ (http'[f] # None => http'[f].op = "logout")
    BY <1>LogOut, LogOutIs
  <2>3. Waits(f)'
    BY <1>0, <1>LogOut, <2>1 DEF LogOut, Waits, TypeOK
  <2>4. \A g \in Fibers \ {f} : Left(g)
    BY <1>LogOut, <2>1 DEF LogOut, Only, Left, TypeOK
  <2> QED
    BY <2>1, <2>3, <2>4, OneWaits DEF Only
<1>LoggedOut. ASSUME NEW f \in Fibers, LoggedOut(f) PROVE Waiting'
  <2>1. Only(f) /\ http'[f] = None
    BY <1>LoggedOut, LoggedOutIs
  <2>2. \A g \in Fibers : kept'[g] => kept[g] /\ TabOf[g] # TabOf[f]
    BY <1>LoggedOut, Placed, ClearIs DEF LoggedOut
  <2>3. ASSUME NEW g \in Fibers PROVE Waits(g)'
    <3>1. CASE g = f
      BY <1>0, <1>LoggedOut, <2>1, <2>2, <3>1 DEF LoggedOut, Waits, TypeOK
    <3>2. CASE g # f
      BY <1>0, <1>LoggedOut, <2>1, <2>2, <3>2 DEF LoggedOut, Only, Waits, TypeOK
    <3> QED
      BY <3>1, <3>2
  <2> QED
    BY <1>0, <2>1, <2>3 DEF Only, Waiting, Loading
<1>Request. ASSUME NEW f \in Fibers, NEW o \in {"me", "jobs"}, Request(f, o) PROVE Waiting'
  <2>1. Only(f) /\ http'[f] # None /\ http'[f].op = o
    BY <1>Request, RequestIs
  <2>2. ~ again[f] /\ o # None
    BY <1>0, <1>Request, NoneAssumption DEF Request, Waits
  <2>3. Waits(f)'
    BY <1>0, <1>Request, <2>1, <2>2 DEF Request, Waits, TypeOK
  <2>4. \A g \in Fibers \ {f} : Left(g)
    BY <1>Request, <2>1 DEF Request, Only, Left, TypeOK
  <2> QED
    BY <2>1, <2>3, <2>4, OneWaits DEF Only
<1>Unauthorized. ASSUME NEW f \in Fibers, Unauthorized(f) PROVE Waiting'
  <2>1. Only(f) /\ http'[f] # None /\ http'[f].op = "refresh"
    BY <1>Unauthorized, UnauthorizedIs
  <2>3. Waits(f)'
    BY <1>0, <1>Unauthorized, <2>1 DEF Unauthorized, Waits, TypeOK
  <2>4. \A g \in Fibers \ {f} : Left(g)
    BY <1>Unauthorized, <2>1 DEF Unauthorized, Only, Left, TypeOK
  <2> QED
    BY <2>1, <2>3, <2>4, OneWaits DEF Only
<1>Refreshed. ASSUME NEW f \in Fibers, Refreshed(f) PROVE Waiting'
  <2>1. Only(f) /\ http'[f] # None /\ http'[f].op = asks[f]
    BY <1>Refreshed, RefreshedIs
  <2>2. again[f]
    BY <1>0, <1>Refreshed DEF Refreshed, Refreshing, Waits
  <2>3. Waits(f)'
    BY <1>0, <1>Refreshed, <2>1, <2>2 DEF Refreshed, Refreshing, Waits, TypeOK
  <2>4. \A g \in Fibers \ {f} : Left(g)
    BY <1>Refreshed, <2>1 DEF Refreshed, Only, Left, TypeOK
  <2> QED
    BY <2>1, <2>3, <2>4, OneWaits DEF Only
<1>Stutter. ASSUME UNCHANGED vars PROVE Waiting'
  BY <1>Stutter DEF vars, Waiting, Waits, Loading
<1> QED
  BY <1>Server, <1>Expiry, <1>Reload, <1>Loaded, <1>LogIn, <1>Over,
     <1>LogOut, <1>LoggedOut, <1>Request, <1>Unauthorized, <1>Refreshed, <1>Stutter DEF Next

-----------------------------------------------------------------------------
(* The stored session *)

LEMMA FreshStep ==
  TypeOK /\ Handled /\ Waiting /\ Fresh /\ [Next]_vars => Fresh'
<1> SUFFICES ASSUME TypeOK, Handled, Waiting, Fresh, [Next]_vars,
                    NEW h \in Fibers, ~ mixed', Refreshing(h)', http'[h].code \in {0, 200}
             PROVE  http'[h].row = refresh'
  BY DEF Fresh
<1> USE DEF storage, tabs, fibers, ghosts
<1>0. pc \in [Fibers -> {"idle", "login", "logout", "request", "refresh"}]
  BY DEF TypeOK
<1>1. ASSUME http'[h] = http[h], pc'[h] = pc[h], refresh' = refresh, mixed' = mixed
      PROVE  http'[h].row = refresh'
  BY <1>1 DEF Fresh, Refreshing
<1>Server. ASSUME NEW c \in Callers, ServerStep(c), UNCHANGED <<storage, tabs, fibers, ghosts>>
           PROVE  http'[h].row = refresh'
  <2>1. Served(c)
    BY <1>Server, ServerStepServes DEF TypeOK
  <2>2. CASE h = c
    BY <1>Server, <2>1, <2>2 DEF Served, Fresh, Refreshing
  <2>3. CASE h # c
    BY <1>Server, <2>1, <2>3, <1>1, Placed DEF Served
  <2> QED
    BY <2>2, <2>3
<1>Expiry. ASSUME Expiry, UNCHANGED <<storage, tabs, fibers, ghosts>> PROVE http'[h].row = refresh'
  BY <1>Expiry, <1>1, ExpiryServes DEF TypeOK
<1>Load. ASSUME NEW t \in Tabs, Reload(t) \/ Unload(t) PROVE http'[h].row = refresh'
  <2>1. Blanked(t) /\ UNCHANGED <<refresh, mixed>>
    BY <1>Load, LoadPageIs DEF Reload, Unload
  <2> QED
    BY <1>1, <2>1 DEF Blanked, Refreshing
<1>Loaded. ASSUME NEW t \in Tabs, Loaded(t) PROVE http'[h].row = refresh'
  BY <1>Loaded, <1>1, LoadedIs DEF Loaded
<1>LogIn. ASSUME NEW f \in Fibers, NEW o \in {"register", "login"}, NEW u \in Users, LogIn(f, o, u)
          PROVE  http'[h].row = refresh'
  BY <1>0, <1>1, <1>LogIn, LogInIs DEF LogIn, Only, Refreshing
<1>LoggedIn. ASSUME NEW f \in Fibers, LoggedIn(f) PROVE http'[h].row = refresh'
  <2>1. Ended(f)
    BY <1>LoggedIn, OverIs DEF LoggedIn
  <2> QED
    BY <1>LoggedIn, <2>1 DEF LoggedIn, Ended, Refreshing
<1>Over. ASSUME NEW f \in Fibers, LogInFails(f) \/ Settled(f) \/ Unauthenticated(f)
         PROVE  http'[h].row = refresh'
  <2>1. Ended(f)
    BY <1>Over, OverIs DEF LogInFails, Settled, Unauthenticated, Redirect
  <2> QED
    BY <1>1, <1>Over, <2>1 DEF LogInFails, Settled, Unauthenticated, Ended, Refreshing
<1>LogOut. ASSUME NEW f \in Fibers, LogOut(f) PROVE http'[h].row = refresh'
  BY <1>0, <1>1, <1>LogOut, LogOutIs DEF LogOut, Only, Refreshing
<1>LoggedOut. ASSUME NEW f \in Fibers, LoggedOut(f) PROVE http'[h].row = refresh'
  BY <1>0, <1>LoggedOut DEF LoggedOut, Refreshing
<1>Request. ASSUME NEW f \in Fibers, NEW o \in {"me", "jobs"}, Request(f, o)
            PROVE  http'[h].row = refresh'
  BY <1>0, <1>1, <1>Request, RequestIs DEF Request, Only, Refreshing
<1>Unauthorized. ASSUME NEW f \in Fibers, Unauthorized(f) PROVE http'[h].row = refresh'
  <2>1. http'[f].row = refresh /\ Only(f)
    BY <1>Unauthorized, UnauthorizedIs
  <2>2. refresh' = refresh /\ mixed' = mixed /\ pc' = [pc EXCEPT ![f] = "refresh"]
    BY <1>Unauthorized DEF Unauthorized
  <2> QED
    BY <1>0, <1>1, <2>1, <2>2 DEF Only
<1>Refreshed. ASSUME NEW f \in Fibers, Refreshed(f) PROVE http'[h].row = refresh'
  BY <1>0, <1>1, <1>Refreshed, RefreshedIs DEF Refreshed, Only, Refreshing
<1>RefreshFails. ASSUME NEW f \in Fibers, RefreshFails(f) PROVE http'[h].row = refresh'
  <2>1. Ended(f)
    BY <1>RefreshFails, OverIs DEF RefreshFails, Redirect
  <2> QED
    BY <1>RefreshFails, <2>1 DEF RefreshFails, Ended, Refreshing
<1>Stutter. ASSUME UNCHANGED vars PROVE http'[h].row = refresh'
  BY <1>Stutter, <1>1 DEF vars
<1> QED
  BY <1>Server, <1>Expiry, <1>Load, <1>Loaded, <1>LogIn, <1>LoggedIn, <1>Over,
     <1>LogOut, <1>LoggedOut, <1>Request, <1>Unauthorized, <1>Refreshed, <1>RefreshFails,
     <1>Stutter DEF Next

LEMMA OneSessionStep ==
  TypeOK /\ Handled /\ Waiting /\ Fresh /\ OneSession /\ [Next]_vars => OneSession'
<1> SUFFICES ASSUME TypeOK, Handled, Waiting, Fresh, OneSession, [Next]_vars PROVE OneSession'
  OBVIOUS
<1> USE DEF storage, ghosts
<1>1. ASSUME UNCHANGED <<access, refresh, mixed>> PROVE OneSession'
  BY <1>1 DEF OneSession
<1>Gone. ASSUME RemoveTokens PROVE OneSession'
  BY <1>Gone DEF RemoveTokens, OneSession
<1>LoggedIn. ASSUME NEW f \in Fibers, LoggedIn(f) PROVE OneSession'
  <2>1. http[f].tok \in Token /\ http[f].tok.row \in 1 .. Len(rows)
    BY <1>LoggedIn, CallOf DEF LoggedIn
  <2>2. http[f].tok.row \in Numbers
    BY <2>1 DEF Token
  <2> QED
    BY <1>LoggedIn, <2>1, <2>2, NoneIsNothing DEF LoggedIn, OneSession
<1>Refreshed. ASSUME NEW f \in Fibers, Refreshed(f) PROVE OneSession'
  <2>1. access' \in Token /\ access'.row = http[f].row
    BY <1>Refreshed, RefreshedIs
  <2>2. ~ mixed => http[f].row = refresh
    BY <1>Refreshed DEF Refreshed, Fresh
  <2>3. access' # None /\ access'.row # None
    BY <2>1, NoneIsNothing DEF Token
  <2> QED
    BY <1>Refreshed, <2>1, <2>2, <2>3 DEF Refreshed, OneSession
<1>Tab. ASSUME NEW t \in Tabs, Reload(t) \/ Unload(t) \/ Loaded(t) PROVE OneSession'
  BY <1>1, <1>Tab DEF Reload, Unload, LoadPage, Loaded
<1>LogIn. ASSUME NEW f \in Fibers, NEW o \in {"register", "login"}, NEW u \in Users, LogIn(f, o, u)
          PROVE OneSession'
  BY <1>1, <1>LogIn DEF LogIn
<1>Request. ASSUME NEW f \in Fibers, NEW o \in {"me", "jobs"}, Request(f, o) PROVE OneSession'
  BY <1>1, <1>Request DEF Request
<1>Keeps. ASSUME NEW f \in Fibers,
                 LogInFails(f) \/ LogOut(f) \/ Settled(f) \/ Unauthorized(f) \/ Unauthenticated(f)
          PROVE OneSession'
  BY <1>1, <1>Keeps DEF LogInFails, LogOut, Settled, Unauthorized, Unauthenticated
<1>Ends. ASSUME NEW f \in Fibers, LoggedOut(f) \/ RefreshFails(f) PROVE OneSession'
  BY <1>Gone, <1>Ends DEF LoggedOut, RefreshFails
<1>Stutter. ASSUME UNCHANGED vars PROVE OneSession'
  BY <1>1, <1>Stutter DEF vars
<1> QED
  BY <1>1, <1>Tab, <1>LogIn, <1>LoggedIn, <1>Request, <1>Keeps, <1>Ends, <1>Refreshed, <1>Stutter
  DEF Next

-----------------------------------------------------------------------------
(* What pages hold *)

\* Page s holds and waits for no more than before.
LEMMA BlankStays ==
  ASSUME NEW s \in Tabs, Blank(s), data'[s] = data[s],
         \A g \in Fibers : TabOf[g] = s => (kept'[g] => kept[g])
  PROVE  Blank(s)'
BY DEF Blank

\* Nor do others sign in there.
BlanksOf(s) ==
  /\ ~ behind[s] /\ http[s] # None => shown[s] = None
  /\ ~ behind[s] /\ shown[s] = None => Blank(s)
  /\ SigningIn(s, Fibers) /\ ~ asked[s] => Blank(s)

LEMMA BlanksStay ==
  ASSUME NEW s \in Tabs, BlanksOf(s), data'[s] = data[s], asked'[s] = asked[s],
         \A g \in Fibers : TabOf[g] = s => (kept'[g] => kept[g]),
         \A g \in Fibers : TabOf[g] = s => (pc'[g] = "login" => pc[g] = "login"),
         ~ behind'[s] => /\ ~ behind[s] /\ shown'[s] = shown[s]
                         /\ (http'[s] # None => http[s] # None)
  PROVE  BlanksOf(s)'
<1>1. SigningIn(s, Fibers)' => SigningIn(s, Fibers)
  BY DEF SigningIn
<1> QED
  BY <1>1, BlankStays DEF BlanksOf

\* A page that was loaded just now.
LEMMA BlankedBlanks ==
  ASSUME NEW t \in Tabs, Blanks, Blanked(t),
         \A s \in Tabs \ {t} : ~ behind'[s] => ~ behind[s]
  PROVE  Blanks'
<1>1. ASSUME NEW s \in Tabs PROVE BlanksOf(s)'
  <2>1. CASE s = t
    BY <2>1 DEF Blanked, BlanksOf, Blank
  <2>2. CASE s # t
    <3>1. BlanksOf(s)
      BY DEF Blanks, BlanksOf
    <3> QED
      BY <2>2, <3>1, BlanksStay DEF Blanked
  <2> QED
    BY <2>1, <2>2
<1> QED
  BY <1>1 DEF Blanks, BlanksOf

LEMMA BlanksStep ==
  TypeOK /\ Handled /\ Waiting /\ Blanks /\ [Next]_vars => Blanks'
<1> SUFFICES ASSUME TypeOK, Handled, Waiting, Blanks, [Next]_vars PROVE Blanks'
  OBVIOUS
<1> USE DEF storage, tabs, fibers, ghosts
<1>0. /\ pc \in [Fibers -> {"idle", "login", "logout", "request", "refresh"}]
      /\ asked \in [Tabs -> BOOLEAN] /\ shown \in [Tabs -> Users \cup {None}]
      /\ kept \in [Fibers -> BOOLEAN] /\ data \in [Tabs -> SUBSET Users]
  BY DEF TypeOK
<1>1. \A s \in Tabs : BlanksOf(s)
  BY DEF Blanks, BlanksOf
<1>2. ASSUME \A s \in Tabs : BlanksOf(s)' PROVE Blanks'
  BY <1>2 DEF Blanks, BlanksOf
<1>Still. ASSUME UNCHANGED <<tabs, behind>>,
                 \A g \in Fibers : kept'[g] => kept[g],
                 \A g \in Fibers : pc'[g] = "login" => pc[g] = "login",
                 \A s \in Tabs : http'[s] # None => http[s] # None
          PROVE  Blanks'
  BY <1>1, <1>2, <1>Still, BlanksStay
<1>Server. ASSUME NEW c \in Callers, ServerStep(c), UNCHANGED <<storage, tabs, fibers, ghosts>>
           PROVE  Blanks'
  <2>1. Served(c)
    BY <1>Server, ServerStepServes DEF TypeOK
  <2>2. \A s \in Tabs : http'[s] # None => http[s] # None
    BY <2>1, Placed DEF Served
  <2> QED
    BY <1>Server, <1>Still, <2>2
<1>Expiry. ASSUME Expiry, UNCHANGED <<storage, tabs, fibers, ghosts>> PROVE Blanks'
  BY <1>Expiry, <1>Still, ExpiryServes DEF TypeOK
<1>Load. ASSUME NEW t \in Tabs, Reload(t) \/ Unload(t) PROVE Blanks'
  <2>1. Blanked(t) /\ behind' = [behind EXCEPT ![t] = FALSE]
    BY <1>Load, LoadPageIs DEF Reload, Unload
  <2>2. \A s \in Tabs \ {t} : ~ behind'[s] => ~ behind[s]
    BY <2>1 DEF TypeOK
  <2> QED
    BY <2>1, <2>2, BlankedBlanks
<1>Ended. ASSUME NEW f \in Fibers, Ended(f), UNCHANGED <<shown, data, asked>>,
                 \A s \in Tabs : ~ behind'[s] => ~ behind[s]
          PROVE  Blanks'
  <2>1. ASSUME NEW s \in Tabs PROVE BlanksOf(s)'
    <3>1. \A g \in Fibers : (kept'[g] => kept[g]) /\ (pc'[g] = "login" => pc[g] = "login")
      BY <1>Ended DEF Ended
    <3>2. http'[s] = http[s] /\ BlanksOf(s)
      BY <1>1, <1>Ended DEF Ended
    <3> QED
      BY <1>Ended, <3>1, <3>2, BlanksStay
  <2> QED
    BY <1>2, <2>1
<1>Unauthenticated. ASSUME NEW f \in Fibers, Unauthenticated(f) PROVE Blanks'
  <2>1. Ended(f)
    BY <1>Unauthenticated, OverIs DEF Unauthenticated, Redirect
  <2> QED
    BY <1>Unauthenticated, <1>Ended, <2>1 DEF Unauthenticated, Redirect
<1>RefreshFails. ASSUME NEW f \in Fibers, RefreshFails(f) PROVE Blanks'
  <2>1. Ended(f)
    BY <1>RefreshFails, OverIs DEF RefreshFails, Redirect
  <2>2. \A s \in Tabs : ~ behind'[s] => ~ behind[s]
    BY <1>RefreshFails DEF RefreshFails, Unheard
  <2> QED
    BY <1>RefreshFails, <1>Ended, <2>1, <2>2 DEF RefreshFails, Redirect
<1>Loaded. ASSUME NEW t \in Tabs, Loaded(t) PROVE Blanks'
  <2>1. http'[t] = None /\ (\A s \in Tabs \ {t} : http'[s] = http[s]) /\ http[t] # None
    BY <1>Loaded, LoadedIs DEF Loaded, Done
  <2>2. UNCHANGED <<data, asked, pc, kept, behind>>
        /\ \A s \in Tabs \ {t} : shown'[s] = shown[s]
    BY <1>0, <1>Loaded DEF Loaded
  <2>3. ASSUME NEW s \in Tabs PROVE BlanksOf(s)'
    <3>1. CASE s = t
      <4>1. ~ behind[t] => Blank(t)
        BY <1>1, <2>1 DEF BlanksOf
      <4>2. SigningIn(t, Fibers) /\ ~ asked[t] => Blank(t)
        BY <1>1 DEF BlanksOf
      <4> QED
        BY <2>1, <2>2, <3>1, <4>1, <4>2 DEF BlanksOf, Blank, SigningIn
    <3>2. CASE s # t
      BY <1>1, <2>1, <2>2, <3>2, BlanksStay
    <3> QED
      BY <3>1, <3>2
  <2> QED
    BY <2>3, <1>2
<1>LogIn. ASSUME NEW f \in Fibers, NEW o \in {"register", "login"}, NEW u \in Users, LogIn(f, o, u)
          PROVE  Blanks'
  <2>1. Only(f)
    BY <1>LogIn, LogInIs
  <2>2. /\ data'[TabOf[f]] = {}
        /\ \A s \in Tabs \ {TabOf[f]} : data'[s] = data[s]
        /\ \A g \in Fibers : TabOf[g] = TabOf[f] => ~ kept'[g]
        /\ \A g \in Fibers : TabOf[g] # TabOf[f] => kept'[g] = kept[g]
    BY <1>LogIn, Placed, ClearIs DEF LogIn
  <2>3. /\ \A s \in Tabs \ {TabOf[f]} : asked'[s] = asked[s]
        /\ shown' = shown /\ behind' = behind /\ pc' = [pc EXCEPT ![f] = "login"]
    BY <1>0, <1>LogIn DEF LogIn
  <2>4. ASSUME NEW s \in Tabs PROVE BlanksOf(s)'
    <3>1. CASE s = TabOf[f]
      BY <1>1, <2>1, <2>2, <2>3, <3>1 DEF Only, BlanksOf, Blank
    <3>2. CASE s # TabOf[f]
      BY <1>0, <1>1, <2>1, <2>2, <2>3, <3>2, BlanksStay DEF Only
    <3> QED
      BY <3>1, <3>2
  <2> QED
    BY <2>4, <1>2
<1>SignedIn. ASSUME NEW f \in Fibers, LoggedIn(f) \/ LogInFails(f)
             PROVE  /\ Ended(f) /\ data' = data /\ TabOf[f] \in Tabs
                    /\ \A s \in Tabs \ {TabOf[f]} : asked'[s] = asked[s]
                    /\ SigningIn(TabOf[f], Fibers)' /\ ~ asked'[TabOf[f]] => Blank(TabOf[f])'
  <2> DEFINE t == TabOf[f]
  <2>1. Ended(f) /\ data' = data /\ t \in Tabs
    BY <1>SignedIn, OverIs, Placed DEF LoggedIn, LogInFails
  <2>2. asked' = [asked EXCEPT ![t] = @ /\ SigningIn(t, Fibers \ {f})]
    BY <1>SignedIn DEF LoggedIn, LogInFails
  <2>3. pc[f] = "login"
    BY <1>SignedIn DEF LoggedIn, LogInFails
  <2>4. SigningIn(t, Fibers)
    BY <2>3 DEF SigningIn
  <2>5. SigningIn(t, Fibers)' => SigningIn(t, Fibers \ {f})
    BY <2>1 DEF SigningIn, Ended
  <2>6. asked'[t] = (asked[t] /\ SigningIn(t, Fibers \ {f}))
    BY <1>0, <2>1, <2>2
  <2>7. \A s \in Tabs \ {t} : asked'[s] = asked[s]
    BY <1>0, <2>2
  <2>8. ASSUME SigningIn(t, Fibers)', ~ asked'[t] PROVE Blank(t)'
    <3>1. Blank(t)
      BY <1>1, <2>1, <2>4, <2>5, <2>6, <2>8 DEF BlanksOf
    <3> QED
      BY <2>1, <3>1, BlankStays DEF Ended
  <2> QED
    BY <2>1, <2>7, <2>8
<1>LoggedIn. ASSUME NEW f \in Fibers, LoggedIn(f) PROVE Blanks'
  <2> DEFINE t == TabOf[f]
  <2>1. /\ Ended(f) /\ data' = data /\ t \in Tabs
        /\ \A s \in Tabs \ {t} : asked'[s] = asked[s]
        /\ SigningIn(t, Fibers)' /\ ~ asked'[t] => Blank(t)'
    BY <1>LoggedIn, <1>SignedIn
  <2>2. http[f].user # None
    BY <1>LoggedIn, CallOf, NoneIsNothing DEF LoggedIn
  <2>3. shown'[t] # None /\ \A s \in Tabs : behind'[s] = (s # t \/ (http[t] # None \/ asked[t]))
    BY <1>0, <1>LoggedIn, <2>1, <2>2 DEF LoggedIn, Unheard
  <2>4. ASSUME NEW s \in Tabs PROVE BlanksOf(s)'
    <3>1. CASE s = t
      BY <2>1, <2>3, <3>1 DEF BlanksOf, Ended
    <3>2. CASE s # t
      BY <1>1, <2>1, <2>3, <3>2, BlanksStay DEF Ended
    <3> QED
      BY <3>1, <3>2
  <2> QED
    BY <2>4, <1>2
<1>LogInFails. ASSUME NEW f \in Fibers, LogInFails(f) PROVE Blanks'
  <2> DEFINE t == TabOf[f]
  <2>1. /\ Ended(f) /\ data' = data /\ t \in Tabs
        /\ \A s \in Tabs \ {t} : asked'[s] = asked[s]
        /\ SigningIn(t, Fibers)' /\ ~ asked'[t] => Blank(t)'
    BY <1>LogInFails, <1>SignedIn
  <2>2. shown' = shown /\ behind' = behind
    BY <1>LogInFails DEF LogInFails
  <2>3. ASSUME NEW s \in Tabs PROVE BlanksOf(s)'
    <3>1. CASE s = t
      <4>1. ~ behind[t] /\ http[t] # None => shown[t] = None
        BY <1>1, <2>1 DEF BlanksOf
      <4>2. ~ behind[t] /\ shown[t] = None => Blank(t)'
        BY <1>1, <2>1, BlankStays DEF BlanksOf, Ended
      <4> QED
        BY <2>1, <2>2, <3>1, <4>1, <4>2 DEF BlanksOf, Ended
    <3>2. CASE s # t
      BY <1>1, <2>1, <2>2, <3>2, BlanksStay DEF Ended
    <3> QED
      BY <3>1, <3>2
  <2> QED
    BY <2>3, <1>2
<1>LogOut. ASSUME NEW f \in Fibers, LogOut(f) PROVE Blanks'
  <2>1. Only(f)
    BY <1>LogOut, LogOutIs
  <2>2. UNCHANGED <<tabs, behind, kept>> /\ pc' = [pc EXCEPT ![f] = "logout"]
    BY <1>LogOut DEF LogOut
  <2>3. \A g \in Fibers : pc'[g] = "login" => pc[g] = "login"
    BY <1>0, <2>2
  <2>4. \A t \in Tabs : http'[t] = http[t]
    BY <2>1 DEF Only
  <2> QED
    BY <2>2, <2>3, <2>4, <1>Still
<1>LoggedOut. ASSUME NEW f \in Fibers, LoggedOut(f) PROVE Blanks'
  <2> DEFINE t == TabOf[f]
  <2>1. Only(f) /\ t \in Tabs
    BY <1>LoggedOut, LoggedOutIs, Placed
  <2>2. /\ data'[t] = {}
        /\ \A s \in Tabs \ {t} : data'[s] = data[s]
        /\ \A g \in Fibers : TabOf[g] = t => ~ kept'[g]
        /\ \A g \in Fibers : TabOf[g] # t => kept'[g] = kept[g]
    BY <1>LoggedOut, Placed, ClearIs DEF LoggedOut
  <2>3. /\ shown'[t] = None /\ asked' = asked /\ pc' = [pc EXCEPT ![f] = "idle"]
        /\ \A s \in Tabs : behind'[s] = (s # t \/ behind[t])
    BY <1>0, <1>LoggedOut, <2>1 DEF LoggedOut, Unheard
  <2>4. ASSUME NEW s \in Tabs PROVE BlanksOf(s)'
    <3>1. CASE s = t
      BY <2>2, <2>3, <3>1 DEF BlanksOf, Blank
    <3>2. CASE s # t
      BY <1>0, <1>1, <2>1, <2>2, <2>3, <3>2, BlanksStay
    <3> QED
      BY <3>1, <3>2
  <2> QED
    BY <2>4, <1>2
<1>Request. ASSUME NEW f \in Fibers, NEW o \in {"me", "jobs"}, Request(f, o) PROVE Blanks'
  <2> DEFINE t == TabOf[f]
  <2>1. Only(f) /\ t \in Tabs /\ shown[t] # None
    BY <1>Request, RequestIs, Placed DEF Request
  <2>2. /\ UNCHANGED <<shown, data, behind>>
        /\ asked'[t] = (asked[t] \/ SigningIn(t, Fibers))
        /\ \A s \in Tabs \ {t} : asked'[s] = asked[s]
        /\ pc' = [pc EXCEPT ![f] = "request"]
        /\ \A g \in Fibers \ {f} : kept'[g] = kept[g]
    BY <1>0, <1>Request, <2>1 DEF Request
  <2>3. SigningIn(t, Fibers)' => SigningIn(t, Fibers)
    BY <1>0, <2>2 DEF SigningIn
  <2>4. ASSUME NEW s \in Tabs PROVE BlanksOf(s)'
    <3>1. CASE s = t
      BY <1>1, <2>1, <2>2, <2>3, <3>1 DEF BlanksOf, Only
    <3>2. CASE s # t
      BY <1>0, <1>1, <2>1, <2>2, <3>2, BlanksStay DEF Only
    <3> QED
      BY <3>1, <3>2
  <2> QED
    BY <2>4, <1>2
<1>Settled. ASSUME NEW f \in Fibers, Settled(f) PROVE Blanks'
  <2> DEFINE t == TabOf[f]
  <2>1. Ended(f) /\ t \in Tabs /\ UNCHANGED <<shown, asked, behind>>
    BY <1>Settled, OverIs, Placed DEF Settled
  <2>2. /\ ~ kept[f] => data' = data
        /\ \A s \in Tabs \ {t} : data'[s] = data[s]
    BY <1>0, <1>Settled DEF Settled
  <2>3. ASSUME NEW s \in Tabs PROVE BlanksOf(s)'
    <3>1. CASE s = t
      <4>1. Blank(t) => Blank(t)'
        BY <2>1, <2>2, BlankStays DEF Blank, Ended
      <4>2. SigningIn(t, Fibers)' => SigningIn(t, Fibers)
        BY <2>1 DEF SigningIn, Ended
      <4> QED
        BY <1>1, <2>1, <3>1, <4>1, <4>2 DEF BlanksOf, Ended
    <3>2. CASE s # t
      BY <1>1, <2>1, <2>2, <3>2, BlanksStay DEF Ended
    <3> QED
      BY <3>1, <3>2
  <2> QED
    BY <2>3, <1>2
<1>Unauthorized. ASSUME NEW f \in Fibers, Unauthorized(f) PROVE Blanks'
  <2>1. Only(f)
    BY <1>Unauthorized, UnauthorizedIs
  <2>2. UNCHANGED <<tabs, behind, kept>> /\ pc' = [pc EXCEPT ![f] = "refresh"]
    BY <1>Unauthorized DEF Unauthorized
  <2>3. \A g \in Fibers : pc'[g] = "login" => pc[g] = "login"
    BY <1>0, <2>2
  <2>4. \A t \in Tabs : http'[t] = http[t]
    BY <2>1 DEF Only
  <2> QED
    BY <2>2, <2>3, <2>4, <1>Still
<1>Refreshed. ASSUME NEW f \in Fibers, Refreshed(f) PROVE Blanks'
  <2>1. Only(f)
    BY <1>Refreshed, RefreshedIs
  <2>2. UNCHANGED <<tabs, behind, kept>> /\ pc' = [pc EXCEPT ![f] = "request"]
    BY <1>Refreshed DEF Refreshed
  <2>3. \A g \in Fibers : pc'[g] = "login" => pc[g] = "login"
    BY <1>0, <2>2
  <2>4. \A t \in Tabs : http'[t] = http[t]
    BY <2>1 DEF Only
  <2> QED
    BY <2>2, <2>3, <2>4, <1>Still
<1>Stutter. ASSUME UNCHANGED vars PROVE Blanks'
  BY <1>Stutter, <1>Still DEF vars
<1> QED
  BY <1>Server, <1>Expiry, <1>Load, <1>Loaded, <1>LogIn, <1>LoggedIn, <1>LogInFails,
     <1>LogOut, <1>LoggedOut, <1>Request, <1>Settled, <1>Unauthorized, <1>Unauthenticated,
     <1>Refreshed, <1>RefreshFails, <1>Stutter DEF Next

-----------------------------------------------------------------------------
(* Whose session it is *)

\* No session changes hands.
LEMMA StoredKept ==
  ASSUME TypeOK, Grows, UNCHANGED storage
  PROVE  Stored' = Stored
<1>1. /\ access # None => rows'[access.row].user = rows[access.row].user
      /\ refresh # None => rows'[refresh].user = rows[refresh].user
  BY StoredRows DEF Grows
<1> QED
  BY <1>1 DEF Stored, storage

LEMMA TokenRow ==
  ASSUME NEW c \in Callers, TypeOK, http[c] # None, http[c].tok # None
  PROVE  http[c].tok \in Token /\ http[c].tok.row \in 1 .. Len(rows)
<1>1. http[c] \in Calls /\ http[c].tok.row <= Len(rows)
  BY DEF TypeOK, ServerTypeOK
<1>2. http[c].tok \in Token /\ http[c].tok.row \in 1 .. MaxRows
  BY <1>1 DEF Calls, Token, Numbers
<1> QED
  BY <1>1, <1>2, BoundsAssumption DEF TypeOK, ServerTypeOK

\* Expected and Coherent, of one tab.
CoherentIn(t) == shown[t] # None => Stored \cup data[t] \subseteq {shown[t]}
Right(t) == ~ mixed /\ ~ behind[t] => Expects(t) /\ CoherentIn(t)

\* Page s goes on.
LEMMA RightStays ==
  ASSUME NEW s \in Tabs, TypeOK, Handled, Waiting, Right(s), Grows,
         ~ mixed' /\ ~ behind'[s] => ~ mixed /\ ~ behind[s],
         shown'[s] = shown[s],
         ~ mixed => Stored' \subseteq Stored,
         ~ mixed /\ ~ behind[s] => data'[s] \subseteq data[s] \cup {shown[s]},
         http'[s] # None /\ http'[s].code \in {0, 200} =>
           /\ http[s] # None /\ http[s].code \in {0, 200}
           /\ http'[s].tok = http[s].tok,
         \A f \in Fibers :
           ~ mixed /\ ~ behind[s] /\ TabOf[f] = s /\ pc'[f] = "request" /\ kept'[f]
             /\ http'[f].tok # None =>
             \/ pc[f] = "request" /\ kept[f] /\ http'[f].tok = http[f].tok
             \/ rows'[http'[f].tok.row].user = shown[s]
  PROVE  Right(s)'
<1> SUFFICES ASSUME ~ mixed', ~ behind'[s] PROVE Expects(s)' /\ CoherentIn(s)'
  BY DEF Right
<1>1. ~ mixed /\ ~ behind[s] /\ Expects(s) /\ CoherentIn(s)
  BY DEF Right
<1>2. CoherentIn(s)'
  BY <1>1 DEF CoherentIn
<1>3. ASSUME http'[s] # None, http'[s].code \in {0, 200}
      PROVE  Stored' \subseteq {rows'[http'[s].tok.row].user}
  <2>1. http[s] # None /\ http[s].code \in {0, 200} /\ http'[s].tok = http[s].tok
    BY <1>3
  <2>2. http[s].tok # None
    BY <2>1 DEF Waiting, Loading
  <2>3. http[s].tok.row \in 1 .. Len(rows)
    BY <2>1, <2>2, TokenRow, Placed
  <2>4. rows'[http'[s].tok.row].user = rows[http[s].tok.row].user
    BY <2>1, <2>3 DEF Grows
  <2>5. Stored \subseteq {rows[http[s].tok.row].user}
    BY <1>1, <2>1 DEF Expects
  <2> QED
    BY <1>1, <2>4, <2>5
<1>4. ASSUME NEW f \in Fibers, TabOf[f] = s, pc'[f] = "request", kept'[f], http'[f].tok # None
      PROVE  rows'[http'[f].tok.row].user = shown'[s]
  <2>1. CASE pc[f] = "request" /\ kept[f] /\ http'[f].tok = http[f].tok
    <3>1. http[f] # None
      BY <2>1 DEF Waiting, Waits
    <3>2. http[f].tok.row \in 1 .. Len(rows)
      BY <1>4, <2>1, <3>1, TokenRow, Placed
    <3>3. rows[http[f].tok.row].user = shown[s]
      BY <1>1, <1>4, <2>1 DEF Expects
    <3> QED
      BY <2>1, <3>2, <3>3 DEF Grows
  <2>2. CASE rows'[http'[f].tok.row].user = shown[s]
    BY <2>2
  <2> QED
    BY <1>1, <1>4, <2>1, <2>2
<1>5. Expects(s)'
  BY <1>3, <1>4 DEF Expects
<1> QED
  BY <1>2, <1>5


LEMMA RightStep ==
  /\ TypeOK /\ Handled /\ Waiting /\ Fresh /\ Blanks /\ OneSession
  /\ \A s \in Tabs : Right(s)
  /\ [Next]_vars
  => \A s \in Tabs : Right(s)'
<1> SUFFICES ASSUME TypeOK, Handled, Waiting, Fresh, Blanks, OneSession,
                    \A s \in Tabs : Right(s), [Next]_vars, NEW s \in Tabs
             PROVE  Right(s)'
  OBVIOUS
<1> USE DEF storage, tabs, fibers, ghosts
<1>0. /\ pc \in [Fibers -> {"idle", "login", "logout", "request", "refresh"}]
      /\ shown \in [Tabs -> Users \cup {None}]
      /\ behind \in [Tabs -> BOOLEAN]
      /\ kept \in [Fibers -> BOOLEAN]
      /\ data \in [Tabs -> SUBSET Users]
      /\ ServerTypeOK
  BY DEF TypeOK
<1>1. ASSUME UNCHANGED server PROVE Grows
  BY <1>0, <1>1, SameRows DEF server
<1>2. ASSUME UNCHANGED <<rows, access, refresh>> PROVE Stored' = Stored
  BY <1>2 DEF Stored
<1>3. BlanksOf(s)
  BY DEF Blanks, BlanksOf
\* Nobody tells this page.
<1>Behind. ASSUME behind'[s] PROVE Right(s)'
  BY <1>Behind DEF Right
\* Nothing happens to it.
<1>Same. ASSUME Grows, UNCHANGED storage, mixed' = mixed, behind'[s] = behind[s],
                shown'[s] = shown[s], data'[s] = data[s], http'[s] = http[s],
                \A f \in Fibers : TabOf[f] = s =>
                  /\ pc'[f] = "request" => pc[f] = "request" /\ http'[f] = http[f]
                  /\ kept'[f] => kept[f]
         PROVE  Right(s)'
  BY <1>Same, StoredKept, RightStays
<1>Server. ASSUME NEW c \in Callers, ServerStep(c), UNCHANGED <<storage, tabs, fibers, ghosts>>
           PROVE  Right(s)'
  <2>1. Served(c) /\ Grows
    BY <1>0, <1>Server, ServerStepServes
  <2>2. http'[s] # None /\ http'[s].code \in {0, 200} =>
          http[s] # None /\ http[s].code \in {0, 200} /\ http'[s].tok = http[s].tok
    <3>1. CASE s = c
      <4>1. http[s].op = "me"
        BY <2>1, <3>1 DEF Served, Waiting, Loading
      <4> QED
        BY <2>1, <3>1, <4>1 DEF Served
    <3>2. CASE s # c
      BY <2>1, <3>2, Placed DEF Served
    <3> QED
      BY <3>1, <3>2
  <2>3. ASSUME NEW f \in Fibers, pc'[f] = "request", kept'[f], http'[f].tok # None
        PROVE  pc[f] = "request" /\ kept[f] /\ http'[f].tok = http[f].tok
    <3>1. pc[f] = "request" /\ kept[f]
      BY <1>Server, <2>3
    <3>2. http[f].op \in {"me", "jobs"}
      BY <3>1, CallOf DEF Waiting, Waits
    <3>3. CASE f = c
      BY <2>1, <2>3, <3>1, <3>2, <3>3 DEF Served
    <3>4. CASE f # c
      BY <2>1, <3>1, <3>4, Placed DEF Served
    <3> QED
      BY <3>3, <3>4
  <2>4. Stored' = Stored
    BY <1>Server, <2>1, StoredKept
  <2>5. mixed' = mixed /\ behind' = behind /\ shown' = shown /\ data' = data
    BY <1>Server
  <2> QED
    BY <2>1, <2>2, <2>3, <2>4, <2>5, RightStays
<1>Expiry. ASSUME Expiry, UNCHANGED <<storage, tabs, fibers, ghosts>> PROVE Right(s)'
  BY <1>0, <1>Expiry, <1>Same, ExpiryServes
<1>Load. ASSUME NEW t \in Tabs, Reload(t) \/ Unload(t) PROVE Right(s)'
  <2>1. /\ Blanked(t)
        /\ http'[t] # None => access # None /\ http'[t].tok = access
        /\ UNCHANGED <<server, storage, mixed>>
        /\ behind' = [behind EXCEPT ![t] = FALSE]
    BY <1>Load, LoadPageIs DEF Reload, Unload
  <2>2. CASE s = t
    <3>1. ASSUME ~ mixed, access # None PROVE Stored \subseteq {rows[access.row].user}
      BY <3>1 DEF OneSession, Stored
    <3>2. Stored' = Stored /\ rows' = rows /\ mixed' = mixed
      BY <1>2, <2>1 DEF server
    <3>3. ~ mixed' => Expects(s)'
      BY <2>1, <2>2, <3>1, <3>2 DEF Blanked, Expects
    <3>4. CoherentIn(s)'
      BY <2>1, <2>2 DEF Blanked, CoherentIn
    <3> QED
      BY <3>3, <3>4 DEF Right
  <2>3. CASE s # t
    BY <1>0, <1>1, <1>Same, <2>1, <2>3 DEF Blanked
  <2> QED
    BY <2>2, <2>3
<1>Unauthenticated. ASSUME NEW f \in Fibers, Unauthenticated(f) PROVE Right(s)'
  <2>1. Ended(f)
    BY <1>Unauthenticated, OverIs DEF Unauthenticated, Redirect
  <2>2. UNCHANGED <<server, storage, shown, data, mixed, behind>>
    BY <1>Unauthenticated DEF Unauthenticated, Redirect
  <2> QED
    BY <1>1, <1>Same, <2>1, <2>2 DEF Ended
<1>RefreshFails. ASSUME NEW f \in Fibers, RefreshFails(f) PROVE Right(s)'
  <2>1. Ended(f)
    BY <1>RefreshFails, OverIs DEF RefreshFails, Redirect
  <2>2. /\ UNCHANGED <<server, shown, data>>
        /\ ~ behind'[s] => ~ behind[s] /\ ~ mixed
        /\ Stored' = {}
    BY <1>RefreshFails DEF RefreshFails, RemoveTokens, Redirect, Unheard, Stored
  <2>3. \A g \in Fibers : pc'[g] = "request" /\ kept'[g] =>
          pc[g] = "request" /\ kept[g] /\ http'[g] = http[g]
    BY <2>1 DEF Ended
  <2>4. http'[s] = http[s]
    BY <2>1 DEF Ended
  <2> QED
    BY <1>1, <2>2, <2>3, <2>4, RightStays
<1>Loaded. ASSUME NEW t \in Tabs, Loaded(t) PROVE Right(s)'
  <2>1. /\ http[t] # None /\ http'[t] = None
        /\ \A r \in Tabs \ {t} : http'[r] = http[r]
        /\ \A f \in Fibers : http'[f] = http[f]
    BY <1>Loaded, LoadedIs DEF Loaded, Done
  <2>2. /\ UNCHANGED <<server, storage, data, pc, kept, mixed, behind>>
        /\ shown'[t] = IF http[t].code = 200 THEN rows[http[t].tok.row].user ELSE None
        /\ \A r \in Tabs \ {t} : shown'[r] = shown[r]
    BY <1>0, <1>Loaded DEF Loaded
  <2>3. CASE s = t
    <3> SUFFICES ASSUME ~ mixed', ~ behind'[t] PROVE Expects(t)' /\ CoherentIn(t)'
      BY <2>3 DEF Right
    <3>1. ~ mixed /\ ~ behind[t]
      BY <2>2
    <3>2. data[t] = {} /\ \A f \in Fibers : TabOf[f] = t => ~ kept[f]
      BY <1>3, <2>1, <2>3, <3>1 DEF BlanksOf, Blank
    <3>3. http[t].code = 200 => Stored \subseteq {rows[http[t].tok.row].user}
      BY <2>1, <3>1 DEF Right, Expects
    <3>4. Stored' = Stored
      BY <1>2, <2>2 DEF server
    <3>5. Expects(t)'
      BY <2>1, <2>2, <3>2 DEF Expects
    <3>6. CoherentIn(t)'
      BY <2>2, <3>2, <3>3, <3>4 DEF CoherentIn
    <3> QED
      BY <3>5, <3>6
  <2>4. CASE s # t
    BY <1>1, <1>Same, <2>1, <2>2, <2>4
  <2> QED
    BY <2>3, <2>4
<1>LogIn. ASSUME NEW f \in Fibers, NEW o \in {"register", "login"}, NEW u \in Users, LogIn(f, o, u)
          PROVE  Right(s)'
  <2>1. Only(f)
    BY <1>LogIn, LogInIs
  <2>2. /\ data'[s] \subseteq data[s]
        /\ \A g \in Fibers : kept'[g] => kept[g]
    BY <1>0, <1>LogIn, Placed, ClearIs DEF LogIn
  <2>3. /\ UNCHANGED <<server, storage, shown, mixed, behind>>
        /\ pc' = [pc EXCEPT ![f] = "login"]
    BY <1>LogIn DEF LogIn
  <2>4. \A g \in Fibers : pc'[g] = "request" => pc[g] = "request" /\ http'[g] = http[g]
    BY <1>0, <2>1, <2>3 DEF Only
  <2>5. http'[s] = http[s] /\ Stored' = Stored /\ Grows
    BY <1>1, <1>2, <2>1, <2>3 DEF Only, server
  <2> QED
    BY <2>2, <2>3, <2>4, <2>5, RightStays
<1>LoggedIn. ASSUME NEW f \in Fibers, LoggedIn(f) PROVE Right(s)'
  <2> DEFINE t == TabOf[f]
  <2>1. Ended(f) /\ t \in Tabs
    BY <1>LoggedIn, OverIs, Placed DEF LoggedIn
  <2>2. /\ http[f].tok \in Token /\ http[f].tok.row \in Numbers
        /\ rows[http[f].tok.row].user = http[f].user
    BY <1>LoggedIn, CallOf DEF LoggedIn, Token
  <2>3. /\ access' = http[f].tok /\ refresh' = http[f].tok.row
        /\ UNCHANGED <<server, data>>
        /\ \A r \in Tabs : behind'[r] = (r # t \/ (http[t] # None \/ asked[t]))
        /\ shown'[t] = http[f].user
    BY <1>0, <1>LoggedIn, <2>1 DEF LoggedIn, Unheard
  <2>4. Stored' = {http[f].user}
    BY <2>2, <2>3, NoneIsNothing DEF Stored, server
  <2>5. CASE s = t
    <3> SUFFICES ASSUME ~ behind'[t] PROVE Expects(t)' /\ CoherentIn(t)'
      BY <2>5 DEF Right
    <3>1. http[t] = None /\ ~ asked[t]
      BY <2>1, <2>3
    <3>2. SigningIn(t, Fibers)
      BY <1>LoggedIn DEF LoggedIn, SigningIn
    <3>3. data[t] = {} /\ \A g \in Fibers : TabOf[g] = t => ~ kept[g]
      BY <1>3, <2>5, <3>1, <3>2 DEF BlanksOf, Blank
    <3>4. http'[t] = None /\ \A g \in Fibers : TabOf[g] = t => ~ kept'[g]
      BY <2>1, <3>1, <3>3 DEF Ended
    <3> QED
      BY <2>3, <2>4, <3>3, <3>4 DEF Expects, CoherentIn
  <2>6. CASE s # t
    BY <1>Behind, <2>3, <2>6
  <2> QED
    BY <2>5, <2>6
<1>LogInFails. ASSUME NEW f \in Fibers, LogInFails(f) PROVE Right(s)'
  <2>1. Ended(f)
    BY <1>LogInFails, OverIs DEF LogInFails
  <2>2. UNCHANGED <<server, storage, shown, data, ghosts>>
    BY <1>LogInFails DEF LogInFails
  <2> QED
    BY <1>1, <1>Same, <2>1, <2>2 DEF Ended
<1>LogOut. ASSUME NEW f \in Fibers, LogOut(f) PROVE Right(s)'
  <2>1. Only(f)
    BY <1>LogOut, LogOutIs
  <2>2. /\ UNCHANGED <<server, storage, tabs, kept, ghosts>>
        /\ pc' = [pc EXCEPT ![f] = "logout"]
    BY <1>LogOut DEF LogOut
  <2>3. \A g \in Fibers : pc'[g] = "request" => pc[g] = "request" /\ http'[g] = http[g]
    BY <1>0, <2>1, <2>2 DEF Only
  <2> QED
    BY <1>1, <1>Same, <2>1, <2>2, <2>3 DEF Only
<1>LoggedOut. ASSUME NEW f \in Fibers, LoggedOut(f) PROVE Right(s)'
  <2> DEFINE t == TabOf[f]
  <2>1. t \in Tabs /\ \A g \in Fibers : TabOf[g] = t => ~ kept'[g]
    BY <1>LoggedOut, Placed, ClearIs DEF LoggedOut
  <2>2. /\ access' = None /\ refresh' = None /\ shown'[t] = None
        /\ \A r \in Tabs : behind'[r] = (r # t \/ behind[t])
    BY <1>0, <1>LoggedOut, <2>1 DEF LoggedOut, RemoveTokens, Unheard
  <2>3. Stored' = {}
    BY <2>2 DEF Stored
  <2>4. CASE s = t
    BY <2>1, <2>2, <2>3, <2>4 DEF Right, Expects, CoherentIn
  <2>5. CASE s # t
    BY <1>Behind, <2>2, <2>5
  <2> QED
    BY <2>4, <2>5
<1>Request. ASSUME NEW f \in Fibers, NEW o \in {"me", "jobs"}, Request(f, o) PROVE Right(s)'
  <2>1. Only(f) /\ http'[f].tok = (IF o = "me" THEN access ELSE None)
    BY <1>Request, RequestIs
  <2>2. /\ UNCHANGED <<server, storage, shown, data, mixed, behind>>
        /\ shown[TabOf[f]] # None
        /\ \A g \in Fibers \ {f} : pc'[g] = pc[g] /\ kept'[g] = kept[g]
    BY <1>Request DEF Request
  <2>3. ASSUME ~ mixed, ~ behind[s], TabOf[f] = s, http'[f].tok # None
        PROVE  rows'[http'[f].tok.row].user = shown[s]
    <3>1. http'[f].tok = access /\ access # None
      BY <2>1, <2>3
    <3>2. rows[access.row].user \in Stored
      BY <3>1 DEF Stored
    <3>3. Stored \subseteq {shown[s]}
      BY <2>2, <2>3 DEF Right, CoherentIn
    <3> QED
      BY <2>2, <3>1, <3>2, <3>3 DEF server
  <2>4. ASSUME NEW g \in Fibers, ~ mixed, ~ behind[s], TabOf[g] = s, pc'[g] = "request",
               kept'[g], http'[g].tok # None
        PROVE  \/ pc[g] = "request" /\ kept[g] /\ http'[g].tok = http[g].tok
               \/ rows'[http'[g].tok.row].user = shown[s]
    BY <2>1, <2>2, <2>3, <2>4 DEF Only
  <2>5. http'[s] = http[s] /\ Stored' = Stored /\ Grows
    BY <1>1, <1>2, <2>1, <2>2 DEF Only, server
  <2> QED
    BY <2>2, <2>4, <2>5, RightStays
<1>Settled. ASSUME NEW f \in Fibers, Settled(f) PROVE Right(s)'
  <2>1. Ended(f)
    BY <1>Settled, OverIs DEF Settled
  <2>2. /\ UNCHANGED <<server, storage, shown, mixed, behind>>
        /\ pc[f] = "request"
        /\ data' = IF http[f].code = 200 /\ kept[f]
                   THEN [data EXCEPT ![TabOf[f]] = @ \cup {rows[http[f].tok.row].user}] ELSE data
    BY <1>Settled DEF Settled
  <2>3. ASSUME ~ mixed, ~ behind[s] PROVE data'[s] \subseteq data[s] \cup {shown[s]}
    <3>1. CASE http[f].code = 200 /\ kept[f] /\ TabOf[f] = s
      <4>1. http[f].tok # None
        BY <2>2, <3>1, CallOf, NoneIsNothing
      <4>2. rows[http[f].tok.row].user = shown[s]
        BY <2>2, <2>3, <3>1, <4>1 DEF Right, Expects
      <4> QED
        BY <1>0, <2>2, <3>1, <4>2
    <3>2. CASE ~ (http[f].code = 200 /\ kept[f] /\ TabOf[f] = s)
      BY <1>0, <2>2, <3>2
    <3> QED
      BY <3>1, <3>2
  <2>4. \A g \in Fibers : pc'[g] = "request" =>
          pc[g] = "request" /\ http'[g] = http[g] /\ kept'[g] = kept[g]
    BY <2>1 DEF Ended
  <2>5. http'[s] = http[s] /\ Stored' = Stored /\ Grows
    BY <1>1, <1>2, <2>1, <2>2 DEF Ended, server
  <2> QED
    BY <2>2, <2>3, <2>4, <2>5, RightStays
<1>Unauthorized. ASSUME NEW f \in Fibers, Unauthorized(f) PROVE Right(s)'
  <2>1. Only(f)
    BY <1>Unauthorized, UnauthorizedIs
  <2>2. /\ UNCHANGED <<server, storage, tabs, kept, ghosts>>
        /\ pc' = [pc EXCEPT ![f] = "refresh"]
    BY <1>Unauthorized DEF Unauthorized
  <2>3. \A g \in Fibers : pc'[g] = "request" => pc[g] = "request" /\ http'[g] = http[g]
    BY <1>0, <2>1, <2>2 DEF Only
  <2> QED
    BY <1>1, <1>Same, <2>1, <2>2, <2>3 DEF Only
<1>Refreshed. ASSUME NEW f \in Fibers, Refreshed(f) PROVE Right(s)'
  <2>1. /\ access' \in Token /\ access'.row \in 1 .. Len(rows) /\ access'.row = http[f].row
        /\ http'[f].tok # None => http'[f].tok = access'
        /\ Only(f)
    BY <1>Refreshed, RefreshedIs
  <2>2. /\ UNCHANGED <<server, refresh, tabs, kept, mixed, behind>>
        /\ Refreshing(f) /\ http[f].code = 200
        /\ \A g \in Fibers \ {f} : pc'[g] = pc[g]
    BY <1>Refreshed DEF Refreshed
  <2>3. ASSUME ~ mixed
        PROVE  /\ rows'[access'.row].user \in Stored
               /\ Stored' \subseteq Stored
    <3>1. access'.row = refresh
      BY <2>1, <2>2, <2>3 DEF Fresh
    <3>2. refresh # None
      BY <2>1, <3>1, NoneIsNothing DEF Token
    <3>3. rows' = rows
      BY <2>2 DEF server
    <3>4. rows[refresh].user \in Stored
      BY <3>2 DEF Stored
    <3>5. Stored' \subseteq {rows[refresh].user}
      BY <2>2, <3>1, <3>3 DEF Stored
    <3> QED
      BY <3>1, <3>3, <3>4, <3>5
  <2>4. ASSUME ~ mixed, ~ behind[s], TabOf[f] = s, kept[f], http'[f].tok # None
        PROVE  rows'[http'[f].tok.row].user = shown[s]
    <3>1. shown[s] # None
      BY <1>3, <2>4 DEF BlanksOf, Blank
    <3>2. Stored \subseteq {shown[s]}
      BY <2>4, <3>1 DEF Right, CoherentIn
    <3> QED
      BY <2>1, <2>3, <2>4, <3>2
  <2>5. ASSUME NEW g \in Fibers, ~ mixed, ~ behind[s], TabOf[g] = s, pc'[g] = "request",
               kept'[g], http'[g].tok # None
        PROVE  \/ pc[g] = "request" /\ kept[g] /\ http'[g].tok = http[g].tok
               \/ rows'[http'[g].tok.row].user = shown[s]
    BY <2>1, <2>2, <2>4, <2>5 DEF Only
  <2>6. http'[s] = http[s] /\ Grows
    BY <1>1, <2>1, <2>2 DEF Only
  <2> QED
    BY <2>2, <2>3, <2>5, <2>6, RightStays
<1>Stutter. ASSUME UNCHANGED vars PROVE Right(s)'
  BY <1>1, <1>Same, <1>Stutter DEF vars
<1> QED
  BY <1>Server, <1>Expiry, <1>Load, <1>Loaded, <1>LogIn, <1>LoggedIn, <1>LogInFails,
     <1>LogOut, <1>LoggedOut, <1>Request, <1>Settled, <1>Unauthorized, <1>Unauthenticated,
     <1>Refreshed, <1>RefreshFails, <1>Stutter DEF Next

-----------------------------------------------------------------------------
(* Theorems *)

LEMMA InitIInv == Init => IInv
<1> SUFFICES ASSUME Init PROVE IInv
  OBVIOUS
<1>1. /\ http = [c \in Callers |-> None]
      /\ \A t \in Tabs : http[t] = None
      /\ \A f \in Fibers : http[f] = None
  BY Placed DEF Init, ServerInit
<1>2. ServerTypeOK
  <2>1. users \in [Users -> Nat] /\ epoch \in [Numbers -> 0 .. MaxEpoch]
    BY BoundsAssumption DEF Init, ServerInit
  <2>2. rows \in Seq([user : Users, live : BOOLEAN]) /\ Len(rows) <= MaxRows
    BY BoundsAssumption DEF Init, ServerInit
  <2> QED
    BY <1>1, <2>1, <2>2 DEF ServerTypeOK
<1>3. TypeOK
  BY <1>1, <1>2 DEF Init, TypeOK
<1>4. Handled
  BY <1>1 DEF Handled
<1>5. Waiting
  BY <1>1 DEF Init, Waiting, Loading, Waits
<1>6. Fresh
  BY DEF Init, Fresh, Refreshing
<1>7. Blanks
  BY <1>1 DEF Init, Blanks, Blank, SigningIn
<1>8. OneSession
  BY DEF Init, OneSession
<1>9. Expected /\ Coherent
  BY <1>1 DEF Init, Expected, Expects, Coherent
<1> QED
  BY <1>3, <1>4, <1>5, <1>6, <1>7, <1>8, <1>9 DEF IInv

LEMMA IInvStep == IInv /\ [Next]_vars => IInv'
<1> SUFFICES ASSUME IInv, [Next]_vars PROVE IInv'
  OBVIOUS
<1>1. TypeOK /\ Handled /\ Waiting /\ Fresh /\ Blanks /\ OneSession
  BY DEF IInv
<1>2. \A s \in Tabs : Right(s)
  BY DEF IInv, Expected, Coherent, Right, CoherentIn
<1>3. TypeOK' /\ Handled' /\ Waiting' /\ Fresh' /\ Blanks' /\ OneSession'
  BY <1>1, TypeStep, WaitingStep, FreshStep, BlanksStep, OneSessionStep
<1>4. \A s \in Tabs : Right(s)'
  BY <1>1, <1>2, RightStep
<1>5. Expected' /\ Coherent'
  BY <1>4 DEF Expected, Coherent, Right, CoherentIn
<1> QED
  BY <1>3, <1>5 DEF IInv

\* What is known of the browser and the API in every state: the invariant that the
\* theorems below are read off.
THEOREM Inductive == Spec => []IInv
BY InitIInv, IInvStep, PTL DEF Spec

\* The API's tables and calls, and the pages' state, have their types: no call names a
\* session that was never inserted.
THEOREM TypeCorrect == Spec => []TypeOK
<1>1. IInv => TypeOK
  BY DEF IInv
<1> QED
  BY <1>1, Inductive, PTL

\* The stored pair is of one session, or gone, in whatever order sign-ins, sign-outs
\* and refreshes of any number of tabs write it, pages that are leaving included, unless
\* one of them replaced or removed it during another's refresh.
THEOREM StoredPair == Spec => []OneSession
<1>1. IInv => OneSession
  BY DEF IInv
<1> QED
  BY <1>1, Inductive, PTL

\* A page whose session nobody changed behind its back, and was never mixed, shows,
\* holds and sends what is of one user: clearSessionState, the page loads and the late
\* answers of queries that were cleared leave no data of another's, nor do those that
\* arrive after a failed refresh and before the page is gone.
THEOREM OneUser == Spec => []Coherent
<1>1. IInv => Coherent
  BY DEF IInv
<1> QED
  BY <1>1, Inductive, PTL

\* The 401 interceptor sends a request at most once more.
THEOREM RetriedOnce == Spec => []SentTwice
<1>1. IInv => SentTwice
  <2> SUFFICES ASSUME IInv, NEW f \in Fibers PROVE sends[f] <= 2
    BY DEF SentTwice
  <2>1. Waits(f)
    BY DEF IInv, Waiting
  <2>2. sends[f] \in {0, 1, 2}
    BY <2>1 DEF Waits
  <2> QED
    BY <2>2
<1> QED
  BY <1>1, Inductive, PTL

\* A refresh token that was dead when it was sent buys nothing.
THEOREM Revocation == Spec => []RevokedIsUseless
<1>1. IInv => RevokedIsUseless
  BY DEF IInv, Handled, Answered, RevokedIsUseless
<1> QED
  BY <1>1, Inductive, PTL

\* However many registrations of an address are under way at once, one inserts it.
THEOREM Registration == Spec => []OneAccount
<1>1. Init => OneAccount
  BY DEF Init, ServerInit, OneAccount
<1>2. TypeOK /\ OneAccount /\ [Next]_vars => OneAccount'
  <2> SUFFICES ASSUME TypeOK, OneAccount, [Next]_vars PROVE OneAccount'
    OBVIOUS
  <2>1. users \in [Users -> Nat]
    BY DEF TypeOK, ServerTypeOK
  <2>2. ASSUME users' = users PROVE OneAccount'
    BY <2>2 DEF OneAccount
  <2>3. ASSUME NEW c \in Callers, ServerStep(c) PROVE OneAccount'
    <3>1. CASE RegisterInsert(c)
      BY <2>1, <3>1 DEF RegisterInsert, OneAccount
    <3>2. CASE users' = users
      BY <2>2, <3>2
    <3> QED
      BY <2>3, <3>1, <3>2
      DEF ServerStep, RegisterSelect, LoginSelect, CreateTokenPair, Refresh, Logout, Me,
          SubmitJob, Fails, Lost, server
  <2>4. ASSUME Expiry PROVE OneAccount'
    BY <2>2, <2>4 DEF Expiry, AccessExpires, RefreshExpires
  <2>5. ASSUME UNCHANGED server PROVE OneAccount'
    BY <2>2, <2>5 DEF server
  <2>6. ASSUME NEW t \in Tabs, Reload(t) \/ Unload(t) \/ Loaded(t) PROVE OneAccount'
    BY <2>5, <2>6 DEF Reload, Unload, LoadPage, Loaded
  <2>7. ASSUME NEW f \in Fibers, NEW o \in {"register", "login"}, NEW u \in Users, LogIn(f, o, u)
        PROVE  OneAccount'
    BY <2>5, <2>7 DEF LogIn
  <2>8. ASSUME NEW f \in Fibers, NEW o \in {"me", "jobs"}, Request(f, o) PROVE OneAccount'
    BY <2>5, <2>8 DEF Request
  <2>9. ASSUME NEW f \in Fibers,
               LoggedIn(f) \/ LogInFails(f) \/ LogOut(f) \/ LoggedOut(f) \/ Refreshed(f)
        PROVE  OneAccount'
    BY <2>5, <2>9 DEF LoggedIn, LogInFails, LogOut, LoggedOut, Refreshed
  <2>10. ASSUME NEW f \in Fibers,
                Settled(f) \/ Unauthorized(f) \/ Unauthenticated(f) \/ RefreshFails(f)
         PROVE  OneAccount'
    BY <2>5, <2>10 DEF Settled, Unauthorized, Unauthenticated, RefreshFails
  <2>11. ASSUME UNCHANGED vars PROVE OneAccount'
    BY <2>5, <2>11 DEF vars
  <2> QED
    BY <2>3, <2>4, <2>6, <2>7, <2>8, <2>9, <2>10, <2>11 DEF Next
<1> QED
  BY <1>1, <1>2, TypeCorrect, PTL DEF Spec
=============================================================================
