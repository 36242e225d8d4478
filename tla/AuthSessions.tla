---------------------------- MODULE AuthSessions -----------------------------
(***************************************************************************)
(* Accounts and sessions in the API: routes/auth.ts, auth/jwt.ts and the   *)
(* tables users and refresh_tokens, plus what its other routes do with the *)
(* access token of a session (GET /me, and POST /lookup/jobs, which wants  *)
(* an API key).                                                            *)
(*                                                                         *)
(* A caller has one HTTP call at a time.  Refresh tokens are numbered in   *)
(* the order their rows were inserted; a session is its refresh token and  *)
(* the access tokens that came with it or were bought with it.  The access *)
(* tokens of a session expire together: AccessExpires.  Passwords, hashes  *)
(* and signatures are right or wrong; bodies are well-formed.              *)
(***************************************************************************)
EXTENDS Naturals, Sequences

CONSTANTS
  Callers,    \* who makes calls
  Users,      \* e-mail addresses
  MaxRows,    \* bound: sessions
  MaxEpoch,   \* bound: expiries; when a session has had so many, none expires any more
  None

Numbers == 1 .. MaxRows
Token == [row : Numbers, epoch : 0 .. MaxEpoch]

ASSUME BoundsAssumption == MaxRows \in Nat /\ MaxEpoch \in Nat

VARIABLES
  users,   \* address -> rows of users with it
  rows,    \* refresh_tokens: whose, and neither revoked nor expired
  epoch,   \* session -> how often its access tokens have expired
  http     \* caller -> its call, or None

server == <<users, rows, epoch>>

Calls ==
  [op : {"register", "login", "refresh", "logout", "me", "jobs"},
   user : Users \cup {None},
   row : Numbers \cup {None},
   tok : Token \cup {None},
   dead : BOOLEAN,    \* was its refresh token dead when it was sent
   at : {"sent", "insert", "pair", "done"},
   code : {0, 200, 401, 500}]    \* 401: of the routes that ask for a token;
                                 \* 500: any other refusal or failure, or no answer

ASSUME NoneAssumption ==
  None \notin Users \cup Numbers \cup Token \cup Calls \cup {"me", "jobs"}

ServerTypeOK ==
  /\ users \in [Users -> Nat]
  /\ rows \in Seq([user : Users, live : BOOLEAN])
  /\ Len(rows) <= MaxRows
  /\ epoch \in [Numbers -> 0 .. MaxEpoch]
  /\ http \in [Callers -> Calls \cup {None}]
  /\ \A c \in Callers : http[c] # None =>
       /\ http[c].row # None => http[c].row <= Len(rows)
       /\ http[c].tok # None => http[c].tok.row <= Len(rows)

ServerInit ==
  /\ users \in [Users -> {0, 1}]
  /\ rows = <<>>
  /\ epoch = [r \in Numbers |-> 0]
  /\ http = [c \in Callers |-> None]

Call(o, u, r, t) ==
  [op |-> o, user |-> u, row |-> r, tok |-> t, at |-> "sent", code |-> 0,
   dead |-> IF r = None THEN FALSE ELSE ~ rows[r].live]

\* Caller c's call is of kind o, and the server has come to step s of it.
Is(c, o, s) == http[c] # None /\ http[c].op = o /\ http[c].at = s
Goto(c, s) == http' = [http EXCEPT ![c].at = s]
Grant(c, t) == http' = [http EXCEPT ![c].at = "done", ![c].code = 200, ![c].tok = t]
Refuse(c, code) ==
  http' = [http EXCEPT ![c] = [Call(@.op, None, None, None) EXCEPT !.at = "done", !.code = code]]

-----------------------------------------------------------------------------
(* POST /auth/register and /auth/login *)

\* SELECT id FROM users: the address is free, or 409.
RegisterSelect(c) ==
  /\ Is(c, "register", "sent")
  /\ IF users[http[c].user] = 0 THEN Goto(c, "insert") ELSE Refuse(c, 500)
  /\ UNCHANGED server

(* mutant: no UNIQUE on the address *)
RegisterInsert_unguarded(c) ==
  /\ Is(c, "register", "insert")
  /\ users' = [users EXCEPT ![http[c].user] = @ + 1]
  /\ Goto(c, "pair")
  /\ UNCHANGED <<rows, epoch>>

\* INSERT INTO users, unless another registration of the address did meanwhile.
RegisterInsert(c) ==
  /\ Is(c, "register", "insert")
  /\ IF users[http[c].user] = 0
       THEN /\ users' = [users EXCEPT ![http[c].user] = 1]
            /\ Goto(c, "pair")
       ELSE Refuse(c, 500) /\ UNCHANGED users
  /\ UNCHANGED <<rows, epoch>>

\* SELECT the account; the password may be right.
LoginSelect(c) ==
  /\ Is(c, "login", "sent")
  /\ \/ users[http[c].user] > 0 /\ Goto(c, "pair")
     \/ Refuse(c, 500)
  /\ UNCHANGED server

(* mutant: the INSERT is not awaited, and fails *)
CreateTokenPair_noRow(c) ==
  /\ http[c] # None /\ http[c].at = "pair"
  /\ Len(rows) < MaxRows
  /\ Grant(c, [row |-> Len(rows) + 1, epoch |-> epoch[Len(rows) + 1]])
  /\ UNCHANGED server

\* createTokenPair: INSERT INTO refresh_tokens, then both tokens are the answer.
CreateTokenPair(c) ==
  /\ http[c] # None /\ http[c].at = "pair"
  /\ Len(rows) < MaxRows
  /\ rows' = Append(rows, [user |-> http[c].user, live |-> TRUE])
  /\ Grant(c, [row |-> Len(rows) + 1, epoch |-> epoch[Len(rows) + 1]])
  /\ UNCHANGED <<users, epoch>>

-----------------------------------------------------------------------------
(* POST /auth/refresh and /auth/logout *)

Session(r) == [row |-> r, epoch |-> epoch[r]]

(* mutant: the SELECT ignores revoked_at and expires_at *)
Refresh_any(c) ==
  /\ Is(c, "refresh", "sent")
  /\ Grant(c, Session(http[c].row))
  /\ UNCHANGED server

\* The SELECT; what it found is signed and sent.
Refresh(c) ==
  /\ Is(c, "refresh", "sent")
  /\ IF rows[http[c].row].live THEN Grant(c, Session(http[c].row)) ELSE Refuse(c, 500)
  /\ UNCHANGED server

Logout(c) ==
  /\ Is(c, "logout", "sent")
  /\ rows' = [rows EXCEPT ![http[c].row].live = FALSE]
  /\ Grant(c, None)
  /\ UNCHANGED <<users, epoch>>

-----------------------------------------------------------------------------
(* The routes that ask for a token *)

Valid(t) == t # None /\ t.epoch = epoch[t.row]

\* requireJwt.
Me(c) ==
  /\ Is(c, "me", "sent")
  /\ IF Valid(http[c].tok) THEN Grant(c, http[c].tok) ELSE Refuse(c, 401)
  /\ UNCHANGED server

\* requireApiKey: an access token is not one.
SubmitJob(c) ==
  /\ Is(c, "jobs", "sent")
  /\ Refuse(c, 401)
  /\ UNCHANGED server

-----------------------------------------------------------------------------
(* Failures, and time *)

\* An await rejects, and the handler's catch answers: a refresh is refused as if its
\* token were dead, a logout is answered 204 as ever.  A login may also be refused by
\* its limiter.
Fails(c) ==
  /\ http[c] # None
  /\ http[c].at # "done"
  /\ IF http[c].op = "logout" THEN Grant(c, None) ELSE Refuse(c, 500)
  /\ UNCHANGED server

\* The call does not arrive, or its answer does not.
Lost(c) ==
  /\ http[c] # None
  /\ http[c].at \in {"sent", "done"}
  /\ Refuse(c, 500)
  /\ UNCHANGED server

\* JWT_ACCESS_EXPIRES_IN and JWT_REFRESH_EXPIRES_IN, the former shorter (15 minutes and
\* 7 days by default): when a refresh token expires, an access token of its has before.
AccessExpires(r) ==
  /\ \A q \in Numbers : epoch[q] < MaxEpoch
  /\ epoch' = [epoch EXCEPT ![r] = @ + 1]
  /\ UNCHANGED <<users, rows, http>>

RefreshExpires(r) ==
  /\ epoch[r] > 0
  /\ rows' = [rows EXCEPT ![r].live = FALSE]
  /\ UNCHANGED <<users, epoch, http>>

ServerStep(c) ==
  \/ RegisterSelect(c) \/ RegisterInsert(c) \/ LoginSelect(c) \/ CreateTokenPair(c)
  \/ Refresh(c) \/ Logout(c)
  \/ Me(c) \/ SubmitJob(c)
  \/ Fails(c) \/ Lost(c)

Expiry == \E r \in DOMAIN rows : AccessExpires(r) \/ RefreshExpires(r)

-----------------------------------------------------------------------------
(* Properties *)

\* An address has one account, although two registrations of it each look for the
\* other only before they hash (auth.ts 57-65).
OneAccount == \A u \in Users : users[u] <= 1

\* A refresh sent after its token was revoked, or had expired, yields nothing; one
\* under way at that moment may (plan.md 257: "revoke refresh token in DB").
RevokedIsUseless ==
  \A c \in Callers : http[c] # None /\ http[c].op = "refresh" /\ http[c].dead => http[c].code # 200
=============================================================================
