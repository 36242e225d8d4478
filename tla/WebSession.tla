----------------------------- MODULE WebSession ------------------------------
(***************************************************************************)
(* The web client's session: api/client.ts, auth/AuthProvider.tsx and      *)
(* auth/adapters/prodAuth.ts of apps/web, in one browser with several      *)
(* tabs, against the API of AuthSessions.  The tabs share localStorage and *)
(* hear nothing of each other.                                             *)
(*                                                                         *)
(* A fiber is an async function under way in a tab: a request through      *)
(* apiClient, a sign-in or registration, a sign-out.  A tab itself is the  *)
(* caller of the GET /me of its page load.  Requests are made for a cached *)
(* query (useQuery), whose answer is dropped once the query was cleared.   *)
(* react-query's own retry is a request of its own.  The calls of a page   *)
(* that is left end there: what one would still do at the server it did    *)
(* before, for nobody hears of it.  A redirect (window.location.href) only *)
(* starts a navigation: until Unload the page and all its fibers go on.    *)
(***************************************************************************)
EXTENDS AuthSessions

CONSTANTS
  Tabs,
  TabOf     \* fiber -> its tab

Fibers == DOMAIN TabOf

ASSUME FibersAssumption ==
  /\ TabOf \in [Fibers -> Tabs]
  /\ Callers = Fibers \cup Tabs
  /\ Fibers \cap Tabs = {}

VARIABLES
  access,    \* looki_access_token
  refresh,   \* looki_refresh_token
  shown,     \* tab -> the user of its AuthProvider
  data,      \* tab -> users whose data its query cache holds
  pc,        \* fiber -> what it does
  asks,      \* fiber -> the route of its request
  again,     \* fiber -> _retry
  sends,     \* fiber -> how often its request was sent
  kept,      \* fiber -> does a query still wait for its answer
  asked,     \* tab -> was a query started while it signed in
  leaving,   \* tab -> is a navigation to /login under way
  mixed,     \* did the stored session change while a refresh was under way
  behind     \* tab -> did the session change without it, or was it mixed when a
             \*   refresh that failed removed it

storage == <<access, refresh>>
tabs == <<shown, data, asked, leaving>>
fibers == <<pc, asks, again, sends, kept>>
ghosts == <<mixed, behind>>
vars == <<server, http, storage, tabs, fibers, ghosts>>

TypeOK ==
  /\ ServerTypeOK
  /\ access # None => access \in Token /\ access.row <= Len(rows)
  /\ refresh # None => refresh \in 1 .. Len(rows)
  /\ shown \in [Tabs -> Users \cup {None}]
  /\ data \in [Tabs -> SUBSET Users]
  /\ pc \in [Fibers -> {"idle", "login", "logout", "request", "refresh"}]
  /\ asks \in [Fibers -> {"me", "jobs", None}]
  /\ again \in [Fibers -> BOOLEAN]
  /\ sends \in [Fibers -> Nat]
  /\ kept \in [Fibers -> BOOLEAN]
  /\ asked \in [Tabs -> BOOLEAN]
  /\ leaving \in [Tabs -> BOOLEAN]
  /\ mixed \in BOOLEAN
  /\ behind \in [Tabs -> BOOLEAN]
  /\ \A f \in Fibers : pc[f] = "idle" => http[f] = None

Init ==
  /\ ServerInit
  /\ access = None
  /\ refresh = None
  /\ shown = [t \in Tabs |-> None]
  /\ data = [t \in Tabs |-> {}]
  /\ pc = [f \in Fibers |-> "idle"]
  /\ asks = [f \in Fibers |-> None]
  /\ again = [f \in Fibers |-> FALSE]
  /\ sends = [f \in Fibers |-> 0]
  /\ kept = [f \in Fibers |-> FALSE]
  /\ asked = [t \in Tabs |-> FALSE]
  /\ leaving = [t \in Tabs |-> FALSE]
  /\ mixed = FALSE
  /\ behind = [t \in Tabs |-> FALSE]

Done(c) == http[c] # None /\ http[c].at = "done"
Refreshing(f) == pc[f] = "refresh"
SigningIn(t, F) == \E g \in F : TabOf[g] = t /\ pc[g] = "login"

\* The users of the stored tokens.
Stored == {rows[t.row].user : t \in {access} \ {None}} \cup
          {rows[r].user : r \in {refresh} \ {None}}

\* A request with access token a.
Ask(o, a) == Call(o, None, None, IF o = "me" THEN a ELSE None)

\* Tab t changes the session; b: is its own page behind then.
Unheard(t, b) == behind' = [s \in Tabs |-> s # t \/ b]

\* Fiber f is over.
Over(f) ==
  /\ pc' = [pc EXCEPT ![f] = "idle"]
  /\ asks' = [asks EXCEPT ![f] = None]
  /\ again' = [again EXCEPT ![f] = FALSE]
  /\ sends' = [sends EXCEPT ![f] = 0]
  /\ kept' = [kept EXCEPT ![f] = FALSE]
  /\ http' = [http EXCEPT ![f] = None]

(* mutant: without queryClient.clear() *)
ClearSessionState_keys(t, k) == UNCHANGED data /\ kept' = k

\* clearSessionState, where k is kept of the other fibers.
ClearSessionState(t, k) ==
  /\ data' = [data EXCEPT ![t] = {}]
  /\ kept' = [f \in Fibers |-> IF TabOf[f] = t THEN FALSE ELSE k[f]]

-----------------------------------------------------------------------------
(* Page loads *)

\* The page of tab t is loaded, with the token stored by then: getCurrentUser.
LoadPage(t) ==
  /\ shown' = [shown EXCEPT ![t] = None]
  /\ data' = [data EXCEPT ![t] = {}]
  /\ asked' = [asked EXCEPT ![t] = FALSE]
  /\ leaving' = [leaving EXCEPT ![t] = FALSE]
  /\ pc' = [f \in Fibers |-> IF TabOf[f] = t THEN "idle" ELSE pc[f]]
  /\ asks' = [f \in Fibers |-> IF TabOf[f] = t THEN None ELSE asks[f]]
  /\ again' = [f \in Fibers |-> again[f] /\ TabOf[f] # t]
  /\ sends' = [f \in Fibers |-> IF TabOf[f] = t THEN 0 ELSE sends[f]]
  /\ kept' = [f \in Fibers |-> kept[f] /\ TabOf[f] # t]
  /\ http' = [c \in Callers |->
       IF c = t /\ access # None THEN Ask("me", access)
       ELSE IF c = t \/ (c \in Fibers /\ TabOf[c] = t) THEN None ELSE http[c]]
  /\ behind' = [behind EXCEPT ![t] = FALSE]
  /\ UNCHANGED <<server, storage, mixed>>

\* By its reader, at any time.
Reload(t) == LoadPage(t)

\* By the client's redirect, some time after it.
Unload(t) == leaving[t] /\ LoadPage(t)

\* setUser: the user, or null whatever went wrong.
Loaded(t) ==
  /\ Done(t)
  /\ shown' = [shown EXCEPT ![t] = IF http[t].code = 200 THEN rows[http[t].tok.row].user ELSE None]
  /\ http' = [http EXCEPT ![t] = None]
  /\ UNCHANGED <<server, storage, data, asked, leaving, fibers, ghosts>>

-----------------------------------------------------------------------------
(* Signing in and out *)

\* login or register of AuthProvider, from a page anyone may open.
LogIn(f, o, u) ==
  LET t == TabOf[f] IN
  /\ pc[f] = "idle"
  /\ ClearSessionState(t, kept)
  /\ asked' = [asked EXCEPT ![t] = FALSE]
  /\ pc' = [pc EXCEPT ![f] = "login"]
  /\ http' = [http EXCEPT ![f] = Call(o, u, None, None)]
  /\ UNCHANGED <<server, storage, shown, leaving, asks, again, sends, ghosts>>

LoggedIn(f) ==
  LET t == TabOf[f]  c == http[f] IN
  /\ pc[f] = "login"
  /\ Done(f)
  /\ c.code = 200
  /\ access' = c.tok
  /\ refresh' = c.tok.row
  /\ shown' = [shown EXCEPT ![t] = c.user]
  /\ asked' = [asked EXCEPT ![t] = @ /\ SigningIn(t, Fibers \ {f})]
  /\ Over(f)
  /\ mixed' = \E g \in Fibers : Refreshing(g)
  /\ Unheard(t, http[t] # None \/ asked[t])
  /\ UNCHANGED <<server, data, leaving>>

LogInFails(f) ==
  /\ pc[f] = "login"
  /\ Done(f)
  /\ http[f].code # 200
  /\ asked' = [asked EXCEPT ![TabOf[f]] = @ /\ SigningIn(TabOf[f], Fibers \ {f})]
  /\ Over(f)
  /\ UNCHANGED <<server, storage, shown, data, leaving, ghosts>>

LogOut(f) ==
  /\ pc[f] = "idle"
  /\ shown[TabOf[f]] # None
  /\ pc' = [pc EXCEPT ![f] = "logout"]
  /\ http' = [http EXCEPT ![f] = IF refresh = None THEN None
                                 ELSE Call("logout", None, refresh, None)]
  /\ UNCHANGED <<server, storage, tabs, asks, again, sends, kept, ghosts>>

(* mutant: the refresh token stays *)
RemoveTokens_access == access' = None /\ UNCHANGED refresh

RemoveTokens ==
  /\ access' = None
  /\ refresh' = None

\* Whatever the answer: the tokens go that are stored by now.
LoggedOut(f) ==
  LET t == TabOf[f] IN
  /\ pc[f] = "logout"
  /\ http[f] = None \/ Done(f)
  /\ RemoveTokens
  /\ ClearSessionState(t, kept)
  /\ shown' = [shown EXCEPT ![t] = None]
  /\ pc' = [pc EXCEPT ![f] = "idle"]
  /\ http' = [http EXCEPT ![f] = None]
  /\ mixed' = \E g \in Fibers : Refreshing(g)
  /\ Unheard(t, behind[t])
  /\ UNCHANGED <<server, asked, leaving, asks, again, sends>>

-----------------------------------------------------------------------------
(* Requests through apiClient *)

\* A protected page asks: GET /me and its like, or the bulk tab's POST.
Request(f, o) ==
  /\ pc[f] = "idle"
  /\ shown[TabOf[f]] # None
  /\ pc' = [pc EXCEPT ![f] = "request"]
  /\ sends' = [sends EXCEPT ![f] = 1]
  /\ kept' = [kept EXCEPT ![f] = o = "me"]
  /\ asks' = [asks EXCEPT ![f] = o]
  /\ asked' = [asked EXCEPT ![TabOf[f]] = @ \/ SigningIn(TabOf[f], Fibers)]
  /\ http' = [http EXCEPT ![f] = Ask(o, access)]
  /\ UNCHANGED <<server, storage, shown, data, leaving, again, ghosts>>

\* An answer, or an error the interceptor rejects with.
Settled(f) ==
  LET t == TabOf[f] IN
  /\ pc[f] = "request"
  /\ Done(f)
  /\ http[f].code # 401 \/ again[f]
  /\ data' = IF http[f].code = 200 /\ kept[f]
             THEN [data EXCEPT ![t] = @ \cup {rows[http[f].tok.row].user}] ELSE data
  /\ Over(f)
  /\ UNCHANGED <<server, storage, shown, asked, leaving, ghosts>>

(* mutant: _retry is not set *)
Unauthorized_noMark(f) ==
  /\ pc[f] = "request"
  /\ Done(f)
  /\ http[f].code = 401 /\ ~ again[f] /\ refresh # None
  /\ pc' = [pc EXCEPT ![f] = "refresh"]
  /\ http' = [http EXCEPT ![f] = Call("refresh", None, refresh, None)]
  /\ UNCHANGED <<server, storage, tabs, asks, again, sends, kept, ghosts>>

\* A first 401: the stored refresh token is sent.
Unauthorized(f) ==
  /\ pc[f] = "request"
  /\ Done(f)
  /\ http[f].code = 401 /\ ~ again[f] /\ refresh # None
  /\ again' = [again EXCEPT ![f] = TRUE]
  /\ pc' = [pc EXCEPT ![f] = "refresh"]
  /\ http' = [http EXCEPT ![f] = Call("refresh", None, refresh, None)]
  /\ UNCHANGED <<server, storage, tabs, asks, sends, kept, ghosts>>

\* window.location.href = '/login', and the request rejects.
Redirect(f) ==
  /\ leaving' = [leaving EXCEPT ![TabOf[f]] = TRUE]
  /\ Over(f)
  /\ UNCHANGED <<shown, data, asked>>

\* There is none: to /login.
Unauthenticated(f) ==
  /\ pc[f] = "request"
  /\ Done(f)
  /\ http[f].code = 401 /\ ~ again[f] /\ refresh = None
  /\ Redirect(f)
  /\ UNCHANGED <<server, storage, ghosts>>

\* The new access token is stored, and the request sent again with it.
Refreshed(f) ==
  /\ Refreshing(f)
  /\ Done(f)
  /\ http[f].code = 200
  /\ access' = http[f].tok
  /\ pc' = [pc EXCEPT ![f] = "request"]
  /\ sends' = [sends EXCEPT ![f] = @ + 1]
  /\ http' = [http EXCEPT ![f] = Ask(asks[f], http[f].tok)]
  /\ UNCHANGED <<server, refresh, tabs, asks, again, kept, ghosts>>

\* No access token, whatever the reason: both tokens go, to /login.  Another refresh,
\* of this tab too, may still store its own.
RefreshFails(f) ==
  /\ Refreshing(f)
  /\ Done(f)
  /\ http[f].code # 200
  /\ RemoveTokens
  /\ Redirect(f)
  /\ mixed' = \E g \in Fibers \ {f} : Refreshing(g)
  /\ Unheard(TabOf[f], behind[TabOf[f]] \/ mixed)
  /\ UNCHANGED server

-----------------------------------------------------------------------------
Next ==
  \/ \E c \in Callers : ServerStep(c) /\ UNCHANGED <<storage, tabs, fibers, ghosts>>
  \/ Expiry /\ UNCHANGED <<storage, tabs, fibers, ghosts>>
  \/ \E t \in Tabs : Reload(t) \/ Unload(t) \/ Loaded(t)
  \/ \E f \in Fibers :
       \/ \E o \in {"register", "login"}, u \in Users : LogIn(f, o, u)
       \/ LoggedIn(f) \/ LogInFails(f) \/ LogOut(f) \/ LoggedOut(f)
       \/ \E o \in {"me", "jobs"} : Request(f, o)
       \/ Refreshed(f) \/ Settled(f) \/ Unauthorized(f) \/ Unauthenticated(f) \/ RefreshFails(f)

Spec == Init /\ [][Next]_vars

-----------------------------------------------------------------------------
(* Properties *)

\* The two stored tokens are of one session, or both are gone, as long as the session
\* was not replaced or removed while a refresh was under way, by a sign-in or -out or by
\* another refresh that failed: its answer is stored whatever is there by then
\* (client.ts 41, 45-47).
OneSession ==
  ~ mixed =>
    /\ access = None <=> refresh = None
    /\ access # None => access.row = refresh

\* A tab that shows somebody holds that user's data and sends that user's tokens.
\* What other tabs do to the session is not heard of, a sign-in stops neither a page
\* load nor a query started meanwhile, and what a mixed session put into the page stays
\* there when a refresh that failed ends that session (AuthProvider.tsx 14-42).
Coherent ==
  \A t \in Tabs : shown[t] # None /\ ~ mixed /\ ~ behind[t] =>
    Stored \cup data[t] \subseteq {shown[t]}

\* However often it is refused, a request is sent twice at most: the bulk tab's is
\* refused every time (client.ts 31).
SentTwice == \A f \in Fibers : sends[f] <= 2

\* README.md 300: the client "intercepts 401 responses, attempts a silent refresh, and
\* redirects to /login if that fails".  So a page load that is refused leaves nobody
\* signed out who still has a live refresh token.
SilentRefresh ==
  [][\A t \in Tabs : Loaded(t) /\ http[t].code = 401 =>
       refresh = None \/ ~ rows[refresh].live]_vars

-----------------------------------------------------------------------------
(* Inductive invariant *)

\* What the server knows of a call at each step, and what a granted one brings.
Answered(c) ==
  /\ c.at = "done" <=> c.code # 0
  /\ c.at \in {"insert", "pair"} => c.op \in {"register", "login"}
  /\ c.op \in {"register", "login"} /\ c.code \in {0, 200} => c.user \in Users
  /\ c.op \in {"refresh", "logout"} /\ c.code = 0 => c.row # None
  /\ c.op # "logout" /\ c.code = 200 => c.tok # None
  /\ c.op = "refresh" /\ c.code = 200 => c.tok.row = c.row
  /\ c.op \in {"register", "login"} /\ c.code = 200 => rows[c.tok.row].user = c.user
  /\ c.op = "jobs" => c.code # 200
  /\ c.op = "refresh" /\ c.dead => c.code # 200 /\ (c.code = 0 => ~ rows[c.row].live)
Handled == \A c \in Callers : http[c] # None => Answered(http[c])

\* Which call a fiber waits for, and how often it sent it.
Waits(f) ==
  /\ pc[f] = "login" => http[f] # None /\ http[f].op \in {"register", "login"}
  /\ pc[f] = "logout" => http[f] = None \/ http[f].op = "logout"
  /\ pc[f] = "request" => http[f] # None /\ http[f].op = asks[f]
  /\ pc[f] = "refresh" => http[f] # None /\ http[f].op = "refresh"
  /\ pc[f] \in {"request", "refresh"} => asks[f] # None
  /\ kept[f] \/ again[f] => pc[f] \in {"request", "refresh"}
  /\ pc[f] = "refresh" => again[f]
  /\ sends[f] = (CASE pc[f] = "refresh" -> 1
                   [] pc[f] = "request" -> (IF again[f] THEN 2 ELSE 1)
                   [] OTHER -> 0)
Loading(t) ==
  http[t] # None =>
    http[t].op = "me" /\ (http[t].code \in {0, 200} => http[t].tok # None)
Waiting ==
  /\ \A t \in Tabs : Loading(t)
  /\ \A f \in Fibers : Waits(f)

\* A refresh under way is of the stored session.
Fresh ==
  \A f \in Fibers : ~ mixed /\ Refreshing(f) /\ http[f].code \in {0, 200} =>
    http[f].row = refresh

\* A page that shows nobody, or is signing in, has no data and waits for none.
Blank(t) == data[t] = {} /\ \A f \in Fibers : TabOf[f] = t => ~ kept[f]
Blanks ==
  \A t \in Tabs :
    /\ ~ behind[t] /\ http[t] # None => shown[t] = None
    /\ ~ behind[t] /\ shown[t] = None => Blank(t)
    /\ SigningIn(t, Fibers) /\ ~ asked[t] => Blank(t)

\* What a page that is not behind waits for is of the stored session's user.
Expects(t) ==
  /\ http[t] # None /\ http[t].code \in {0, 200} =>
       Stored \subseteq {rows[http[t].tok.row].user}
  /\ \A f \in Fibers :
       TabOf[f] = t /\ pc[f] = "request" /\ kept[f] /\ http[f].tok # None =>
         rows[http[f].tok.row].user = shown[t]
Expected == \A t \in Tabs : ~ mixed /\ ~ behind[t] => Expects(t)

IInv ==
  /\ TypeOK /\ Handled /\ Waiting /\ Fresh /\ Blanks /\ Expected
  /\ OneSession /\ Coherent
=============================================================================
