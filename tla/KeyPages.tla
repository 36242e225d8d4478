------------------------------- MODULE KeyPages ------------------------------
(***************************************************************************)
(* The pages of apps/web as one tab of a browser shows them: signing in,   *)
(* the dashboard and the API keys with the list they share, the modal that *)
(* creates a key, the lookup page with the key it is given.  WebSession    *)
(* has the tokens; here it only matters whose access token is stored: any  *)
(* call through apiClient carries that one, whoever is shown.              *)
(*                                                                         *)
(* One page is mounted at a time, behind a spinner until the page load     *)
(* knows its user, and begins anew when it is; what outlives it is the     *)
(* query cache, localStorage and the calls under way, whose continuations  *)
(* find their component gone.  The query ['apiKeys'] is react-query's: its *)
(* retry reads later, which a read may do anyway.                          *)
(***************************************************************************)
EXTENDS ApiKeys

CONSTANTS
  Calls,      \* bound: calls under way at once
  Numbers     \* what is looked up

ASSUME NumbersAssumption == None \notin Numbers

VARIABLES
  user,      \* the user AuthProvider shows
  starting,  \* whose token the GET /me of the page load carries, while it is under way
  signing,   \* is a sign-in under way, and is its form still there
  token,     \* whose looki_access_token is stored
  apiKey,    \* is there a looki_api_key
  page,      \* the page mounted
  view,      \* its state
  query,     \* the query ['apiKeys']
  calls,     \* creations and revocations under way, with what waits for their answers
  lookups,   \* lookups under way whose answers the page will show
  made,      \* keys its user was told were created
  unmade,    \* keys its user was told were revoked
  crossed,   \* which of its fetch and its data an acknowledged change escaped
  strayed,   \* did somebody leave the form while it signed in
  behind     \* did another user's token come under the page, or under its load

told == <<made, unmade>>
shown == <<user, starting>>
storage == <<token, apiKey>>
ghosts == <<strayed, behind>>
others == <<shown, signing, apiKey, ghosts>>
session == <<others, token>>
list == <<query, crossed>>
vars == <<keys, session, page, view, list, calls, lookups, told>>

Public == {"login", "register"}
Listing == {"dashboard", "keys"}
Pages == Public \cup Listing \cup {"lookup"}

\* What a page remembers: is its form on its way (signing in, creating, looking up);
\* the modal; the gate; the mutation of the single tab; is the bulk tab's form on its way.
Views ==
  [loading : BOOLEAN,
   open : BOOLEAN, plain : Key \cup {None},
   hasKey : BOOLEAN,
   asked : Numbers \cup {None}, result : Numbers \cup {None},
   bulk : BOOLEAN]

Call ==
  [op : {"create", "revoke"},
   by : Users \cup {None},      \* whose token it carries
   key : Key \cup {None},
   at : {"sent", "ok", "waiting"},
   mine : BOOLEAN]      \* does the modal that sent it wait for it

ASSUME CallAssumption == None \notin Call

Query ==
  [data : (SUBSET Key) \cup {None},
   old : BOOLEAN,       \* isInvalidated
   fetch : {"no", "asked", "read"},
   by : Users \cup {None},
   read : SUBSET Key]

NoQuery == [data |-> None, old |-> FALSE, fetch |-> "no", by |-> None, read |-> {}]

TypeOK ==
  /\ KeysTypeOK
  /\ user \in Users \cup {None}
  /\ starting \in Users \cup {None}
  /\ signing \in {"no", "form", "left"}
  /\ token \in Users \cup {None}
  /\ apiKey \in BOOLEAN
  /\ page \in Pages
  /\ user = None /\ starting = None => page \in Public
  /\ view \in Views
  /\ query \in Query
  /\ calls \in [Calls -> Call \cup {None}]
  /\ lookups \subseteq Numbers
  /\ made \cup unmade \subseteq DOMAIN keys
  /\ crossed \subseteq {"fetch", "data"}
  /\ strayed \in BOOLEAN
  /\ behind \in BOOLEAN
-----------------------------------------------------------------------------
(* Pages *)

(* mutant: every route is public *)
Route_open(p, u, s) == p

\* Where the router leads when p is asked for, u is shown and the load waits for s.
Route(p, u, s) ==
  IF u = None /\ s = None /\ p \notin Public THEN "login" ELSE p

\* Until the page load has its answer a spinner stands for every page but the public ones.
At(p) == page = p /\ (p \in Public \/ starting = None)

\* A page that is mounted.
Mounted(p, hasKey) ==
  [loading |-> FALSE, open |-> FALSE, plain |-> None,
   hasKey |-> p = "lookup" /\ hasKey,
   asked |-> None, result |-> None, bulk |-> FALSE]

Asked(q, u) == [q EXCEPT !.fetch = "asked", !.by = u, !.read = {}]

\* useApiKeys mounts beside query q: it is fetched if it is missing or invalidated.
Observed(p, s, q, u) ==
  IF p \in Listing /\ s = None /\ q.fetch = "no" /\ (q.data = None \/ q.old) THEN Asked(q, u) ELSE q

\* The continuations of the page's calls find nobody.
Waits(c) == calls[c] # None /\ calls[c].at = "waiting"
Detached ==
  [c \in Calls |-> IF calls[c] = None \/ Waits(c) THEN None ELSE [calls[c] EXCEPT !.mine = FALSE]]

\* Keys created whose plaintext the page has or waits for.
Awaited ==
  ({view.plain} \cup
   {calls[c].key : c \in {d \in Calls :
     calls[d] # None /\ calls[d].op = "create" /\ calls[d].mine}}) \ {None}

Init ==
  /\ KeysInit
  /\ user = None
  /\ starting = None
  /\ signing = "no"
  /\ token = None
  /\ apiKey = FALSE
  /\ page = "login"
  /\ view = Mounted("login", FALSE)
  /\ query = NoQuery
  /\ calls = [c \in Calls |-> None]
  /\ lookups = {}
  /\ made = {} /\ unmade = {}
  /\ crossed = {}
  /\ strayed = FALSE
  /\ behind = FALSE

(* mutant: the modal outlives its page *)
Goto_kept(p, q) ==
  /\ page' = p
  /\ view' = [Mounted(p, apiKey') EXCEPT !.plain = view.plain]
  /\ calls' = Detached
  /\ lookups' = {}
  /\ query' = Observed(p, starting', q, token')

\* The page is left for p, beside query q and with what is stored now.
Goto(p, q) ==
  /\ page' = p
  /\ view' = Mounted(p, apiKey')
  /\ calls' = Detached
  /\ lookups' = {}
  /\ query' = Observed(p, starting', q, token')

\* A query that is asked for anew escapes nothing yet.
Crossed == crossed' = IF query' = query THEN crossed ELSE crossed \ {"fetch"}

\* By the menu, a link or the history.
Navigate(p) ==
  /\ Route(p, user, starting) = p /\ p # page
  /\ UNCHANGED <<keys, shown, storage, behind, told>>
  /\ Goto(p, query)
  /\ Crossed
  /\ signing' = IF signing = "form" THEN "left" ELSE signing
  /\ strayed' = (strayed \/ signing # "no")

\* A page load at p, by its reader at any time, or by the client's redirect to /login some
\* time after the session was lost.  With a token stored, getCurrentUser asks whose it is.
Load(p) ==
  /\ user' = None
  /\ starting' = token
  /\ page' = Route(p, None, token)
  /\ view' = Mounted(page', apiKey)
  /\ calls' = [c \in Calls |-> None]
  /\ lookups' = {}
  /\ query' = NoQuery
  /\ signing' = "no"
  /\ crossed' = {}
  /\ strayed' = FALSE
  /\ behind' = FALSE
  /\ made' = {} /\ unmade' = {}
  /\ UNCHANGED <<keys, storage>>

\* Its answer, or nobody whatever the reason: setUser, whoever signed in meanwhile, and
\* the page behind the spinner mounts, or is left for /login.
Loaded ==
  /\ starting # None
  /\ starting' = None
  /\ user' \in {starting, None}
  /\ UNCHANGED <<keys, signing, storage, ghosts>>
  /\ IF page \in Public THEN UNCHANGED <<page, view, calls, lookups, query>>
                        ELSE Goto(Route(page, user', None), query)
  /\ Crossed
  /\ made' = {} /\ unmade' = {}
-----------------------------------------------------------------------------
(* Login, Register, AppLayout *)

\* The query after queryClient.clear().
Cleared == NoQuery

\* What the key was, clearSessionState removes it.
ClearSessionState == apiKey' = FALSE

\* The forms of Login and Register send what is complete, and not while it is on its way.
LoginForm == page = "login" /\ ~ view.loading
RegisterForm == page = "register" /\ ~ view.loading

\* handleSubmit of either form.  Bound: one sign-in at a time.
SignIn ==
  /\ LoginForm \/ RegisterForm
  /\ signing = "no"
  /\ ClearSessionState
  /\ query' = Cleared
  /\ signing' = "form"
  /\ view' = [view EXCEPT !.loading = TRUE]
  /\ strayed' = FALSE
  /\ crossed' = {}
  /\ UNCHANGED <<keys, shown, token, behind, page, calls, lookups, told>>

\* The tokens are stored, setUser, then navigate("/dashboard"), wherever the reader is by
\* now.  A page load under way is not stopped.
SignedIn(u) ==
  /\ signing # "no"
  /\ user' = u
  /\ token' = u
  /\ signing' = "no"
  /\ behind' = (starting \notin {u, None})
  /\ UNCHANGED <<keys, starting, apiKey, strayed>>
  /\ IF page = "dashboard" THEN UNCHANGED <<page, view, calls, lookups, query>>
                           ELSE Goto("dashboard", query)
  /\ Crossed
  /\ made' = {} /\ unmade' = {}

SignInFails ==
  /\ signing # "no"
  /\ signing' = "no"
  /\ view' = IF signing = "form" THEN [view EXCEPT !.loading = FALSE] ELSE view
  /\ UNCHANGED <<keys, shown, storage, ghosts, page, list, calls, lookups, told>>

\* "Sign out" of the user menu, when its call is answered or has failed, wherever the
\* reader is by then; navigate('/login').
SignedOut ==
  /\ user # None /\ starting = None
  /\ user' = None
  /\ token' = None
  /\ ClearSessionState
  /\ UNCHANGED <<keys, starting>>
  /\ IF page = "login" THEN query' = Cleared /\ UNCHANGED <<page, view, calls, lookups>>
                       ELSE Goto("login", Cleared)
  /\ signing' = IF signing = "form" /\ page # "login" THEN "left" ELSE signing
  /\ crossed' = {}
  /\ strayed' = FALSE
  /\ behind' = FALSE
  /\ made' = {} /\ unmade' = {}

\* Who is shown, or will be.
Whose == IF starting # None THEN starting ELSE user

\* What is stored changes beside this page: another tab signs in or out or keeps a key, a
\* refresh fails of a call not followed here, or one is answered after the session changed.
Elsewhere(u) ==
  /\ token' = u
  /\ apiKey' \in BOOLEAN
  /\ behind' = (behind \/ (Whose # None /\ u \notin {Whose, None}))
  /\ UNCHANGED <<keys, shown, signing, strayed, page, view, list, calls, lookups, told>>

\* A call ends: if it was refused, its refresh may have been too, or there is none; the
\* tokens are gone then, and a navigation to /login begins.
SessionLost(refused) == token' = token \/ (refused /\ token' = None)
-----------------------------------------------------------------------------
(* The query ['apiKeys'] *)

Watched == page \in Listing /\ At(page)

\* Stale data is fetched again when a page mounts, or the network is back.
Refetch ==
  /\ Watched /\ query.fetch = "no"
  /\ query' = Asked(query, token)
  /\ crossed' = crossed \ {"fetch"}
  /\ UNCHANGED <<keys, session, page, view, calls, lookups, told>>

\* GET /me/keys runs its SELECT, for the user of the token.
ListRead ==
  /\ query.fetch = "asked" /\ query.by # None
  /\ query' = [query EXCEPT !.fetch = "read", !.read = Listed(query.by)]
  /\ UNCHANGED <<keys, session, page, view, crossed, calls, lookups, told>>

(* mutant: a failing list takes the key with it *)
ShowKey_onlyListed(cs) ==
  LET W == {c \in Calls : Waits(c)} IN
  /\ view' = IF W = {} THEN view
             ELSE [view EXCEPT !.loading = FALSE,
                    !.plain = IF query.fetch = "read" THEN calls[CHOOSE c \in W : TRUE].key ELSE None]
  /\ calls' = [c \in Calls |-> IF c \in W THEN None ELSE cs[c]]

\* setPlainKey, of the call that waited, in a modal that may have been closed meanwhile;
\* cs is what is left of the others.
ShowKey(cs) ==
  LET W == {c \in Calls : Waits(c)} IN
  /\ view' = IF W = {} THEN view
             ELSE [view EXCEPT !.loading = FALSE, !.plain = calls[CHOOSE c \in W : TRUE].key]
  /\ calls' = [c \in Calls |-> IF c \in W THEN None ELSE cs[c]]

ListLoaded ==
  /\ query.fetch = "read"
  /\ query' = [NoQuery EXCEPT !.data = query.read]
  /\ crossed' = IF "fetch" \in crossed THEN {"data"} ELSE {}
  /\ ShowKey(calls)
  /\ UNCHANGED <<keys, session, page, lookups, told>>

\* Refused, or failed, it is asked for once more with the token that is stored by then: a
\* refresh's, or none.
ListResent ==
  /\ query.fetch = "asked"
  /\ SessionLost(TRUE)
  /\ query' = [query EXCEPT !.by = token']
  /\ UNCHANGED <<keys, others, page, view, crossed, calls, lookups, told>>

\* The retry fails too.
ListFails ==
  /\ query.fetch # "no"
  /\ query' = [query EXCEPT !.fetch = "no", !.by = None, !.read = {}]
  /\ crossed' = crossed \ {"fetch"}
  /\ ShowKey(calls)
  /\ UNCHANGED <<keys, session, page, lookups, told>>

\* Unobserved for gcTime.
Forget ==
  /\ ~ Watched /\ query.fetch = "no" /\ query.data # None
  /\ query' = NoQuery
  /\ crossed' = {}
  /\ UNCHANGED <<keys, session, page, view, calls, lookups, told>>

(* mutant: cancelRefetch: false *)
Restarts_joins == Watched /\ query.fetch = "no"

\* Does invalidateQueries start a fetch: one for data nobody has yet is joined, one that
\* nobody watches goes on.
Restarts == Watched /\ (query.fetch = "no" \/ query.data # None)

\* invalidateQueries({ queryKey: ['apiKeys'] }).
Invalidate ==
  /\ query' = IF Restarts THEN [Asked(query, token) EXCEPT !.old = TRUE]
                          ELSE [query EXCEPT !.old = query.data # None]
  /\ crossed' = IF query.fetch # "no" /\ (~ Watched \/ query.data = None)
                  THEN crossed \cup {"fetch"} ELSE crossed \ {"fetch"}
-----------------------------------------------------------------------------
(* KeysPage, CreateKeyModal, ApiKeyList *)

\* What the open modal offers: the key and Done, or the form.
ModalControls ==
  IF view.plain # None \/ view.loading THEN {"close"} ELSE {"close", "create"}

OpenModal ==
  /\ At("keys") /\ ~ view.open
  /\ view' = [view EXCEPT !.open = TRUE]
  /\ UNCHANGED <<keys, session, page, list, calls, lookups, told>>

\* handleClose, of Cancel, Done and the cross; a creation under way goes on.
CloseModal ==
  /\ view.open /\ "close" \in ModalControls
  /\ view' = [view EXCEPT !.open = FALSE, !.plain = None]
  /\ UNCHANGED <<keys, session, page, list, calls, lookups, told>>

Send(c, o, k) ==
  /\ calls[c] = None
  /\ calls' = [calls EXCEPT ![c] =
       [op |-> o, by |-> token, key |-> k, at |-> "sent", mine |-> o = "create"]]

CreateKey(c) ==
  /\ view.open /\ "create" \in ModalControls
  /\ Send(c, "create", None)
  /\ view' = [view EXCEPT !.loading = TRUE]
  /\ UNCHANGED <<keys, session, page, list, lookups, told>>

Is(c, o, s) == calls[c] # None /\ calls[c].op = o /\ calls[c].at = s
Without(c) == [calls EXCEPT ![c] = None]

\* POST /me/keys inserts the row and answers with the plaintext, once.
ServeCreate(c) ==
  /\ Is(c, "create", "sent") /\ calls[c].by # None
  /\ InsertKey(calls[c].by)
  /\ calls' = [calls EXCEPT ![c].at = "ok", ![c].key = Len(keys) + 1]
  /\ UNCHANGED <<session, page, view, list, lookups, told>>

\* onSuccess: if its page is there still, createKey waits for the list.
Created(c) ==
  /\ Is(c, "create", "ok")
  /\ Invalidate
  /\ calls' = IF calls[c].mine THEN [calls EXCEPT ![c].at = "waiting"] ELSE Without(c)
  /\ made' = IF calls[c].by = user THEN made \cup {calls[c].key} ELSE made
  /\ UNCHANGED <<keys, session, page, view, lookups, unmade>>

\* The Popconfirm of a row.
Revoke(c, k) ==
  /\ Watched /\ query.data # None /\ k \in query.data
  /\ Send(c, "revoke", k)
  /\ UNCHANGED <<keys, session, page, view, list, lookups, told>>

\* DELETE /me/keys/:key_id.
ServeRevoke(c) ==
  /\ Is(c, "revoke", "sent")
  /\ Revocable(calls[c].by, calls[c].key)
  /\ RevokeKey(calls[c].key)
  /\ calls' = [calls EXCEPT ![c].at = "ok"]
  /\ UNCHANGED <<session, page, view, list, lookups, told>>

\* onSuccess.  A fetch cut short may end the wait of a creation, or its successor does.
Revoked(c) ==
  /\ Is(c, "revoke", "ok")
  /\ Invalidate
  /\ \/ calls' = Without(c) /\ UNCHANGED view
     \/ Restarts /\ query.fetch # "no" /\ ShowKey(Without(c))
  /\ made' = made \ {calls[c].key}
  /\ unmade' = IF calls[c].by = user THEN unmade \cup {calls[c].key} ELSE unmade
  /\ UNCHANGED <<keys, session, page, lookups>>
-----------------------------------------------------------------------------
(* LookupPage, ApiKeyGate, LookupForm, BulkTab *)

\* Save and Enter, after Change if there was a key.
SaveKey ==
  /\ At("lookup")
  /\ apiKey' = TRUE
  /\ view' = [view EXCEPT !.hasKey = TRUE]
  /\ UNCHANGED <<keys, shown, signing, token, ghosts, page, list, calls, lookups, told>>

RemoveKey ==
  /\ At("lookup") /\ view.hasKey
  /\ apiKey' = FALSE
  /\ view' = [view EXCEPT !.hasKey = FALSE]
  /\ UNCHANGED <<keys, shown, signing, token, ghosts, page, list, calls, lookups, told>>

\* mutate(n).
Lookup(n) ==
  /\ At("lookup") /\ view.hasKey /\ ~ view.loading
  /\ lookups' = lookups \cup {n}
  /\ view' = [view EXCEPT !.loading = TRUE, !.asked = n, !.result = None]
  /\ UNCHANGED <<keys, session, page, list, calls, told>>

(* mutant: the page forgets the mutation, which does not forget the page *)
ResetLookup_only == UNCHANGED lookups

\* reset(): the observer leaves its mutation, whose answer goes nowhere.
ResetLookup == lookups' = {}

\* The tabs' onChange.
ChangeTab ==
  /\ At("lookup")
  /\ ResetLookup
  /\ view' = [view EXCEPT !.loading = FALSE, !.asked = None, !.result = None]
  /\ UNCHANGED <<keys, session, page, list, calls, told>>

\* Its data, or its error.
LookedUp(n) ==
  /\ n \in lookups
  /\ lookups' = lookups \ {n}
  /\ \E r \in {n, None} : view' = [view EXCEPT !.loading = FALSE, !.result = r]
  /\ UNCHANGED <<keys, session, page, list, calls, told>>

\* handleSubmit of the bulk tab.
SubmitJob ==
  /\ At("lookup") /\ ~ view.bulk
  /\ view' = [view EXCEPT !.bulk = TRUE]
  /\ UNCHANGED <<keys, session, page, list, calls, lookups, told>>

\* apiClient sends an access token, which the route never takes for an API key.
JobRefused ==
  /\ view.bulk
  /\ view' = [view EXCEPT !.bulk = FALSE]
  /\ SessionLost(TRUE)
  /\ UNCHANGED <<keys, others, page, list, calls, lookups, told>>
-----------------------------------------------------------------------------
\* Refused, it is sent again with the token of its refresh.
Resent(c) ==
  /\ calls[c] # None /\ calls[c].at = "sent"
  /\ token # None
  /\ calls' = [calls EXCEPT ![c].by = token]
  /\ UNCHANGED <<keys, session, page, view, list, lookups, told>>

\* The call is refused, or its handler, its query or its answer fails: the catch of its
\* page clears the form; a revocation says nothing.
Fails(c) ==
  /\ calls[c] # None /\ calls[c].at # "waiting"
  /\ view' = IF calls[c].mine /\ calls[c].op = "create" THEN [view EXCEPT !.loading = FALSE] ELSE view
  /\ calls' = Without(c)
  /\ SessionLost(calls[c].at = "sent")
  /\ UNCHANGED <<keys, others, page, list, lookups, told>>

Serve(c) == ServeCreate(c) \/ ServeRevoke(c)
Settle(c) == Created(c) \/ Revoked(c) \/ Fails(c)

Next ==
  \/ \E p \in Pages : Navigate(p) \/ Load(p)
  \/ Loaded
  \/ SignIn \/ SignInFails \/ SignedOut
  \/ \E u \in Users : SignedIn(u)
  \/ \E u \in Users \cup {None} : Elsewhere(u)
  \/ Refetch \/ ListRead \/ ListResent \/ ListLoaded \/ ListFails \/ Forget
  \/ OpenModal \/ CloseModal
  \/ SaveKey \/ RemoveKey \/ ChangeTab \/ SubmitJob \/ JobRefused
  \/ \E n \in Numbers : Lookup(n) \/ LookedUp(n)
  \/ \E c \in Calls :
       \/ CreateKey(c)
       \/ \E k \in Key : Revoke(c, k)
       \/ Serve(c) \/ Resent(c) \/ Settle(c)

Spec == Init /\ [][Next]_vars
-----------------------------------------------------------------------------
(* Properties *)

\* The page knows who is signed in.  It does not when somebody left the form while it
\* signed in, when another user signed in while the page load was under way, or when the
\* stored token became another user's: by another tab, or by a refresh answered late
\* (AuthProvider.tsx 14-42, Login.tsx 23-24, client.ts 17-23, 41).
InStep == ~ strayed /\ ~ behind

\* A list that is neither invalidated nor on its way has the keys this tab created and
\* none it revoked, unless its answer was on its way already when one of them was: then
\* it is believed for five minutes (useDashboard.ts 38, 47).
Fresh == query.data # None /\ ~ query.old /\ query.fetch = "no"
ListCurrent ==
  Fresh /\ "data" \notin crossed /\ InStep =>
    /\ \A k \in made : keys[k].live => k \in query.data
    /\ unmade \cap query.data = {}

\* "Copy your API key now": the key that was created stays on its way to the screen
\* until its page is left, its answer is lost or it was shown; that the list it waits for
\* fails is no reason (CreateKeyModal.tsx 22-53).
KeyIsShown ==
  [][\A k \in Awaited \ Awaited' :
       \/ page' # page \/ Load(page)
       \/ view.open /\ view.plain = k
       \/ \E c \in Calls : calls[c] # None /\ calls[c].key = k /\ Fails(c)]_vars

\* The list and the plaintext on the screen are of the user who is shown, as long as the
\* page is in step with the session: whatever was on its way when a session ended, was
\* lost or was replaced comes to nothing (AuthProvider.tsx 21-42).
OneUser ==
  user # None /\ InStep =>
    /\ query.data # None => \A k \in query.data : keys[k].owner = user
    /\ view.plain # None => keys[view.plain].owner = user

\* The card on the screen is the answer to what was submitted last, and is gone with
\* the tab (LookupPage.tsx 10, 38, 63).
ResultOfLatest == view.result # None => view.result = view.asked
=============================================================================
