---------------------------- MODULE KeyPagesProofs ----------------------------
(***************************************************************************)
(* Proofs about KeyPages, for any users, keys, numbers and calls under     *)
(* way.                                                                    *)
(***************************************************************************)
EXTENDS KeyPages, SequenceTheorems, TLAPS

USE DEF session, others, shown, storage, ghosts, list, told

-----------------------------------------------------------------------------
(* The invariant.                                                          *)

(* A creation has its key when it was served, a revocation that was served *)
(* has ended its key.  One modal at most waits, and it has nothing else.   *)
Mine(c) == calls[c] # None /\ calls[c].mine
Sound(c) ==
  calls[c] # None =>
    /\ calls[c].op = "create" =>
         /\ calls[c].at = "sent" <=> calls[c].key = None
         /\ calls[c].key # None => /\ calls[c].key \in DOMAIN keys
                                   /\ keys[calls[c].key].owner = calls[c].by
    /\ calls[c].op = "revoke" =>
         /\ ~ calls[c].mine /\ calls[c].at # "waiting"
         /\ calls[c].at = "ok" => calls[c].key \in DOMAIN keys /\ ~ keys[calls[c].key].live
    /\ calls[c].at = "waiting" => calls[c].mine
    /\ calls[c].mine => page = "keys" /\ view.loading /\ view.plain = None
Underway ==
  /\ \A c \in Calls : Sound(c)
  /\ \A c, d \in Calls : Mine(c) /\ Mine(d) => c = d

(* What a page shows belongs to it.                                        *)
Shown ==
  /\ view.open => page = "keys"
  /\ view.plain # None => page = "keys" /\ view.plain \in DOMAIN keys
  /\ signing = "form" => page \in Public
  /\ lookups # {} => page = "lookup" /\ view.loading
  /\ \A n \in lookups : n = view.asked
  /\ ResultOfLatest

(* What was told to the user is true, and a list is one of rows.           *)
RowsOf(q) ==
  /\ q.data # None => q.data \subseteq DOMAIN keys
  /\ q.read \subseteq DOMAIN keys
  /\ q.fetch # "read" => q.read = {}
Told ==
  /\ \A k \in made : keys[k].owner = user
  /\ \A k \in unmade : ~ keys[k].live
  /\ RowsOf(query)

(* Until somebody is shown there is no list, nor a modal or a call before  *)
(* the page is loaded.                                                     *)
Begun ==
  /\ starting # None \/ user = None => query = NoQuery
  /\ starting # None => /\ ~ view.open /\ view.plain = None
                        /\ \A c \in Calls : calls[c] = None

(* The stored token is that of the user who is shown, if there is one.     *)
Tokens == ~ behind /\ Whose # None => token \in {Whose, None}

(* In step, all that is shown and on its way is the user's.                *)
Owned ==
  /\ ~ strayed => (signing # "no" => query = NoQuery /\ page \in Public)
  /\ InStep =>
       /\ query.fetch # "no" => query.by \in {user, None}
       /\ \A k \in query.read : keys[k].owner = user
       /\ query.data # None => \A k \in query.data : keys[k].owner = user
Modal ==
  InStep =>
    /\ view.plain # None => keys[view.plain].owner = user
    /\ \A c \in Calls : Mine(c) => calls[c].by \in {user, None}

(* A list knows what was acknowledged, or will be fetched again.           *)
Knows(l) ==
  /\ \A k \in made : keys[k].live => k \in l
  /\ unmade \cap l = {}
Lists ==
  InStep =>
    /\ query.fetch = "read" /\ "fetch" \notin crossed => Knows(query.read)
    /\ query.data # None /\ ~ query.old /\ "data" \notin crossed => Knows(query.data)

IInv == TypeOK /\ Underway /\ Shown /\ Told /\ Begun /\ Tokens /\ Owned /\ Modal /\ Lists
-----------------------------------------------------------------------------
(* Lemmas about the operators.                                             *)

LEMMA NoneIs == None \notin Users /\ None \notin Key
BY KeyNoneAssumption

LEMMA KeysAre ==
  ASSUME KeysTypeOK
  PROVE  /\ Len(keys) \in Nat /\ DOMAIN keys = 1 .. Len(keys) /\ DOMAIN keys \subseteq Key
         /\ \A k \in DOMAIN keys : keys[k] \in [owner : Users, live : BOOLEAN]
<1>1. keys \in Seq([owner : Users, live : BOOLEAN]) /\ Len(keys) <= MaxKeys
  BY DEF KeysTypeOK
<1>2. /\ Len(keys) \in Nat /\ DOMAIN keys = 1 .. Len(keys)
      /\ keys \in [1 .. Len(keys) -> [owner : Users, live : BOOLEAN]]
  BY <1>1, LenProperties
<1> QED
  BY <1>1, <1>2, KeysAssumption DEF Key

LEMMA InsertIs ==
  ASSUME KeysTypeOK, NEW u \in Users, InsertKey(u)
  PROVE  /\ KeysTypeOK' /\ Len(keys) + 1 \in Key /\ Len(keys) + 1 \notin DOMAIN keys
         /\ DOMAIN keys' = DOMAIN keys \union {Len(keys) + 1}
         /\ \A k \in DOMAIN keys : keys'[k] = keys[k]
         /\ keys'[Len(keys) + 1] = [owner |-> u, live |-> TRUE]
<1> DEFINE S == [owner : Users, live : BOOLEAN]
           e == [owner |-> u, live |-> TRUE]
<1>1. keys \in Seq(S) /\ Len(keys) < MaxKeys /\ keys' = Append(keys, e) /\ e \in S
  BY DEF KeysTypeOK, InsertKey
<1>2. Len(keys) \in Nat /\ DOMAIN keys = 1 .. Len(keys) /\ MaxKeys \in Nat
  BY KeysAre, KeysAssumption
<1> HIDE DEF S, e
<1>3. /\ keys' \in Seq(S) /\ Len(keys') = Len(keys) + 1 /\ keys'[Len(keys) + 1] = e
      /\ \A k \in 1 .. Len(keys) : keys'[k] = keys[k]
  BY <1>1, <1>2, AppendProperties
<1>4. DOMAIN keys' = 1 .. Len(keys')
  BY <1>3, LenProperties
<1> QED
  BY <1>1, <1>2, <1>3, <1>4 DEF S, e, KeysTypeOK, Key

LEMMA RevokeIs ==
  ASSUME KeysTypeOK, NEW k \in DOMAIN keys, RevokeKey(k)
  PROVE  /\ KeysTypeOK' /\ DOMAIN keys' = DOMAIN keys /\ ~ keys'[k].live
         /\ \A j \in DOMAIN keys : /\ keys'[j].owner = keys[j].owner
                                   /\ keys'[j].live => keys[j].live
<1> DEFINE S == [owner : Users, live : BOOLEAN]
           e == [keys[k] EXCEPT !.live = FALSE]
<1>1. keys \in Seq(S) /\ keys' = [keys EXCEPT ![k] = e] /\ keys[k] \in S
  BY KeysAre DEF KeysTypeOK, RevokeKey
<1>2. Len(keys) \in Nat /\ DOMAIN keys = 1 .. Len(keys) /\ Len(keys) <= MaxKeys
  BY KeysAre DEF KeysTypeOK
<1>3. e \in S /\ e.owner = keys[k].owner /\ e.live = FALSE
  BY <1>1
<1> HIDE DEF S, e
<1>4. keys' \in Seq(S) /\ Len(keys') = Len(keys)
  BY <1>1, <1>2, <1>3, ExceptSeq
<1>5. DOMAIN keys' = DOMAIN keys /\ keys'[k] = e
      /\ \A j \in DOMAIN keys : j # k => keys'[j] = keys[j]
  BY <1>1
<1> QED
  BY <1>2, <1>3, <1>4, <1>5 DEF S, KeysTypeOK

LEMMA QueryTypes ==
  /\ NoQuery \in Query
  /\ \A q \in Query, u \in Users \union {None} : Asked(q, u) \in Query
  /\ \A p, s : \A q \in Query, u \in Users \union {None} : Observed(p, s, q, u) \in {q, Asked(q, u)}
BY DEF NoQuery, Query, Asked, Observed

LEMMA AskedIs ==
  ASSUME NEW q \in Query, NEW u
  PROVE  /\ Asked(q, u).data = q.data /\ Asked(q, u).old = q.old
         /\ Asked(q, u).fetch = "asked" /\ Asked(q, u).by = u /\ Asked(q, u).read = {}
BY DEF Query, Asked

LEMMA ObservedIs ==
  ASSUME NEW p, NEW s, NEW q, NEW u
  PROVE  \/ Observed(p, s, q, u) = q
         \/ p \in Listing /\ s = None /\ q.fetch = "no" /\ Observed(p, s, q, u) = Asked(q, u)
BY DEF Observed

\* What is invalidated is asked for again, or is known to have been read too early.
LEMMA InvalidateIs ==
  ASSUME query \in Query, Invalidate
  PROVE  /\ query'.data = query.data
         /\ query.data # None => query'.old
         /\ \/ Watched /\ query'.fetch = "asked" /\ query'.by = token /\ query'.read = {}
            \/ /\ query'.fetch = query.fetch /\ query'.by = query.by /\ query'.read = query.read
               /\ query.fetch # "no" => "fetch" \in crossed'
         /\ ~ Watched /\ query = NoQuery => query' = NoQuery
<1>1. CASE Restarts
  <2> DEFINE a == Asked(query, token)
  <2>1. query' = [a EXCEPT !.old = TRUE] /\ Watched
    BY <1>1 DEF Invalidate, Restarts
  <2>2. /\ query'.data = query.data /\ query'.old
        /\ query'.fetch = "asked" /\ query'.by = token /\ query'.read = {}
    BY <2>1 DEF Query, Asked
  <2> QED
    BY <2>1, <2>2
<1>2. CASE ~ Restarts
  <2>1. query' = [query EXCEPT !.old = query.data # None]
    BY <1>2 DEF Invalidate
  <2>2. /\ query'.data = query.data /\ (query.data # None => query'.old)
        /\ query'.fetch = query.fetch /\ query'.by = query.by /\ query'.read = query.read
    BY <2>1 DEF Query
  <2>3. query.fetch # "no" => "fetch" \in crossed'
    BY <1>2 DEF Invalidate, Restarts
  <2>4. ASSUME query = NoQuery PROVE query' = NoQuery
    <3>1. query.data = None
      BY <2>4 DEF NoQuery
    <3>2. query' = [query EXCEPT !.old = FALSE]
      BY <2>1, <3>1
    <3> QED
      BY <2>4, <3>2 DEF NoQuery
  <2> QED
    BY <2>2, <2>3, <2>4
<1> QED
  BY <1>1, <1>2

LEMMA MountedType == \A p, h : h \in BOOLEAN => Mounted(p, h) \in Views
BY DEF Mounted, Views

LEMMA PagesAre == Public \subseteq Pages /\ Listing \subseteq Pages /\ Public \intersect Listing = {}
BY DEF Public, Listing, Pages

\* The calls of a page that is left.
LEMMA DetachedIs ==
  ASSUME calls \in [Calls -> Call \union {None}]
  PROVE  /\ Detached \in [Calls -> Call \union {None}]
         /\ \A c \in Calls :
              \/ Detached[c] = None
              \/ /\ calls[c] # None /\ Detached[c] = [calls[c] EXCEPT !.mine = FALSE]
                 /\ calls[c].at # "waiting" /\ Detached[c].mine = FALSE
BY DEF Detached, Waits, Call

LEMMA GotoTypes ==
  ASSUME TypeOK, NEW p \in Pages, NEW q \in Query, Goto(p, q),
         apiKey' \in BOOLEAN, token' \in Users \union {None}
  PROVE  /\ page' \in Pages /\ view' \in Views /\ query' \in Query
         /\ calls' \in [Calls -> Call \union {None}] /\ lookups' \subseteq Numbers
<1>1. query' \in Query
  BY QueryTypes DEF Goto
<1> QED
  BY <1>1, MountedType, DetachedIs DEF TypeOK, Goto

LEMMA LoadTypes ==
  ASSUME TypeOK, NEW p \in Pages, Load(p)
  PROVE  TypeOK'
<1>1. page' \in Pages /\ (token = None => page' \in Public)
  BY DEF Load, Route, Pages, Public
<1>2. view' \in Views
  BY MountedType DEF TypeOK, Load
<1>3. query' \in Query
  BY QueryTypes DEF Load
<1>4. calls' \in [Calls -> Call \union {None}]
  BY DEF Load
<1> QED
  BY <1>1, <1>2, <1>3, <1>4 DEF TypeOK, Load, KeysTypeOK

LEMMA InvalidateTypes ==
  ASSUME TypeOK, Invalidate
  PROVE  query' \in Query /\ crossed' \subseteq {"fetch", "data"}
<1>1. query \in Query /\ token \in Users \union {None} /\ crossed \subseteq {"fetch", "data"}
  BY DEF TypeOK
<1>2. Asked(query, token) \in Query
  BY <1>1, QueryTypes
<1>3. query' \in Query
  BY <1>1, <1>2 DEF Invalidate, Query
<1> QED
  BY <1>1, <1>3 DEF Invalidate

\* Of those that wait there is one at most, and it is shown.
LEMMA ShowKeyIs ==
  ASSUME TypeOK, Underway, NEW cs \in [Calls -> Call \union {None}], ShowKey(cs)
  PROVE  \/ /\ \A c \in Calls : ~ Waits(c)
            /\ view' = view /\ calls' = cs
         \/ \E w \in Calls :
              /\ Waits(w) /\ \A c \in Calls : Waits(c) => c = w
              /\ view' = [view EXCEPT !.loading = FALSE, !.plain = calls[w].key]
              /\ calls' = [cs EXCEPT ![w] = None]
<1> DEFINE W == {c \in Calls : Waits(c)}
<1>0. /\ view' = IF W = {} THEN view
                 ELSE [view EXCEPT !.loading = FALSE, !.plain = calls[CHOOSE c \in W : TRUE].key]
      /\ calls' = [c \in Calls |-> IF c \in W THEN None ELSE cs[c]]
  BY DEF ShowKey
<1>1. \A c, d \in W : c = d
  BY DEF Underway, Sound, Mine, Waits
<1>2. CASE W = {}
  BY <1>0, <1>2
<1>3. CASE W # {}
  <2> DEFINE w == CHOOSE c \in W : TRUE
  <2>1. w \in W
    BY <1>3
  <2>2. view' = [view EXCEPT !.loading = FALSE, !.plain = calls[w].key]
    BY <1>0, <1>3
  <2> HIDE DEF w
  <2>3. calls' = [cs EXCEPT ![w] = None]
    BY <1>0, <1>1, <2>1
  <2> QED
    BY <1>1, <2>1, <2>2, <2>3
<1> QED
  BY <1>2, <1>3

LEMMA ShowKeyTypes ==
  ASSUME TypeOK, Underway, NEW cs \in [Calls -> Call \union {None}], ShowKey(cs)
  PROVE  view' \in Views /\ calls' \in [Calls -> Call \union {None}]
<1>1. view \in Views /\ calls \in [Calls -> Call \union {None}]
  BY DEF TypeOK
<1>2. \A w \in Calls : Waits(w) => calls[w].key \in Key \union {None}
  BY <1>1 DEF Waits, Call
<1>3. CASE view' = view /\ calls' = cs
  BY <1>1, <1>3
<1>4. ASSUME NEW w \in Calls, Waits(w), calls' = [cs EXCEPT ![w] = None],
             view' = [view EXCEPT !.loading = FALSE, !.plain = calls[w].key]
      PROVE  view' \in Views /\ calls' \in [Calls -> Call \union {None}]
  <2>1. view' \in Views
    BY <1>1, <1>2, <1>4 DEF Views
  <2>2. calls' \in [Calls -> Call \union {None}]
    BY <1>4
  <2> QED
    BY <2>1, <2>2
<1> QED
  BY <1>3, <1>4, ShowKeyIs
-----------------------------------------------------------------------------
(* Types.                                                                  *)

LEMMA TypeStep == IInv /\ [Next]_vars => TypeOK'
<1> SUFFICES ASSUME IInv, [Next]_vars PROVE TypeOK'
  OBVIOUS
<1>0. /\ TypeOK /\ Underway /\ Shown /\ Told
      /\ KeysTypeOK /\ user \in Users \union {None} /\ starting \in Users \union {None}
      /\ signing \in {"no", "form", "left"} /\ token \in Users \union {None}
      /\ apiKey \in BOOLEAN /\ page \in Pages
      /\ user = None /\ starting = None => page \in Public
      /\ view \in Views /\ query \in Query
      /\ calls \in [Calls -> Call \union {None}] /\ lookups \subseteq Numbers
      /\ made \subseteq DOMAIN keys /\ unmade \subseteq DOMAIN keys
      /\ crossed \subseteq {"fetch", "data"} /\ strayed \in BOOLEAN /\ behind \in BOOLEAN
  BY DEF IInv, TypeOK
<1> USE NoneIs
\* The keys, who is shown and what was told stay.
<1>Still. ASSUME UNCHANGED <<keys, user, starting, told, strayed, page>>,
                 signing' \in {"no", "form", "left"}, apiKey' \in BOOLEAN,
                 token' \in Users \union {None}, behind' \in BOOLEAN,
                 view' \in Views, query' \in Query, crossed' \subseteq {"fetch", "data"},
                 calls' \in [Calls -> Call \union {None}], lookups' \subseteq Numbers
          PROVE  TypeOK'
  BY <1>0, <1>Still DEF TypeOK, KeysTypeOK
<1>Stutter. CASE UNCHANGED vars
  BY <1>0, <1>Still, <1>Stutter DEF vars
<1>Navigate. ASSUME NEW p \in Pages, Navigate(p) PROVE TypeOK'
  <2>1. user = None /\ starting = None => p \in Public
    BY <1>Navigate DEF Navigate, Route, Public
  <2>2. Goto(p, query) /\ UNCHANGED <<token, apiKey>>
    BY <1>Navigate DEF Navigate
  <2>3. /\ view' \in Views /\ query' \in Query /\ page' = p
        /\ calls' \in [Calls -> Call \union {None}] /\ lookups' \subseteq Numbers
    BY <1>0, <2>2, GotoTypes DEF Goto
  <2> QED
    BY <1>0, <1>Navigate, <2>1, <2>3 DEF Navigate, Crossed, TypeOK, KeysTypeOK
<1>Load. ASSUME NEW p \in Pages, Load(p) PROVE TypeOK'
  BY <1>0, <1>Load, LoadTypes
<1>Loaded. CASE Loaded
  <2> DEFINE r == Route(page, user', None)
  <2>1. UNCHANGED <<keys, signing, token, apiKey, strayed, behind>> /\ starting' = None
        /\ user' \in Users \union {None} /\ made' = {} /\ unmade' = {}
    BY <1>0, <1>Loaded DEF Loaded
  <2>2. r \in Pages /\ (user' = None => r \in Public)
    BY <1>0 DEF Route, Pages, Public
  <2>3. /\ page' \in Pages /\ (user' = None => page' \in Public) /\ view' \in Views /\ query' \in Query
        /\ calls' \in [Calls -> Call \union {None}] /\ lookups' \subseteq Numbers
    <3>1. CASE page \in Public
      BY <1>0, <1>Loaded, <3>1 DEF Loaded
    <3>2. CASE page \notin Public
      <4>1. Goto(r, query)
        BY <1>Loaded, <3>2 DEF Loaded
      <4> QED
        BY <1>0, <2>1, <2>2, <4>1, GotoTypes DEF Goto
    <3> QED
      BY <3>1, <3>2
  <2> QED
    BY <1>0, <1>Loaded, <2>1, <2>3 DEF Loaded, Crossed, TypeOK, KeysTypeOK
<1>SignIn. CASE SignIn
  <2>1. UNCHANGED <<keys, user, starting, token, behind, page, calls, lookups, told>> /\ apiKey' = FALSE
        /\ query' = NoQuery /\ signing' = "form" /\ strayed' = FALSE /\ crossed' = {}
        /\ view' = [view EXCEPT !.loading = TRUE]
    BY <1>SignIn DEF SignIn, ClearSessionState, Cleared
  <2>2. view' \in Views
    BY <1>0, <2>1 DEF Views
  <2> QED
    BY <1>0, <2>1, <2>2, QueryTypes DEF TypeOK, KeysTypeOK
<1>SignedIn. ASSUME NEW u \in Users, SignedIn(u) PROVE TypeOK'
  <2>1. "dashboard" \in Pages /\ token' \in Users /\ UNCHANGED apiKey
    BY <1>SignedIn DEF Pages, Listing, SignedIn
  <2>2. /\ page' \in Pages /\ view' \in Views /\ query' \in Query
        /\ calls' \in [Calls -> Call \union {None}] /\ lookups' \subseteq Numbers
    <3>1. CASE page = "dashboard"
      BY <1>0, <1>SignedIn, <3>1 DEF SignedIn
    <3>2. CASE Goto("dashboard", query)
      BY <1>0, <2>1, <3>2, GotoTypes
    <3> QED
      BY <1>SignedIn, <3>1, <3>2 DEF SignedIn
  <2> QED
    BY <1>0, <1>SignedIn, <2>2 DEF SignedIn, Crossed, TypeOK, KeysTypeOK
<1>SignInFails. CASE SignInFails
  <2>1. view' \in Views
    BY <1>0, <1>SignInFails DEF SignInFails, Views
  <2> QED
    BY <1>0, <1>Still, <1>SignInFails, <2>1 DEF SignInFails
<1>SignedOut. CASE SignedOut
  <2>1. "login" \in Public /\ "login" \in Pages
    BY DEF Pages, Public
  <2>2. /\ page' = "login" /\ view' \in Views /\ query' \in Query
        /\ calls' \in [Calls -> Call \union {None}] /\ lookups' \subseteq Numbers
    <3>1. CASE page = "login"
      BY <1>0, <1>SignedOut, <3>1, QueryTypes DEF SignedOut, Cleared
    <3>2. CASE Goto("login", Cleared)
      <4>1. token' = None /\ apiKey' = FALSE
        BY <1>SignedOut DEF SignedOut, ClearSessionState
      <4> QED
        BY <1>0, <2>1, <3>2, <4>1, GotoTypes, QueryTypes DEF Goto, Cleared
    <3> QED
      BY <1>SignedOut, <3>1, <3>2 DEF SignedOut
  <2>3. signing' \in {"no", "form", "left"}
    BY <1>0, <1>SignedOut DEF SignedOut
  <2> QED
    BY <1>0, <1>SignedOut, <2>1, <2>2, <2>3 DEF SignedOut, ClearSessionState, TypeOK, KeysTypeOK
<1>Elsewhere. ASSUME NEW u \in Users \union {None}, Elsewhere(u) PROVE TypeOK'
  BY <1>0, <1>Still, <1>Elsewhere DEF Elsewhere
<1>Refetch. CASE Refetch
  BY <1>0, <1>Still, <1>Refetch, QueryTypes DEF Refetch
<1>ListRead. CASE ListRead
  <2>1. Listed(query.by) \subseteq Key
    BY <1>0, KeysAre DEF Listed
  <2>2. query' \in Query
    BY <1>0, <1>ListRead, <2>1 DEF ListRead, Query
  <2> QED
    BY <1>0, <1>Still, <1>ListRead, <2>2 DEF ListRead
<1>ListResent. CASE ListResent
  <2>1. token' \in Users \union {None} /\ query' = [query EXCEPT !.by = token']
    BY <1>0, <1>ListResent DEF ListResent, SessionLost
  <2>2. query' \in Query
    BY <1>0, <2>1 DEF Query
  <2> QED
    BY <1>0, <1>Still, <1>ListResent, <2>1, <2>2 DEF ListResent
<1>ListLoaded. CASE ListLoaded
  <2>1. query' \in Query
    BY <1>0, <1>ListLoaded DEF ListLoaded, Query, NoQuery
  <2>2. view' \in Views /\ calls' \in [Calls -> Call \union {None}]
    BY <1>0, <1>ListLoaded, ShowKeyTypes DEF ListLoaded
  <2> QED
    BY <1>0, <1>Still, <1>ListLoaded, <2>1, <2>2 DEF ListLoaded
<1>ListFails. CASE ListFails
  <2>1. query' \in Query
    BY <1>0, <1>ListFails DEF ListFails, Query
  <2>2. view' \in Views /\ calls' \in [Calls -> Call \union {None}]
    BY <1>0, <1>ListFails, ShowKeyTypes DEF ListFails
  <2> QED
    BY <1>0, <1>Still, <1>ListFails, <2>1, <2>2 DEF ListFails
<1>Forget. CASE Forget
  BY <1>0, <1>Still, <1>Forget, QueryTypes DEF Forget
\* What changes the page's state only.
<1>View. ASSUME OpenModal \/ CloseModal \/ SaveKey \/ RemoveKey \/ ChangeTab \/ SubmitJob
                \/ JobRefused \/ \E n \in Numbers : Lookup(n) \/ LookedUp(n)
         PROVE  TypeOK'
  <2>1. UNCHANGED <<keys, user, starting, told, strayed, behind, page, query, crossed, calls, signing>>
        /\ apiKey' \in BOOLEAN /\ lookups' \subseteq Numbers /\ token' \in Users \union {None}
    BY <1>0, <1>View DEF OpenModal, CloseModal, SaveKey, RemoveKey, ChangeTab, ResetLookup,
                        SubmitJob, JobRefused, SessionLost, Lookup, LookedUp
  <2>2. view' \in Views
    <3>1. CASE OpenModal \/ CloseModal
      BY <1>0, <3>1 DEF OpenModal, CloseModal, Views
    <3>2. CASE SaveKey \/ RemoveKey
      BY <1>0, <3>2 DEF SaveKey, RemoveKey, Views
    <3>3. CASE ChangeTab
      BY <1>0, <3>3 DEF ChangeTab, Views
    <3>4. CASE SubmitJob \/ JobRefused
      BY <1>0, <3>4 DEF SubmitJob, JobRefused, Views
    <3>5. ASSUME NEW n \in Numbers, Lookup(n) PROVE view' \in Views
      BY <1>0, <3>5 DEF Lookup, Views
    <3>6. ASSUME NEW n \in Numbers, LookedUp(n) PROVE view' \in Views
      BY <1>0, <3>6 DEF LookedUp, Views
    <3> QED
      BY <1>View, <3>1, <3>2, <3>3, <3>4, <3>5, <3>6
  <2> QED
    BY <1>0, <1>Still, <2>1, <2>2
<1>CreateKey. ASSUME NEW c \in Calls, CreateKey(c) PROVE TypeOK'
  <2>1. calls' = [calls EXCEPT ![c] = [op |-> "create", by |-> token, key |-> None,
                                       at |-> "sent", mine |-> TRUE]]
    BY <1>CreateKey DEF CreateKey, Send
  <2>2. calls' \in [Calls -> Call \union {None}]
    BY <1>0, <2>1 DEF Call
  <2>3. view' \in Views
    BY <1>0, <1>CreateKey DEF CreateKey, Views
  <2> QED
    BY <1>0, <1>Still, <1>CreateKey, <2>2, <2>3 DEF CreateKey
<1>Revoke. ASSUME NEW c \in Calls, NEW k \in Key, Revoke(c, k) PROVE TypeOK'
  <2>1. calls' = [calls EXCEPT ![c] = [op |-> "revoke", by |-> token, key |-> k,
                                       at |-> "sent", mine |-> FALSE]]
    BY <1>Revoke DEF Revoke, Send
  <2>2. calls' \in [Calls -> Call \union {None}]
    BY <1>0, <2>1 DEF Call
  <2> QED
    BY <1>0, <1>Still, <1>Revoke, <2>2 DEF Revoke
<1>ServeCreate. ASSUME NEW c \in Calls, ServeCreate(c) PROVE TypeOK'
  <2>1. calls[c] \in Call /\ calls[c].by \in Users
    BY <1>0, <1>ServeCreate DEF ServeCreate, Is, Call
  <2>2. KeysTypeOK' /\ Len(keys) + 1 \in Key /\ DOMAIN keys \subseteq DOMAIN keys'
    BY <1>0, <1>ServeCreate, <2>1, InsertIs DEF ServeCreate
  <2>3. calls' \in [Calls -> Call \union {None}]
    BY <1>0, <1>ServeCreate, <2>1, <2>2 DEF ServeCreate, Call
  <2> QED
    BY <1>0, <1>ServeCreate, <2>2, <2>3 DEF ServeCreate, TypeOK
<1>ServeRevoke. ASSUME NEW c \in Calls, ServeRevoke(c) PROVE TypeOK'
  <2>1. calls[c].key \in DOMAIN keys
    BY <1>ServeRevoke DEF ServeRevoke, Revocable, Listed
  <2>2. KeysTypeOK' /\ DOMAIN keys = DOMAIN keys'
    BY <1>0, <1>ServeRevoke, <2>1, RevokeIs DEF ServeRevoke
  <2>3. calls' \in [Calls -> Call \union {None}]
    BY <1>0, <1>ServeRevoke DEF ServeRevoke, Is, Call
  <2> QED
    BY <1>0, <1>ServeRevoke, <2>2, <2>3 DEF ServeRevoke, TypeOK
<1>Without. ASSUME NEW c \in Calls PROVE Without(c) \in [Calls -> Call \union {None}]
  BY <1>0 DEF Without
<1>Created. ASSUME NEW c \in Calls, Created(c) PROVE TypeOK'
  <2>1. query' \in Query /\ crossed' \subseteq {"fetch", "data"}
    BY <1>0, <1>Created, InvalidateTypes DEF Created
  <2>2. calls' \in [Calls -> Call \union {None}]
    <3>1. calls[c] \in Call
      BY <1>0, <1>Created DEF Created, Is
    <3>2. [calls[c] EXCEPT !.at = "waiting"] \in Call
      BY <3>1 DEF Call
    <3>3. CASE calls[c].mine
      BY <1>0, <1>Created, <3>2, <3>3 DEF Created
    <3>4. CASE ~ calls[c].mine
      BY <1>Created, <1>Without, <3>4 DEF Created
    <3> QED
      BY <3>3, <3>4
  <2>3. calls[c].key \in DOMAIN keys
    BY <1>0, <1>Created DEF Created, Is, Underway, Sound
  <2> QED
    BY <1>0, <1>Created, <2>1, <2>2, <2>3 DEF Created, TypeOK, KeysTypeOK
<1>Revoked. ASSUME NEW c \in Calls, Revoked(c) PROVE TypeOK'
  <2>1. query' \in Query /\ crossed' \subseteq {"fetch", "data"}
    BY <1>0, <1>Revoked, InvalidateTypes DEF Revoked
  <2>2. calls' \in [Calls -> Call \union {None}] /\ view' \in Views
    BY <1>0, <1>Revoked, <1>Without, ShowKeyTypes DEF Revoked
  <2>3. calls[c].key \in DOMAIN keys
    BY <1>0, <1>Revoked DEF Revoked, Is, Underway, Sound
  <2> QED
    BY <1>0, <1>Revoked, <2>1, <2>2, <2>3 DEF Revoked, TypeOK, KeysTypeOK
<1>Resent. ASSUME NEW c \in Calls, Resent(c) PROVE TypeOK'
  <2>1. calls[c] \in Call /\ calls' = [calls EXCEPT ![c].by = token]
    BY <1>0, <1>Resent DEF Resent
  <2>2. calls' \in [Calls -> Call \union {None}]
    BY <1>0, <2>1 DEF Call
  <2> QED
    BY <1>0, <1>Still, <1>Resent, <2>2 DEF Resent
<1>Fails. ASSUME NEW c \in Calls, Fails(c) PROVE TypeOK'
  <2>1. view' \in Views /\ token' \in Users \union {None}
    BY <1>0, <1>Fails DEF Fails, SessionLost, Views
  <2> QED
    BY <1>0, <1>Still, <1>Fails, <1>Without, <2>1 DEF Fails
<1> QED
  BY <1>Stutter, <1>Navigate, <1>Load, <1>Loaded, <1>SignIn, <1>SignedIn, <1>SignInFails,
     <1>SignedOut, <1>Elsewhere, <1>Refetch, <1>ListRead, <1>ListResent, <1>ListLoaded,
     <1>ListFails, <1>Forget, <1>View, <1>CreateKey, <1>Revoke, <1>ServeCreate,
     <1>ServeRevoke, <1>Created, <1>Revoked, <1>Resent, <1>Fails DEF Next, Serve, Settle
-----------------------------------------------------------------------------
(* Calls under way, and what the page shows.                               *)

Grown ==
  \A k \in DOMAIN keys : /\ k \in DOMAIN keys' /\ keys'[k].owner = keys[k].owner
                         /\ keys'[k].live => keys[k].live

\* One call changes, the others keep what they wait for.
LEMMA OneChanges ==
  ASSUME TypeOK, Underway, Grown, NEW c \in Calls, NEW v, calls' = [calls EXCEPT ![c] = v],
         Sound(c)', Mine(c)' => \A d \in Calls : Mine(d) => d = c,
         \A d \in Calls : d # c /\ Mine(d) => page' = "keys" /\ view'.loading /\ view'.plain = None
  PROVE  Underway'
<1>0. calls \in [Calls -> Call \union {None}]
  BY DEF TypeOK
<1>1. \A d \in Calls : d # c => calls'[d] = calls[d]
  BY <1>0
<1>2. ASSUME NEW d \in Calls, d # c PROVE Sound(d)'
  <2>1. Sound(d) /\ calls'[d] = calls[d]
        /\ (Mine(d) => page' = "keys" /\ view'.loading /\ view'.plain = None)
    BY <1>1, <1>2 DEF Underway
  <2> QED
    BY <2>1 DEF Sound, Grown, Mine
<1>3. \A d, e \in Calls : (Mine(d) /\ Mine(e) => d = e)'
  BY <1>1 DEF Underway, Mine
<1> QED
  BY <1>2, <1>3 DEF Underway

LEMMA NoneChanges ==
  ASSUME TypeOK, Underway, UNCHANGED <<keys, calls>>,
         \A d \in Calls : Mine(d) => page' = "keys" /\ view'.loading /\ view'.plain = None
  PROVE  Underway'
BY DEF Underway, Sound, Mine

LEMMA DetachedUnderway ==
  ASSUME TypeOK, Underway, UNCHANGED keys, calls' = Detached
  PROVE  Underway'
<1>0. calls \in [Calls -> Call \union {None}]
  BY DEF TypeOK
<1>1. ASSUME NEW c \in Calls PROVE ~ Mine(c)' /\ Sound(c)'
  <2>1. \/ calls'[c] = None
        \/ /\ calls[c] # None /\ calls'[c] = [calls[c] EXCEPT !.mine = FALSE]
           /\ calls[c].at # "waiting" /\ calls'[c].mine = FALSE
    BY <1>0, DetachedIs
  <2>2. CASE calls'[c] = None
    BY <2>2 DEF Mine, Sound
  <2>3. CASE /\ calls[c] # None /\ calls'[c] = [calls[c] EXCEPT !.mine = FALSE]
             /\ calls[c].at # "waiting" /\ calls'[c].mine = FALSE
    <3>1. calls[c] \in Call
      BY <1>0, <2>3
    <3>2. /\ calls'[c].op = calls[c].op /\ calls'[c].at = calls[c].at
          /\ calls'[c].key = calls[c].key /\ calls'[c].by = calls[c].by
      BY <2>3, <3>1 DEF Call
    <3>3. Sound(c)
      BY DEF Underway
    <3> QED
      BY <2>3, <3>2, <3>3 DEF Sound, Mine
  <2> QED
    BY <2>1, <2>2, <2>3
<1> QED
  BY <1>1 DEF Underway

LEMMA UnderwayStep == IInv /\ [Next]_vars => Underway'
<1> SUFFICES ASSUME IInv, [Next]_vars PROVE Underway'
  OBVIOUS
<1>0. /\ TypeOK /\ Underway /\ Shown /\ KeysTypeOK
      /\ view \in Views /\ calls \in [Calls -> Call \union {None}]
  BY DEF IInv, TypeOK
<1>1. /\ \A c \in Calls : Sound(c)
      /\ \A c \in Calls : Mine(c) => page = "keys" /\ view.loading /\ view.plain = None
      /\ \A c, d \in Calls : Mine(c) /\ Mine(d) => c = d
  BY <1>0 DEF Underway, Sound, Mine
<1> USE NoneIs
<1>Still. CASE UNCHANGED <<keys, calls, page, view>>
  BY <1>0, <1>1, <1>Still, NoneChanges
<1>Away. ASSUME NEW p, NEW q, Goto(p, q), UNCHANGED keys PROVE Underway'
  BY <1>0, <1>Away, DetachedUnderway DEF Goto
<1>Load. ASSUME NEW p \in Pages, Load(p) PROVE Underway'
  <2>1. \A c \in Calls : calls'[c] = None
    BY <1>Load DEF Load
  <2> QED
    BY <2>1 DEF Underway, Sound, Mine
<1>Navigate. ASSUME NEW p \in Pages, Navigate(p) PROVE Underway'
  BY <1>Away, <1>Navigate DEF Navigate
<1>Loaded. CASE Loaded
  BY <1>Still, <1>Away, <1>Loaded DEF Loaded
<1>SignIn. CASE SignIn
  <2>1. page # "keys" /\ UNCHANGED <<keys, calls>>
    BY <1>SignIn DEF SignIn, LoginForm, RegisterForm
  <2> QED
    BY <1>0, <1>1, <2>1, NoneChanges
<1>SignedIn. ASSUME NEW u \in Users, SignedIn(u) PROVE Underway'
  BY <1>Still, <1>Away, <1>SignedIn DEF SignedIn
<1>SignInFails. CASE SignInFails
  <2>1. signing = "form" => page # "keys"
    BY <1>0 DEF Shown, Public
  <2>2. UNCHANGED <<keys, calls, page>> /\ (signing # "form" => view' = view)
    BY <1>SignInFails DEF SignInFails
  <2> QED
    BY <1>0, <1>1, <2>1, <2>2, NoneChanges
<1>SignedOut. CASE SignedOut
  BY <1>Still, <1>Away, <1>SignedOut DEF SignedOut
<1>Quiet. CASE Refetch \/ ListRead \/ ListResent \/ Forget \/ \E u \in Users \union {None} : Elsewhere(u)
  BY <1>Still, <1>Quiet DEF Refetch, ListRead, ListResent, Forget, Elsewhere
\* The one that waited is gone, and nobody else was this page's.
<1>ShowKey. ASSUME NEW w \in Calls, Waits(w), UNCHANGED <<keys, page>>,
                   calls' = [calls EXCEPT ![w] = None]
            PROVE  Underway'
  <2>1. Mine(w) /\ ~ Mine(w)' /\ Sound(w)'
    BY <1>0, <1>1, <1>ShowKey DEF Waits, Sound, Mine
  <2> QED
    BY <1>0, <1>1, <1>ShowKey, <2>1, OneChanges DEF Grown
<1>Listed. CASE ListLoaded \/ ListFails
  <2>1. ShowKey(calls) /\ UNCHANGED <<keys, page>>
    BY <1>Listed DEF ListLoaded, ListFails
  <2> QED
    BY <1>0, <1>Still, <1>ShowKey, <2>1, ShowKeyIs
<1>View. CASE OpenModal \/ CloseModal \/ SaveKey \/ RemoveKey \/ SubmitJob \/ JobRefused
  <2>1. UNCHANGED <<keys, calls, page>>
    BY <1>View DEF OpenModal, CloseModal, SaveKey, RemoveKey, SubmitJob, JobRefused
  <2>2. view'.loading = view.loading /\ view'.plain \in {view.plain, None}
    <3>1. CASE OpenModal \/ CloseModal
      BY <1>0, <3>1 DEF OpenModal, CloseModal, Views
    <3>2. CASE SaveKey \/ RemoveKey
      BY <1>0, <3>2 DEF SaveKey, RemoveKey, Views
    <3>3. CASE SubmitJob \/ JobRefused
      BY <1>0, <3>3 DEF SubmitJob, JobRefused, Views
    <3> QED
      BY <1>View, <3>1, <3>2, <3>3
  <2> QED
    BY <1>0, <1>1, <2>1, <2>2, NoneChanges
<1>Lookup. CASE ChangeTab \/ \E n \in Numbers : Lookup(n) \/ LookedUp(n)
  <2>1. page # "keys" /\ UNCHANGED <<keys, calls>>
    BY <1>0, <1>Lookup DEF Shown, ChangeTab, Lookup, LookedUp, At
  <2> QED
    BY <1>0, <1>1, <2>1, NoneChanges
<1>CreateKey. ASSUME NEW c \in Calls, CreateKey(c) PROVE Underway'
  <2> DEFINE v == [op |-> "create", by |-> token, key |-> None, at |-> "sent", mine |-> TRUE]
  <2>1. calls[c] = None /\ calls' = [calls EXCEPT ![c] = v] /\ UNCHANGED <<keys, page>>
        /\ view' = [view EXCEPT !.loading = TRUE] /\ view.open
    BY <1>CreateKey DEF CreateKey, Send
  <2>2. view.plain = None /\ ~ view.loading
    BY <1>CreateKey DEF CreateKey, ModalControls
  <2>3. page = "keys"
    BY <1>0, <2>1 DEF Shown
  <2>4. view'.loading /\ view'.plain = None
    BY <1>0, <2>1, <2>2 DEF Views
  <2>5. \A d \in Calls : ~ Mine(d)
    BY <1>1, <2>2
  <2>6. calls'[c] = v
    BY <1>0, <2>1
  <2>7. Sound(c)'
    BY <2>1, <2>3, <2>4, <2>6 DEF Sound
  <2> QED
    BY <1>0, <2>1, <2>5, <2>7, OneChanges DEF Grown
<1>Revoke. ASSUME NEW c \in Calls, NEW k \in Key, Revoke(c, k) PROVE Underway'
  <2> DEFINE v == [op |-> "revoke", by |-> token, key |-> k, at |-> "sent", mine |-> FALSE]
  <2>1. calls' = [calls EXCEPT ![c] = v] /\ UNCHANGED <<keys, page, view>>
    BY <1>Revoke DEF Revoke, Send
  <2>2. calls'[c] = v
    BY <1>0, <2>1
  <2>3. Sound(c)' /\ ~ Mine(c)'
    BY <2>2 DEF Sound, Mine
  <2> QED
    BY <1>0, <1>1, <2>1, <2>3, OneChanges DEF Grown
<1>ServeCreate. ASSUME NEW c \in Calls, ServeCreate(c) PROVE Underway'
  <2> DEFINE v == [calls[c] EXCEPT !.at = "ok", !.key = Len(keys) + 1]
  <2>1. /\ calls[c] \in Call /\ calls[c] # None /\ calls[c].op = "create"
        /\ calls[c].by # None /\ InsertKey(calls[c].by)
        /\ calls' = [calls EXCEPT ![c] = v] /\ UNCHANGED <<page, view>>
    BY <1>0, <1>ServeCreate DEF ServeCreate, Is
  <2>2. /\ Len(keys) + 1 \in Key /\ DOMAIN keys' = DOMAIN keys \union {Len(keys) + 1}
        /\ \A k \in DOMAIN keys : keys'[k] = keys[k]
        /\ keys'[Len(keys) + 1].owner = calls[c].by
    <3>1. calls[c].by \in Users /\ InsertKey(calls[c].by)
      BY <2>1 DEF Call
    <3>2. /\ Len(keys) + 1 \in Key /\ DOMAIN keys' = DOMAIN keys \union {Len(keys) + 1}
          /\ \A k \in DOMAIN keys : keys'[k] = keys[k]
      BY <1>0, <3>1, InsertIs
    <3>3. keys'[Len(keys) + 1] = [owner |-> calls[c].by, live |-> TRUE]
      BY <1>0, <3>1, InsertIs
    <3> QED
      BY <3>2, <3>3
  <2>3. /\ v.op = "create" /\ v.at = "ok" /\ v.key = Len(keys) + 1 /\ v.by = calls[c].by
        /\ v.mine = calls[c].mine
    BY <2>1 DEF Call
  <2> HIDE DEF v
  <2>4. calls'[c] = v
    BY <1>0, <2>1
  <2>5. Sound(c)
    BY <1>1
  <2>6. Sound(c)'
    BY <2>1, <2>2, <2>3, <2>4, <2>5 DEF Sound
  <2>7. Mine(c)' => Mine(c)
    BY <2>1, <2>3, <2>4 DEF Mine
  <2> QED
    BY <1>0, <1>1, <2>1, <2>2, <2>6, <2>7, OneChanges DEF Grown
<1>ServeRevoke. ASSUME NEW c \in Calls, ServeRevoke(c) PROVE Underway'
  <2> DEFINE v == [calls[c] EXCEPT !.at = "ok"]
  <2>1. /\ calls[c] \in Call /\ calls[c] # None /\ calls[c].op = "revoke"
        /\ calls[c].key \in DOMAIN keys
        /\ RevokeKey(calls[c].key) /\ calls' = [calls EXCEPT ![c] = v] /\ UNCHANGED <<page, view>>
    BY <1>0, <1>ServeRevoke DEF ServeRevoke, Is, Revocable, Listed
  <2>2. /\ DOMAIN keys' = DOMAIN keys /\ ~ keys'[calls[c].key].live
        /\ \A k \in DOMAIN keys : /\ keys'[k].owner = keys[k].owner
                                  /\ keys'[k].live => keys[k].live
    BY <1>0, <2>1, RevokeIs
  <2>3. v.op = "revoke" /\ v.at = "ok" /\ v.key = calls[c].key /\ v.mine = calls[c].mine
    BY <2>1 DEF Call
  <2> HIDE DEF v
  <2>4. calls'[c] = v /\ ~ calls[c].mine
    BY <1>0, <1>1, <2>1 DEF Sound
  <2>5. Sound(c)' /\ ~ Mine(c)'
    BY <2>1, <2>2, <2>3, <2>4 DEF Sound, Mine
  <2> QED
    BY <1>0, <1>1, <2>1, <2>2, <2>5, OneChanges DEF Grown
<1>Resent. ASSUME NEW c \in Calls, Resent(c) PROVE Underway'
  <2> DEFINE v == [calls[c] EXCEPT !.by = token]
  <2>1. /\ calls[c] \in Call /\ calls[c] # None /\ calls[c].at = "sent"
        /\ calls' = [calls EXCEPT ![c] = v] /\ UNCHANGED <<keys, page, view>>
    BY <1>0, <1>Resent DEF Resent
  <2>2. v.op = calls[c].op /\ v.at = "sent" /\ v.key = calls[c].key /\ v.mine = calls[c].mine
    BY <2>1 DEF Call
  <2> HIDE DEF v
  <2>3. calls'[c] = v /\ Sound(c)
    BY <1>0, <1>1, <2>1
  <2>4. Sound(c)'
    BY <2>1, <2>2, <2>3 DEF Sound
  <2>5. Mine(c)' => Mine(c)
    BY <2>1, <2>2, <2>3 DEF Mine
  <2> QED
    BY <1>0, <1>1, <2>1, <2>4, <2>5, OneChanges DEF Grown
\* A call that is over.
<1>Over. ASSUME NEW c \in Calls, calls' = Without(c), UNCHANGED <<keys, page>>,
                view' = view \/ Mine(c)
         PROVE  Underway'
  <2>1. calls' = [calls EXCEPT ![c] = None] /\ calls'[c] = None
    BY <1>0, <1>Over DEF Without
  <2>2. Sound(c)' /\ ~ Mine(c)'
    BY <2>1 DEF Sound, Mine
  <2> QED
    BY <1>0, <1>1, <1>Over, <2>1, <2>2, OneChanges DEF Grown
<1>Created. ASSUME NEW c \in Calls, Created(c) PROVE Underway'
  <2>1. /\ calls[c] \in Call /\ calls[c] # None /\ calls[c].op = "create" /\ calls[c].at = "ok"
        /\ UNCHANGED <<keys, page, view>>
    BY <1>0, <1>Created DEF Created, Is
  <2>2. CASE calls[c].mine
    <3> DEFINE v == [calls[c] EXCEPT !.at = "waiting"]
    <3>1. calls' = [calls EXCEPT ![c] = v] /\ Mine(c)
      BY <1>Created, <2>1, <2>2 DEF Created, Mine
    <3>2. /\ v.op = "create" /\ v.at = "waiting" /\ v.key = calls[c].key /\ v.by = calls[c].by
          /\ v.mine = calls[c].mine
      BY <2>1 DEF Call
    <3> HIDE DEF v
    <3>3. calls'[c] = v /\ Sound(c)
      BY <1>0, <1>1, <3>1
    <3>4. Sound(c)'
      BY <2>1, <2>2, <3>2, <3>3 DEF Sound
    <3> QED
      BY <1>0, <1>1, <2>1, <3>1, <3>4, OneChanges DEF Grown
  <2>3. CASE ~ calls[c].mine
    BY <1>Over, <1>Created, <2>1, <2>3 DEF Created
  <2> QED
    BY <2>2, <2>3
<1>Revoked. ASSUME NEW c \in Calls, Revoked(c) PROVE Underway'
  <2>1. /\ calls[c] # None /\ calls[c].op = "revoke" /\ UNCHANGED <<keys, page>>
    BY <1>Revoked DEF Revoked, Is
  <2>2. CASE calls' = Without(c) /\ UNCHANGED view
    BY <1>Over, <2>1, <2>2
  <2>3. CASE ShowKey(Without(c))
    <3>1. Without(c) \in [Calls -> Call \union {None}]
      BY <1>0 DEF Without
    <3>2. CASE view' = view /\ calls' = Without(c)
      BY <2>2, <3>2
    <3>3. ASSUME NEW w \in Calls, Waits(w), calls' = [Without(c) EXCEPT ![w] = None]
          PROVE  Underway'
      <4>1. Mine(w) /\ ~ Mine(c)
        BY <1>1, <2>1, <3>3 DEF Waits, Mine, Sound
      <4>2. \A d \in Calls : calls'[d] = None \/ (~ Mine(d) /\ calls'[d] = calls[d])
        BY <1>0, <1>1, <3>3, <4>1 DEF Without
      <4>3. \A d \in Calls : Sound(d)' /\ ~ Mine(d)'
        BY <1>1, <2>1, <4>2 DEF Sound, Mine
      <4> QED
        BY <4>3 DEF Underway
    <3> QED
      BY <1>0, <2>3, <3>1, <3>2, <3>3, ShowKeyIs
  <2> QED
    BY <1>Revoked, <2>2, <2>3 DEF Revoked
<1>Fails. ASSUME NEW c \in Calls, Fails(c) PROVE Underway'
  <2>1. calls' = Without(c) /\ UNCHANGED <<keys, page>> /\ (view' = view \/ Mine(c))
    BY <1>Fails DEF Fails, Mine
  <2> QED
    BY <1>Over, <2>1
<1>Stutter. CASE UNCHANGED vars
  BY <1>Still, <1>Stutter DEF vars
<1> QED
  BY <1>Stutter, <1>Navigate, <1>Load, <1>Loaded, <1>SignIn, <1>SignedIn, <1>SignInFails,
     <1>SignedOut, <1>Quiet, <1>Listed, <1>View, <1>Lookup, <1>CreateKey, <1>Revoke,
     <1>ServeCreate, <1>ServeRevoke, <1>Created, <1>Revoked, <1>Resent, <1>Fails
     DEF Next, Serve, Settle

LEMMA GrownStep == TypeOK /\ [Next]_vars => Grown
<1> SUFFICES ASSUME TypeOK, [Next]_vars PROVE Grown
  OBVIOUS
<1>0. KeysTypeOK /\ calls \in [Calls -> Call \union {None}]
  BY DEF TypeOK
<1>1. CASE UNCHANGED keys
  BY <1>1 DEF Grown
<1>2. ASSUME NEW c \in Calls, ServeCreate(c) PROVE Grown
  <2>1. calls[c].by \in Users /\ InsertKey(calls[c].by)
    BY <1>0, <1>2 DEF ServeCreate, Is, Call
  <2>2. DOMAIN keys' = DOMAIN keys \union {Len(keys) + 1} /\ \A k \in DOMAIN keys : keys'[k] = keys[k]
    BY <1>0, <2>1, InsertIs
  <2> QED
    BY <2>2 DEF Grown
<1>3. ASSUME NEW c \in Calls, ServeRevoke(c) PROVE Grown
  <2>1. calls[c].key \in DOMAIN keys /\ RevokeKey(calls[c].key)
    BY <1>3 DEF ServeRevoke, Revocable, Listed
  <2> QED
    BY <1>0, <2>1, RevokeIs DEF Grown
<1>4. \/ UNCHANGED keys \/ \E c \in Calls : Serve(c)
  <2>1. CASE Loaded \/ \E p \in Pages : Navigate(p) \/ Load(p)
    BY <2>1 DEF Loaded, Navigate, Load
  <2>2. CASE \/ SignIn \/ SignInFails \/ SignedOut \/ \E u \in Users : SignedIn(u)
             \/ \E u \in Users \union {None} : Elsewhere(u)
    BY <2>2 DEF SignIn, SignInFails, SignedOut, SignedIn, Elsewhere
  <2>3. CASE Refetch \/ ListRead \/ ListResent \/ ListLoaded \/ ListFails \/ Forget
    BY <2>3 DEF Refetch, ListRead, ListResent, ListLoaded, ListFails, Forget
  <2>4. CASE OpenModal \/ CloseModal \/ SaveKey \/ RemoveKey \/ ChangeTab \/ SubmitJob \/ JobRefused
             \/ \E n \in Numbers : Lookup(n) \/ LookedUp(n)
    BY <2>4 DEF OpenModal, CloseModal, SaveKey, RemoveKey, ChangeTab, SubmitJob, JobRefused,
                Lookup, LookedUp
  <2>5. ASSUME NEW c \in Calls, CreateKey(c) \/ (\E k \in Key : Revoke(c, k)) \/ Resent(c) \/ Settle(c)
        PROVE  UNCHANGED keys
    BY <2>5 DEF CreateKey, Revoke, Resent, Settle, Created, Revoked, Fails
  <2>6. CASE UNCHANGED vars
    BY <2>6 DEF vars
  <2> QED
    BY <2>1, <2>2, <2>3, <2>4, <2>5, <2>6 DEF Next
<1> QED
  BY <1>1, <1>2, <1>3, <1>4 DEF Serve

\* What ShowKey shows.
LEMMA WaitsIs ==
  ASSUME TypeOK, Underway, NEW w \in Calls, Waits(w)
  PROVE  /\ Mine(w) /\ page = "keys" /\ calls[w].op = "create" /\ calls[w].key \in Key
         /\ calls[w].key \in DOMAIN keys /\ keys[calls[w].key].owner = calls[w].by
<1>1. calls[w] \in Call /\ Sound(w) /\ calls[w] # None /\ calls[w].at = "waiting"
  BY DEF TypeOK, Underway, Waits
<1>2. calls[w].op = "create" /\ calls[w].mine
  BY <1>1 DEF Sound, Call
<1> QED
  BY <1>1, <1>2 DEF Sound, Call, Mine

LEMMA ShownStep == IInv /\ [Next]_vars => Shown'
<1> SUFFICES ASSUME IInv, [Next]_vars PROVE Shown'
  OBVIOUS
<1>0. /\ TypeOK /\ Underway /\ Shown /\ Grown /\ view \in Views
      /\ calls \in [Calls -> Call \union {None}]
  BY GrownStep DEF IInv, TypeOK
<1>1. /\ view.open => page = "keys"
      /\ view.plain # None => page = "keys" /\ view.plain \in DOMAIN keys'
      /\ signing = "form" => page \in Public
      /\ lookups # {} => page = "lookup" /\ view.loading
      /\ \A n \in lookups : n = view.asked
      /\ view.result # None => view.result = view.asked
  BY <1>0 DEF Shown, ResultOfLatest, Grown
<1>Still. ASSUME UNCHANGED <<page, signing, lookups, view>> PROVE Shown'
  BY <1>1, <1>Still DEF Shown, ResultOfLatest
\* A page that has just been mounted.
<1>Anew. ASSUME NEW p, NEW h, view' = Mounted(p, h), lookups' = {},
                signing' = "form" => page' \in Public
         PROVE  Shown'
  BY <1>Anew DEF Shown, ResultOfLatest, Mounted
<1>Navigate. ASSUME NEW p \in Pages, Navigate(p) PROVE Shown'
  BY <1>Anew, <1>Navigate DEF Navigate, Goto
<1>Load. ASSUME NEW p \in Pages, Load(p) PROVE Shown'
  BY <1>Anew, <1>Load DEF Load
<1>Loaded. CASE Loaded
  <2>1. CASE page \in Public
    BY <1>Still, <1>Loaded, <2>1 DEF Loaded
  <2>2. CASE page \notin Public
    BY <1>1, <1>Anew, <1>Loaded, <2>2 DEF Loaded, Goto
  <2> QED
    BY <2>1, <2>2
<1>SignIn. CASE SignIn
  <2>1. page \in Public /\ page # "lookup" /\ UNCHANGED <<page, lookups>> /\ signing' = "form"
    BY <1>SignIn DEF SignIn, LoginForm, RegisterForm, Public
  <2>2. /\ view'.open = view.open /\ view'.plain = view.plain
        /\ view'.asked = view.asked /\ view'.result = view.result
    BY <1>0, <1>SignIn DEF SignIn, Views
  <2> QED
    BY <1>1, <2>1, <2>2 DEF Shown, ResultOfLatest
<1>SignedIn. ASSUME NEW u \in Users, SignedIn(u) PROVE Shown'
  <2>1. CASE page = "dashboard"
    <3>1. UNCHANGED <<page, view, lookups>> /\ signing' = "no"
      BY <1>SignedIn, <2>1 DEF SignedIn
    <3> QED
      BY <1>1, <3>1 DEF Shown, ResultOfLatest
  <2>2. CASE page # "dashboard"
    BY <1>Anew, <1>SignedIn, <2>2 DEF SignedIn, Goto
  <2> QED
    BY <2>1, <2>2
<1>SignInFails. CASE SignInFails
  <2>1. UNCHANGED <<page, lookups>> /\ signing' = "no"
    BY <1>SignInFails DEF SignInFails
  <2>2. CASE signing # "form"
    BY <1>1, <1>SignInFails, <2>1, <2>2 DEF SignInFails, Shown, ResultOfLatest
  <2>3. CASE signing = "form"
    <3>1. page # "lookup"
      BY <1>1, <2>3 DEF Public
    <3>2. /\ view'.open = view.open /\ view'.plain = view.plain
          /\ view'.asked = view.asked /\ view'.result = view.result
      BY <1>0, <1>SignInFails, <2>3 DEF SignInFails, Views
    <3> QED
      BY <1>1, <2>1, <3>1, <3>2 DEF Shown, ResultOfLatest
  <2> QED
    BY <2>2, <2>3
<1>SignedOut. CASE SignedOut
  <2>1. "login" \in Public
    BY DEF Public
  <2>2. CASE page = "login"
    <3>1. UNCHANGED <<page, view, lookups>>
      BY <1>SignedOut, <2>2 DEF SignedOut
    <3> QED
      BY <1>1, <2>1, <2>2, <3>1 DEF Shown, ResultOfLatest
  <2>3. CASE page # "login"
    BY <1>Anew, <1>SignedOut, <2>1, <2>3 DEF SignedOut, Goto
  <2> QED
    BY <2>2, <2>3
<1>Quiet. CASE Refetch \/ ListRead \/ ListResent \/ Forget \/ \E u \in Users \union {None} : Elsewhere(u)
  BY <1>Still, <1>Quiet DEF Refetch, ListRead, ListResent, Forget, Elsewhere
<1>ShowKey. ASSUME NEW cs \in [Calls -> Call \union {None}], ShowKey(cs),
                   UNCHANGED <<page, signing, lookups>>
            PROVE  Shown'
  <2>1. CASE view' = view
    BY <1>Still, <1>ShowKey, <2>1
  <2>2. ASSUME NEW w \in Calls, Waits(w),
               view' = [view EXCEPT !.loading = FALSE, !.plain = calls[w].key]
        PROVE  Shown'
    <3>1. page = "keys" /\ calls[w].key \in DOMAIN keys
      BY <1>0, <2>2, WaitsIs
    <3>2. /\ view'.open = view.open /\ view'.plain = calls[w].key
          /\ view'.asked = view.asked /\ view'.result = view.result
      BY <1>0, <2>2 DEF Views
    <3>3. view'.plain \in DOMAIN keys' /\ lookups = {}
      BY <1>0, <1>1, <3>1, <3>2 DEF Grown
    <3> QED
      BY <1>1, <1>ShowKey, <3>1, <3>2, <3>3 DEF Shown, ResultOfLatest
  <2> QED
    BY <1>0, <1>ShowKey, <2>1, <2>2, ShowKeyIs
<1>Listed. CASE ListLoaded \/ ListFails
  BY <1>0, <1>ShowKey, <1>Listed DEF ListLoaded, ListFails
<1>OpenModal. CASE OpenModal
  <2>1. /\ view'.open /\ view'.plain = view.plain /\ view'.loading = view.loading
        /\ view'.asked = view.asked /\ view'.result = view.result
    BY <1>0, <1>OpenModal DEF OpenModal, Views
  <2> QED
    BY <1>1, <1>OpenModal, <2>1 DEF OpenModal, At, Shown, ResultOfLatest
<1>CloseModal. CASE CloseModal
  <2>1. /\ ~ view'.open /\ view'.plain = None /\ view'.loading = view.loading
        /\ view'.asked = view.asked /\ view'.result = view.result
    BY <1>0, <1>CloseModal DEF CloseModal, Views
  <2> QED
    BY <1>1, <1>CloseModal, <2>1 DEF CloseModal, Shown, ResultOfLatest
<1>View. CASE SaveKey \/ RemoveKey \/ SubmitJob \/ JobRefused
  <2>1. UNCHANGED <<page, signing, lookups>>
    BY <1>View DEF SaveKey, RemoveKey, SubmitJob, JobRefused
  <2>2. /\ view'.open = view.open /\ view'.plain = view.plain /\ view'.loading = view.loading
        /\ view'.asked = view.asked /\ view'.result = view.result
    <3>1. CASE SaveKey \/ RemoveKey
      BY <1>0, <3>1 DEF SaveKey, RemoveKey, Views
    <3>2. CASE SubmitJob \/ JobRefused
      BY <1>0, <3>2 DEF SubmitJob, JobRefused, Views
    <3> QED
      BY <1>View, <3>1, <3>2
  <2> QED
    BY <1>1, <2>1, <2>2 DEF Shown, ResultOfLatest
<1>Lookup. ASSUME NEW n \in Numbers, Lookup(n) PROVE Shown'
  <2>1. page = "lookup" /\ lookups = {} /\ lookups' = {n} /\ UNCHANGED <<page, signing>>
    BY <1>1, <1>Lookup DEF Lookup, At
  <2>2. /\ view'.open = view.open /\ view'.plain = view.plain /\ view'.loading
        /\ view'.asked = n /\ view'.result = None
    BY <1>0, <1>Lookup DEF Lookup, Views
  <2> QED
    BY <1>1, <2>1, <2>2 DEF Shown, ResultOfLatest
<1>ChangeTab. CASE ChangeTab
  <2>1. UNCHANGED <<page, signing>> /\ lookups' = {}
    BY <1>ChangeTab DEF ChangeTab, ResetLookup
  <2>2. view'.open = view.open /\ view'.plain = view.plain /\ view'.result = None
    BY <1>0, <1>ChangeTab DEF ChangeTab, Views
  <2> QED
    BY <1>1, <2>1, <2>2 DEF Shown, ResultOfLatest
<1>LookedUp. ASSUME NEW n \in Numbers, LookedUp(n) PROVE Shown'
  <2>1. n \in lookups /\ n = view.asked /\ lookups' = {} /\ UNCHANGED <<page, signing>>
    BY <1>1, <1>LookedUp DEF LookedUp
  <2>2. /\ view'.open = view.open /\ view'.plain = view.plain
        /\ view'.asked = view.asked /\ view'.result \in {n, None}
    BY <1>0, <1>LookedUp DEF LookedUp, Views
  <2> QED
    BY <1>1, <2>1, <2>2 DEF Shown, ResultOfLatest
<1>CreateKey. ASSUME NEW c \in Calls, CreateKey(c) PROVE Shown'
  <2>1. /\ view'.open = view.open /\ view'.plain = view.plain /\ view'.loading
        /\ view'.asked = view.asked /\ view'.result = view.result
    BY <1>0, <1>CreateKey DEF CreateKey, Views
  <2> QED
    BY <1>1, <1>CreateKey, <2>1 DEF CreateKey, Shown, ResultOfLatest
<1>Server. ASSUME NEW c \in Calls,
                  (\E k \in Key : Revoke(c, k)) \/ Serve(c) \/ Resent(c) \/ Created(c)
           PROVE  Shown'
  BY <1>Still, <1>Server DEF Revoke, Serve, ServeCreate, ServeRevoke, Resent, Created
<1>Revoked. ASSUME NEW c \in Calls, Revoked(c) PROVE Shown'
  <2>1. Without(c) \in [Calls -> Call \union {None}]
    BY <1>0 DEF Without
  <2> QED
    BY <1>Still, <1>ShowKey, <1>Revoked, <2>1 DEF Revoked
<1>Fails. ASSUME NEW c \in Calls, Fails(c) PROVE Shown'
  <2>1. UNCHANGED <<page, signing, lookups>>
    BY <1>Fails DEF Fails
  <2>2. CASE view' = view
    BY <1>Still, <2>1, <2>2
  <2>3. CASE Mine(c) /\ view' = [view EXCEPT !.loading = FALSE]
    <3>1. page = "keys"
      BY <1>0, <2>3 DEF Underway, Sound, Mine
    <3>2. /\ view'.open = view.open /\ view'.plain = view.plain
          /\ view'.asked = view.asked /\ view'.result = view.result
      BY <1>0, <2>3 DEF Views
    <3> QED
      BY <1>1, <2>1, <3>1, <3>2 DEF Shown, ResultOfLatest
  <2> QED
    BY <1>Fails, <2>2, <2>3 DEF Fails, Mine
<1>Stutter. CASE UNCHANGED vars
  BY <1>Still, <1>Stutter DEF vars
<1> QED
  BY <1>Stutter, <1>Navigate, <1>Load, <1>Loaded, <1>SignIn, <1>SignedIn, <1>SignInFails,
     <1>SignedOut, <1>Quiet, <1>Listed, <1>OpenModal, <1>CloseModal, <1>View, <1>Lookup,
     <1>ChangeTab, <1>LookedUp, <1>CreateKey, <1>Server, <1>Revoked, <1>Fails DEF Next, Settle
-----------------------------------------------------------------------------
(* Until the page is loaded, and whose token is stored.                    *)

LEMMA BegunStep == IInv /\ [Next]_vars => Begun'
<1> SUFFICES ASSUME IInv, [Next]_vars PROVE Begun'
  OBVIOUS
<1>0. /\ TypeOK /\ Begun /\ Shown /\ view \in Views /\ query \in Query
      /\ calls \in [Calls -> Call \union {None}] /\ NoQuery.fetch = "no" /\ NoQuery.data = None
      /\ (user = None /\ starting = None => page \in Public)
  BY DEF IInv, TypeOK, NoQuery
<1>1. /\ starting # None \/ user = None => query = NoQuery
      /\ starting # None => ~ view.open /\ view.plain = None /\ \A c \in Calls : calls[c] = None
  BY <1>0 DEF Begun
<1>2. Watched => starting = None /\ user # None
  BY <1>0, PagesAre DEF Watched, At
<1> USE NoneIs
<1>Kept. ASSUME UNCHANGED <<user, starting, query, calls>>,
                view'.open => view.open, view'.plain \in {view.plain, None}
         PROVE  Begun'
  BY <1>1, <1>Kept DEF Begun
\* It is loaded, and the list is left alone or has an owner.
<1>On. ASSUME starting' = None, user' = None => query' = NoQuery PROVE Begun'
  BY <1>On DEF Begun
<1>Navigate. ASSUME NEW p \in Pages, Navigate(p) PROVE Begun'
  <2>1. /\ query' = Observed(p, starting, query, token) /\ UNCHANGED <<user, starting>>
        /\ calls' = Detached /\ view' = Mounted(p, apiKey)
        /\ (user = None /\ starting = None => p \in Public)
    BY <1>Navigate DEF Navigate, Goto, Route, Public
  <2>2. starting # None \/ user = None => query' = NoQuery
    BY <1>1, <2>1, ObservedIs, PagesAre
  <2>3. ~ view'.open /\ view'.plain = None
    BY <2>1 DEF Mounted
  <2>4. starting # None => \A c \in Calls : calls'[c] = None
    BY <1>1, <2>1 DEF Detached
  <2> QED
    BY <2>1, <2>2, <2>3, <2>4 DEF Begun
<1>Load. ASSUME NEW p \in Pages, Load(p) PROVE Begun'
  <2>1. query' = NoQuery /\ ~ view'.open /\ view'.plain = None /\ \A c \in Calls : calls'[c] = None
    BY <1>Load DEF Load, Mounted
  <2> QED
    BY <2>1 DEF Begun
<1>Loaded. CASE Loaded
  <2>1. starting' = None /\ query = NoQuery
    BY <1>1, <1>Loaded DEF Loaded
  <2>2. ASSUME user' = None PROVE query' = NoQuery
    <3>1. CASE page \in Public
      BY <1>Loaded, <2>1, <3>1 DEF Loaded
    <3>2. CASE page \notin Public
      <4>1. query' = Observed("login", None, query, token')
        BY <1>Loaded, <2>2, <3>2 DEF Loaded, Goto, Route
      <4> QED
        BY <2>1, <4>1, ObservedIs DEF Listing
    <3> QED
      BY <3>1, <3>2
  <2> QED
    BY <1>On, <2>1, <2>2
<1>SignIn. CASE SignIn
  <2>1. /\ UNCHANGED <<user, starting, calls>> /\ query' = NoQuery
        /\ view' = [view EXCEPT !.loading = TRUE]
    BY <1>SignIn DEF SignIn, Cleared
  <2>2. view'.open = view.open /\ view'.plain = view.plain
    BY <1>0, <2>1 DEF Views
  <2> QED
    BY <1>1, <2>1, <2>2 DEF Begun
<1>SignedIn. ASSUME NEW u \in Users, SignedIn(u) PROVE Begun'
  <2>1. user' = u /\ starting' = starting
    BY <1>SignedIn DEF SignedIn
  <2>2. CASE page = "dashboard"
    <3>1. UNCHANGED <<view, calls, query>>
      BY <1>SignedIn, <2>2 DEF SignedIn
    <3> QED
      BY <1>1, <2>1, <3>1 DEF Begun
  <2>3. CASE page # "dashboard"
    <3>1. /\ query' = Observed("dashboard", starting, query, u) /\ calls' = Detached
          /\ view' = Mounted("dashboard", apiKey')
      BY <1>SignedIn, <2>3 DEF SignedIn, Goto
    <3>2. starting # None => query' = NoQuery
      BY <1>1, <3>1, ObservedIs
    <3>3. ~ view'.open /\ view'.plain = None
      BY <3>1 DEF Mounted
    <3>4. starting # None => \A c \in Calls : calls'[c] = None
      BY <1>1, <3>1 DEF Detached
    <3> QED
      BY <2>1, <3>2, <3>3, <3>4 DEF Begun
  <2> QED
    BY <2>2, <2>3
<1>SignedOut. CASE SignedOut
  <2>1. /\ starting' = None
        /\ query' = NoQuery \/ query' = Observed("login", starting', NoQuery, token')
    BY <1>SignedOut DEF SignedOut, Goto, Cleared
  <2>2. query' = NoQuery
    BY <2>1, ObservedIs DEF Listing
  <2> QED
    BY <1>On, <2>1, <2>2
<1>Still. CASE SignInFails \/ JobRefused \/ \E u \in Users \union {None} : Elsewhere(u)
  <2>1. UNCHANGED <<user, starting, query, calls>>
    BY <1>Still DEF SignInFails, JobRefused, Elsewhere
  <2>2. view'.open = view.open /\ view'.plain = view.plain
    BY <1>0, <1>Still DEF SignInFails, JobRefused, Elsewhere, Views
  <2> QED
    BY <1>Kept, <2>1, <2>2
<1>List. CASE Refetch \/ ListRead \/ ListResent \/ ListLoaded \/ ListFails
  <2>1. Watched \/ query.fetch # "no"
    BY <1>List DEF Refetch, ListRead, ListResent, ListLoaded, ListFails
  <2>2. starting = None /\ user # None
    BY <1>0, <1>1, <1>2, <2>1
  <2>3. UNCHANGED <<user, starting>>
    BY <1>List DEF Refetch, ListRead, ListResent, ListLoaded, ListFails
  <2> QED
    BY <1>On, <2>2, <2>3
<1>Forget. CASE Forget
  BY <1>1, <1>Forget DEF Forget, Begun
<1>Modal. CASE OpenModal \/ CloseModal
  <2>1. /\ UNCHANGED <<user, starting, query, calls>>
        /\ OpenModal => starting = None
    BY <1>Modal DEF OpenModal, CloseModal, At, Public
  <2>2. CloseModal => ~ view'.open /\ view'.plain = None
    BY <1>0 DEF CloseModal, Views
  <2> QED
    BY <1>1, <1>Modal, <2>1, <2>2 DEF Begun
<1>Lookup. CASE \/ SaveKey \/ RemoveKey \/ ChangeTab \/ SubmitJob
                \/ \E n \in Numbers : Lookup(n)
  <2>1. UNCHANGED <<user, starting, query>> /\ starting = None
    BY <1>Lookup DEF SaveKey, RemoveKey, ChangeTab, SubmitJob, Lookup, At, Public
  <2> QED
    BY <1>1, <1>On, <2>1
<1>LookedUp. ASSUME NEW n \in Numbers, LookedUp(n) PROVE Begun'
  <2>1. UNCHANGED <<user, starting, query, calls>>
    BY <1>LookedUp DEF LookedUp
  <2>2. view'.open = view.open /\ view'.plain = view.plain
    BY <1>0, <1>LookedUp DEF LookedUp, Views
  <2> QED
    BY <1>Kept, <2>1, <2>2
\* No call is under way, nor begins, before the page is loaded.
<1>Call. ASSUME NEW c \in Calls,
                \/ CreateKey(c) \/ (\E k \in Key : Revoke(c, k))
                \/ Serve(c) \/ Resent(c) \/ Fails(c)
         PROVE  Begun'
  <2>1. view.open \/ Watched \/ calls[c] # None
    BY <1>Call DEF CreateKey, Revoke, Serve, ServeCreate, ServeRevoke, Is, Resent, Fails
  <2>2. UNCHANGED <<user, starting, query>>
    BY <1>Call DEF CreateKey, Revoke, Serve, ServeCreate, ServeRevoke, Resent, Fails
  <2> QED
    BY <1>1, <1>2, <1>On, <2>1, <2>2
<1>Settled. ASSUME NEW c \in Calls, Created(c) \/ Revoked(c) PROVE Begun'
  <2>1. Invalidate /\ UNCHANGED <<user, starting>> /\ calls[c] # None
    BY <1>Settled DEF Created, Revoked, Is
  <2>2. user = None => query' = NoQuery
    BY <1>0, <1>1, <1>2, <2>1, InvalidateIs
  <2> QED
    BY <1>1, <1>On, <2>1, <2>2
<1>Stutter. CASE UNCHANGED vars
  BY <1>Kept, <1>Stutter DEF vars
<1> QED
  BY <1>Stutter, <1>Navigate, <1>Load, <1>Loaded, <1>SignIn, <1>SignedIn, <1>SignedOut, <1>Still,
     <1>List, <1>Forget, <1>Modal, <1>Lookup, <1>LookedUp, <1>Call, <1>Settled DEF Next, Settle

LEMMA TokensStep == IInv /\ [Next]_vars => Tokens'
<1> SUFFICES ASSUME IInv, [Next]_vars PROVE Tokens'
  OBVIOUS
<1>0. Tokens /\ behind \in BOOLEAN
  BY DEF IInv, TypeOK
<1>Same. ASSUME UNCHANGED <<user, starting, behind>>, token' \in {token, None} PROVE Tokens'
  BY <1>0, <1>Same DEF Tokens, Whose
<1>Load. ASSUME NEW p \in Pages, Load(p) PROVE Tokens'
  BY <1>Load DEF Load, Tokens, Whose
<1>Loaded. CASE Loaded
  BY <1>0, <1>Loaded DEF Loaded, Tokens, Whose
<1>SignedIn. ASSUME NEW u \in Users, SignedIn(u) PROVE Tokens'
  BY <1>SignedIn DEF SignedIn, Tokens, Whose
<1>SignedOut. CASE SignedOut
  BY <1>SignedOut DEF SignedOut, Tokens, Whose
<1>Elsewhere. ASSUME NEW u \in Users \union {None}, Elsewhere(u) PROVE Tokens'
  BY <1>0, <1>Elsewhere DEF Elsewhere, Tokens, Whose
<1>Page. CASE SignIn \/ SignInFails \/ \E p \in Pages : Navigate(p)
  BY <1>Same, <1>Page DEF SignIn, SignInFails, Navigate
<1>List. CASE Refetch \/ ListRead \/ ListResent \/ ListLoaded \/ ListFails \/ Forget
  BY <1>Same, <1>List DEF Refetch, ListRead, ListResent, SessionLost, ListLoaded, ListFails, Forget
<1>View. CASE \/ OpenModal \/ CloseModal \/ SaveKey \/ RemoveKey \/ ChangeTab
              \/ SubmitJob \/ JobRefused \/ \E n \in Numbers : Lookup(n) \/ LookedUp(n)
  BY <1>Same, <1>View DEF OpenModal, CloseModal, SaveKey, RemoveKey, ChangeTab,
                          SubmitJob, JobRefused, SessionLost, Lookup, LookedUp
<1>Call. ASSUME NEW c \in Calls,
                \/ CreateKey(c) \/ (\E k \in Key : Revoke(c, k)) \/ Serve(c) \/ Resent(c) \/ Settle(c)
         PROVE  Tokens'
  BY <1>Same, <1>Call DEF CreateKey, Revoke, Serve, ServeCreate, ServeRevoke, Resent, Settle,
                          Created, Revoked, Fails, SessionLost
<1>Stutter. CASE UNCHANGED vars
  BY <1>Same, <1>Stutter DEF vars
<1> QED
  BY <1>Stutter, <1>Load, <1>Loaded, <1>SignedIn, <1>SignedOut, <1>Elsewhere, <1>Page, <1>List,
     <1>View, <1>Call DEF Next

\* What a page that is in step sends carries its user's token, or none.
LEMMA Carried ==
  ASSUME Tokens, ~ behind, starting = None, user # None
  PROVE  token \in {user, None}
BY DEF Tokens, Whose

-----------------------------------------------------------------------------
(* Whose the list and the modal are, and what the list knows.              *)

LEMMA ModalStep == IInv /\ [Next]_vars => Modal'
<1> SUFFICES ASSUME IInv, [Next]_vars PROVE Modal'
  OBVIOUS
<1>0. /\ TypeOK /\ Underway /\ Shown /\ Begun /\ Tokens /\ Grown /\ Modal /\ view \in Views
      /\ calls \in [Calls -> Call \union {None}]
      /\ (user = None /\ starting = None => page \in Public)
      /\ KeysTypeOK /\ strayed \in BOOLEAN /\ behind \in BOOLEAN
  BY GrownStep DEF IInv, TypeOK
<1>1. Underway' /\ Shown'
  BY UnderwayStep, ShownStep
<1>2. view.plain # None => view.plain \in DOMAIN keys
  BY <1>0 DEF Shown
<1>3. page = "keys" /\ starting = None /\ ~ behind => token \in {user, None}
  BY <1>0, Carried DEF Public
<1> USE NoneIs
\* Only the keys page has a modal, and only for the user it was mounted for.
<1>Off. CASE page' # "keys"
  BY <1>1, <1>Off DEF Underway, Sound, Shown, Modal, Mine
<1>Anew. ASSUME NEW p, NEW h, view' = Mounted(p, h), \A c \in Calls : ~ Mine(c)' PROVE Modal'
  BY <1>Anew DEF Modal, Mounted
<1>Still. ASSUME UNCHANGED user, ~ strayed' => ~ strayed, ~ behind' => ~ behind,
                 \/ view'.plain \in {view.plain, None}
                 \/ \E w \in Calls : Waits(w) /\ view'.plain = calls[w].key,
                 \A c \in Calls : Mine(c)' => Mine(c) /\ calls'[c].by = calls[c].by
          PROVE  Modal'
  <2> SUFFICES ASSUME ~ strayed, ~ behind
               PROVE  /\ view'.plain # None => keys'[view'.plain].owner = user
                      /\ \A c \in Calls : Mine(c)' => calls'[c].by \in {user, None}
    BY <1>Still DEF Modal, InStep
  <2>1. ASSUME NEW c \in Calls, Mine(c)' PROVE calls'[c].by \in {user, None}
    BY <1>0, <1>Still, <2>1 DEF Modal, InStep
  <2>2. CASE view'.plain \in {view.plain, None}
    BY <1>0, <1>2, <2>1, <2>2 DEF Modal, InStep, Grown
  <2>3. ASSUME NEW w \in Calls, Waits(w), view'.plain = calls[w].key
        PROVE  keys'[view'.plain].owner = user
    <3>1. Mine(w) /\ calls[w].key \in DOMAIN keys /\ keys[calls[w].key].owner = calls[w].by
      BY <1>0, <2>3, WaitsIs
    <3>2. keys[calls[w].key].owner \in Users
      BY <1>0, <3>1, KeysAre
    <3> QED
      BY <1>0, <2>3, <3>1, <3>2 DEF Modal, InStep, Grown
  <2> QED
    BY <1>Still, <2>1, <2>2, <2>3
<1>Stutter. CASE UNCHANGED vars
  BY <1>Still, <1>Stutter DEF vars, Mine
<1>Navigate. ASSUME NEW p \in Pages, Navigate(p) PROVE Modal'
  <2>1. \A c \in Calls : ~ Mine(c)'
    BY <1>0, <1>Navigate, DetachedIs DEF Navigate, Goto, Mine
  <2> QED
    BY <1>Anew, <1>Navigate, <2>1 DEF Navigate, Goto
<1>Load. ASSUME NEW p \in Pages, Load(p) PROVE Modal'
  <2>1. \A c \in Calls : ~ Mine(c)'
    BY <1>Load DEF Load, Mine
  <2> QED
    BY <1>Anew, <1>Load, <2>1 DEF Load
<1>Loaded. CASE Loaded
  <2>1. CASE page \in Public
    BY <1>Off, <1>Loaded, <2>1 DEF Loaded, Public
  <2>2. CASE page \notin Public
    <3>1. calls' = Detached /\ \E p : view' = Mounted(p, apiKey')
      BY <1>Loaded, <2>2 DEF Loaded, Goto
    <3>2. \A c \in Calls : ~ Mine(c)'
      BY <1>0, <3>1, DetachedIs DEF Mine
    <3> QED
      BY <1>Anew, <3>1, <3>2
  <2> QED
    BY <2>1, <2>2
<1>Elsewhere. ASSUME NEW u \in Users \union {None}, Elsewhere(u) PROVE Modal'
  BY <1>0, <1>Still, <1>Elsewhere DEF Elsewhere, Mine
<1>Session. CASE SignIn \/ SignedOut \/ \E u \in Users : SignedIn(u)
  <2>1. page' # "keys"
    BY <1>Session DEF SignIn, LoginForm, RegisterForm, SignedOut, SignedIn, Goto
  <2> QED
    BY <1>Off, <2>1
<1>SignInFails. CASE SignInFails
  <2>1. view'.plain = view.plain
    BY <1>0, <1>SignInFails DEF SignInFails, Views
  <2> QED
    BY <1>Still, <1>SignInFails, <2>1 DEF SignInFails, Mine
<1>Quiet. CASE Refetch \/ ListRead \/ ListResent \/ Forget
  BY <1>Still, <1>Quiet DEF Refetch, ListRead, ListResent, Forget, Mine
<1>ShowKey. ASSUME NEW cs \in [Calls -> Call \union {None}], ShowKey(cs),
                   UNCHANGED <<user, strayed, behind>>,
                   \A c \in Calls : cs[c] = calls[c] \/ cs[c] = None
            PROVE  Modal'
  <2>1. CASE view' = view /\ calls' = cs
    BY <1>Still, <1>ShowKey, <2>1 DEF Mine
  <2>2. ASSUME NEW w \in Calls, Waits(w), calls' = [cs EXCEPT ![w] = None],
               view' = [view EXCEPT !.loading = FALSE, !.plain = calls[w].key]
        PROVE  Modal'
    <3>1. view'.plain = calls[w].key
      BY <1>0, <2>2 DEF Views
    <3>2. \A c \in Calls : Mine(c)' => Mine(c) /\ calls'[c].by = calls[c].by
      BY <1>ShowKey, <2>2 DEF Mine
    <3> QED
      BY <1>Still, <1>ShowKey, <2>2, <3>1, <3>2
  <2> QED
    BY <1>0, <1>ShowKey, <2>1, <2>2, ShowKeyIs
<1>Listed. CASE ListLoaded \/ ListFails
  BY <1>0, <1>ShowKey, <1>Listed DEF ListLoaded, ListFails
<1>View. CASE OpenModal \/ CloseModal \/ SaveKey \/ RemoveKey \/ SubmitJob \/ JobRefused
  <2>1. UNCHANGED <<user, strayed, behind, calls>>
    BY <1>View DEF OpenModal, CloseModal, SaveKey, RemoveKey, SubmitJob, JobRefused
  <2>2. view'.plain \in {view.plain, None}
    <3>1. CASE OpenModal \/ CloseModal
      BY <1>0, <3>1 DEF OpenModal, CloseModal, Views
    <3>2. CASE SaveKey \/ RemoveKey
      BY <1>0, <3>2 DEF SaveKey, RemoveKey, Views
    <3>3. CASE SubmitJob \/ JobRefused
      BY <1>0, <3>3 DEF SubmitJob, JobRefused, Views
    <3> QED
      BY <1>View, <3>1, <3>2, <3>3
  <2> QED
    BY <1>Still, <2>1, <2>2 DEF Mine
<1>Lookup. CASE ChangeTab \/ \E n \in Numbers : Lookup(n) \/ LookedUp(n)
  <2>1. page' # "keys"
    BY <1>0, <1>Lookup DEF Shown, ChangeTab, Lookup, LookedUp, At
  <2> QED
    BY <1>Off, <2>1
<1>CreateKey. ASSUME NEW c \in Calls, CreateKey(c) PROVE Modal'
  <2>1. /\ calls' = [calls EXCEPT ![c] = [op |-> "create", by |-> token, key |-> None,
                                         at |-> "sent", mine |-> TRUE]]
        /\ UNCHANGED <<user, strayed, behind, keys>> /\ view.open
    BY <1>CreateKey DEF CreateKey, Send
  <2>2. view'.plain = view.plain
    BY <1>0, <1>CreateKey DEF CreateKey, Views
  <2>3. \A d \in Calls : IF d = c THEN calls'[d].by = token ELSE calls'[d] = calls[d]
    BY <1>0, <2>1
  <2>4. page = "keys" /\ starting = None
    BY <1>0, <2>1 DEF Shown, Begun
  <2> QED
    BY <1>0, <1>3, <2>1, <2>2, <2>3, <2>4 DEF Modal, InStep, Mine
\* It is sent again with the token of its user, or the page is behind.
<1>Resent. ASSUME NEW c \in Calls, Resent(c) PROVE Modal'
  <2>1. /\ calls' = [calls EXCEPT ![c].by = token] /\ calls[c] \in Call /\ calls[c] # None
        /\ UNCHANGED <<user, strayed, behind, keys, view>>
    BY <1>0, <1>Resent DEF Resent
  <2>2. /\ \A d \in Calls : d # c => calls'[d] = calls[d]
        /\ calls'[c].by = token /\ calls'[c].mine = calls[c].mine
    BY <1>0, <2>1 DEF Call
  <2>3. Mine(c) => page = "keys" /\ starting = None
    BY <1>0, <2>1 DEF Underway, Sound, Mine, Begun
  <2>4. \A d \in Calls : Mine(d)' => Mine(d)
    BY <2>1, <2>2 DEF Mine
  <2> QED
    BY <1>0, <1>3, <2>1, <2>2, <2>3, <2>4 DEF Modal, InStep
\* One call changes, but not whose it is.
<1>Call. ASSUME NEW c \in Calls, NEW v, calls' = [calls EXCEPT ![c] = v],
                v = None \/ ~ v.mine \/ (Mine(c) /\ v.by = calls[c].by),
                UNCHANGED <<user, strayed, behind>>, view'.plain = view.plain
         PROVE  Modal'
  <2>1. calls'[c] = v /\ \A d \in Calls : d # c => calls'[d] = calls[d]
    BY <1>0, <1>Call
  <2>2. \A d \in Calls : Mine(d)' => Mine(d) /\ calls'[d].by = calls[d].by
    BY <1>Call, <2>1 DEF Mine
  <2> QED
    BY <1>Still, <1>Call, <2>2
<1>Revoke. ASSUME NEW c \in Calls, NEW k \in Key, Revoke(c, k) PROVE Modal'
  <2> DEFINE v == [op |-> "revoke", by |-> token, key |-> k, at |-> "sent", mine |-> FALSE]
  <2>1. calls' = [calls EXCEPT ![c] = v] /\ ~ v.mine /\ UNCHANGED <<user, strayed, behind, view>>
    BY <1>Revoke DEF Revoke, Send
  <2> HIDE DEF v
  <2> QED
    BY <1>Call, <2>1
<1>ServeCreate. ASSUME NEW c \in Calls, ServeCreate(c) PROVE Modal'
  <2> DEFINE v == [calls[c] EXCEPT !.at = "ok", !.key = Len(keys) + 1]
  <2>1. calls' = [calls EXCEPT ![c] = v] /\ UNCHANGED <<user, strayed, behind, view>>
        /\ calls[c] # None /\ calls[c] \in Call
    BY <1>0, <1>ServeCreate DEF ServeCreate, Is
  <2>2. v.mine = calls[c].mine /\ v.by = calls[c].by
    BY <2>1 DEF Call
  <2>3. v.mine \in BOOLEAN
    BY <2>1, <2>2 DEF Call
  <2> HIDE DEF v
  <2> QED
    BY <1>Call, <2>1, <2>2, <2>3 DEF Mine
<1>ServeRevoke. ASSUME NEW c \in Calls, ServeRevoke(c) PROVE Modal'
  <2> DEFINE v == [calls[c] EXCEPT !.at = "ok"]
  <2>1. calls' = [calls EXCEPT ![c] = v] /\ UNCHANGED <<user, strayed, behind, view>>
        /\ calls[c] # None /\ calls[c] \in Call
    BY <1>0, <1>ServeRevoke DEF ServeRevoke, Is
  <2>2. v.mine = calls[c].mine /\ v.by = calls[c].by
    BY <2>1 DEF Call
  <2>3. v.mine \in BOOLEAN
    BY <2>1, <2>2 DEF Call
  <2> HIDE DEF v
  <2> QED
    BY <1>Call, <2>1, <2>2, <2>3 DEF Mine
<1>Created. ASSUME NEW c \in Calls, Created(c) PROVE Modal'
  <2>1. UNCHANGED <<user, strayed, behind, view>> /\ calls[c] # None /\ calls[c] \in Call
    BY <1>0, <1>Created DEF Created, Is
  <2>2. CASE calls[c].mine
    <3> DEFINE v == [calls[c] EXCEPT !.at = "waiting"]
    <3>1. calls' = [calls EXCEPT ![c] = v]
      BY <1>Created, <2>2 DEF Created
    <3>2. v.mine = calls[c].mine /\ v.by = calls[c].by
      BY <2>1 DEF Call
    <3> HIDE DEF v
    <3> QED
      BY <1>Call, <2>1, <2>2, <3>1, <3>2 DEF Mine
  <2>3. CASE ~ calls[c].mine
    BY <1>Call, <1>Created, <2>1, <2>3 DEF Created, Without
  <2> QED
    BY <2>2, <2>3
<1>Revoked. ASSUME NEW c \in Calls, Revoked(c) PROVE Modal'
  <2>1. UNCHANGED <<user, strayed, behind>> /\ Without(c) = [calls EXCEPT ![c] = None]
    BY <1>Revoked DEF Revoked, Without
  <2>2. Without(c) \in [Calls -> Call \union {None}]
        /\ \A d \in Calls : Without(c)[d] = calls[d] \/ Without(c)[d] = None
    BY <1>0, <2>1
  <2>3. CASE calls' = Without(c) /\ UNCHANGED view
    BY <1>Call, <2>1, <2>3
  <2>4. CASE ShowKey(Without(c))
    BY <1>ShowKey, <2>1, <2>2, <2>4
  <2> QED
    BY <1>Revoked, <2>3, <2>4 DEF Revoked
<1>Fails. ASSUME NEW c \in Calls, Fails(c) PROVE Modal'
  <2>1. UNCHANGED <<user, strayed, behind>> /\ calls' = [calls EXCEPT ![c] = None]
    BY <1>Fails DEF Fails, Without
  <2>2. view'.plain = view.plain
    BY <1>0, <1>Fails DEF Fails, Views
  <2> QED
    BY <1>Call, <2>1, <2>2
<1> QED
  BY <1>Stutter, <1>Navigate, <1>Load, <1>Loaded, <1>Elsewhere, <1>Session, <1>SignInFails,
     <1>Quiet, <1>Listed, <1>View, <1>Lookup, <1>CreateKey, <1>Revoke, <1>ServeCreate,
     <1>ServeRevoke, <1>Created, <1>Revoked, <1>Resent, <1>Fails DEF Next, Serve, Settle

LEMMA RowsStay ==
  ASSUME Grown, NEW q, RowsOf(q)
  PROVE  RowsOf(q)'
BY DEF Grown, RowsOf

LEMMA RowsAsked ==
  /\ RowsOf(NoQuery)
  /\ \A q \in Query : \A u : RowsOf(q) => RowsOf(Asked(q, u))
BY AskedIs DEF RowsOf, NoQuery

LEMMA ToldStep == IInv /\ [Next]_vars => Told'
<1> SUFFICES ASSUME IInv, [Next]_vars PROVE Told'
  OBVIOUS
<1>0. /\ TypeOK /\ Underway /\ Grown /\ Told /\ query \in Query
      /\ made \subseteq DOMAIN keys /\ unmade \subseteq DOMAIN keys
  BY GrownStep DEF IInv, TypeOK
<1>1. RowsOf(query) /\ \A u : RowsOf(Asked(query, u)) /\ RowsOf(Asked(NoQuery, u))
  BY <1>0, RowsAsked, QueryTypes DEF Told
<1>Same. ASSUME RowsOf(query'), UNCHANGED <<user, told>> PROVE Told'
  <2>1. RowsOf(query)'
    BY <1>0, <1>Same DEF Grown, RowsOf
  <2> QED
    BY <1>0, <1>Same, <2>1 DEF Told, Grown
<1>Anew. ASSUME RowsOf(query'), made' = {}, unmade' = {} PROVE Told'
  <2>1. RowsOf(query)'
    BY <1>0, <1>Anew DEF Grown, RowsOf
  <2> QED
    BY <1>Anew, <2>1 DEF Told
<1>Navigate. ASSUME NEW p \in Pages, Navigate(p) PROVE Told'
  <2>1. query' = Observed(p, starting', query, token') /\ UNCHANGED <<user, told>>
    BY <1>Navigate DEF Navigate, Goto
  <2>2. RowsOf(query')
    BY <1>1, <2>1, ObservedIs
  <2> QED
    BY <1>Same, <2>1, <2>2
<1>Load. ASSUME NEW p \in Pages, Load(p) PROVE Told'
  BY <1>Anew, <1>Load, RowsAsked DEF Load
<1>Loaded. CASE Loaded
  <2>1. /\ query' = query \/ \E p : query' = Observed(p, starting', query, token')
        /\ made' = {} /\ unmade' = {}
    BY <1>Loaded DEF Loaded, Goto
  <2>2. RowsOf(query')
    BY <1>1, <2>1, ObservedIs
  <2> QED
    BY <1>Anew, <2>1, <2>2
<1>SignedIn. ASSUME NEW u \in Users, SignedIn(u) PROVE Told'
  <2>1. /\ query' = query \/ query' = Observed("dashboard", starting', query, token')
        /\ made' = {} /\ unmade' = {}
    BY <1>SignedIn DEF SignedIn, Goto
  <2>2. RowsOf(query')
    BY <1>1, <2>1, ObservedIs
  <2> QED
    BY <1>Anew, <2>1, <2>2
<1>SignedOut. CASE SignedOut
  <2>1. /\ query' = NoQuery \/ query' = Observed("login", starting', NoQuery, token')
        /\ made' = {} /\ unmade' = {}
    BY <1>SignedOut DEF SignedOut, Goto, Cleared
  <2>2. RowsOf(query')
    BY <1>1, <2>1, ObservedIs, RowsAsked
  <2> QED
    BY <1>Anew, <2>1, <2>2
<1>Quiet. CASE SignIn \/ Refetch \/ Forget
  BY <1>1, <1>Same, <1>Quiet, RowsAsked DEF SignIn, Cleared, Refetch, Forget
<1>ListRead. CASE ListRead
  <2>1. query' = [query EXCEPT !.fetch = "read", !.read = Listed(query.by)]
        /\ UNCHANGED <<user, told>>
    BY <1>ListRead DEF ListRead
  <2>2. query'.data = query.data /\ query'.read = Listed(query.by) /\ query'.fetch = "read"
    BY <1>0, <2>1 DEF Query
  <2>3. RowsOf(query')
    BY <1>1, <2>2 DEF RowsOf, Listed
  <2> QED
    BY <1>Same, <2>1, <2>3
<1>ListResent. CASE ListResent
  <2>1. query' = [query EXCEPT !.by = token'] /\ UNCHANGED <<user, told>>
    BY <1>ListResent DEF ListResent
  <2>2. /\ query'.data = query.data /\ query'.fetch = query.fetch
        /\ query'.read = query.read
    BY <1>0, <2>1 DEF Query
  <2>3. RowsOf(query')
    BY <1>1, <2>2 DEF RowsOf
  <2> QED
    BY <1>Same, <2>1, <2>3
<1>ListLoaded. CASE ListLoaded
  <2>1. query' = [NoQuery EXCEPT !.data = query.read] /\ UNCHANGED <<user, told>>
    BY <1>ListLoaded DEF ListLoaded
  <2>2. query'.data = query.read /\ query'.read = {}
    BY <2>1 DEF NoQuery
  <2>3. RowsOf(query')
    BY <1>1, <2>2 DEF RowsOf
  <2> QED
    BY <1>Same, <2>1, <2>3
<1>ListFails. CASE ListFails
  <2>1. query' = [query EXCEPT !.fetch = "no", !.by = None, !.read = {}] /\ UNCHANGED <<user, told>>
    BY <1>ListFails DEF ListFails
  <2>2. query'.data = query.data /\ query'.read = {}
    BY <1>0, <2>1 DEF Query
  <2>3. RowsOf(query')
    BY <1>1, <2>2 DEF RowsOf
  <2> QED
    BY <1>Same, <2>1, <2>3
<1>Other. ASSUME UNCHANGED <<query, user, told>> PROVE Told'
  BY <1>1, <1>Same, <1>Other
<1>Invalidate. ASSUME Invalidate, UNCHANGED keys PROVE RowsOf(query)'
  BY <1>0, <1>1, <1>Invalidate, InvalidateIs DEF RowsOf
<1>Created. ASSUME NEW c \in Calls, Created(c) PROVE Told'
  <2>1. /\ Invalidate /\ UNCHANGED <<keys, user, unmade>>
        /\ made' = IF calls[c].by = user THEN made \union {calls[c].key} ELSE made
        /\ calls[c] # None /\ calls[c].op = "create" /\ calls[c].at = "ok"
    BY <1>Created DEF Created, Is
  <2>2. calls[c].key \in DOMAIN keys /\ keys[calls[c].key].owner = calls[c].by
    BY <1>0, <2>1 DEF Underway, Sound
  <2> QED
    BY <1>0, <1>Invalidate, <2>1, <2>2 DEF Told
<1>Revoked. ASSUME NEW c \in Calls, Revoked(c) PROVE Told'
  <2>1. /\ Invalidate /\ UNCHANGED <<keys, user>> /\ made' = made \ {calls[c].key}
        /\ unmade' = IF calls[c].by = user THEN unmade \union {calls[c].key} ELSE unmade
        /\ calls[c] # None /\ calls[c].op = "revoke" /\ calls[c].at = "ok"
    BY <1>Revoked DEF Revoked, Is
  <2>2. ~ keys[calls[c].key].live
    BY <1>0, <2>1 DEF Underway, Sound
  <2> QED
    BY <1>0, <1>Invalidate, <2>1, <2>2 DEF Told
<1>View. CASE \/ SignInFails \/ OpenModal \/ CloseModal \/ SaveKey \/ RemoveKey \/ ChangeTab
              \/ SubmitJob \/ JobRefused \/ \E n \in Numbers : Lookup(n) \/ LookedUp(n)
  BY <1>Other, <1>View DEF SignInFails, OpenModal, CloseModal, SaveKey, RemoveKey, ChangeTab,
                          SubmitJob, JobRefused, Lookup, LookedUp
<1>Elsewhere. ASSUME NEW u \in Users \union {None}, Elsewhere(u) PROVE Told'
  BY <1>Other, <1>Elsewhere DEF Elsewhere
<1>Call. ASSUME NEW c \in Calls,
                \/ CreateKey(c) \/ (\E k \in Key : Revoke(c, k))
                \/ Serve(c) \/ Resent(c) \/ Fails(c)
         PROVE  Told'
  BY <1>Other, <1>Call DEF CreateKey, Revoke, Serve, ServeCreate, ServeRevoke, Resent, Fails
<1>Stutter. CASE UNCHANGED vars
  BY <1>Other, <1>Stutter DEF vars
<1> QED
  BY <1>Stutter, <1>Navigate, <1>Load, <1>Loaded, <1>SignedIn, <1>SignedOut, <1>Elsewhere,
     <1>Quiet, <1>ListRead, <1>ListResent, <1>ListLoaded, <1>ListFails, <1>View, <1>Call,
     <1>Created, <1>Revoked DEF Next, Settle

LEMMA OwnedStep == IInv /\ [Next]_vars => Owned'
<1> SUFFICES ASSUME IInv, [Next]_vars PROVE Owned'
  OBVIOUS
<1>0. /\ TypeOK /\ Grown /\ Told /\ Begun /\ Tokens /\ Owned /\ query \in Query
      /\ user \in Users \union {None} /\ token \in Users \union {None}
      /\ (user = None /\ starting = None => page \in Public)
      /\ strayed \in BOOLEAN /\ behind \in BOOLEAN
  BY GrownStep DEF IInv, TypeOK
<1>1. RowsOf(query)
  BY <1>0 DEF Told
<1>2. Watched => starting = None /\ user # None /\ page \notin Public
  BY <1>0, PagesAre DEF Watched, At
<1>3. query.fetch # "no" => starting = None /\ user # None
  BY <1>0 DEF Begun, NoQuery
<1>4. starting = None /\ user # None /\ ~ behind => token \in {user, None}
  BY <1>0, Carried
<1> USE NoneIs
\* Nothing is shown or on its way, or it was asked for after that.
<1>Blank. ASSUME NEW t,
                 \/ query' = NoQuery /\ (~ strayed' /\ signing' # "no" => page' \in Public)
                 \/ /\ query' = Asked(NoQuery, t) /\ (~ strayed' => signing' = "no")
                    /\ InStep' => t \in {user', None}
          PROVE  Owned'
  <2>1. CASE query' = NoQuery
    <3>1. query'.data = None /\ query'.fetch = "no" /\ query'.read = {}
      BY <2>1 DEF NoQuery
    <3>2. NoQuery # Asked(NoQuery, t)
      BY AskedIs, QueryTypes DEF NoQuery
    <3> QED
      BY <1>Blank, <2>1, <3>1, <3>2 DEF Owned
  <2>2. CASE /\ query' = Asked(NoQuery, t) /\ (~ strayed' => signing' = "no")
             /\ InStep' => t \in {user', None}
    <3>1. query'.data = None /\ query'.by = t /\ query'.read = {}
      BY <2>2, AskedIs, QueryTypes DEF NoQuery
    <3> QED
      BY <2>2, <3>1 DEF Owned
  <2> QED
    BY <1>Blank, <2>1, <2>2
\* The data stays, what is on its way stays or is asked for with a token that is stored.
<1>Same. ASSUME UNCHANGED user, ~ strayed' => ~ strayed, ~ behind' => ~ behind,
                ~ strayed' /\ signing' # "no" => query' = NoQuery /\ page' \in Public,
                query'.data = query.data,
                \/ query'.fetch = "no" /\ query'.read = {}
                \/ (InStep' => query'.by \in {user, None}) /\ query'.read = {}
                \/ query'.fetch = query.fetch /\ query'.by = query.by /\ query'.read = query.read
         PROVE  Owned'
  <2> SUFFICES ASSUME InStep', InStep
               PROVE  /\ query'.fetch # "no" => query'.by \in {user, None}
                      /\ \A k \in query'.read : keys'[k].owner = user
                      /\ query'.data # None => \A k \in query'.data : keys'[k].owner = user
    BY <1>Same DEF Owned, InStep
  <2>1. query'.fetch # "no" => query'.by \in {user, None}
    BY <1>0, <1>Same DEF Owned
  <2>2. \A k \in query'.read : keys'[k].owner = user
    BY <1>0, <1>1, <1>Same DEF Owned, RowsOf, Grown
  <2>3. query'.data # None => \A k \in query'.data : keys'[k].owner = user
    BY <1>0, <1>1, <1>Same DEF Owned, RowsOf, Grown
  <2> QED
    BY <2>1, <2>2, <2>3
<1>Other. ASSUME UNCHANGED <<query, user, strayed, page>>, ~ behind' => ~ behind,
                 signing' \in {signing, "no"}
          PROVE  Owned'
  BY <1>0, <1>Same, <1>Other DEF Owned
<1>Navigate. ASSUME NEW p \in Pages, Navigate(p) PROVE Owned'
  <2>1. /\ query' = Observed(p, starting, query, token) /\ UNCHANGED <<user, starting, behind>>
        /\ ~ strayed' => ~ strayed /\ signing' = "no"
        /\ (user = None /\ starting = None => p \in Public)
    BY <1>0, <1>Navigate DEF Navigate, Goto, Route, Public
  <2>2. CASE query' = query
    BY <1>Same, <2>1, <2>2
  <2>3. CASE query' = Asked(query, token) /\ p \in Listing /\ starting = None
    <3>1. ~ behind => token \in {user, None}
      BY <1>4, <2>1, <2>3, PagesAre
    <3>2. /\ query'.data = query.data /\ query'.by = token /\ query'.read = {}
      BY <1>0, <2>3, AskedIs
    <3> QED
      BY <1>Same, <2>1, <3>1, <3>2 DEF InStep
  <2> QED
    BY <2>1, <2>2, <2>3, ObservedIs
<1>Load. ASSUME NEW p \in Pages, Load(p) PROVE Owned'
  BY <1>Blank, <1>Load DEF Load
\* The list is asked for with the token of who is shown now.
<1>Loaded. CASE Loaded
  <2>1. /\ starting # None /\ starting' = None /\ user' \in {starting, None}
        /\ UNCHANGED <<signing, token, strayed, behind>> /\ query = NoQuery
    BY <1>0, <1>Loaded DEF Loaded, Begun
  <2>2. ~ strayed /\ signing # "no" => page \in Public
    BY <1>0 DEF Owned
  <2>3. CASE page \in Public
    <3>1. UNCHANGED <<page, query>>
      BY <1>Loaded, <2>3 DEF Loaded
    <3> QED
      BY <1>Blank, <2>1, <2>3, <3>1
  <2>4. CASE page \notin Public /\ user' = None
    <3>1. page' = "login" /\ query' = Observed("login", None, query, token)
      BY <1>Loaded, <2>1, <2>4 DEF Loaded, Goto, Route
    <3>2. query' = NoQuery
      BY <2>1, <3>1, ObservedIs DEF Listing
    <3> QED
      BY <1>Blank, <3>1, <3>2 DEF Public
  <2>5. CASE page \notin Public /\ user' # None
    <3>1. query' = Observed(page, None, NoQuery, token)
      BY <1>Loaded, <2>1, <2>5 DEF Loaded, Goto, Route
    <3>2. ~ behind => token \in {user', None}
      BY <1>0, <2>1, <2>5 DEF Tokens, Whose
    <3>3. ~ strayed' => signing' = "no"
      BY <2>1, <2>2, <2>5
    <3> QED
      BY <1>Blank, <2>1, <3>1, <3>2, <3>3, ObservedIs DEF InStep
  <2> QED
    BY <2>3, <2>4, <2>5
<1>Elsewhere. ASSUME NEW u \in Users \union {None}, Elsewhere(u) PROVE Owned'
  BY <1>0, <1>Other, <1>Elsewhere DEF Elsewhere
<1>SignIn. CASE SignIn
  <2>1. query' = NoQuery /\ page' = page /\ page \in Public
    BY <1>SignIn DEF SignIn, Cleared, LoginForm, RegisterForm, Public
  <2> QED
    BY <1>Blank, <2>1
<1>SignedIn. ASSUME NEW u \in Users, SignedIn(u) PROVE Owned'
  <2>1. CASE strayed
    BY <1>0, <1>SignedIn, <2>1 DEF SignedIn, Owned, InStep
  <2>2. CASE ~ strayed
    <3>1. query = NoQuery /\ page # "dashboard" /\ signing' = "no" /\ user' = u
      BY <1>0, <1>SignedIn, <2>2 DEF SignedIn, Owned, Public
    <3>2. query' = Observed("dashboard", starting', NoQuery, u)
      BY <1>SignedIn, <3>1 DEF SignedIn, Goto
    <3>3. query' = NoQuery \/ query' = Asked(NoQuery, u)
      BY <3>2, ObservedIs
    <3> QED
      BY <1>Blank, <3>1, <3>3
  <2> QED
    BY <1>0, <2>1, <2>2
<1>SignedOut. CASE SignedOut
  <2>1. query' = NoQuery \/ query' = Observed("login", starting', NoQuery, token')
    BY <1>SignedOut DEF SignedOut, Goto, Cleared
  <2>2. page' = "login" /\ "login" \in Public /\ "login" \notin Listing
    BY <1>SignedOut DEF SignedOut, Goto, Public, Listing
  <2> QED
    BY <1>Blank, <2>1, <2>2, ObservedIs
<1>Refetch. CASE Refetch
  <2>1. /\ query' = Asked(query, token) /\ Watched
        /\ UNCHANGED <<user, signing, strayed, behind, page>>
    BY <1>Refetch DEF Refetch
  <2>2. ~ strayed => signing = "no"
    BY <1>0, <1>2, <2>1 DEF Owned
  <2>3. /\ query'.data = query.data /\ query'.by = token /\ query'.read = {}
    BY <1>0, <2>1, AskedIs
  <2>4. ~ behind => token \in {user, None}
    BY <1>2, <1>4, <2>1
  <2> QED
    BY <1>Same, <2>1, <2>2, <2>3, <2>4 DEF InStep
\* It is asked for again with the token of its user, or the page is behind.
<1>ListResent. CASE ListResent
  <2>1. /\ query.fetch = "asked" /\ query' = [query EXCEPT !.by = token']
        /\ token' \in {token, None} /\ UNCHANGED <<user, signing, strayed, behind, page>>
    BY <1>ListResent DEF ListResent, SessionLost
  <2>2. /\ query'.data = query.data /\ query'.by = token' /\ query'.read = query.read
    BY <1>0, <2>1 DEF Query
  <2>3. ~ behind => token' \in {user, None}
    BY <1>3, <1>4, <2>1
  <2>4. ~ strayed => signing = "no"
    BY <1>0, <2>1 DEF Owned, NoQuery
  <2>5. query.read = {}
    BY <1>1, <2>1 DEF RowsOf
  <2> QED
    BY <1>Same, <2>1, <2>2, <2>3, <2>4, <2>5 DEF InStep
<1>ListRead. CASE ListRead
  <2>1. /\ query.fetch = "asked" /\ query.by # None
        /\ UNCHANGED <<keys, user, signing, strayed, behind, page>>
        /\ query' = [query EXCEPT !.fetch = "read", !.read = Listed(query.by)]
    BY <1>ListRead DEF ListRead
  <2>2. query'.data = query.data /\ query'.read = Listed(query.by) /\ query'.by = query.by
    BY <1>0, <2>1 DEF Query
  <2>3. /\ ~ strayed => signing = "no"
        /\ InStep => query.by = user
    BY <1>0, <2>1 DEF Owned, NoQuery
  <2>4. \A k \in Listed(query.by) : keys[k].owner = query.by
    BY DEF Listed
  <2> QED
    BY <1>0, <2>1, <2>2, <2>3, <2>4 DEF Owned, InStep
<1>ListLoaded. CASE ListLoaded
  <2>1. /\ query.fetch = "read" /\ UNCHANGED <<keys, user, signing, strayed, behind, page>>
        /\ query' = [NoQuery EXCEPT !.data = query.read]
    BY <1>ListLoaded DEF ListLoaded
  <2>2. query'.data = query.read /\ query'.read = {} /\ query'.fetch = "no"
    BY <2>1 DEF NoQuery
  <2>3. ~ strayed => signing = "no"
    BY <1>0, <2>1 DEF Owned, NoQuery
  <2> QED
    BY <1>0, <2>1, <2>2, <2>3 DEF Owned, InStep
<1>ListFails. CASE ListFails
  <2>1. /\ query.fetch # "no" /\ UNCHANGED <<user, signing, strayed, behind, page>>
        /\ query' = [query EXCEPT !.fetch = "no", !.by = None, !.read = {}]
    BY <1>ListFails DEF ListFails
  <2>2. query'.data = query.data /\ query'.read = {} /\ query'.fetch = "no"
    BY <1>0, <2>1 DEF Query
  <2>3. ~ strayed => signing = "no"
    BY <1>0, <2>1 DEF Owned, NoQuery
  <2> QED
    BY <1>Same, <2>1, <2>2, <2>3
<1>Forget. CASE Forget
  <2>1. query' = NoQuery /\ UNCHANGED <<user, signing, strayed, page>>
    BY <1>Forget DEF Forget
  <2> QED
    BY <1>0, <1>Blank, <2>1 DEF Owned
<1>Settled. ASSUME NEW c \in Calls, Created(c) \/ Revoked(c) PROVE Owned'
  <2>1. Invalidate /\ UNCHANGED <<user, signing, strayed, behind, page>>
    BY <1>Settled DEF Created, Revoked
  <2>2. ~ strayed /\ signing # "no" => query' = NoQuery /\ page \in Public
    BY <1>0, <1>2, <2>1, InvalidateIs DEF Owned
  <2>3. CASE Watched /\ query'.by = token /\ query'.read = {}
    <3>1. ~ behind => token \in {user, None}
      BY <1>2, <1>4, <2>3
    <3> QED
      BY <1>0, <1>Same, <2>1, <2>2, <2>3, <3>1, InvalidateIs DEF InStep
  <2>4. CASE query'.fetch = query.fetch /\ query'.by = query.by /\ query'.read = query.read
    BY <1>0, <1>Same, <2>1, <2>2, <2>4, InvalidateIs
  <2> QED
    BY <1>0, <2>1, <2>3, <2>4, InvalidateIs
<1>View. CASE \/ SignInFails \/ OpenModal \/ CloseModal \/ SaveKey \/ RemoveKey \/ ChangeTab
              \/ SubmitJob \/ JobRefused \/ \E n \in Numbers : Lookup(n) \/ LookedUp(n)
  BY <1>Other, <1>View DEF SignInFails, OpenModal, CloseModal, SaveKey, RemoveKey, ChangeTab,
                          SubmitJob, JobRefused, Lookup, LookedUp
<1>Call. ASSUME NEW c \in Calls,
                \/ CreateKey(c) \/ (\E k \in Key : Revoke(c, k))
                \/ Serve(c) \/ Resent(c) \/ Fails(c)
         PROVE  Owned'
  BY <1>Other, <1>Call DEF CreateKey, Revoke, Serve, ServeCreate, ServeRevoke, Resent, Fails
<1>Stutter. CASE UNCHANGED vars
  BY <1>Other, <1>Stutter DEF vars
<1> QED
  BY <1>Stutter, <1>Navigate, <1>Load, <1>Loaded, <1>Elsewhere, <1>SignIn, <1>SignedIn,
     <1>SignedOut, <1>Refetch, <1>Forget, <1>ListRead, <1>ListResent, <1>ListLoaded,
     <1>ListFails, <1>View, <1>Call, <1>Settled DEF Next, Settle

LEMMA ListsStep == IInv /\ [Next]_vars => Lists'
<1> SUFFICES ASSUME IInv, [Next]_vars PROVE Lists'
  OBVIOUS
<1>0. /\ TypeOK /\ Grown /\ Told /\ Begun /\ Owned /\ Lists /\ query \in Query
      /\ made \subseteq DOMAIN keys /\ unmade \subseteq DOMAIN keys
      /\ strayed \in BOOLEAN /\ behind \in BOOLEAN /\ crossed \subseteq {"fetch", "data"}
  BY GrownStep DEF IInv, TypeOK
<1> USE NoneIs
<1>Knows. ASSUME NEW l, Knows(l), UNCHANGED told PROVE Knows(l)'
  BY <1>0, <1>Knows DEF Knows, Grown
<1>Blank. ASSUME NEW u, query' = NoQuery \/ query' = Asked(NoQuery, u) PROVE Lists'
  <2>1. query'.data = None /\ query'.fetch # "read"
    BY <1>Blank, AskedIs, QueryTypes DEF NoQuery
  <2> QED
    BY <2>1 DEF Lists
\* The data stays; what is on its way stays, or has not read yet.
<1>Same. ASSUME UNCHANGED told, InStep' => InStep,
                query'.data = query.data, query'.old = query.old,
                "data" \in crossed => "data" \in crossed',
                \/ query'.fetch # "read"
                \/ /\ query'.fetch = query.fetch /\ query'.read = query.read
                   /\ "fetch" \in crossed => "fetch" \in crossed'
         PROVE  Lists'
  <2>1. InStep' /\ query'.fetch = "read" /\ "fetch" \notin crossed' => Knows(query'.read)
    BY <1>0, <1>Same DEF Lists
  <2>2. InStep' /\ query'.data # None /\ ~ query'.old /\ "data" \notin crossed'
          => Knows(query'.data)
    BY <1>0, <1>Same DEF Lists
  <2>3. \A l : Knows(l) => /\ \A k \in made' : keys'[k].live => k \in l
                          /\ unmade' \intersect l = {}
    BY <1>0, <1>Same DEF Knows, Grown
  <2> QED
    BY <2>1, <2>2, <2>3 DEF Lists, Knows
<1>Other. ASSUME UNCHANGED <<list, told, strayed>>, ~ behind' => ~ behind PROVE Lists'
  BY <1>Same, <1>Other DEF InStep
<1>Asked. ASSUME NEW u, query' = Asked(query, u), crossed' = crossed \ {"fetch"}, UNCHANGED told,
                 InStep' => InStep
          PROVE  Lists'
  BY <1>0, <1>Same, <1>Asked, AskedIs
<1>Navigate. ASSUME NEW p \in Pages, Navigate(p) PROVE Lists'
  <2>1. /\ query' = Observed(p, starting, query, token) /\ UNCHANGED told
        /\ InStep' => InStep
        /\ crossed' = IF query' = query THEN crossed ELSE crossed \ {"fetch"}
    BY <1>0, <1>Navigate DEF Navigate, Goto, Crossed, InStep
  <2>2. CASE query' = query
    BY <1>Same, <2>1, <2>2
  <2>3. CASE query' # query
    BY <1>Asked, <2>1, <2>3, ObservedIs
  <2> QED
    BY <2>2, <2>3
<1>Load. ASSUME NEW p \in Pages, Load(p) PROVE Lists'
  BY <1>Blank, <1>Load DEF Load
<1>Loaded. CASE Loaded
  <2>1. query = NoQuery /\ (query' = query \/ \E p : query' = Observed(p, starting', query, token'))
    BY <1>0, <1>Loaded DEF Loaded, Goto, Begun
  <2> QED
    BY <1>Blank, <2>1, ObservedIs
<1>Elsewhere. ASSUME NEW u \in Users \union {None}, Elsewhere(u) PROVE Lists'
  BY <1>0, <1>Other, <1>Elsewhere DEF Elsewhere
<1>ListResent. CASE ListResent
  <2>1. /\ query' = [query EXCEPT !.by = token'] /\ UNCHANGED <<told, ghosts, crossed>>
    BY <1>ListResent DEF ListResent
  <2>2. /\ query'.data = query.data /\ query'.old = query.old
        /\ query'.fetch = query.fetch /\ query'.read = query.read
    BY <1>0, <2>1 DEF Query
  <2> QED
    BY <1>Same, <2>1, <2>2 DEF InStep
<1>SignIn. CASE SignIn \/ Forget
  BY <1>Blank, <1>SignIn DEF SignIn, Cleared, Forget
<1>SignedIn. ASSUME NEW u \in Users, SignedIn(u) PROVE Lists'
  <2>1. CASE strayed
    BY <1>0, <1>SignedIn, <2>1 DEF SignedIn, Lists, InStep
  <2>2. CASE ~ strayed
    <3>1. query = NoQuery /\ page # "dashboard"
      BY <1>0, <1>SignedIn, <2>2 DEF SignedIn, Owned, Public
    <3>2. query' = Observed("dashboard", starting', NoQuery, u)
      BY <1>SignedIn, <3>1 DEF SignedIn, Goto
    <3> QED
      BY <1>Blank, <3>2, ObservedIs
  <2> QED
    BY <1>0, <2>1, <2>2
<1>SignedOut. CASE SignedOut
  <2>1. query' = NoQuery \/ query' = Observed("login", starting', NoQuery, token')
    BY <1>SignedOut DEF SignedOut, Goto, Cleared
  <2> QED
    BY <1>Blank, <2>1, ObservedIs
<1>Refetch. CASE Refetch
  BY <1>Asked, <1>Refetch DEF Refetch, InStep
\* The list has what was told, for it is all the user's.
<1>ListRead. CASE ListRead
  <2>1. /\ query.fetch = "asked" /\ query.by # None /\ UNCHANGED <<keys, ghosts, crossed, told>>
        /\ query' = [query EXCEPT !.fetch = "read", !.read = Listed(query.by)]
    BY <1>ListRead DEF ListRead
  <2>2. query'.data = query.data /\ query'.old = query.old /\ query'.read = Listed(query.by)
    BY <1>0, <2>1 DEF Query
  <2>3. InStep => query.by = user
    BY <1>0, <2>1 DEF Owned
  <2>4. InStep => Knows(query'.read)
    BY <1>0, <2>1, <2>2, <2>3 DEF Told, Listed, Knows
  <2> QED
    BY <1>0, <2>1, <2>2, <2>4 DEF Lists, Knows, InStep
<1>ListLoaded. CASE ListLoaded
  <2>1. /\ query.fetch = "read" /\ UNCHANGED <<keys, ghosts, told>>
        /\ query' = [NoQuery EXCEPT !.data = query.read]
        /\ crossed' = IF "fetch" \in crossed THEN {"data"} ELSE {}
    BY <1>ListLoaded DEF ListLoaded
  <2>2. query'.data = query.read /\ query'.fetch = "no"
    BY <2>1 DEF NoQuery
  <2> QED
    BY <1>0, <2>1, <2>2 DEF Lists, Knows, InStep
<1>ListFails. CASE ListFails
  <2>1. /\ UNCHANGED <<ghosts, told>> /\ crossed' = crossed \ {"fetch"}
        /\ query' = [query EXCEPT !.fetch = "no", !.by = None, !.read = {}]
    BY <1>ListFails DEF ListFails
  <2>2. query'.data = query.data /\ query'.old = query.old /\ query'.fetch = "no"
    BY <1>0, <2>1 DEF Query
  <2> QED
    BY <1>Same, <2>1, <2>2 DEF InStep
\* What was read before is old, or known to have been read too early.
<1>Settled. ASSUME NEW c \in Calls, Created(c) \/ Revoked(c) PROVE Lists'
  <2>1. Invalidate
    BY <1>Settled DEF Created, Revoked
  <2>2. query'.data # None => query'.old
    BY <1>0, <2>1, InvalidateIs
  <2>3. query'.fetch = "read" => "fetch" \in crossed'
    BY <1>0, <2>1, InvalidateIs
  <2> QED
    BY <2>2, <2>3 DEF Lists
<1>View. CASE \/ SignInFails \/ OpenModal \/ CloseModal \/ SaveKey \/ RemoveKey \/ ChangeTab
              \/ SubmitJob \/ JobRefused \/ \E n \in Numbers : Lookup(n) \/ LookedUp(n)
  BY <1>Other, <1>View DEF SignInFails, OpenModal, CloseModal, SaveKey, RemoveKey, ChangeTab,
                          SubmitJob, JobRefused, Lookup, LookedUp
<1>Call. ASSUME NEW c \in Calls,
                \/ CreateKey(c) \/ (\E k \in Key : Revoke(c, k))
                \/ Serve(c) \/ Resent(c) \/ Fails(c)
         PROVE  Lists'
  BY <1>Other, <1>Call DEF CreateKey, Revoke, Serve, ServeCreate, ServeRevoke, Resent, Fails
<1>Stutter. CASE UNCHANGED vars
  BY <1>Other, <1>Stutter DEF vars
<1> QED
  BY <1>Stutter, <1>Navigate, <1>Load, <1>Loaded, <1>Elsewhere, <1>SignIn, <1>SignedIn,
     <1>SignedOut, <1>Refetch, <1>ListRead, <1>ListResent, <1>ListLoaded, <1>ListFails,
     <1>View, <1>Call, <1>Settled DEF Next, Settle
-----------------------------------------------------------------------------
(* The key that was created.                                               *)

\* Does the modal that is open wait for key k by call c.
Holds(c, k) == calls[c] # None /\ calls[c].op = "create" /\ calls[c].mine /\ calls[c].key = k

\* Why key k is no longer awaited.
Lost(k) ==
  \/ page' # page \/ Load(page)
  \/ view.open /\ view.plain = k
  \/ \E c \in Calls : calls[c] # None /\ calls[c].key = k /\ Fails(c)

LEMMA KeyStep == IInv /\ [Next]_vars => \A k \in Awaited \ Awaited' : Lost(k)
<1> SUFFICES ASSUME IInv, [Next]_vars, NEW k \in Awaited, ~ Lost(k) PROVE k \in Awaited'
  OBVIOUS
<1>0. /\ TypeOK /\ Underway /\ Begun /\ view \in Views /\ calls \in [Calls -> Call \union {None}]
      /\ (user = None /\ starting = None => page \in Public)
      /\ user \in Users \union {None} /\ starting \in Users \union {None}
  BY DEF IInv, TypeOK
<1>1. k # None /\ (view.plain = k \/ \E c \in Calls : Holds(c, k))
  BY DEF Awaited, Holds
<1>2. page' = page /\ ~ Load(page)
  BY DEF Lost
<1> USE NoneIs
<1>Kept. ASSUME view.plain = k => view'.plain = k,
                \A c \in Calls : Holds(c, k) => Holds(c, k)' \/ view'.plain = k
         PROVE  k \in Awaited'
  <2>1. view'.plain = k \/ \E c \in Calls : Holds(c, k)'
    BY <1>1, <1>Kept
  <2> QED
    BY <1>1, <2>1 DEF Awaited, Holds
<1>Still. ASSUME view'.plain = view.plain, UNCHANGED calls PROVE k \in Awaited'
  BY <1>Kept, <1>Still DEF Holds
<1>Stutter. CASE UNCHANGED vars
  BY <1>Still, <1>Stutter DEF vars
<1>Navigate. ASSUME NEW p \in Pages, Navigate(p) PROVE k \in Awaited'
  BY <1>2, <1>Navigate DEF Navigate, Goto
\* A load that leads where the page is.
<1>Load. ASSUME NEW p \in Pages, Load(p) PROVE k \in Awaited'
  <2>1. page' = Route(p, None, token) /\ Route(page', None, token) = page'
    BY <1>Load DEF Load, Route, Public
  <2>2. Load(page)
    BY <1>2, <1>Load, <2>1 DEF Load
  <2> QED
    BY <1>2, <2>2
\* No key is awaited behind the spinner.
<1>Loaded. CASE Loaded
  <2>1. view.plain = None /\ \A c \in Calls : calls[c] = None
    BY <1>0, <1>Loaded DEF Loaded, Begun
  <2> QED
    BY <1>1, <2>1 DEF Holds
<1>Session. CASE SignedOut \/ \E u \in Users : SignedIn(u)
  <2>1. UNCHANGED <<view, calls>>
    BY <1>2, <1>Session DEF SignedOut, SignedIn, Goto
  <2> QED
    BY <1>Still, <2>1
<1>Form. CASE SignIn \/ SignInFails
  <2>1. view'.plain = view.plain /\ UNCHANGED calls
    BY <1>0, <1>Form DEF SignIn, SignInFails, Views
  <2> QED
    BY <1>Still, <2>1
<1>Quiet. CASE \/ Refetch \/ ListRead \/ ListResent \/ Forget
               \/ \E u \in Users \union {None} : Elsewhere(u)
  BY <1>Still, <1>Quiet DEF Refetch, ListRead, ListResent, Forget, Elsewhere
\* The modal that waits shows what it waited for.
<1>ShowKey. ASSUME NEW cs \in [Calls -> Call \union {None}], ShowKey(cs),
                   \A c \in Calls : Holds(c, k) => cs[c] = calls[c]
            PROVE  k \in Awaited'
  <2>1. CASE view' = view /\ calls' = cs
    BY <1>Kept, <1>ShowKey, <2>1 DEF Holds
  <2>2. ASSUME NEW w \in Calls, Waits(w),
               view' = [view EXCEPT !.loading = FALSE, !.plain = calls[w].key]
        PROVE  k \in Awaited'
    <3>1. Mine(w) /\ view.plain = None
      BY <1>0, <2>2 DEF Underway, Sound, Mine, Waits
    <3>2. PICK c \in Calls : Holds(c, k)
      BY <1>1, <3>1
    <3>3. c = w
      BY <1>0, <3>1, <3>2 DEF Underway, Holds, Mine
    <3>4. view'.plain = k
      BY <1>0, <2>2, <3>2, <3>3 DEF Holds, Views
    <3> QED
      BY <1>Kept, <3>4
  <2> QED
    BY <1>0, <1>ShowKey, <2>1, <2>2, ShowKeyIs
<1>Listed. CASE ListLoaded \/ ListFails
  BY <1>0, <1>ShowKey, <1>Listed DEF ListLoaded, ListFails
<1>CloseModal. CASE CloseModal
  <2>1. view.open /\ UNCHANGED calls
    BY <1>CloseModal DEF CloseModal
  <2>2. view.plain # k
    BY <2>1 DEF Lost
  <2> QED
    BY <1>Kept, <2>1, <2>2 DEF Holds
<1>View. CASE OpenModal \/ SaveKey \/ RemoveKey \/ SubmitJob \/ JobRefused
  <2>1. UNCHANGED calls
    BY <1>View DEF OpenModal, SaveKey, RemoveKey, SubmitJob, JobRefused
  <2>2. view'.plain = view.plain
    <3>1. CASE OpenModal \/ SaveKey \/ RemoveKey
      BY <1>0, <3>1 DEF OpenModal, SaveKey, RemoveKey, Views
    <3>2. CASE SubmitJob \/ JobRefused
      BY <1>0, <3>2 DEF SubmitJob, JobRefused, Views
    <3> QED
      BY <1>View, <3>1, <3>2
  <2> QED
    BY <1>Still, <2>1, <2>2
<1>Lookup. CASE ChangeTab \/ \E n \in Numbers : Lookup(n) \/ LookedUp(n)
  <2>1. UNCHANGED calls
    BY <1>Lookup DEF ChangeTab, Lookup, LookedUp
  <2>2. view'.plain = view.plain
    BY <1>0, <1>Lookup DEF ChangeTab, Lookup, LookedUp, Views
  <2> QED
    BY <1>Still, <2>1, <2>2
\* A call that holds no key for the modal changes, and no other.
<1>Call. ASSUME NEW c \in Calls, NEW v, calls' = [calls EXCEPT ![c] = v],
                view'.plain = view.plain, ~ Holds(c, k)
         PROVE  k \in Awaited'
  <2>1. \A d \in Calls : d # c => calls'[d] = calls[d]
    BY <1>0, <1>Call
  <2> QED
    BY <1>Kept, <1>Call, <2>1 DEF Holds
<1>CreateKey. ASSUME NEW c \in Calls, CreateKey(c) PROVE k \in Awaited'
  <2>1. view'.plain = view.plain
    BY <1>0, <1>CreateKey DEF CreateKey, Views
  <2>2. calls[c] = None /\ \E v : calls' = [calls EXCEPT ![c] = v]
    BY <1>CreateKey DEF CreateKey, Send
  <2> QED
    BY <1>Call, <2>1, <2>2 DEF Holds
<1>Revoke. ASSUME NEW c \in Calls, NEW r \in Key, Revoke(c, r) PROVE k \in Awaited'
  <2>1. UNCHANGED view /\ calls[c] = None /\ \E v : calls' = [calls EXCEPT ![c] = v]
    BY <1>Revoke DEF Revoke, Send
  <2> QED
    BY <1>Call, <2>1 DEF Holds
<1>ServeCreate. ASSUME NEW c \in Calls, ServeCreate(c) PROVE k \in Awaited'
  <2>1. /\ UNCHANGED view /\ \E v : calls' = [calls EXCEPT ![c] = v]
        /\ calls[c] # None /\ calls[c].op = "create" /\ calls[c].at = "sent"
    BY <1>ServeCreate DEF ServeCreate, Is
  <2>2. calls[c].key = None
    BY <1>0, <2>1 DEF Underway, Sound
  <2> QED
    BY <1>1, <1>Call, <2>1, <2>2 DEF Holds
<1>ServeRevoke. ASSUME NEW c \in Calls, ServeRevoke(c) PROVE k \in Awaited'
  <2>1. /\ UNCHANGED view /\ \E v : calls' = [calls EXCEPT ![c] = v]
        /\ calls[c] # None /\ calls[c].op = "revoke"
    BY <1>ServeRevoke DEF ServeRevoke, Is
  <2> QED
    BY <1>Call, <2>1 DEF Holds
<1>Created. ASSUME NEW c \in Calls, Created(c) PROVE k \in Awaited'
  <2>1. UNCHANGED view /\ calls[c] # None /\ calls[c] \in Call
    BY <1>0, <1>Created DEF Created, Is
  <2>2. CASE calls[c].mine
    <3>1. calls' = [calls EXCEPT ![c] = [calls[c] EXCEPT !.at = "waiting"]]
      BY <1>Created, <2>2 DEF Created
    <3>2. calls'[c] = [calls[c] EXCEPT !.at = "waiting"] /\ \A d \in Calls : d # c => calls'[d] = calls[d]
      BY <1>0, <3>1
    <3>3. /\ calls'[c] \in Call /\ calls'[c].op = calls[c].op
          /\ calls'[c].mine = calls[c].mine /\ calls'[c].key = calls[c].key
      BY <2>1, <3>2 DEF Call
    <3>4. calls'[c] # None
      BY <3>3, CallAssumption
    <3> QED
      BY <1>Kept, <2>1, <3>2, <3>3, <3>4 DEF Holds
  <2>3. CASE ~ calls[c].mine
    BY <1>Call, <1>Created, <2>1, <2>3 DEF Created, Without, Holds
  <2> QED
    BY <2>2, <2>3
<1>Revoked. ASSUME NEW c \in Calls, Revoked(c) PROVE k \in Awaited'
  <2>1. calls[c].op = "revoke" /\ Without(c) = [calls EXCEPT ![c] = None]
    BY <1>Revoked DEF Revoked, Is, Without
  <2>2. Without(c) \in [Calls -> Call \union {None}]
        /\ \A d \in Calls : Holds(d, k) => Without(c)[d] = calls[d]
    BY <1>0, <2>1 DEF Holds
  <2>3. CASE calls' = Without(c) /\ UNCHANGED view
    BY <1>Call, <2>1, <2>3 DEF Holds
  <2>4. CASE ShowKey(Without(c))
    BY <1>ShowKey, <2>2, <2>4
  <2> QED
    BY <1>Revoked, <2>3, <2>4 DEF Revoked
<1>Resent. ASSUME NEW c \in Calls, Resent(c) PROVE k \in Awaited'
  <2>1. /\ UNCHANGED view /\ calls' = [calls EXCEPT ![c] = [calls[c] EXCEPT !.by = token]]
        /\ calls[c] # None /\ calls[c].at = "sent"
    BY <1>Resent DEF Resent
  <2>2. calls[c].op = "create" => calls[c].key = None
    BY <1>0, <2>1 DEF Underway, Sound
  <2> QED
    BY <1>1, <1>Call, <2>1, <2>2 DEF Holds
<1>Fails. ASSUME NEW c \in Calls, Fails(c) PROVE k \in Awaited'
  <2>1. ~ Holds(c, k)
    BY <1>Fails DEF Lost, Holds
  <2>2. view'.plain = view.plain
    BY <1>0, <1>Fails DEF Fails, Views
  <2> QED
    BY <1>Call, <1>Fails, <2>1, <2>2 DEF Fails, Without
<1> QED
  BY <1>Stutter, <1>Navigate, <1>Load, <1>Loaded, <1>Session, <1>Form, <1>Resent, <1>Quiet, <1>Listed, <1>CloseModal,
     <1>View, <1>Lookup, <1>CreateKey, <1>Revoke, <1>ServeCreate, <1>ServeRevoke, <1>Created,
     <1>Revoked, <1>Fails DEF Next, Serve, Settle
-----------------------------------------------------------------------------
(* The theorems.                                                           *)

LEMMA InitIInv == Init => IInv
<1> SUFFICES ASSUME Init PROVE IInv
  OBVIOUS
<1>1. /\ keys = <<>> /\ user = None /\ starting = None /\ signing = "no" /\ token = None
      /\ apiKey = FALSE /\ page = "login"
      /\ view = Mounted("login", FALSE) /\ query = NoQuery /\ calls = [c \in Calls |-> None]
      /\ lookups = {} /\ made = {} /\ unmade = {} /\ crossed = {}
      /\ strayed = FALSE /\ behind = FALSE
  BY DEF Init, KeysInit
<1>2. KeysTypeOK
  BY <1>1, EmptySeq, KeysAssumption DEF KeysTypeOK
<1>3. view \in Views /\ query \in Query /\ "login" \in Public /\ "login" \in Pages
  BY <1>1, MountedType, QueryTypes DEF Public, Pages
<1>4. TypeOK
  BY <1>1, <1>2, <1>3 DEF TypeOK
<1>5. ~ view.open /\ view.plain = None /\ view.result = None
  BY <1>1 DEF Mounted
<1>6. query.data = None /\ query.fetch = "no" /\ query.read = {}
  BY <1>1 DEF NoQuery
<1>7. Underway
  BY <1>1 DEF Underway, Sound, Mine
<1>8. Shown
  BY <1>1, <1>5 DEF Shown, ResultOfLatest
<1>9. Told /\ Owned /\ Modal /\ Lists
  BY <1>1, <1>5, <1>6 DEF Told, RowsOf, Owned, Modal, Mine, Lists
<1>10. Begun /\ Tokens
  BY <1>1 DEF Begun, Tokens, Whose
<1> QED
  BY <1>4, <1>7, <1>8, <1>9, <1>10 DEF IInv

(* The tab keeps its invariant through all that is under way.              *)
THEOREM Inductive == Spec => []IInv
<1>1. IInv /\ [Next]_vars => IInv'
  BY TypeStep, UnderwayStep, ShownStep, ToldStep, BegunStep, TokensStep, OwnedStep, ModalStep,
     ListsStep DEF IInv
<1> QED
  BY <1>1, InitIInv, PTL DEF Spec

(* Every variable keeps its type: one page is mounted at a time, and none  *)
(* that needs a user without one (App.tsx, ProtectedRoute.tsx).            *)
THEOREM TypeCorrect == Spec => []TypeOK
<1>1. IInv => TypeOK
  BY DEF IInv
<1> QED
  BY <1>1, Inductive, PTL

(* A list believed for five minutes has the keys this tab created and none *)
(* it revoked, unless its answer was on its way already (useDashboard.ts). *)
THEOREM ListIsCurrent == Spec => []ListCurrent
<1>1. IInv => ListCurrent
  BY DEF IInv, Lists, ListCurrent, Fresh, Knows
<1> QED
  BY <1>1, Inductive, PTL

(* The list and the plaintext on the screen are of the user who is shown,  *)
(* while the page is in step with the session (AuthProvider.tsx, Login.tsx,*)
(* client.ts).                                                             *)
THEOREM ListIsTheUsers == Spec => []OneUser
<1>1. IInv => OneUser
  BY DEF IInv, Owned, Modal, OneUser
<1> QED
  BY <1>1, Inductive, PTL

(* The card on the screen answers what was submitted last (LookupPage.tsx).*)
THEOREM CardIsOfLatest == Spec => []ResultOfLatest
<1>1. IInv => ResultOfLatest
  BY DEF IInv, Shown
<1> QED
  BY <1>1, Inductive, PTL

(* "Copy your API key now": a key that was created is on its way to the    *)
(* screen until its page is left, its answer is lost or it was shown       *)
(* (CreateKeyModal.tsx, useDashboard.ts).                                  *)
THEOREM KeyReachesScreen == Spec => KeyIsShown
<1>1. IInv /\ [Next]_vars
        => [\A k \in Awaited \ Awaited' :
              \/ page' # page \/ Load(page)
              \/ view.open /\ view.plain = k
              \/ \E c \in Calls : calls[c] # None /\ calls[c].key = k /\ Fails(c)]_vars
  BY KeyStep DEF Lost
<1> QED
  BY <1>1, Inductive, PTL DEF Spec, KeyIsShown
=============================================================================
