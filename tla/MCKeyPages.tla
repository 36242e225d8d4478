------------------------------ MODULE MCKeyPages -----------------------------
(* KeyPages for TLC. *)
EXTENDS KeyPages, TLC

Perms == Permutations(Calls) \cup Permutations(Numbers) \cup Permutations(Users)

\* Bounds: followed no further than its first steps is what goes on beside a call or a
\* fetch: the lookup page and a key kept, the second of the two forms; what happens out of
\* step, beside a call or with two keys; and a second call, if somebody signs in or it or
\* the stored token is not of the user shown.
Sent == {c \in Calls : calls[c] # None}
Idle == query.fetch = "no" /\ Sent = {}
Bounds ==
  /\ view.bulk \/ view.asked # None \/ apiKey \/ page = "register" => Idle
  /\ ~ InStep => Sent = {} /\ Len(keys) < 2
  /\ signing # "no" \/ token # user \/ (\E c \in Sent : calls[c].by # user)
       => \A c, e \in Sent : c = e
=============================================================================
