------------------------------- MODULE ApiKeys -------------------------------
(***************************************************************************)
(* The table api_keys as routes/me.ts and auth/apiKey.ts use it.  Keys are *)
(* numbered in the order of their rows; what a caller presents is the key  *)
(* itself, its hash or its id being as good as the number.                 *)
(***************************************************************************)
EXTENDS Naturals, Sequences

CONSTANTS
  Users,
  MaxKeys,   \* bound: rows of api_keys
  None

Key == 1 .. MaxKeys

ASSUME KeysAssumption == MaxKeys \in Nat
ASSUME KeyNoneAssumption == None \notin Users \cup Key

VARIABLE keys   \* whose, and revoked_at IS NULL

KeysTypeOK ==
  /\ keys \in Seq([owner : Users, live : BOOLEAN])
  /\ Len(keys) <= MaxKeys

KeysInit == keys = <<>>

\* GET /me/keys.
Listed(u) == {k \in DOMAIN keys : keys[k].owner = u /\ keys[k].live}

\* POST /me/keys: the row of key Len(keys) + 1.
InsertKey(u) ==
  /\ Len(keys) < MaxKeys
  /\ keys' = Append(keys, [owner |-> u, live |-> TRUE])

\* DELETE /me/keys/:key_id finds the row, or 404.
Revocable(u, k) == k \in Listed(u)

RevokeKey(k) == keys' = [keys EXCEPT ![k].live = FALSE]
=============================================================================
