---------------------------- MODULE MCLookupCache ----------------------------
(* LookupCache for TLC. *)
EXTENDS LookupCache, TLC

Perms == Permutations(Lookups) \cup Permutations(Numbers) \cup Permutations(Flushes)
=============================================================================
