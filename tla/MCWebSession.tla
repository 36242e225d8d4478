---------------------------- MODULE MCWebSession -----------------------------
(* WebSession for TLC: two fibers in one tab. *)
EXTENDS WebSession, TLC

CONSTANTS f, g, s

OneTab == (f :> s) @@ (g :> s)

Perms == Permutations({f, g}) \cup Permutations(Users)
=============================================================================
