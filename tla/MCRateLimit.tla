----------------------------- MODULE MCRateLimit -----------------------------
(* RateLimit for TLC.  One calendar day is two ticks, a month four; a key  *)
(* outlives its window by one tick, as 25 h and 33 days do by a little.      *)
EXTENDS RateLimit, TLC

CONSTANTS s1, s2, b2, c2, b3, l1

MCKind == [r \in Requests |-> CASE r \in {s1, s2} -> "single"
                               [] r \in {b2, c2, b3} -> "bulk"
                               [] OTHER -> "login"]
MCCost == [r \in Requests |-> CASE r \in {b2, c2} -> 2 [] r = b3 -> 3 [] OTHER -> 1]
MCPeriod == [w \in Fixed |-> CASE w = "day" -> 2 [] w = "month" -> 4 [] OTHER -> 2]
MCTTL == [w \in Fixed |-> MCPeriod[w] + 1]
MCLimit == [w \in Fixed |-> CASE w = "day" -> 2 [] w = "month" -> 3 [] OTHER -> 1]

(* requests of one kind and cost are interchangeable *)
Perms == Permutations({s1, s2}) \union Permutations({b2, c2})

(* Bounds: what comes after Redis has gone away for good, when no script    *)
(* runs any more, is not followed; a login comes beside one request at      *)
(* most, and beside no lost answer; nor what comes after a bypass beside    *)
(* another request; of three requests only the minute is followed; there is *)
(* no fourth.                                                               *)
Came == {r \in Requests : Kind[r] # "login" /\ st[r] # "idle"}
Bounds ==
  /\ up
  /\ (\E r \in Requests : stage[r] = "ip") => drops = 0 /\ Cardinality(Came) < 2
  /\ Cardinality(Came) > 1 => \A r \in Requests : st[r] # "bypassed"
  /\ Cardinality(Came) > 2 => \A r \in Requests : stage[r] \in {"none", "minute"}
  /\ Cardinality(Came) < 4
=============================================================================
