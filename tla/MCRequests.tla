------------------------------ MODULE MCRequests -----------------------------
(* Requests for TLC.  The instances of MCRateLimit, and one key.            *)
EXTENDS Requests, TLC

CONSTANTS s1, b2

MCKind == [r \in Requests |-> IF r = b2 THEN "bulk" ELSE "single"]
MCCost == [r \in Requests |-> IF r = b2 THEN 2 ELSE 1]
MCPeriod == [w \in Fixed |-> CASE w = "day" -> 2 [] w = "month" -> 4 [] OTHER -> 2]
MCTTL == [w \in Fixed |-> MCPeriod[w] + 1]
MCLimit == [w \in Fixed |-> CASE w = "day" -> 2 [] w = "month" -> 3 [] OTHER -> 1]
=============================================================================
