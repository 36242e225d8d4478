---------------------------- MODULE PublishedTables ----------------------------
(***************************************************************************)
(* What the readers of the tables rely on, the lookups that look for a     *)
(* prefix and the operator who looks at data_loads: the abstract           *)
(* specification that DataLoader implements.  Nothing here knows of        *)
(* staging, statements, transactions or locks.                             *)
(*                                                                         *)
(* A load is a pair of its run and its source.  Its file replaces the rows *)
(* of that source in one step, once and only if it has any, and says it    *)
(* succeeded only afterwards.  A load beside another of the source may     *)
(* leave rows in place that its own file does not list, and no other.      *)
(***************************************************************************)
CONSTANTS Loads,   \* pairs of a run and a source
          Keys     \* pairs of a source and a prefix

VARIABLES content,    \* rows readers see: pairs of a key and the load it is from
          listed,     \* load -> keys of its file
          outcome,    \* load -> status of its data_loads row
          published,  \* loads whose files readers were shown
          beside      \* loads that ran into another of their source

vars == <<content, listed, outcome, published, beside>>

Of(s) == {c \in content : c[1][1] = s}
Underway(L) == outcome[L] = "started" /\ L \notin published

Init == /\ content = {}
        /\ listed = [L \in Loads |-> {}]
        /\ outcome = [L \in Loads |-> "none"]
        /\ published = {}
        /\ beside = {}

Begin(L) == /\ outcome[L] = "none"
            /\ outcome' = [outcome EXCEPT ![L] = "started"]
            /\ UNCHANGED <<content, listed, published, beside>>

(* the file is read, once *)
ReadFile(L, K) == /\ Underway(L)
                  /\ listed[L] = {} /\ \A k \in K : k[1] = L[2]
                  /\ listed' = [listed EXCEPT ![L] = K]
                  /\ UNCHANGED <<content, outcome, published, beside>>

(* several loads of one source are under way at once *)
Meet(L, M) == /\ L \in M /\ M # {L}
              /\ \A N \in M : Underway(N) /\ N[2] = L[2]
              /\ beside' = beside \cup M
              /\ UNCHANGED <<content, listed, outcome, published>>

(* the file takes the place of what was there *)
Publish(L) == /\ Underway(L)
              /\ listed[L] # {}
              /\ \E kept \in SUBSET Of(L[2]) :
                   /\ L \notin beside => kept = {}
                   /\ \A c \in kept : c[1] \notin listed[L]
                   /\ content' = (content \ Of(L[2])) \cup kept \cup (listed[L] \X {L})
              /\ published' = published \cup {L}
              /\ UNCHANGED <<listed, outcome, beside>>

(* the operator is told, which may fail *)
End(L) == /\ outcome[L] = "started"
          /\ \E o \in {"success", "failed"} :
               /\ o = "success" => L \in published \/ listed[L] = {}
               /\ outcome' = [outcome EXCEPT ![L] = o]
          /\ UNCHANGED <<content, listed, published, beside>>

Next == \E L \in Loads :
          \/ Begin(L) \/ Publish(L) \/ End(L)
          \/ \E K \in SUBSET Keys : ReadFile(L, K)
          \/ \E M \in SUBSET Loads : Meet(L, M)

Spec == Init /\ [][Next]_vars
=============================================================================
