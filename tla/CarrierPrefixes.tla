---------------------------- MODULE CarrierPrefixes ----------------------------
(***************************************************************************)
(* What the published tables become and how a number finds its carrier:    *)
(* data-loader/src/sources/ofcom.ts makes a prefix of each range of        *)
(* numbers, nanpa.ts one of each pair of codes, and the query of           *)
(* lookup/carrierRepo.ts takes the longest prefix a number begins with.    *)
(* A number is a sequence of digits, as the tables print it but for the    *)
(* blanks, dashes and dots that are removed.                               *)
(***************************************************************************)
EXTENDS Naturals, Sequences, SequencesExt

Digits == 0 .. 9
None == <<>>   \* null: no digits, no carrier
IsDigits(s) == s # <<>> /\ \A i \in DOMAIN s : s[i] \in Digits

\* seen.set(prefix, row) over the rows of a file, as a set of [prefix, carrier]: a row
\* whose prefix is null is skipped, and the last one with a prefix stays.
Kept(rows) ==
  {rows[i] : i \in {j \in DOMAIN rows :
     /\ rows[j].prefix # None
     /\ \A k \in DOMAIN rows : k > j => rows[k].prefix # rows[j].prefix}}
-----------------------------------------------------------------------------
(* ofcom.ts *)

\* The trunk prefix 0 goes; what is no number of two digits is null.
ExtractPrefix(raw) ==
  IF ~ IsDigits(raw) \/ Len(raw) < 2 THEN None
  ELSE IF Head(raw) = 0 THEN Tail(raw) ELSE raw

CommonPrefix(a, b) == LongestCommonPrefix({a, b})

\* The prefix of the range from .. to, which may have no end; null is skipped.
RangePrefix(from, to) ==
  LET f == ExtractPrefix(from)
      t == ExtractPrefix(to)
      common == IF t # None /\ Len(t) >= Len(f) /\ CommonPrefix(f, t) # <<>>
                  THEN CommonPrefix(f, t) ELSE f
  IN  IF f = None \/ Len(f) < 2 THEN None
      ELSE IF Len(common) < 2 THEN None ELSE common

LoadOfcom(csvRows) ==
  Kept([i \in DOMAIN csvRows |->
          [prefix |-> RangePrefix(csvRows[i].from, csvRows[i].to),
           carrier |-> csvRows[i].provider]])
-----------------------------------------------------------------------------
(* nanpa.ts *)

\* Both codes have three digits, or the row is skipped.
CodesPrefix(npa, nxx) == IF Len(npa) = 3 /\ Len(nxx) = 3 THEN npa \o nxx ELSE None

LoadNanpa(csvRows) ==
  Kept([i \in DOMAIN csvRows |->
          [prefix |-> CodesPrefix(csvRows[i].npa, csvRows[i].nxx),
           carrier |-> csvRows[i].company]])
-----------------------------------------------------------------------------
(* carrierRepo.ts *)

\* The WHERE of LPM_QUERY, in one country.
Matching(table, number) == {r \in table : IsPrefix(r.prefix, number)}

(* mutant: ORDER BY prefix_length *)
FindCarrier_shortest(table, number) ==
  LET found == Matching(table, number)
  IN  IF found = {} THEN None
      ELSE (CHOOSE r \in found : \A q \in found : Len(r.prefix) <= Len(q.prefix)).carrier

\* ORDER BY prefix_length DESC LIMIT 1: a country has a prefix once.
FindCarrier(table, number) ==
  LET found == Matching(table, number)
  IN  IF found = {} THEN None
      ELSE (CHOOSE r \in found : \A q \in found : Len(r.prefix) >= Len(q.prefix)).carrier
=============================================================================
