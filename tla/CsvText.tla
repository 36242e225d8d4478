------------------------------- MODULE CsvText --------------------------------
(***************************************************************************)
(* The three places that write or read lines of fields: the result file of *)
(* a job (worker.ts), the file of numbers a job is made from (lookup.ts)   *)
(* and the published tables (data-loader/src/csv.ts).  A text is a         *)
(* sequence of characters, of which only these have a meaning.  A scan of  *)
(* a text is a function of how far it has come.                            *)
(***************************************************************************)
EXTENDS Naturals, Sequences, SequencesExt

Quote == "\""
Comma == ","
Space == " "
Newline == "\n"
Return == "\r"
Mark == "BOM"
Blank == {Space, Newline, Return, Mark}

Map(f(_), ps) == [i \in DOMAIN ps |-> f(ps[i])]

\* String.prototype.trim.
Trim(s) ==
  LET solid == {i \in DOMAIN s : s[i] \notin Blank}
  IN  IF solid = {} THEN <<>> ELSE SubSeq(s, Min(solid), Max(solid))

\* filter(Boolean).
NonEmpty(ps) ==
  LET upTo[i \in 0 .. Len(ps)] ==
        IF i = 0 THEN <<>>
        ELSE IF ps[i] = <<>> THEN upTo[i - 1] ELSE Append(upTo[i - 1], ps[i])
  IN  upTo[Len(ps)]

\* The line read last, unless it is blank.
Closed(at) == IF Trim(at.current) = <<>> THEN at.lines ELSE Append(at.lines, at.current)

Read(at, ch) ==
  IF ch = Newline THEN [lines |-> Closed(at), current |-> <<>>]
  ELSE [lines |-> at.lines, current |-> Append(at.current, ch)]

\* split on the ends of lines, and the filter that drops the blank ones.
Lines(text) ==
  LET at[i \in 0 .. Len(text)] ==
        IF i = 0 THEN [lines |-> <<>>, current |-> <<>>] ELSE Read(at[i - 1], text[i])
  IN  Closed(at[Len(text)])
-----------------------------------------------------------------------------
(* worker.ts *)

Special == {Comma, Quote, Newline}

(* mutant: quotes inside are not doubled *)
EscapeCSV_bare(s) ==
  IF ToSet(s) \cap Special = {} THEN s ELSE <<Quote>> \o s \o <<Quote>>

EscapeCSV(s) ==
  IF ToSet(s) \cap Special = {} THEN s
  ELSE <<Quote>> \o FlattenSeq(Map(LAMBDA c : IF c = Quote THEN <<Quote, Quote>> ELSE <<c>>, s)) \o <<Quote>>

\* A line of the result file without its end, for the fields of a response.
ResponseToCSVRow(fields) == Tail(FlattenSeq(Map(LAMBDA f : <<Comma>> \o EscapeCSV(f), fields)))
-----------------------------------------------------------------------------
(* csv.ts *)

\* parseLine at its character i: the fields before, the field so far, inQuotes, and
\* whether this character was read with the one before.
Scan(line, at, i) ==
  LET ch == line[i]
      double == ch = Quote /\ at.inQuotes /\ i < Len(line) /\ line[i + 1] = Quote
  IN  CASE at.skip -> [at EXCEPT !.skip = FALSE]
        [] ~ at.skip /\ double -> [at EXCEPT !.current = Append(@, Quote), !.skip = TRUE]
        [] ~ at.skip /\ ch = Quote /\ ~ double -> [at EXCEPT !.inQuotes = ~ @]
        [] ~ at.skip /\ ch = Comma /\ ~ at.inQuotes ->
             [at EXCEPT !.result = Append(@, Trim(at.current)), !.current = <<>>]
        [] OTHER -> [at EXCEPT !.current = Append(@, ch)]

Scanned(line) ==
  LET at[i \in 0 .. Len(line)] ==
        IF i = 0 THEN [result |-> <<>>, current |-> <<>>, inQuotes |-> FALSE, skip |-> FALSE]
        ELSE Scan(line, at[i - 1], i)
  IN  at[Len(line)]

ParseLine(line) == Append(Scanned(line).result, Trim(Scanned(line).current))

\* Every kind of line end is one, and a blank line is no line.
LinesOf(raw) ==
  LET text == IF raw # <<>> /\ Head(raw) = Mark THEN Tail(raw) ELSE raw
  IN  Lines(Map(LAMBDA c : IF c = Return THEN Newline ELSE c, text))

\* The rows below the header, in the order of its columns: a short row is filled up, what
\* has no column is dropped.
ParseCSV(raw) ==
  LET lines == LinesOf(raw)
      row(l) == [i \in DOMAIN ParseLine(lines[1]) |->
                   IF i \in DOMAIN ParseLine(l) THEN ParseLine(l)[i] ELSE <<>>]
  IN  IF Len(lines) < 2 THEN <<>> ELSE Map(row, Tail(lines))
-----------------------------------------------------------------------------
(* routes/lookup.ts *)

\* split(',')[0].
FirstField(line) ==
  LET commas == {i \in DOMAIN line : line[i] = Comma}
  IN  IF commas = {} THEN line ELSE SubSeq(line, 1, Min(commas) - 1)

(* mutant: a quote at the front only *)
Bare_front(s) == IF s # <<>> /\ Head(s) = Quote THEN Tail(s) ELSE s

\* replace(/^"|"$/g, '').
Bare(s) ==
  LET front == IF s # <<>> /\ Head(s) = Quote THEN Tail(s) ELSE s
  IN  IF front # <<>> /\ front[Len(front)] = Quote THEN SubSeq(front, 1, Len(front) - 1) ELSE front

\* A \r before the end of a line is trimmed with it.
ParseNumbersFromText(text) ==
  NonEmpty(Map(LAMBDA l : Bare(Trim(FirstField(Trim(l)))), Lines(text)))
=============================================================================
