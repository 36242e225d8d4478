-------------------------------- MODULE Texts ---------------------------------
(***************************************************************************)
(* What the functions on texts promise, stated of any text they are given: *)
(* sample is one of AnySample, which holds texts of any length.            *)
(***************************************************************************)
EXTENDS CsvText, CarrierPrefixes, KeyText

CONSTANT Chars   \* characters; those CsvText does not name have no meaning

ASSUME CharsAssumption == Special \cup Blank \subseteq Chars

VARIABLE sample

String == Seq(Chars)
Lacks(s, C) == \A i \in DOMAIN s : s[i] \notin C
-----------------------------------------------------------------------------
(* worker.ts, csv.ts *)

Fields == Seq(String) \ {<<>>}
RowTexts == [kind : {"row"}, fields : Fields]

LineEnd == {Newline, Return}

\* What stands between two lines: an end of line and blank lines.
IsGap(s, E) == s # <<>> => s[1] \in E /\ s[Len(s)] \in E

\* A file: whether it begins with a mark; the header and the rows, no field of which
\* breaks its line and no line of which is blank; what follows each.
FileTexts ==
  {f \in [kind : {"file"}, mark : BOOLEAN, rows : Seq(Fields), gaps : Seq(Seq(Blank))] :
     /\ f.rows # <<>> /\ Len(f.gaps) = Len(f.rows)
     /\ \A i \in DOMAIN f.rows :
          /\ Lacks(ResponseToCSVRow(f.rows[i]), LineEnd)
          /\ Trim(ResponseToCSVRow(f.rows[i])) # <<>>
          /\ IsGap(f.gaps[i], LineEnd)
          /\ i < Len(f.rows) => f.gaps[i] # <<>>
     /\ f.mark \/ ResponseToCSVRow(f.rows[1])[1] # Mark}

FileOf(f) ==
  (IF f.mark THEN <<Mark>> ELSE <<>>)
  \o FlattenSeq([i \in DOMAIN f.rows |-> ResponseToCSVRow(f.rows[i]) \o f.gaps[i]])

\* A row of a result file read by the parser of the loader has the fields it was made
\* from but for blanks at their ends, whatever quotes, commas and line ends they hold;
\* and a file of such rows, whatever ends its lines, has them all, as wide as its header,
\* if no field breaks its line (worker.ts 27-34, csv.ts 1-54).
RowsReadBack ==
  /\ sample.kind = "row" =>
       ParseLine(ResponseToCSVRow(sample.fields)) = Map(Trim, sample.fields)
  /\ sample.kind = "file" =>
       ParseCSV(FileOf(sample)) =
         [j \in 1 .. Len(sample.rows) - 1 |->
            [i \in DOMAIN sample.rows[1] |->
               IF i \in DOMAIN sample.rows[j + 1] THEN Trim(sample.rows[j + 1][i]) ELSE <<>>]]
-----------------------------------------------------------------------------
(* routes/lookup.ts *)

\* A line of a file of numbers: the number, quoted or not, blanks around it, and what
\* other columns there are; then an end of line and blank lines.
NumberLines ==
  {l \in [number : String, quoted : BOOLEAN, before : Seq(Blank \ {Newline}),
          after : Seq(Blank \ {Newline}), columns : String, gap : Seq(Blank)] :
     /\ l.number # <<>> /\ Trim(l.number) = l.number
     /\ Lacks(l.number, {Comma, Newline})
     /\ l.number[1] # Quote /\ l.number[Len(l.number)] # Quote
     /\ l.columns # <<>> => l.columns[1] = Comma /\ Lacks(l.columns, {Newline})
     /\ IsGap(l.gap, {Newline})}

UploadTexts ==
  {u \in [kind : {"upload"}, lines : Seq(NumberLines)] :
     \A i \in DOMAIN u.lines : i < Len(u.lines) => u.lines[i].gap # <<>>}

Quoted(l) == IF l.quoted THEN <<Quote>> \o l.number \o <<Quote>> ELSE l.number
LineOf(l) == l.before \o Quoted(l) \o l.after \o l.columns
UploadOf(u) == FlattenSeq([i \in DOMAIN u.lines |-> LineOf(u.lines[i]) \o u.lines[i].gap])

\* A file of numbers, quoted or not, padded or followed by other columns, with any line
\* ends and with blank lines, is these numbers in their order (lookup.ts 147-158).
UploadReadsNumbers ==
  sample.kind = "upload" =>
    ParseNumbersFromText(UploadOf(sample)) = [i \in DOMAIN sample.lines |-> sample.lines[i].number]
-----------------------------------------------------------------------------
(* sources/ofcom.ts, sources/nanpa.ts, carrierRepo.ts *)

Numbers == Seq(Digits)

\* What a sequence of digits counts, after each of them.
Counted(n) ==
  LET v[i \in 0 .. Len(n)] == IF i = 0 THEN 0 ELSE 10 * v[i - 1] + n[i]
  IN  v
Value(n) == Counted(n)[Len(n)]

\* The number of w digits that begins with those of B and goes on with d.
Filled(B, d, w) == [i \in 1 .. w |-> IF i \in DOMAIN B THEN B[i] ELSE d]

\* A table of whole ranges, each of all numbers with the same first digits, printed with
\* or without the trunk prefix; and a number as long as those of the table.
RangeTexts ==
  {s \in [kind : {"ranges"}, trunk : BOOLEAN, blocks : Seq(Numbers), number : Numbers] :
     \A i \in DOMAIN s.blocks :
       /\ Len(s.blocks[i]) \in 2 .. Len(s.number)
       /\ s.trunk \/ s.blocks[i][1] # 0}

\* The rows of the table; the block a range is allotted to is its place.
Ranges(s) ==
  LET trunk == IF s.trunk THEN <<0>> ELSE <<>>
  IN  [i \in DOMAIN s.blocks |->
         [from |-> trunk \o Filled(s.blocks[i], 0, Len(s.number)),
          to |-> trunk \o Filled(s.blocks[i], 9, Len(s.number)),
          provider |-> <<i>>]]

PrefixFindsRange(s) ==
  LET lowest(i) == Value(Filled(s.blocks[i], 0, Len(s.number)))
      highest(i) == Value(Filled(s.blocks[i], 9, Len(s.number)))
      within == {i \in DOMAIN s.blocks :
                   lowest(i) <= Value(s.number) /\ Value(s.number) <= highest(i)}
      smallest == {i \in within :
                     \A j \in within : lowest(j) <= lowest(i) /\ highest(i) <= highest(j)}
      found == FindCarrier(LoadOfcom(Ranges(s)), s.number)
  IN  IF within = {} THEN found = None
      ELSE \E i \in smallest : found = <<i>> /\ \A j \in smallest : j <= i

\* Rows of pairs of codes, some of which may have no three digits, and a number.
CodeTexts ==
  [kind : {"codes"}, file : Seq([npa : Numbers, nxx : Numbers, company : Numbers]), number : Numbers]

PrefixFindsCodes(s) ==
  LET with == {i \in DOMAIN s.file :
                 /\ Len(s.file[i].npa) = 3 /\ Len(s.file[i].nxx) = 3
                 /\ IsPrefix(s.file[i].npa \o s.file[i].nxx, s.number)}
      found == FindCarrier(LoadNanpa(s.file), s.number)
  IN  IF with = {} THEN found = None
      ELSE \E i \in with : found = s.file[i].company /\ \A j \in with : j <= i

\* The carrier found for a number is the one its smallest published range was allotted
\* to, as long as ranges are those of all numbers with the same first digits; of a pair
\* of codes, or of ranges that are the same, the last row of the file; and none is found
\* if no row has the number (ofcom.ts 39-93, nanpa.ts 55-81, carrierRepo.ts 4-32).
PrefixFindsCarrier ==
  /\ sample.kind = "ranges" => PrefixFindsRange(sample)
  /\ sample.kind = "codes" => PrefixFindsCodes(sample)
-----------------------------------------------------------------------------
(* auth/apiKey.ts *)

Bytes == 0 .. Pow2[ByteBits] - 1
Letters == 0 .. Pow2[LetterBits] - 1

ByteTexts == [kind : {"bytes"}, bytes : Seq(Bytes)]

\* The bit of v that counts 2^k.
Bit(v, k) == (v \div Pow2[k]) % 2

\* The random bits of a key, numbered from 0, and zeros after them.
KeyBit(bytes, p) ==
  IF p < ByteBits * Len(bytes)
    THEN Bit(bytes[(p \div ByteBits) + 1], ByteBits - 1 - (p % ByteBits)) ELSE 0

\* The letters of a key are its random bits, all of them and in their order, although the
\* word they pass through is too narrow for them (apiKey.ts 8-24).
KeyIsItsBytes ==
  sample.kind = "bytes" =>
    LET letters == EncodeBase32(sample.bytes)
        total == ByteBits * Len(sample.bytes)
    IN  /\ letters \in Seq(Letters)
        /\ LetterBits * Len(letters) \in total .. total + LetterBits - 1
        /\ \A i \in DOMAIN letters, k \in 0 .. LetterBits - 1 :
             Bit(letters[i], LetterBits - 1 - k) = KeyBit(sample.bytes, (i - 1) * LetterBits + k)
-----------------------------------------------------------------------------
AnySample == RowTexts \cup FileTexts \cup UploadTexts \cup RangeTexts \cup CodeTexts \cup ByteTexts
=============================================================================
