---------------------------- MODULE MCDataLoader -----------------------------
(***************************************************************************)
(* DataLoader for TLC: a source with a minimum and one without.  Beside    *)
(* the loader, the functions on texts: each is run on samples, an initial  *)
(* state for each and nothing that happens in it.                          *)
(***************************************************************************)
EXTENDS DataLoader, Texts, TLC

CONSTANTS a, b, p, q

TwoSources == <<{p, q}, {p}>>
Minimum == <<1, 0>>

Perms == Permutations({a, b})

SomeChars == Special \cup Blank \cup {"x", "1", "2"}

UpTo(S, n) == UNION {[1 .. k -> S] : k \in 0 .. n}

\* Lists of fields; and files of a header and at most two of them.
Field(n) == UpTo({"x", Quote, Comma, Space, Newline}, n)
SomeFields ==
  (Field(2) \X Field(1)) \cup [{1} -> Field(2)] \cup [1 .. 3 -> UpTo({"x", Comma}, 1)]
Header == <<<<"x">>, <<"x">>>>
Ends == {<<Newline>>, <<Return, Newline>>, <<Return>>}
Files ==
  [kind : {"file"}, mark : BOOLEAN, rows : {<<Header>>}, gaps : {<<e>> : e \in Ends \cup {<<>>}}]
  \cup [kind : {"file"}, mark : BOOLEAN, rows : {Header} \X SomeFields,
        gaps : (Ends \cup {<<Newline, Space, Newline>>}) \X {<<>>, <<Newline>>}]
  \cup [kind : {"file"}, mark : {FALSE}, rows : {Header} \X [{1} -> Field(1)] \X [{1} -> Field(1)],
        gaps : Ends \X Ends \X {<<Newline>>}]

\* At most two lines of a file of numbers.
Line(numbers, before, after, gaps) ==
  [number : numbers, quoted : BOOLEAN, before : before, after : after,
   columns : {<<>>, <<Comma, Space, Quote>>}, gap : gaps]
Uploads ==
  LET any == Line({<<"1">>, <<"1", "2">>}, {<<>>, <<Space>>}, {<<>>, <<Space>>, <<Return>>},
                  {<<Newline>>, <<Newline, Return, Newline>>})
      last == Line({<<"2">>}, {<<>>}, {<<>>, <<Return>>}, {<<>>, <<Newline>>})
  IN  [kind : {"upload"}, lines : {<<>>} \cup [{1} -> any \cup last] \cup (any \X last)]

\* At most two blocks, one in the other, beside it or the same; at most two rows of codes.
Blocks == {<<1>> \o B : B \in UNION {[1 .. k -> {1, 9}] : k \in 1 .. 3}}
Tables ==
  [kind : {"ranges"}, trunk : BOOLEAN, blocks : UpTo(Blocks, 2), number : [1 .. 4 -> {1, 9}]]
Codes == {<<2, 1, 2>>, <<2, 1>>, <<5, 5, 5>>}
CodeFiles ==
  [kind : {"codes"}, file : UpTo([npa : Codes, nxx : Codes, company : {<<1>>, <<2>>}], 2),
   number : {x \o y \o <<0>> : x \in Codes, y \in Codes}]

Samples ==
  ([kind : {"row"}, fields : SomeFields] \cup Files \cup Uploads \cup Tables \cup CodeFiles
   \cup [kind : {"bytes"}, bytes : UpTo(Bytes, 3)])
  \cap AnySample

Loader == [kind |-> "loader"]
SampledInit == Init /\ sample \in {Loader} \cup Samples
SampledNext == sample = Loader /\ Next /\ UNCHANGED sample
SampledSpec == SampledInit /\ [][SampledNext]_<<vars, sample>>
=============================================================================
