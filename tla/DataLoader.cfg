\* Two loaders, a source with a minimum and one without, batches of one row.
SPECIFICATION SampledSpec
CONSTANTS
  a = a
  b = b
  p = p
  q = q
  Loaders = {a, b}
  NumSources = 2
  FilePrefixes <- TwoSources
  MinRows <- Minimum
  Batch = 1
  Chars <- SomeChars
  ByteBits = 3
  LetterBits = 2
  WordBits = 4
SYMMETRY Perms
INVARIANTS
  TypeOK
  WholeLoad
  LastWins
  SuccessCommitted
  RowsReadBack
  UploadReadsNumbers
  PrefixFindsCarrier
  KeyIsItsBytes
PROPERTIES
  ReaderView
CHECK_DEADLOCK FALSE
