-------------------------------- MODULE KeyText -------------------------------
(***************************************************************************)
(* encodeBase32 of auth/apiKey.ts, which turns the random bytes of an API  *)
(* key into letters.  The widths are parameters: 8 bits a byte, 5 a letter *)
(* and 32 the word `value` is kept in, whose high bits << pushes out.      *)
(***************************************************************************)
EXTENDS Naturals, Sequences

CONSTANTS ByteBits, LetterBits, WordBits

ASSUME WidthAssumption ==
  /\ {ByteBits, LetterBits, WordBits} \subseteq Nat \ {0}
  /\ LetterBits - 1 + ByteBits <= WordBits

\* 2 to the power n.
Pow2[n \in Nat] == IF n = 0 THEN 1 ELSE 2 * Pow2[n - 1]

Shl(v, n) == (v * Pow2[n]) % Pow2[WordBits]
Letter(v) == v % Pow2[LetterBits]

\* The while loop: the letters that are complete, from the highest bits down.
Complete(at) ==
  LET n == at.bits \div LetterBits
  IN  [result |-> at.result \o
         [i \in 1 .. n |-> Letter(at.value \div Pow2[at.bits - i * LetterBits])],
       value |-> at.value,
       bits |-> at.bits % LetterBits]

\* value << 8 | byte.
ReadByte(at, byte) ==
  [result |-> at.result,
   value |-> (at.value * Pow2[ByteBits] + byte) % Pow2[WordBits],
   bits |-> at.bits + ByteBits]

\* The for loop, after each byte.
Coded(bytes) ==
  LET at[i \in 0 .. Len(bytes)] ==
        IF i = 0 THEN [result |-> <<>>, value |-> 0, bits |-> 0]
        ELSE Complete(ReadByte(at[i - 1], bytes[i]))
  IN  at

(* mutant: the bits that are left over are forgotten *)
Rest_no(at) == at.result

\* What is left over is padded with zeros on the right.
Rest(at) ==
  IF at.bits = 0 THEN at.result
  ELSE Append(at.result, Letter(Shl(at.value, LetterBits - at.bits)))

EncodeBase32(bytes) == Rest(Coded(bytes)[Len(bytes)])
=============================================================================
