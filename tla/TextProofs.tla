------------------------------ MODULE TextProofs ------------------------------
(***************************************************************************)
(* What Texts says of the functions on texts, for texts of any length.     *)
(***************************************************************************)
EXTENDS Texts, Integers, SequenceTheorems, WellFoundedInduction, TLAPS

-----------------------------------------------------------------------------
(* Numbers, recursion *)

\* A set of natural numbers has a minimal one in any well-founded order of them.
LEMMA Minimal ==
  ASSUME NEW R, NEW S, IsWellFoundedOn(R, Nat), S \subseteq Nat, S # {}
  PROVE  \E m \in S : \A n \in S : ~ (<<n, m>> \in R)
BY WFMin

\* A set of natural numbers has a least one.
LEMMA Least ==
  ASSUME NEW S, S \subseteq Nat, S # {}
  PROVE  \E m \in S : \A n \in S : m <= n
<1>1. PICK R : IsWellFoundedOn(R, Nat) /\ \A x, y \in Nat : x < y => <<x, y>> \in R
  <2> DEFINE R == OpToRel(<, Nat)
  <2>1. IsWellFoundedOn(R, Nat)
    BY NatLessThanWellFounded
  <2>2. \A x, y \in Nat : x < y => <<x, y>> \in R
    BY DEF OpToRel
  <2> HIDE DEF R
  <2> QED
    BY <2>1, <2>2
<1>2. PICK m \in S : \A n \in S : ~ (<<n, m>> \in R)
  BY <1>1, Minimal
<1>3. ASSUME NEW n \in S PROVE m <= n
  <2>1. ~ (n < m)
    BY <1>1, <1>2
  <2> QED
    BY <2>1
<1> QED
  BY <1>3

\* Induction, of a set: what holds 0 and, with a number, the next, holds them all.
LEMMA Induction ==
  ASSUME NEW S, 0 \in S, \A n \in Nat : n \in S => n + 1 \in S
  PROVE  Nat \subseteq S
<1> SUFFICES ASSUME ~ (Nat \subseteq S) PROVE FALSE
  OBVIOUS
<1>1. PICK m \in Nat \ S : \A n \in Nat \ S : m <= n
  <2> DEFINE B == Nat \ S
  <2>1. B \subseteq Nat /\ B # {}
    OBVIOUS
  <2> HIDE DEF B
  <2>2. \E m \in B : \A n \in B : m <= n
    BY <2>1, Least
  <2> QED
    BY <2>2 DEF B
<1>2. m # 0
  OBVIOUS
<1>3. m - 1 \in Nat /\ m - 1 \in S
  BY <1>1, <1>2
<1> QED
  BY <1>3

\* A bounded set of natural numbers has a greatest one.
LEMMA Greatest ==
  ASSUME NEW S, NEW b \in Nat, S \subseteq 0 .. b, S # {}
  PROVE  \E m \in S : \A n \in S : n <= m
<1> DEFINE D == {b - n : n \in S}
<1>1. D \subseteq Nat /\ D # {}
  <2>1. PICK n \in S : TRUE
    OBVIOUS
  <2>2. b - n \in D
    BY <2>1
  <2>3. \A m \in S : b - m \in Nat
    OBVIOUS
  <2> QED
    BY <2>2, <2>3
<1> HIDE DEF D
<1>2. PICK d \in D : \A e \in D : d <= e
  BY <1>1, Least
<1>3. PICK m \in S : d = b - m
  BY DEF D
<1>4. \A n \in S : b - m <= b - n
  BY <1>2, <1>3 DEF D
<1> QED
  BY <1>4

\* f goes through the steps h from a.
Follows(f, a, h, n) == f[0] = a /\ \A i \in 1 .. n : f[i] = h[i][f[i - 1]]
GoesOn(f, a, h) == f[0] = a /\ \A i \in Nat : f[i + 1] = h[i + 1][f[i]]

\* There is a function that begins with a and goes on with the steps of h, as long as those are.
LEMMA Recursion ==
  ASSUME NEW n \in Nat, NEW T, NEW a \in T, NEW h \in [1 .. n -> [T -> T]]
  PROVE  \E f \in [0 .. n -> T] : Follows(f, a, h, n)
<1> DEFINE S == {k \in Nat : k <= n => \E f \in [0 .. k -> T] : Follows(f, a, h, k)}
<1>1. 0 \in S
  <2>1. [i \in 0 .. 0 |-> a] \in [0 .. 0 -> T] /\ Follows([i \in 0 .. 0 |-> a], a, h, 0)
    BY DEF Follows
  <2> QED
    BY <2>1
<1>2. ASSUME NEW k \in Nat, k \in S PROVE k + 1 \in S
  <2> SUFFICES ASSUME k + 1 <= n
               PROVE  \E f \in [0 .. k + 1 -> T] : Follows(f, a, h, k + 1)
    OBVIOUS
  <2>1. PICK f \in [0 .. k -> T] : Follows(f, a, h, k)
    BY <1>2
  <2> DEFINE g == [i \in 0 .. k + 1 |-> IF i = k + 1 THEN h[k + 1][f[k]] ELSE f[i]]
  <2>2. h[k + 1][f[k]] \in T
    <3>1. h[k + 1] \in [T -> T] /\ f[k] \in T
      OBVIOUS
    <3> QED
      BY <3>1
  <2>3. g \in [0 .. k + 1 -> T]
    BY <2>2
  <2>4. g[0] = a
    BY <2>1 DEF Follows
  <2>5. ASSUME NEW i \in 1 .. k + 1 PROVE g[i] = h[i][g[i - 1]]
    <3>1. g[i - 1] = f[i - 1] /\ (i # k + 1 => g[i] = f[i])
      OBVIOUS
    <3> QED
      BY <2>1, <3>1 DEF Follows
  <2> HIDE DEF g
  <2> QED
    BY <2>3, <2>4, <2>5 DEF Follows
<1> HIDE DEF S
<1>3. n \in S
  BY <1>1, <1>2, Induction
<1> QED
  BY <1>3 DEF S

\* A recursive function stays in a set that its steps do not leave.
LEMMA Stays ==
  ASSUME NEW n \in Nat, NEW T, NEW f, f = [i \in 0 .. n |-> f[i]], f[0] \in T,
         \A i \in 1 .. n : f[i - 1] \in T => f[i] \in T
  PROVE  f \in [0 .. n -> T]
<1> DEFINE S == {i \in Nat : i <= n => f[i] \in T}
<1>1. 0 \in S
  OBVIOUS
<1>2. ASSUME NEW i \in Nat, i \in S PROVE i + 1 \in S
  <2> SUFFICES ASSUME i + 1 <= n PROVE f[i + 1] \in T
    OBVIOUS
  <2>1. i + 1 \in 1 .. n /\ (i + 1) - 1 = i /\ f[i] \in T
    BY <1>2
  <2> QED
    BY <2>1
<1> HIDE DEF S
<1>3. Nat \subseteq S
  BY <1>1, <1>2, Induction
<1>4. \A i \in 0 .. n : f[i] \in T
  BY <1>3 DEF S
<1> QED
  BY <1>4

\* The same for steps without end.
LEMMA RecursionNat ==
  ASSUME NEW T, NEW a \in T, NEW h \in [Nat -> [T -> T]]
  PROVE  \E f \in [Nat -> T] : GoesOn(f, a, h)
<1> DEFINE G(k) == {f \in [0 .. k -> T] : Follows(f, a, h, k)}
           C(k) == CHOOSE f \in G(k) : TRUE
           F == [k \in Nat |-> C(k)[k]]
<1>1. ASSUME NEW k \in Nat PROVE C(k) \in G(k)
  <2> DEFINE hk == [i \in 1 .. k |-> h[i]]
  <2>1. hk \in [1 .. k -> [T -> T]]
    OBVIOUS
  <2>2. PICK f \in [0 .. k -> T] : Follows(f, a, hk, k)
    BY <2>1, Recursion
  <2>3. Follows(f, a, h, k)
    BY <2>2 DEF Follows
  <2> QED
    BY <2>3
<1>2. ASSUME NEW k \in Nat, NEW m \in Nat, NEW f \in G(k), NEW g \in G(m)
      PROVE  \A i \in Nat : i <= k /\ i <= m => f[i] = g[i]
  <2> DEFINE S == {i \in Nat : i <= k /\ i <= m => f[i] = g[i]}
  <2>1. 0 \in S
    BY DEF Follows
  <2>2. ASSUME NEW i \in Nat, i \in S PROVE i + 1 \in S
    <3> SUFFICES ASSUME i + 1 <= k, i + 1 <= m PROVE f[i + 1] = g[i + 1]
      OBVIOUS
    <3>1. f[i] = g[i]
      BY <2>2
    <3>2. i + 1 \in 1 .. k /\ i + 1 \in 1 .. m /\ (i + 1) - 1 = i
      OBVIOUS
    <3> QED
      BY <3>1, <3>2 DEF Follows
  <2> HIDE DEF S
  <2>3. Nat \subseteq S
    BY <2>1, <2>2, Induction
  <2> QED
    BY <2>3 DEF S
<1> HIDE DEF C
<1>3. \A k \in Nat : F[k] = C(k)[k] /\ C(k)[k] \in T
  BY <1>1
<1>4. F \in [Nat -> T]
  BY <1>3
<1> HIDE DEF F
<1>5. F[0] = a
  BY <1>1, <1>3 DEF Follows
<1>6. ASSUME NEW i \in Nat PROVE F[i + 1] = h[i + 1][F[i]]
  <2>1. C(i + 1)[i] = C(i)[i]
    <3>1. C(i + 1) \in G(i + 1) /\ C(i) \in G(i)
      BY <1>1
    <3> HIDE DEF G
    <3> QED
      BY <1>2, <3>1
  <2>2. i + 1 \in 1 .. i + 1 /\ (i + 1) - 1 = i
    OBVIOUS
  <2>3. C(i + 1)[i + 1] = h[i + 1][C(i + 1)[i]]
    BY <1>1, <2>2 DEF Follows
  <2> QED
    BY <1>3, <2>1, <2>3
<1> QED
  BY <1>4, <1>5, <1>6 DEF GoesOn

\* A function on 1 .. n is a sequence of n elements.
LEMMA IsSeq ==
  ASSUME NEW n \in Nat, NEW S, NEW s \in [1 .. n -> S]
  PROVE  s \in Seq(S) /\ Len(s) = n
<1>1. s \in Seq(S)
  BY SeqDef
<1>2. DOMAIN s = 1 .. n /\ DOMAIN s = 1 .. Len(s) /\ Len(s) \in Nat
  BY <1>1, LenProperties
<1> QED
  BY <1>1, <1>2

-----------------------------------------------------------------------------
(* auth/apiKey.ts *)

\* Pow2 is what its definition says: it is a CHOOSE until a function like this is known to be.
LEMMA Pow2Def == Pow2 \in [Nat -> Nat] /\ Pow2[0] = 1 /\ \A n \in Nat : Pow2[n + 1] = 2 * Pow2[n]
<1> DEFINE h == [i \in Nat |-> [v \in Nat |-> 2 * v]]
<1>1. h \in [Nat -> [Nat -> Nat]]
  OBVIOUS
<1> HIDE DEF h
<1>2. PICK f \in [Nat -> Nat] : f[0] = 1 /\ \A i \in Nat : f[i + 1] = h[i + 1][f[i]]
  <2>1. PICK T, one : T = Nat /\ one = 1
    OBVIOUS
  <2>2. one \in T /\ h \in [Nat -> [T -> T]]
    BY <1>1, <2>1
  <2>3. PICK f \in [Nat -> T] : GoesOn(f, one, h)
    BY <2>2, RecursionNat
  <2>4. f[0] = 1 /\ \A i \in Nat : f[i + 1] = h[i + 1][f[i]]
    BY <2>1, <2>3 DEF GoesOn
  <2> QED
    BY <2>1, <2>3, <2>4
<1> USE DEF h
<1>3. f = [n \in Nat |-> IF n = 0 THEN 1 ELSE 2 * f[n - 1]]
  <2>1. ASSUME NEW n \in Nat PROVE f[n] = IF n = 0 THEN 1 ELSE 2 * f[n - 1]
    <3>1. CASE n = 0
      BY <3>1, <1>2
    <3>2. CASE n # 0
      <4>1. n - 1 \in Nat /\ (n - 1) + 1 = n
        BY <3>2
      <4> QED
        BY <1>2, <3>2, <4>1
    <3> QED
      BY <3>1, <3>2
  <2> QED
    BY <2>1
<1>4. Pow2 = [n \in Nat |-> IF n = 0 THEN 1 ELSE 2 * Pow2[n - 1]]
  BY <1>3 DEF Pow2
<1> HIDE DEF Pow2
<1> DEFINE S == {n \in Nat : Pow2[n] \in Nat}
<1>5. 0 \in S
  BY <1>4
<1>6. ASSUME NEW n \in Nat PROVE Pow2[n + 1] = 2 * Pow2[n]
  BY <1>4
<1>7. Nat \subseteq S
  <2>1. \A n \in Nat : n \in S => n + 1 \in S
    BY <1>6
  <2> HIDE DEF S
  <2> QED
    BY <2>1, <1>5, Induction
<1> QED
  BY <1>4, <1>6, <1>7

\* The powers of sums are products.
LEMMA Pow2Add ==
  ASSUME NEW m \in Nat, NEW n \in Nat
  PROVE  Pow2[m + n] = Pow2[m] * Pow2[n]
<1> DEFINE S == {k \in Nat : Pow2[m + k] = Pow2[m] * Pow2[k]}
<1>1. 0 \in S
  BY Pow2Def
<1>2. ASSUME NEW k \in Nat, k \in S PROVE k + 1 \in S
  <2>1. m + (k + 1) = (m + k) + 1 /\ m + k \in Nat
    OBVIOUS
  <2>2. Pow2[m + (k + 1)] = 2 * Pow2[m + k] /\ Pow2[k + 1] = 2 * Pow2[k]
    BY <2>1, Pow2Def
  <2>3. Pow2[m] \in Nat /\ Pow2[k] \in Nat
    BY Pow2Def
  <2> QED
    BY <1>2, <2>2, <2>3
<1> HIDE DEF S
<1>3. n \in S
  BY <1>1, <1>2, Induction
<1> QED
  BY <1>3 DEF S

\* The powers are positive.
LEMMA Pow2Pos == \A n \in Nat : Pow2[n] \in Nat \ {0}
<1> DEFINE S == {k \in Nat : Pow2[k] # 0}
<1>1. 0 \in S /\ \A k \in Nat : k \in S => k + 1 \in S
  BY Pow2Def
<1> HIDE DEF S
<1>2. Nat \subseteq S
  BY <1>1, Induction
<1> QED
  BY <1>2, Pow2Def DEF S

\* What is divided is found again.
LEMMA Quotient ==
  ASSUME NEW d \in Nat \ {0}, NEW q \in Nat, NEW r \in 0 .. d - 1
  PROVE  /\ q * d + r \in Nat
         /\ (q * d + r) \div d = q
         /\ (q * d + r) % d = r
OBVIOUS

\* Quotient and remainder are numbers, and make up what was divided.
LEMMA Divides ==
  ASSUME NEW v \in Nat, NEW d \in Nat \ {0}
  PROVE  /\ v \div d \in Nat /\ v % d \in 0 .. d - 1
         /\ v = (v \div d) * d + (v % d)
OBVIOUS

\* Products are numbers.
LEMMA Product ==
  ASSUME NEW x \in Nat, NEW y \in Nat
  PROVE  x * y \in Nat
OBVIOUS

\* A number of two places is within what two places hold.
LEMMA Below ==
  ASSUME NEW d \in Nat \ {0}, NEW e \in Nat, NEW q \in 0 .. e - 1, NEW r \in 0 .. d - 1
  PROVE  q * d + r \in 0 .. e * d - 1
<1>1. q + 1 <= e /\ q \in Nat
  OBVIOUS
<1>2. (q + 1) * d <= e * d
  BY <1>1
<1> QED
  BY <1>1, <1>2

\* dividing twice
LEMMA DivDiv ==
  ASSUME NEW v \in Nat, NEW m \in Nat, NEW n \in Nat
  PROVE  (v \div Pow2[m]) \div Pow2[n] = v \div Pow2[m + n]
<1>1. PICK d \in Nat \ {0}, e \in Nat \ {0} :
        d = Pow2[m] /\ e = Pow2[n] /\ Pow2[m + n] = e * d
  <2>1. Pow2[m] \in Nat \ {0} /\ Pow2[n] \in Nat \ {0}
    BY Pow2Pos
  <2>2. Pow2[m] * Pow2[n] = Pow2[n] * Pow2[m]
    BY <2>1
  <2> QED
    BY <2>1, <2>2, Pow2Add
<1>2. PICK q \in Nat, r \in 0 .. d - 1 : v = q * d + r /\ v \div d = q
  BY Divides
<1>3. PICK p \in Nat, s \in 0 .. e - 1 : q = p * e + s /\ q \div e = p
  BY Divides
<1>4. s * d + r \in 0 .. e * d - 1 /\ e * d \in Nat \ {0}
  BY Below
<1>5. v = p * (e * d) + (s * d + r)
  BY <1>2, <1>3
<1>6. (p * (e * d) + (s * d + r)) \div (e * d) = p
  BY <1>4, Quotient
<1> QED
  BY <1>1, <1>2, <1>3, <1>5, <1>6

\* A bit of what is shifted right was a higher one.
LEMMA BitDiv ==
  ASSUME NEW v \in Nat, NEW m \in Nat, NEW k \in Nat
  PROVE  Bit(v \div Pow2[m], k) = Bit(v, m + k)
BY DivDiv DEF Bit

\* A mask leaves the bits below its width.
LEMMA BitMod ==
  ASSUME NEW v \in Nat, NEW w \in Nat, NEW k \in Nat, k < w
  PROVE  Bit(v % Pow2[w], k) = Bit(v, k)
<1>1. w = (k + 1) + (w - k - 1) /\ w - k - 1 \in Nat
  OBVIOUS
<1>2. PICK d \in Nat \ {0}, e \in Nat \ {0} : d = Pow2[k] /\ Pow2[w] = e * 2 * d
  <2>1. Pow2[w] = Pow2[k + 1] * Pow2[w - k - 1] /\ Pow2[k + 1] = 2 * Pow2[k]
    <3>1. Pow2[(k + 1) + (w - k - 1)] = Pow2[k + 1] * Pow2[w - k - 1]
      BY <1>1, Pow2Add
    <3> QED
      BY <1>1, <3>1, Pow2Def
  <2>2. Pow2[k] \in Nat \ {0} /\ Pow2[w - k - 1] \in Nat \ {0}
    BY <1>1, Pow2Pos
  <2> QED
    BY <2>1, <2>2
<1>3. e * 2 * d \in Nat \ {0}
  OBVIOUS
<1>4. PICK q \in Nat, r \in 0 .. (e * 2 * d) - 1 :
        v = q * (e * 2 * d) + r /\ v % (e * 2 * d) = r
  BY <1>3, Divides
<1>5. PICK p \in Nat, s \in 0 .. d - 1 : r = p * d + s /\ r \div d = p
  BY Divides
<1>6. v = (q * (e * 2) + p) * d + s /\ q * (e * 2) + p \in Nat
  BY <1>4, <1>5
<1>7. v \div d = q * (e * 2) + p
  BY <1>6, Quotient
<1>8. (q * (e * 2) + p) % 2 = p % 2
  <2>1. PICK a \in Nat, b \in 0 .. 1 : p = a * 2 + b /\ p % 2 = b
    OBVIOUS
  <2>2. q * (e * 2) + p = (q * e + a) * 2 + b /\ q * e + a \in Nat
    BY <2>1
  <2>3. ((q * e + a) * 2 + b) % 2 = b
    BY <2>2, Quotient
  <2> QED
    BY <2>1, <2>2, <2>3
<1> QED
  BY <1>2, <1>4, <1>5, <1>7, <1>8 DEF Bit

\* The low bits of what a byte was appended to are those of the byte.
LEMMA BitLow ==
  ASSUME NEW v \in Nat, NEW n \in Nat, NEW b \in 0 .. Pow2[n] - 1, NEW k \in Nat, k < n
  PROVE  Bit(v * Pow2[n] + b, k) = Bit(b, k)
<1>1. Pow2[n] \in Nat \ {0}
  BY Pow2Pos
<1>2. v * Pow2[n] + b \in Nat /\ (v * Pow2[n] + b) % Pow2[n] = b
  BY <1>1, Quotient
<1> QED
  BY <1>2, BitMod

\* The high ones are those it had before.
LEMMA BitHigh ==
  ASSUME NEW v \in Nat, NEW n \in Nat, NEW b \in 0 .. Pow2[n] - 1, NEW k \in Nat
  PROVE  Bit(v * Pow2[n] + b, n + k) = Bit(v, k)
<1>1. Pow2[n] \in Nat \ {0}
  BY Pow2Pos
<1>2. PICK u \in Nat : u = v * Pow2[n] + b /\ u \div Pow2[n] = v
  BY <1>1, Quotient
<1>3. Bit(u \div Pow2[n], k) = Bit(u, n + k)
  BY BitDiv
<1> QED
  BY <1>2, <1>3

\* WidthAssumption, taken apart.
LEMMA Widths ==
  /\ ByteBits \in Nat \ {0} /\ LetterBits \in Nat \ {0} /\ WordBits \in Nat \ {0}
  /\ LetterBits - 1 + ByteBits <= WordBits
BY WidthAssumption

Ats == [result : Seq(Letters), value : Nat, bits : Nat]

\* What has been read is n bits, of which the letters are the first and the low bits of
\* the word the rest.
Holds(bytes, at, n) ==
  /\ Len(at.result) * LetterBits + at.bits = n
  /\ \A x \in DOMAIN at.result, k \in 0 .. LetterBits - 1 :
       Bit(at.result[x], LetterBits - 1 - k) = KeyBit(bytes, (x - 1) * LetterBits + k)
  /\ \A k \in 0 .. at.bits - 1 :
       Bit(at.value, at.bits - 1 - k) = KeyBit(bytes, Len(at.result) * LetterBits + k)

\* The while loop of encodeBase32 keeps what a state holds of the bits, and leaves fewer than a letter has.
LEMMA CompleteHolds ==
  ASSUME NEW bytes, NEW at \in Ats, NEW n \in Nat
  PROVE  /\ Complete(at) \in Ats
         /\ Complete(at).bits < LetterBits
         /\ Holds(bytes, at, n) => Holds(bytes, Complete(at), n)
<1> USE Widths
<1>1. PICK L \in Nat \ {0} : L = LetterBits
  OBVIOUS
<1>b. PICK b \in Nat, l \in Nat : b = at.bits /\ l = Len(at.result)
  BY DEF Ats
<1>2. PICK m \in Nat, c \in 0 .. L - 1 : m = b \div L /\ c = b % L /\ b = m * L + c
  <2>1. /\ b \div L \in Nat /\ b % L \in 0 .. L - 1
        /\ b = (b \div L) * L + (b % L)
    BY Divides
  <2> QED
    BY <2>1
<1> DEFINE new == [i \in 1 .. m |-> Letter(at.value \div Pow2[at.bits - i * LetterBits])]
           res == at.result \o new
<1>3. Complete(at) = [result |-> res, value |-> at.value, bits |-> c]
  BY <1>1, <1>b, <1>2 DEF Complete
<1>4. ASSUME NEW i \in 1 .. m
      PROVE  /\ b - i * L \in Nat
             /\ new[i] \in Letters
             /\ \A k \in 0 .. L - 1 :
                  Bit(new[i], L - 1 - k) = Bit(at.value, (b - i * L) + (L - 1 - k))
  <2>1. b - i * L \in Nat
    <3>1. i * L <= m * L
      OBVIOUS
    <3> QED
      BY <1>2, <3>1
  <2>2. PICK v \in Nat : v = at.value \div Pow2[b - i * L]
    BY <2>1, Pow2Pos, Divides DEF Ats
  <2>3. new[i] = v % Pow2[L]
    BY <1>1, <1>b, <2>2 DEF Letter
  <2>4. new[i] \in Letters
    BY <1>1, <2>3, Pow2Pos, Divides DEF Letters
  <2>5. ASSUME NEW k \in 0 .. L - 1
        PROVE  Bit(new[i], L - 1 - k) = Bit(at.value, (b - i * L) + (L - 1 - k))
    <3>1. L - 1 - k \in Nat /\ L - 1 - k < L
      OBVIOUS
    <3>2. Bit(v % Pow2[L], L - 1 - k) = Bit(v, L - 1 - k)
      BY <3>1, BitMod
    <3>3. at.value \in Nat
      BY DEF Ats
    <3>4. Bit(at.value \div Pow2[b - i * L], L - 1 - k)
            = Bit(at.value, (b - i * L) + (L - 1 - k))
      <4>1. PICK u \in Nat, s \in Nat, t \in Nat :
              u = at.value /\ s = b - i * L /\ t = L - 1 - k
        BY <2>1, <3>1, <3>3
      <4>2. Bit(u \div Pow2[s], t) = Bit(u, s + t)
        BY BitDiv
      <4> QED
        BY <4>1, <4>2
    <3> QED
      BY <2>2, <2>3, <3>2, <3>4
  <2> QED
    BY <2>1, <2>4, <2>5
<1>5. new \in Seq(Letters) /\ Len(new) = m
  <2>1. new \in [1 .. m -> Letters]
    BY <1>4
  <2> HIDE DEF new
  <2> QED
    BY <2>1, IsSeq
<1> HIDE DEF new
<1>7. /\ res \in Seq(Letters) /\ Len(res) = l + m
      /\ \A x \in 1 .. l : res[x] = at.result[x]
      /\ \A i \in 1 .. m : res[l + i] = new[i]
  <2>1. at.result \in Seq(Letters)
    BY DEF Ats
  <2> QED
    BY <1>5, <1>b, <2>1
<1>8. at.value \in Nat /\ at.bits \in Nat
  BY DEF Ats
<1> HIDE DEF res
<1>12. Complete(at) \in Ats /\ Complete(at).bits < LetterBits
  BY <1>1, <1>3, <1>7, <1>8 DEF Ats
<1> SUFFICES ASSUME Holds(bytes, at, n) PROVE Holds(bytes, Complete(at), n)
  BY <1>12
<1>9. (l + m) * L + c = n
  <2>1. l * L + b = n
    BY <1>1, <1>b DEF Holds
  <2> QED
    BY <1>2, <2>1
<1>10. ASSUME NEW x \in DOMAIN res, NEW k \in 0 .. L - 1
       PROVE  Bit(res[x], L - 1 - k) = KeyBit(bytes, (x - 1) * L + k)
  <2>1. CASE x \in 1 .. l
    <3>1. res[x] = at.result[x] /\ x \in DOMAIN at.result
      BY <1>b, <1>7, <2>1 DEF Ats
    <3>2. \A y \in DOMAIN at.result, j \in 0 .. L - 1 :
            Bit(at.result[y], L - 1 - j) = KeyBit(bytes, (y - 1) * L + j)
      BY <1>1 DEF Holds
    <3> QED
      BY <3>1, <3>2
  <2>2. CASE x \notin 1 .. l
    <3>1. PICK i \in 1 .. m : x = l + i
      <4>1. x \in 1 .. l + m
        BY <1>7
      <4> QED
        BY <2>2, <4>1
    <3>2. PICK j \in 0 .. b - 1 : j = (i - 1) * L + k
      <4>1. (i - 1) * L + k \in Nat
        OBVIOUS
      <4>2. (i - 1) * L + L <= m * L
        OBVIOUS
      <4> QED
        BY <1>2, <4>1, <4>2
    <3>3. (b - i * L) + (L - 1 - k) = b - 1 - j
      BY <3>2
    <3>4. Bit(res[x], L - 1 - k) = Bit(at.value, b - 1 - j)
      BY <1>4, <1>7, <3>1, <3>3
    <3>5. l * L + j = (x - 1) * L + k
      BY <3>1, <3>2
    <3> QED
      BY <1>1, <1>b, <3>2, <3>4, <3>5 DEF Holds
  <2> QED
    BY <2>1, <2>2
<1>11. ASSUME NEW k \in 0 .. c - 1
       PROVE  Bit(at.value, c - 1 - k) = KeyBit(bytes, (l + m) * L + k)
  <2>1. PICK j \in 0 .. b - 1 : j = m * L + k
    <3>1. m * L \in Nat
      OBVIOUS
    <3> QED
      BY <1>2, <3>1
  <2>2. c - 1 - k = b - 1 - j /\ (l + m) * L + k = l * L + j
    BY <1>2, <2>1
  <2> QED
    BY <1>1, <1>b, <2>1, <2>2 DEF Holds
<1>13. Holds(bytes, [result |-> res, value |-> at.value, bits |-> c], n)
  BY <1>1, <1>7, <1>9, <1>10, <1>11 DEF Holds
<1> QED
  BY <1>3, <1>13

\* A byte read is a byte more that is held: the word is wide enough for it and for what was left over.
LEMMA ReadHolds ==
  ASSUME NEW bytes \in Seq(Bytes), NEW i \in 1 .. Len(bytes),
         NEW at \in Ats
  PROVE  /\ ReadByte(at, bytes[i]) \in Ats
         /\ at.bits < LetterBits /\ Holds(bytes, at, (i - 1) * ByteBits) =>
              Holds(bytes, ReadByte(at, bytes[i]), i * ByteBits)
<1>1. PICK B \in Nat \ {0}, L \in Nat \ {0}, W \in Nat \ {0} :
        B = ByteBits /\ L = LetterBits /\ W = WordBits /\ L - 1 + B <= W
  BY Widths
<1>2. PICK v \in Nat, b \in Nat, l \in Nat :
        v = at.value /\ b = at.bits /\ l = Len(at.result)
  BY DEF Ats
<1>3. PICK x \in 0 .. Pow2[B] - 1 : x = bytes[i]
  <2>1. bytes[i] \in Bytes
    BY ElementOfSeq
  <2> QED
    BY <1>1, <2>1 DEF Bytes
<1>p. PICK P \in Nat \ {0}, Q \in Nat \ {0} : P = Pow2[B] /\ Q = Pow2[W]
  BY Pow2Pos
<1>4. PICK u \in Nat : u = v * Pow2[B] + x
  <2>0. v * P \in Nat /\ x \in Nat
    BY <1>p, Product
  <2>1. v * P + x \in Nat
    BY <2>0
  <2> QED
    BY <1>p, <2>1
<1>5. u % Pow2[W] \in Nat
  <2>1. u % Q \in 0 .. Q - 1
    BY Divides
  <2> QED
    BY <1>p, <2>1
<1>6. ReadByte(at, bytes[i]) = [result |-> at.result, value |-> u % Pow2[W], bits |-> b + B]
  BY <1>1, <1>2, <1>3, <1>4 DEF ReadByte
<1>10. ReadByte(at, bytes[i]) \in Ats
  BY <1>5, <1>6 DEF Ats
<1> SUFFICES ASSUME at.bits < LetterBits, Holds(bytes, at, (i - 1) * ByteBits)
             PROVE  Holds(bytes, ReadByte(at, bytes[i]), i * ByteBits)
  BY <1>10
<1>7. l * L + b = (i - 1) * B /\ b < L
  BY <1>1, <1>2 DEF Holds
<1>8. l * L + (b + B) = i * B
  <2>1. (i - 1) * B + B = i * B
    OBVIOUS
  <2> QED
    BY <1>7, <2>1
<1>9. ASSUME NEW k \in 0 .. b + B - 1
      PROVE  Bit(u % Pow2[W], b + B - 1 - k) = KeyBit(bytes, l * L + k)
  <2>1. PICK t \in Nat : t = b + B - 1 - k /\ t < W
    BY <1>1, <1>7
  <2>2. Bit(u % Pow2[W], t) = Bit(u, t)
    BY <2>1, BitMod
  <2>3. CASE k < b
    <3>1. PICK s \in Nat : s = b - 1 - k
      BY <2>3
    <3>2. t = B + s
      BY <2>1, <3>1
    <3>3. Bit(u, B + s) = Bit(v, s)
      BY <1>4, BitHigh
    <3>4. Bit(v, s) = KeyBit(bytes, l * L + k)
      <4>1. k \in 0 .. b - 1
        BY <2>3
      <4>2. \A j \in 0 .. b - 1 : Bit(v, b - 1 - j) = KeyBit(bytes, l * L + j)
        BY <1>1, <1>2 DEF Holds
      <4> QED
        BY <3>1, <4>1, <4>2
    <3> QED
      BY <2>1, <2>2, <3>2, <3>3, <3>4
  <2>4. CASE k >= b
    <3>1. PICK s \in 0 .. B - 1 : s = k - b
      BY <2>4
    <3>2. l * L + k = (i - 1) * B + s
      BY <1>7, <3>1
    <3>3. ((i - 1) * B + s) \div B = i - 1 /\ ((i - 1) * B + s) % B = s
      <4>1. PICK p \in Nat : p = i - 1
        OBVIOUS
      <4>2. (p * B + s) \div B = p /\ (p * B + s) % B = s
        BY Quotient
      <4> QED
        BY <4>1, <4>2
    <3>4. (i - 1) * B + s < B * Len(bytes)
      <4>1. PICK n \in Nat : n = Len(bytes) /\ i <= n
        OBVIOUS
      <4>2. B * i <= B * n /\ (i - 1) * B + B = B * i
        BY <4>1
      <4> QED
        BY <4>1, <4>2
    <3>5. KeyBit(bytes, (i - 1) * B + s) = Bit(x, B - 1 - s)
      BY <1>1, <1>3, <3>3, <3>4 DEF KeyBit
    <3>6. t = B - 1 - s
      BY <2>1, <3>1
    <3>7. Bit(u, t) = Bit(x, t)
      <4>1. t < B
        BY <3>6
      <4> QED
        BY <1>4, <4>1, BitLow
    <3> QED
      BY <2>1, <2>2, <3>2, <3>5, <3>6, <3>7
  <2> QED
    BY <2>3, <2>4
<1>11. Holds(bytes, [result |-> at.result, value |-> u % Pow2[W], bits |-> b + B], i * B)
  <2>1. PICK w : w = u % Pow2[W]
    OBVIOUS
  <2>2. \A k \in 0 .. b + B - 1 : Bit(w, b + B - 1 - k) = KeyBit(bytes, l * L + k)
    BY <1>9, <2>1
  <2>3. \A y \in DOMAIN at.result, k \in 0 .. L - 1 :
          Bit(at.result[y], L - 1 - k) = KeyBit(bytes, (y - 1) * L + k)
    BY <1>1 DEF Holds
  <2> DEFINE z == [result |-> at.result, value |-> w, bits |-> b + B]
  <2>4. z.result = at.result /\ z.value = w /\ z.bits = b + B
    OBVIOUS
  <2> HIDE DEF z
  <2>5. Holds(bytes, z, i * B)
    <3>1. Len(z.result) * LetterBits + z.bits = i * B
      BY <1>1, <1>2, <1>8, <2>4
    <3>2. \A y \in DOMAIN z.result, k \in 0 .. LetterBits - 1 :
            Bit(z.result[y], LetterBits - 1 - k) = KeyBit(bytes, (y - 1) * LetterBits + k)
      BY <1>1, <2>3, <2>4
    <3>3. \A k \in 0 .. z.bits - 1 :
            Bit(z.value, z.bits - 1 - k) = KeyBit(bytes, Len(z.result) * LetterBits + k)
      <4>1. PICK t : t = b + B
        OBVIOUS
      <4>2. \A k \in 0 .. t - 1 : Bit(w, t - 1 - k) = KeyBit(bytes, l * L + k)
        BY <2>2, <4>1
      <4> QED
        BY <1>1, <1>2, <2>4, <4>1, <4>2
    <3> QED
      BY <3>1, <3>2, <3>3 DEF Holds
  <2> QED
    BY <2>1, <2>5 DEF z
<1> QED
  BY <1>1, <1>6, <1>11

\* Coded is what its definition says, and its states are of their type.
LEMMA CodedDef ==
  ASSUME NEW bytes \in Seq(Bytes)
  PROVE  /\ Coded(bytes) \in [0 .. Len(bytes) -> Ats]
         /\ Coded(bytes)[0] = [result |-> <<>>, value |-> 0, bits |-> 0]
         /\ \A i \in 1 .. Len(bytes) :
              Coded(bytes)[i] = Complete(ReadByte(Coded(bytes)[i - 1], bytes[i]))
<1>1. PICK n \in Nat : n = Len(bytes)
  BY LenProperties
<1>2. PICK a \in Ats : a = [result |-> <<>>, value |-> 0, bits |-> 0]
  BY EmptySeq DEF Ats
<1> DEFINE h == [i \in 1 .. n |-> [at \in Ats |-> Complete(ReadByte(at, bytes[i]))]]
<1>3. ASSUME NEW i \in 1 .. n, NEW at \in Ats
      PROVE  Complete(ReadByte(at, bytes[i])) \in Ats
  BY <1>1, ReadHolds, CompleteHolds, 0 \in Nat
<1>4. h \in [1 .. n -> [Ats -> Ats]]
  BY <1>3
<1>5. \A i \in 1 .. n : \A at \in Ats : h[i][at] = Complete(ReadByte(at, bytes[i]))
  OBVIOUS
<1> HIDE DEF h
<1>6. PICK f \in [0 .. n -> Ats] : Follows(f, a, h, n)
  BY <1>4, Recursion
<1>7. f[0] = a /\ \A i \in 1 .. n : f[i] = Complete(ReadByte(f[i - 1], bytes[i]))
  <2>1. \A i \in 1 .. n : f[i - 1] \in Ats
    OBVIOUS
  <2> QED
    BY <1>5, <1>6, <2>1 DEF Follows
<1> DEFINE Eq(g) == g = [i \in 0 .. Len(bytes) |->
             IF i = 0 THEN [result |-> <<>>, value |-> 0, bits |-> 0]
             ELSE Complete(ReadByte(g[i - 1], bytes[i]))]
<1>8. Eq(f)
  <2>1. \A i \in 0 .. n : f[i] = IF i = 0 THEN a ELSE Complete(ReadByte(f[i - 1], bytes[i]))
    BY <1>7
  <2> QED
    BY <1>1, <1>2, <2>1
<1>9. Coded(bytes) = CHOOSE g : Eq(g)
  BY DEF Coded
<1>10. Eq(Coded(bytes))
  <2> HIDE DEF Eq
  <2> QED
    BY <1>8, <1>9
<1> USE DEF Eq
<1>11. Coded(bytes)[0] = a
  BY <1>1, <1>2, <1>10
<1>12. \A i \in 1 .. n : Coded(bytes)[i] = Complete(ReadByte(Coded(bytes)[i - 1], bytes[i]))
  BY <1>1, <1>10
<1>13. Coded(bytes) = [i \in 0 .. n |-> Coded(bytes)[i]]
  BY <1>1, <1>10
<1>14. Coded(bytes) \in [0 .. n -> Ats]
  <2>1. \A i \in 1 .. n : Coded(bytes)[i - 1] \in Ats => Coded(bytes)[i] \in Ats
    BY <1>3, <1>12
  <2> HIDE DEF Eq
  <2> QED
    BY <1>11, <1>13, <2>1, Stays
<1> QED
  BY <1>1, <1>2, <1>11, <1>12, <1>14

\* The for loop holds the bits of the bytes read, after each of them.
LEMMA CodedHolds ==
  ASSUME NEW bytes \in Seq(Bytes)
  PROVE  \A i \in 0 .. Len(bytes) :
           /\ Coded(bytes)[i] \in Ats
           /\ Coded(bytes)[i].bits < LetterBits
           /\ Holds(bytes, Coded(bytes)[i], i * ByteBits)
<1>1. PICK n \in Nat : n = Len(bytes)
  BY LenProperties
<1>2. Coded(bytes) \in [0 .. n -> Ats]
  BY <1>1, CodedDef
<1> DEFINE P(i) == Coded(bytes)[i].bits < LetterBits /\ Holds(bytes, Coded(bytes)[i], i * ByteBits)
           S == {i \in Nat : i <= n => P(i)}
<1>3. 0 \in S
  <2>1. Coded(bytes)[0] = [result |-> <<>>, value |-> 0, bits |-> 0]
    BY CodedDef
  <2>2. Len(<<>>) = 0 /\ DOMAIN <<>> = {}
    OBVIOUS
  <2>3. PICK L \in Nat \ {0}, B \in Nat : L = LetterBits /\ B = ByteBits
    BY Widths
  <2>4. 0 * L + 0 = 0 * B /\ 0 < L
    OBVIOUS
  <2>5. P(0)
    BY <2>1, <2>2, <2>3, <2>4 DEF Holds
  <2> QED
    BY <2>5
<1>4. ASSUME NEW i \in Nat, i \in S PROVE i + 1 \in S
  <2> SUFFICES ASSUME i + 1 <= n PROVE P(i + 1)
    OBVIOUS
  <2>1. i + 1 \in 1 .. n /\ (i + 1) - 1 = i /\ i \in 0 .. n
    OBVIOUS
  <2>2. P(i) /\ Coded(bytes)[i] \in Ats
    BY <1>2, <1>4, <2>1
  <2>3. PICK at \in Ats : at = ReadByte(Coded(bytes)[i], bytes[i + 1])
    BY <1>1, <2>1, <2>2, ReadHolds
  <2>4. Holds(bytes, at, (i + 1) * ByteBits)
    BY <1>1, <2>1, <2>2, <2>3, ReadHolds
  <2>5. (i + 1) * ByteBits \in Nat
    BY Widths
  <2>6. Complete(at).bits < LetterBits /\ Holds(bytes, Complete(at), (i + 1) * ByteBits)
    BY <2>4, <2>5, CompleteHolds
  <2>7. Coded(bytes)[i + 1] = Complete(at)
    BY <1>1, <2>1, <2>3, CodedDef
  <2> QED
    BY <2>6, <2>7
<1> HIDE DEF S
<1>5. Nat \subseteq S
  BY <1>3, <1>4, Induction
<1>6. \A i \in 0 .. n : i \in S
  BY <1>5
<1> QED
  BY <1>1, <1>2, <1>6 DEF S

\* The padding completes the letters.
LEMMA RestHolds ==
  ASSUME NEW bytes \in Seq(Bytes), NEW at \in Ats, at.bits < LetterBits,
         Holds(bytes, at, Len(bytes) * ByteBits)
  PROVE  /\ Rest(at) \in Seq(Letters)
         /\ LetterBits * Len(Rest(at))
              \in ByteBits * Len(bytes) .. ByteBits * Len(bytes) + LetterBits - 1
         /\ \A i \in DOMAIN Rest(at), k \in 0 .. LetterBits - 1 :
              Bit(Rest(at)[i], LetterBits - 1 - k) = KeyBit(bytes, (i - 1) * LetterBits + k)
<1>1. PICK B \in Nat \ {0}, L \in Nat \ {0}, W \in Nat \ {0} :
        B = ByteBits /\ L = LetterBits /\ W = WordBits /\ L - 1 + B <= W
  BY Widths
<1>2. PICK v \in Nat, b \in Nat, l \in Nat, n \in Nat :
        /\ v = at.value /\ b = at.bits /\ l = Len(at.result) /\ n = Len(bytes)
        /\ b < L
  BY <1>1, LenProperties DEF Ats
<1>3. l * L + b = n * B
  BY <1>1, <1>2 DEF Holds
<1>4. /\ at.result \in Seq(Letters) /\ DOMAIN at.result = 1 .. l
      /\ \A i \in DOMAIN at.result, k \in 0 .. L - 1 :
           Bit(at.result[i], L - 1 - k) = KeyBit(bytes, (i - 1) * L + k)
  <2>1. at.result \in Seq(Letters)
    BY DEF Ats
  <2> QED
    BY <1>1, <1>2, <2>1, LenProperties DEF Holds
<1>5. n * B = B * n /\ l * L = L * l
  OBVIOUS
<1>6. CASE b = 0
  <2>1. Rest(at) = at.result
    BY <1>2, <1>6 DEF Rest
  <2>2. L * l \in B * n .. B * n + L - 1
    BY <1>3, <1>5, <1>6
  <2> QED
    BY <1>1, <1>2, <1>4, <2>1, <2>2
<1>7. CASE b # 0
  <2>1. PICK m \in Nat : m = L - b
    BY <1>2
  <2>2. PICK P \in Nat \ {0}, Q \in Nat \ {0}, R \in Nat \ {0} :
          P = Pow2[m] /\ Q = Pow2[W] /\ R = Pow2[L]
    BY Pow2Pos
  <2>3. PICK u \in Nat : u = v * P
    OBVIOUS
  <2>4. PICK w \in Nat : w = u % Q
    <3>1. u % Q \in 0 .. Q - 1
      BY Divides
    <3> QED
      BY <3>1
  <2>5. PICK y \in Letters : y = w % R
    BY <1>1, <2>2, Divides DEF Letters
  <2>6. Rest(at) = Append(at.result, y)
    BY <1>1, <1>2, <1>7, <2>1, <2>2, <2>3, <2>4, <2>5 DEF Rest, Letter, Shl
  <2>7. /\ Rest(at) \in Seq(Letters) /\ Len(Rest(at)) = l + 1
        /\ DOMAIN Rest(at) = 1 .. l + 1 /\ Rest(at)[l + 1] = y
        /\ \A i \in 1 .. l : Rest(at)[i] = at.result[i]
    BY <1>2, <1>4, <2>6, AppendProperties, LenProperties
  <2>8. L * (l + 1) \in B * n .. B * n + L - 1
    <3>1. L * (l + 1) = L * l + L
      OBVIOUS
    <3> QED
      BY <1>2, <1>3, <1>5, <1>7, <3>1
  <2>9. ASSUME NEW k \in 0 .. L - 1
        PROVE  Bit(y, L - 1 - k) = KeyBit(bytes, l * L + k)
    <3>1. PICK t \in Nat : t = L - 1 - k /\ t < L /\ t < W
      BY <1>1
    <3>2. Bit(y, t) = Bit(u, t)
      BY <2>2, <2>4, <2>5, <3>1, BitMod
    <3>3. PICK z \in 0 .. Pow2[m] - 1 : z = 0 /\ u = v * Pow2[m] + z
      <4>1. 0 \in 0 .. P - 1
        BY <2>2
      <4>2. v * P \in Nat
        BY <2>2, Product
      <4>3. u = v * P + 0
        BY <2>3, <4>2
      <4> QED
        BY <2>2, <4>1, <4>3
    <3>4. CASE k < b
      <4>1. PICK s \in Nat : s = b - 1 - k
        BY <3>4
      <4>2. t = m + s
        BY <2>1, <3>1, <4>1
      <4>3. Bit(u, m + s) = Bit(v, s)
        BY <3>3, BitHigh
      <4>4. Bit(v, s) = KeyBit(bytes, l * L + k)
        <5>1. \A j \in 0 .. b - 1 : Bit(v, b - 1 - j) = KeyBit(bytes, l * L + j)
          BY <1>1, <1>2 DEF Holds
        <5>2. k \in 0 .. b - 1
          BY <3>4
        <5> QED
          BY <4>1, <5>1, <5>2
      <4> QED
        BY <3>1, <3>2, <4>2, <4>3, <4>4
    <3>5. CASE k >= b
      <4>1. t < m
        BY <2>1, <3>1, <3>5
      <4>2. Bit(u, t) = Bit(z, t)
        BY <3>3, <4>1, BitLow
      <4>3. Bit(z, t) = 0
        <5>1. Pow2[t] \in Nat \ {0}
          BY Pow2Pos
        <5>2. 0 \div Pow2[t] = 0
          BY <5>1
        <5> QED
          BY <3>3, <5>2 DEF Bit
      <4>4. KeyBit(bytes, l * L + k) = 0
        <5>1. ~ (l * L + k < B * n)
          BY <1>3, <1>5, <3>5
        <5> QED
          BY <1>1, <1>2, <5>1 DEF KeyBit
      <4> QED
        BY <3>1, <3>2, <4>2, <4>3, <4>4
    <3> QED
      BY <3>4, <3>5
  <2>10. \A i \in DOMAIN Rest(at), k \in 0 .. L - 1 :
           Bit(Rest(at)[i], L - 1 - k) = KeyBit(bytes, (i - 1) * L + k)
    <3>1. \A i \in 1 .. l + 1 : i \in 1 .. l \/ i = l + 1
      OBVIOUS
    <3>2. (l + 1) - 1 = l
      OBVIOUS
    <3> QED
      BY <1>4, <2>7, <2>9, <3>1, <3>2
  <2> QED
    BY <1>1, <1>2, <2>7, <2>8, <2>10
<1> QED
  BY <1>6, <1>7

\* The letters of a key are the bits of its bytes, in their order.
LEMMA KeyLetters ==
  ASSUME NEW bytes \in Seq(Bytes)
  PROVE  /\ EncodeBase32(bytes) \in Seq(Letters)
         /\ LetterBits * Len(EncodeBase32(bytes))
              \in ByteBits * Len(bytes) .. ByteBits * Len(bytes) + LetterBits - 1
         /\ \A i \in DOMAIN EncodeBase32(bytes), k \in 0 .. LetterBits - 1 :
              Bit(EncodeBase32(bytes)[i], LetterBits - 1 - k) = KeyBit(bytes, (i - 1) * LetterBits + k)
<1>1. PICK n \in Nat : n = Len(bytes) /\ n \in 0 .. Len(bytes)
  BY LenProperties
<1> QED
  BY <1>1, CodedHolds, RestHolds DEF EncodeBase32

-----------------------------------------------------------------------------
(* sources/ofcom.ts, sources/nanpa.ts, carrierRepo.ts *)

\* A prefix is what agrees as far as it goes.
LEMMA PrefixAt ==
  ASSUME NEW S, NEW s \in Seq(S), NEW t \in Seq(S)
  PROVE  IsPrefix(s, t) <=> Len(s) <= Len(t) /\ \A i \in 1 .. Len(s) : s[i] = t[i]
<1>1. PICK m \in Nat, n \in Nat : m = Len(s) /\ n = Len(t)
  BY LenProperties
<1>2. CASE m <= n
  <2>1. /\ SubSeq(s, 1, m) \in Seq(S) /\ Len(SubSeq(s, 1, m)) = m
        /\ \A i \in 1 .. m : SubSeq(s, 1, m)[i] = s[i]
    <3>1. \A i \in 1 .. m : s[i] \in S
      BY <1>1, ElementOfSeq
    <3> QED
      BY <3>1, SubSeqProperties
  <2>2. /\ SubSeq(t, 1, m) \in Seq(S) /\ Len(SubSeq(t, 1, m)) = m
        /\ \A i \in 1 .. m : SubSeq(t, 1, m)[i] = t[i]
    <3>1. \A i \in 1 .. m : t[i] \in S
      BY <1>1, <1>2, ElementOfSeq
    <3> QED
      BY <3>1, SubSeqProperties
  <2>3. SubSeq(s, 1, m) = SubSeq(t, 1, m) <=> \A i \in 1 .. m : s[i] = t[i]
    <3>1. PICK x \in Seq(S), y \in Seq(S) : x = SubSeq(s, 1, m) /\ y = SubSeq(t, 1, m)
      BY <2>1, <2>2
    <3>2. (\A i \in 1 .. m : x[i] = y[i]) => x = y
      BY <2>1, <2>2, <3>1, SeqEqual
    <3> QED
      BY <2>1, <2>2, <3>1, <3>2
  <2> QED
    BY <1>1, <1>2, <2>3 DEF IsPrefix
<1>3. CASE ~ (m <= n)
  BY <1>1, <1>3 DEF IsPrefix
<1> QED
  BY <1>2, <1>3

\* Of its prefixes a text has one of each length.
LEMMA SamePrefix ==
  ASSUME NEW S, NEW s \in Seq(S), NEW t \in Seq(S), NEW u \in Seq(S),
         IsPrefix(s, u), IsPrefix(t, u), Len(s) = Len(t)
  PROVE  s = t
BY PrefixAt, SeqEqual

\* c is what a and b have in common if they differ right after it, or one ends there.
LEMMA CommonPrefixIs ==
  ASSUME NEW S, NEW a \in Seq(S), NEW b \in Seq(S), NEW c \in Seq(S),
         IsPrefix(c, a), IsPrefix(c, b),
         Len(c) = Len(a) \/ Len(c) = Len(b) \/ a[Len(c) + 1] # b[Len(c) + 1]
  PROVE  CommonPrefix(a, b) = c
<1> DEFINE C == CommonPrefixes({a, b})
<1>1. ASSUME NEW x \in C
      PROVE  x \in Seq(S) /\ IsPrefix(x, a) /\ IsPrefix(x, b)
  <2>1. IsPrefix(x, a) /\ IsPrefix(x, b)
    BY DEF CommonPrefixes
  <2>p. PICK u \in {a, b} : \E l \in 0 .. Len(u) : x = SubSeq(u, 1, l)
    BY DEF CommonPrefixes, Prefixes
  <2>2. PICK l \in 0 .. Len(u) : x = SubSeq(u, 1, l)
    BY <2>p
  <2>3. u \in Seq(S)
    OBVIOUS
  <2>4. x \in Seq(S)
    <3>1. l \in Int /\ \A i \in 1 .. l : u[i] \in S
      BY <2>3, ElementOfSeq, LenProperties
    <3> QED
      BY <2>2, <3>1, SubSeqProperties
  <2> QED
    BY <2>1, <2>4
<1>2. c \in C
  <2>1. c = SubSeq(a, 1, Len(c)) /\ Len(c) \in 0 .. Len(a)
    <3>1. c = SubSeq(c, 1, Len(c))
      BY SubSeqFull
    <3> QED
      BY <3>1, LenProperties DEF IsPrefix
  <2>2. c \in Prefixes(a)
    BY <2>1 DEF Prefixes
  <2> QED
    BY <2>2 DEF CommonPrefixes
<1>3. ASSUME NEW x \in C PROVE Len(x) <= Len(c)
  <2>1. x \in Seq(S) /\ IsPrefix(x, a) /\ IsPrefix(x, b)
    BY <1>1
  <2>2. /\ Len(x) <= Len(a) /\ \A i \in 1 .. Len(x) : x[i] = a[i]
        /\ Len(x) <= Len(b) /\ \A i \in 1 .. Len(x) : x[i] = b[i]
    BY <2>1, PrefixAt
  <2>3. Len(x) \in Nat /\ Len(c) \in Nat
    BY <2>1, LenProperties
  <2> QED
    BY <2>2, <2>3
<1>4. PICK l : l = CommonPrefix(a, b)
  OBVIOUS
<1>5. l \in C /\ \A other \in C : Len(other) <= Len(l)
  <2>1. \E x \in C : \A other \in C : Len(other) <= Len(x)
    BY <1>2, <1>3
  <2>2. l = CHOOSE x \in C : \A other \in C : Len(other) <= Len(x)
    BY <1>4 DEF CommonPrefix, LongestCommonPrefix
  <2> HIDE DEF C
  <2> QED
    BY <2>1, <2>2
<1> HIDE DEF C
<1>6. Len(l) = Len(c)
  <2>1. Len(l) <= Len(c) /\ Len(c) <= Len(l)
    BY <1>2, <1>3, <1>5
  <2>2. Len(l) \in Nat /\ Len(c) \in Nat
    BY <1>1, <1>5, LenProperties
  <2> QED
    BY <2>1, <2>2
<1> QED
  BY <1>1, <1>4, <1>5, <1>6, SamePrefix

\* A number is a sequence of digits.
LEMMA NumberFacts ==
  ASSUME NEW d \in Numbers
  PROVE  /\ Len(d) \in Nat /\ DOMAIN d = 1 .. Len(d)
         /\ \A i \in 1 .. Len(d) : d[i] \in Digits
BY LenProperties DEF Numbers

\* The trunk prefix is removed.
LEMMA ExtractTrunk ==
  ASSUME NEW d \in Numbers, Len(d) >= 2
  PROVE  ExtractPrefix(<<0>> \o d) = d
<1> DEFINE r == <<0>> \o d
<1>1. <<0>> \in Seq(Digits) /\ Len(<<0>>) = 1 /\ d \in Seq(Digits)
  BY DEF Numbers, Digits
<1>2. /\ r \in Seq(Digits) /\ Len(r) = Len(d) + 1 /\ r[1] = 0
      /\ \A i \in 1 .. Len(d) : r[i + 1] = d[i]
  <2>1. /\ r \in Seq(Digits) /\ Len(r) = 1 + Len(d)
        /\ \A i \in 1 .. 1 + Len(d) : r[i] = IF i <= 1 THEN <<0>>[i] ELSE d[i - 1]
    BY <1>1, ConcatProperties
  <2> QED
    BY <2>1, NumberFacts
<1> HIDE DEF r
<1>3. IsDigits(r) /\ Len(r) >= 2
  BY <1>2, NumberFacts, EmptySeq, LenProperties, ElementOfSeq DEF IsDigits
<1>4. Head(r) = 0
  BY <1>2
<1>5. Tail(r) = d
  <2>1. /\ Tail(r) \in Seq(Digits) /\ Len(Tail(r)) = Len(d)
        /\ \A i \in 1 .. Len(d) : Tail(r)[i] = d[i]
    BY <1>2, NumberFacts, HeadTailProperties, EmptySeq
  <2> QED
    BY <1>1, <2>1, SeqEqual
<1> QED
  BY <1>3, <1>4, <1>5 DEF ExtractPrefix, r

\* Without one, nothing is.
LEMMA ExtractPlain ==
  ASSUME NEW d \in Numbers, Len(d) >= 2, d[1] # 0
  PROVE  ExtractPrefix(d) = d
<1>1. IsDigits(d)
  BY NumberFacts, EmptySeq DEF IsDigits
<1>2. Head(d) # 0
  OBVIOUS
<1> QED
  BY <1>1, <1>2, NumberFacts DEF ExtractPrefix

\* A block filled up to a length: its digits, and then the one it is filled with.
LEMMA FilledFacts ==
  ASSUME NEW B \in Numbers, NEW w \in Nat, Len(B) <= w, NEW e \in Digits
  PROVE  /\ Filled(B, e, w) \in Numbers /\ Len(Filled(B, e, w)) = w
         /\ \A i \in 1 .. Len(B) : Filled(B, e, w)[i] = B[i]
         /\ \A i \in 1 .. w : i > Len(B) => Filled(B, e, w)[i] = e
         /\ IsPrefix(B, Filled(B, e, w))
<1> DEFINE F == Filled(B, e, w)
<1>1. /\ F \in [1 .. w -> Digits]
      /\ \A i \in 1 .. Len(B) : F[i] = B[i]
      /\ \A i \in 1 .. w : i > Len(B) => F[i] = e
  BY NumberFacts DEF Filled
<1> HIDE DEF F
<1>2. F \in Seq(Digits) /\ Len(F) = w
  BY <1>1, IsSeq
<1>3. IsPrefix(B, F)
  BY <1>1, <1>2, PrefixAt DEF Numbers
<1> QED
  BY <1>1, <1>2, <1>3 DEF Numbers, F

\* The prefix of a range of all numbers with the same first digits is these digits.
LEMMA BlockPrefix ==
  ASSUME NEW B \in Numbers, NEW w \in Nat, NEW trunk \in BOOLEAN,
         Len(B) \in 2 .. w, trunk \/ B[1] # 0
  PROVE  LET t == IF trunk THEN <<0>> ELSE <<>>
         IN  RangePrefix(t \o Filled(B, 0, w), t \o Filled(B, 9, w)) = B
<1> DEFINE t == IF trunk THEN <<0>> ELSE <<>>
           f == Filled(B, 0, w)
           g == Filled(B, 9, w)
<1>1. 0 \in Digits /\ 9 \in Digits
  BY DEF Digits
<1>2. /\ f \in Numbers /\ Len(f) = w /\ IsPrefix(B, f) /\ \A i \in 1 .. Len(B) : f[i] = B[i]
      /\ g \in Numbers /\ Len(g) = w /\ IsPrefix(B, g) /\ \A i \in 1 .. Len(B) : g[i] = B[i]
      /\ Len(B) < w => f[Len(B) + 1] = 0 /\ g[Len(B) + 1] = 9
  BY <1>1, FilledFacts
<1> HIDE DEF f, g
<1>3. ExtractPrefix(t \o f) = f /\ ExtractPrefix(t \o g) = g
  <2>1. CASE trunk
    BY <1>2, <2>1, ExtractTrunk
  <2>2. CASE ~ trunk
    <3>1. t \o f = f /\ t \o g = g
      BY <1>2, <2>2, ConcatEmptySeq DEF Numbers
    <3>2. f[1] # 0 /\ g[1] # 0
      BY <1>2, <2>2
    <3>3. Len(f) >= 2 /\ Len(g) >= 2
      BY <1>2
    <3> QED
      BY <1>2, <3>1, <3>2, <3>3, ExtractPlain
  <2> QED
    BY <2>1, <2>2
<1>4. CommonPrefix(f, g) = B
  <2>1. Len(B) = Len(f) \/ f[Len(B) + 1] # g[Len(B) + 1]
    BY <1>2
  <2> QED
    BY <1>2, <2>1, CommonPrefixIs DEF Numbers
<1>5. f # <<>> /\ g # <<>> /\ B # <<>>
  BY <1>2, EmptySeq DEF Numbers
<1> HIDE DEF t
<1>6. RangePrefix(t \o f, t \o g) = B
  BY <1>2, <1>3, <1>4, <1>5 DEF RangePrefix, None
<1> QED
  BY <1>6 DEF t, f, g

\* The carrier found is that of the last row with the longest prefix of the number.
LEMMA LongestLast ==
  ASSUME NEW S, NEW rows, DOMAIN rows \subseteq Nat,
         \A i \in DOMAIN rows : rows[i].prefix \in Seq(S),
         NEW number \in Seq(S)
  PROVE  LET hits == {i \in DOMAIN rows : rows[i].prefix # None /\ IsPrefix(rows[i].prefix, number)}
         IN  /\ hits = {} => FindCarrier(Kept(rows), number) = None
             /\ \A i \in hits :
                  (\A j \in hits : \/ Len(rows[j].prefix) < Len(rows[i].prefix)
                                   \/ (Len(rows[j].prefix) = Len(rows[i].prefix) /\ j <= i))
                  => FindCarrier(Kept(rows), number) = rows[i].carrier
<1> DEFINE hits == {i \in DOMAIN rows : rows[i].prefix # None /\ IsPrefix(rows[i].prefix, number)}
           found == Matching(Kept(rows), number)
<1>1. ASSUME NEW r \in found
      PROVE  \E i \in hits : r = rows[i] /\ \A k \in DOMAIN rows : k > i => rows[k].prefix # r.prefix
  BY DEF Matching, Kept
<1>2. CASE hits = {}
  <2>1. found = {}
    BY <1>1, <1>2
  <2> QED
    BY <1>2, <2>1 DEF FindCarrier
<1>3. ASSUME NEW i \in hits,
             \A j \in hits : \/ Len(rows[j].prefix) < Len(rows[i].prefix)
                             \/ (Len(rows[j].prefix) = Len(rows[i].prefix) /\ j <= i)
      PROVE  FindCarrier(Kept(rows), number) = rows[i].carrier
  <2>1. \A j \in hits : j \in Nat /\ Len(rows[j].prefix) \in Nat /\ rows[j].prefix \in Seq(S)
    BY LenProperties
  <2>2. ASSUME NEW k \in DOMAIN rows, k > i PROVE rows[k].prefix # rows[i].prefix
    <3> SUFFICES ASSUME rows[k].prefix = rows[i].prefix PROVE FALSE
      OBVIOUS
    <3>1. k \in hits /\ Len(rows[k].prefix) = Len(rows[i].prefix)
      OBVIOUS
    <3>2. ~ (Len(rows[k].prefix) < Len(rows[i].prefix)) /\ ~ (k <= i)
      BY <2>1, <2>2, <3>1
    <3> QED
      BY <1>3, <3>1, <3>2
  <2>3. rows[i] \in found
    BY <2>2 DEF Matching, Kept
  <2>4. \A q \in found : Len(rows[i].prefix) >= Len(q.prefix)
    BY <1>1, <1>3, <2>1
  <2>5. PICK r : r = CHOOSE u \in found : \A q \in found : Len(u.prefix) >= Len(q.prefix)
    OBVIOUS
  <2>6. r \in found /\ \A q \in found : Len(r.prefix) >= Len(q.prefix)
    <3> HIDE DEF found
    <3> QED
      BY <2>3, <2>4, <2>5
  <2>7. PICK j \in hits : r = rows[j] /\ \A k \in DOMAIN rows : k > j => rows[k].prefix # r.prefix
    BY <1>1, <2>6
  <2>8. Len(rows[j].prefix) = Len(rows[i].prefix)
    BY <2>1, <2>3, <2>4, <2>6, <2>7
  <2>9. rows[j].prefix = rows[i].prefix
    BY <2>1, <2>8, SamePrefix
  <2>10. i = j
    <3>1. ~ (j > i) /\ ~ (i > j)
      BY <2>2, <2>7, <2>9
    <3> QED
      BY <2>1, <3>1
  <2>11. FindCarrier(Kept(rows), number) = r.carrier
    <3>1. found # {}
      BY <2>3
    <3> HIDE DEF found
    <3> QED
      BY <2>5, <3>1 DEF FindCarrier, found
  <2> QED
    BY <2>7, <2>10, <2>11
<1> QED
  BY <1>2, <1>3

\* Counted is what its definition says.
LEMMA CountedDef ==
  ASSUME NEW n \in Numbers
  PROVE  /\ Counted(n) \in [0 .. Len(n) -> Nat]
         /\ Counted(n)[0] = 0
         /\ \A i \in 1 .. Len(n) : Counted(n)[i] = 10 * Counted(n)[i - 1] + n[i]
<1>1. PICK m \in Nat : m = Len(n) /\ \A i \in 1 .. m : n[i] \in Digits
  BY NumberFacts
<1>2. PICK T, a : T = Nat /\ a = 0
  OBVIOUS
<1> DEFINE h == [i \in 1 .. m |-> [v \in T |-> 10 * v + n[i]]]
<1>3. \A i \in 1 .. m, v \in T : 10 * v + n[i] \in T
  BY <1>1, <1>2 DEF Digits
<1>4. h \in [1 .. m -> [T -> T]] /\ a \in T
  BY <1>2, <1>3
<1>5. \A i \in 1 .. m : \A v \in T : h[i][v] = 10 * v + n[i]
  OBVIOUS
<1> HIDE DEF h
<1>6. PICK f \in [0 .. m -> T] : Follows(f, a, h, m)
  BY <1>4, Recursion
<1>7. f[0] = 0 /\ \A i \in 1 .. m : f[i] = 10 * f[i - 1] + n[i]
  <2>1. \A i \in 1 .. m : f[i - 1] \in T
    OBVIOUS
  <2> QED
    BY <1>2, <1>5, <1>6, <2>1 DEF Follows
<1> DEFINE Eq(g) == g = [i \in 0 .. Len(n) |-> IF i = 0 THEN 0 ELSE 10 * g[i - 1] + n[i]]
<1>8. Eq(f)
  <2>1. \A i \in 0 .. m : f[i] = IF i = 0 THEN 0 ELSE 10 * f[i - 1] + n[i]
    BY <1>7
  <2> QED
    BY <1>1, <2>1
<1>9. Counted(n) = CHOOSE g : Eq(g)
  BY DEF Counted
<1>10. Eq(Counted(n))
  <2> HIDE DEF Eq
  <2> QED
    BY <1>8, <1>9
<1>11. Counted(n)[0] = 0 /\ \A i \in 1 .. m : Counted(n)[i] = 10 * Counted(n)[i - 1] + n[i]
  BY <1>1, <1>10
<1>12. Counted(n) \in [0 .. m -> T]
  <2>1. Counted(n) = [i \in 0 .. m |-> Counted(n)[i]]
    BY <1>1, <1>10
  <2>2. \A i \in 1 .. m : Counted(n)[i - 1] \in T => Counted(n)[i] \in T
    BY <1>3, <1>11
  <2>3. Counted(n)[0] \in T
    BY <1>2, <1>11
  <2> HIDE DEF Eq
  <2> QED
    BY <2>1, <2>2, <2>3, Stays
<1> QED
  BY <1>1, <1>2, <1>11, <1>12

\* What the next digit makes of the count so far.
LEMMA CountedStep ==
  ASSUME NEW x \in Numbers, NEW i \in Nat, i + 1 <= Len(x)
  PROVE  \E v \in Nat, d \in Digits :
           v = Counted(x)[i] /\ d = x[i + 1] /\ Counted(x)[i + 1] = 10 * v + d
<1>1. PICK n \in Nat : n = Len(x) /\ x[i + 1] \in Digits
  BY NumberFacts
<1>2. i \in 0 .. n /\ i + 1 \in 1 .. n /\ (i + 1) - 1 = i
  BY <1>1
<1> QED
  BY <1>1, <1>2, CountedDef

\* A number whose digits are no greater is no greater.
LEMMA Digitwise ==
  ASSUME NEW x \in Numbers, NEW y \in Numbers, Len(x) = Len(y),
         \A i \in 1 .. Len(x) : x[i] <= y[i]
  PROVE  Value(x) <= Value(y)
<1>1. PICK n \in Nat : n = Len(x) /\ n = Len(y)
  BY NumberFacts
<1> DEFINE S == {i \in Nat : i <= n => Counted(x)[i] <= Counted(y)[i]}
<1>2. 0 \in S
  BY CountedDef
<1>3. ASSUME NEW i \in Nat, i \in S PROVE i + 1 \in S
  <2> SUFFICES ASSUME i + 1 <= n PROVE Counted(x)[i + 1] <= Counted(y)[i + 1]
    OBVIOUS
  <2>1. i \in 0 .. n /\ i + 1 \in 1 .. n /\ (i + 1) - 1 = i
    OBVIOUS
  <2>x. PICK v \in Nat, d \in Digits :
          v = Counted(x)[i] /\ d = x[i + 1] /\ Counted(x)[i + 1] = 10 * v + d
    BY <1>1, CountedStep
  <2>y. PICK w \in Nat, e \in Digits :
          w = Counted(y)[i] /\ e = y[i + 1] /\ Counted(y)[i + 1] = 10 * w + e
    BY <1>1, CountedStep
  <2>2. /\ v = Counted(x)[i] /\ w = Counted(y)[i] /\ d = x[i + 1] /\ e = y[i + 1]
        /\ Counted(x)[i + 1] = 10 * v + d /\ Counted(y)[i + 1] = 10 * w + e
    BY <2>x, <2>y
  <2>3. v <= w /\ d <= e
    BY <1>1, <1>3, <2>1, <2>2
  <2>4. 10 * v + d <= 10 * w + e
    BY <2>3 DEF Digits
  <2> QED
    BY <2>2, <2>4
<1> HIDE DEF S
<1>4. n \in S
  BY <1>2, <1>3, Induction
<1> QED
  BY <1>1, <1>4 DEF S, Value

\* The first digit two numbers of one length differ in decides.
LEMMA FirstDigit ==
  ASSUME NEW x \in Numbers, NEW y \in Numbers, Len(x) = Len(y), NEW k \in 1 .. Len(x),
         \A i \in 1 .. k - 1 : x[i] = y[i], x[k] < y[k]
  PROVE  Value(x) < Value(y)
<1>1. PICK n \in Nat : n = Len(x) /\ n = Len(y)
  BY NumberFacts
<1> DEFINE P(i) == IF i < k THEN Counted(x)[i] = Counted(y)[i] ELSE Counted(x)[i] < Counted(y)[i]
           S == {i \in Nat : i <= n => P(i)}
<1>2. 0 \in S
  BY <1>1, CountedDef
<1>3. ASSUME NEW i \in Nat, i \in S PROVE i + 1 \in S
  <2> SUFFICES ASSUME i + 1 <= n PROVE P(i + 1)
    OBVIOUS
  <2>1. i \in 0 .. n /\ i + 1 \in 1 .. n /\ (i + 1) - 1 = i /\ k \in Nat
    BY <1>1
  <2>x. PICK v \in Nat, d \in Digits :
          v = Counted(x)[i] /\ d = x[i + 1] /\ Counted(x)[i + 1] = 10 * v + d
    BY <1>1, CountedStep
  <2>y. PICK w \in Nat, e \in Digits :
          w = Counted(y)[i] /\ e = y[i + 1] /\ Counted(y)[i + 1] = 10 * w + e
    BY <1>1, CountedStep
  <2>2. /\ v = Counted(x)[i] /\ w = Counted(y)[i] /\ d = x[i + 1] /\ e = y[i + 1]
        /\ Counted(x)[i + 1] = 10 * v + d /\ Counted(y)[i + 1] = 10 * w + e
    BY <2>x, <2>y
  <2>3. IF i < k THEN v = w ELSE v < w
    BY <1>3, <2>1, <2>2
  <2>4. CASE i + 1 < k
    <3>1. d = e
      BY <1>1, <2>1, <2>2, <2>4
    <3> QED
      BY <2>1, <2>2, <2>3, <2>4, <3>1
  <2>5. CASE i + 1 = k
    <3>1. d < e /\ v = w
      BY <2>1, <2>2, <2>3, <2>5
    <3> QED
      BY <2>1, <2>2, <2>5, <3>1 DEF Digits
  <2>6. CASE i + 1 > k
    <3>1. v < w
      BY <2>1, <2>3, <2>6
    <3> QED
      <4>1. 10 * v + d < 10 * w + e
        BY <3>1 DEF Digits
      <4>2. ~ (i + 1 < k)
        BY <2>6
      <4> QED
        BY <2>2, <4>1, <4>2
  <2> QED
    BY <2>1, <2>4, <2>5, <2>6
<1> HIDE DEF S
<1>4. n \in S
  BY <1>2, <1>3, Induction
<1> QED
  BY <1>1, <1>4 DEF S, Value

\* The value of a number is natural.
LEMMA ValueIs ==
  ASSUME NEW x \in Numbers
  PROVE  Value(x) \in Nat
BY CountedDef, NumberFacts DEF Value

\* A number lies in a block if it begins with its digits.
LEMMA InBlock ==
  ASSUME NEW B \in Numbers, NEW x \in Numbers, Len(B) <= Len(x)
  PROVE  /\ Value(Filled(B, 0, Len(x))) <= Value(x)
         /\ Value(x) <= Value(Filled(B, 9, Len(x)))
         <=> IsPrefix(B, x)
<1>1. PICK w \in Nat, l \in Nat :
        /\ w = Len(x) /\ l = Len(B) /\ l <= w
        /\ \A i \in 1 .. w : x[i] \in Digits
        /\ \A i \in 1 .. l : B[i] \in Digits
  BY NumberFacts
<1>2. PICK f \in Numbers, g \in Numbers :
        /\ f = Filled(B, 0, w) /\ g = Filled(B, 9, w) /\ Len(f) = w /\ Len(g) = w
        /\ \A i \in 1 .. l : f[i] = B[i] /\ g[i] = B[i]
        /\ \A i \in 1 .. w : i > l => f[i] = 0 /\ g[i] = 9
  BY <1>1, FilledFacts DEF Digits
<1>3. CASE IsPrefix(B, x)
  <2>1. \A i \in 1 .. l : x[i] = B[i]
    BY <1>1, <1>3, PrefixAt DEF Numbers
  <2>2. \A i \in 1 .. w : f[i] <= x[i] /\ x[i] <= g[i]
    BY <1>1, <1>2, <2>1 DEF Digits
  <2> QED
    BY <1>1, <1>2, <1>3, <2>2, Digitwise
<1>4. CASE ~ IsPrefix(B, x)
  <2> DEFINE D == {i \in 1 .. l : x[i] # B[i]}
  <2>1. D \subseteq Nat /\ D # {}
    <3>1. D \subseteq Nat
      OBVIOUS
    <3>2. ~ (\A i \in 1 .. l : B[i] = x[i])
      BY <1>1, <1>4, PrefixAt DEF Numbers
    <3> QED
      BY <3>1, <3>2
  <2>2. PICK k \in D : \A i \in D : k <= i
    <3> HIDE DEF D
    <3> QED
      BY <2>1, Least
  <2>3. k \in 1 .. l /\ k \in 1 .. w /\ x[k] # B[k] /\ \A i \in 1 .. k - 1 : x[i] = B[i]
    BY <1>1, <2>2
  <2>4. /\ x[k] # f[k] /\ f[k] = g[k] /\ x[k] \in Digits /\ f[k] \in Digits
        /\ \A i \in 1 .. k - 1 : x[i] = f[i] /\ x[i] = g[i]
    BY <1>1, <1>2, <2>3
  <2>5. CASE x[k] < f[k]
    <3>1. Value(x) < Value(f)
      BY <1>1, <1>2, <2>3, <2>4, <2>5, FirstDigit
    <3> QED
      BY <1>1, <1>2, <1>4, <3>1, ValueIs
  <2>6. CASE x[k] > f[k]
    <3>1. Value(g) < Value(x)
      BY <1>1, <1>2, <2>3, <2>4, <2>6, FirstDigit
    <3> QED
      BY <1>1, <1>2, <1>4, <3>1, ValueIs
  <2>7. x[k] < f[k] \/ x[k] > f[k]
    <3>1. \A u \in Digits, v \in Digits : u # v => u < v \/ u > v
      BY DEF Digits
    <3> QED
      BY <2>4, <3>1
  <2> QED
    BY <2>5, <2>6, <2>7
<1> QED
  BY <1>3, <1>4

\* Of two blocks a number begins with, the one with more digits is the smaller.
LEMMA SmallerBlock ==
  ASSUME NEW B \in Numbers, NEW C \in Numbers, NEW x \in Numbers,
         IsPrefix(B, x), IsPrefix(C, x)
  PROVE  /\ Value(Filled(C, 0, Len(x))) <= Value(Filled(B, 0, Len(x)))
         /\ Value(Filled(B, 9, Len(x))) <= Value(Filled(C, 9, Len(x)))
         <=> Len(C) <= Len(B)
<1>1. PICK w \in Nat, l \in Nat, m \in Nat :
        /\ w = Len(x) /\ l = Len(B) /\ m = Len(C) /\ l <= w /\ m <= w
        /\ \A i \in 1 .. w : x[i] \in Digits
        /\ \A i \in 1 .. l : B[i] = x[i]
        /\ \A i \in 1 .. m : C[i] = x[i]
  <2>1. Len(B) <= Len(x) /\ \A i \in 1 .. Len(B) : B[i] = x[i]
    BY PrefixAt DEF Numbers
  <2>2. Len(C) <= Len(x) /\ \A i \in 1 .. Len(C) : C[i] = x[i]
    BY PrefixAt DEF Numbers
  <2>3. Len(x) \in Nat /\ \A i \in 1 .. Len(x) : x[i] \in Digits
    BY NumberFacts
  <2>4. Len(B) \in Nat /\ Len(C) \in Nat
    BY NumberFacts
  <2> QED
    BY <2>1, <2>2, <2>3, <2>4
<1>2. PICK f \in Numbers, g \in Numbers :
        /\ f = Filled(B, 0, w) /\ g = Filled(B, 9, w) /\ Len(f) = w /\ Len(g) = w
        /\ \A i \in 1 .. l : f[i] = x[i] /\ g[i] = x[i]
        /\ \A i \in 1 .. w : i > l => f[i] = 0 /\ g[i] = 9
  BY <1>1, FilledFacts DEF Digits
<1>3. PICK p \in Numbers, q \in Numbers :
        /\ p = Filled(C, 0, w) /\ q = Filled(C, 9, w) /\ Len(p) = w /\ Len(q) = w
        /\ \A i \in 1 .. m : p[i] = x[i] /\ q[i] = x[i]
        /\ \A i \in 1 .. w : i > m => p[i] = 0 /\ q[i] = 9
  BY <1>1, FilledFacts DEF Digits
<1>4. CASE m <= l
  <2>1. \A i \in 1 .. w : p[i] <= f[i] /\ g[i] <= q[i]
    BY <1>1, <1>2, <1>3, <1>4 DEF Digits
  <2> QED
    BY <1>1, <1>2, <1>3, <1>4, <2>1, Digitwise
<1>5. CASE l < m
  <2>1. PICK k \in 1 .. w : k = l + 1 /\ k <= m
    BY <1>1, <1>5
  <2>2. /\ f[k] = 0 /\ g[k] = 9 /\ p[k] = x[k] /\ q[k] = x[k] /\ x[k] \in Digits
        /\ \A i \in 1 .. k - 1 : f[i] = p[i] /\ g[i] = q[i]
    BY <1>1, <1>2, <1>3, <2>1
  <2>3. CASE x[k] < 9
    <3>1. Value(q) < Value(g)
      BY <1>2, <1>3, <2>2, <2>3, FirstDigit
    <3> QED
      BY <1>1, <1>2, <1>3, <1>5, <3>1, ValueIs
  <2>4. CASE x[k] = 9
    <3>1. Value(f) < Value(p)
      <4>1. Len(f) = Len(p) /\ k \in 1 .. Len(f) /\ f[k] < p[k]
        BY <1>2, <1>3, <2>2, <2>4
      <4> QED
        BY <2>2, <4>1, FirstDigit
    <3> QED
      BY <1>1, <1>2, <1>3, <1>5, <3>1, ValueIs
  <2> QED
    BY <2>2, <2>3, <2>4 DEF Digits
<1> QED
  BY <1>1, <1>4, <1>5

\* A set of rows that is not empty has a last one with the longest prefix.
LEMMA LongestExists ==
  ASSUME NEW n \in Nat, NEW b \in Nat, NEW len \in [1 .. n -> 0 .. b],
         NEW H, H \subseteq 1 .. n, H # {}
  PROVE  \E i \in H : \A j \in H : len[j] < len[i] \/ (len[j] = len[i] /\ j <= i)
<1> DEFINE Ls == {len[i] : i \in H}
<1>1. PICK l \in Ls : \A k \in Ls : k <= l
  <2>1. Ls \subseteq 0 .. b /\ Ls # {}
    OBVIOUS
  <2> HIDE DEF Ls
  <2> QED
    BY <2>1, Greatest
<1> DEFINE Is == {i \in H : len[i] = l}
<1>2. PICK i \in Is : \A j \in Is : j <= i
  <2>1. Is \subseteq 0 .. n /\ Is # {}
    <3>1. PICK i \in H : l = len[i]
      OBVIOUS
    <3>2. i \in Is
      BY <3>1
    <3>3. Is \subseteq H /\ 1 .. n \subseteq 0 .. n
      OBVIOUS
    <3> HIDE DEF Is
    <3> QED
      BY <3>2, <3>3
  <2> HIDE DEF Is
  <2> QED
    BY <2>1, Greatest
<1>3. ASSUME NEW j \in H PROVE len[j] < len[i] \/ (len[j] = len[i] /\ j <= i)
  <2>1. len[j] <= len[i]
    BY <1>1, <1>2
  <2>2. len[j] \in Nat /\ len[i] \in Nat
    OBVIOUS
  <2>3. CASE len[j] = len[i]
    <3>1. j \in Is
      BY <2>3
    <3> QED
      BY <1>2, <2>3, <3>1
  <2>4. CASE len[j] # len[i]
    <3>1. PICK a \in Nat, c \in Nat : a = len[j] /\ c = len[i]
      BY <2>2
    <3>2. a <= c /\ a # c
      BY <2>1, <2>4, <3>1
    <3>3. a < c
      BY <3>2
    <3> QED
      BY <3>1, <3>3
  <2> QED
    BY <2>3, <2>4
<1> QED
  BY <1>2, <1>3

\* The carrier found in a table of ranges is that of the smallest.
LEMMA RangesFound ==
  ASSUME NEW s \in RangeTexts
  PROVE  PrefixFindsRange(s)
<1> DEFINE x == s.number
           w == Len(x)
           B(i) == s.blocks[i]
           rows == [i \in DOMAIN Ranges(s) |->
                      [prefix |-> RangePrefix(Ranges(s)[i].from, Ranges(s)[i].to),
                       carrier |-> Ranges(s)[i].provider]]
           lowest(i) == Value(Filled(B(i), 0, w))
           highest(i) == Value(Filled(B(i), 9, w))
           within == {i \in DOMAIN s.blocks : lowest(i) <= Value(x) /\ Value(x) <= highest(i)}
           smallest == {i \in within :
                          \A j \in within : lowest(j) <= lowest(i) /\ highest(i) <= highest(j)}
           hits == {i \in DOMAIN rows : rows[i].prefix # None /\ IsPrefix(rows[i].prefix, x)}
<1>1. /\ x \in Numbers /\ s.blocks \in Seq(Numbers) /\ s.trunk \in BOOLEAN
      /\ w \in Nat
  BY NumberFacts DEF RangeTexts
<1>2. PICK n \in Nat : n = Len(s.blocks) /\ DOMAIN s.blocks = 1 .. n
  BY <1>1, LenProperties
<1>3. ASSUME NEW i \in 1 .. n
      PROVE  B(i) \in Numbers /\ Len(B(i)) \in 2 .. w /\ (s.trunk \/ B(i)[1] # 0)
  <2>1. B(i) \in Numbers
    BY <1>1, <1>2, ElementOfSeq
  <2> QED
    BY <1>2, <2>1 DEF RangeTexts
<1>4. DOMAIN rows = 1 .. n /\ \A i \in 1 .. n : rows[i].prefix = B(i) /\ rows[i].carrier = <<i>>
  <2>1. DOMAIN Ranges(s) = 1 .. n
    BY <1>2 DEF Ranges
  <2>2. ASSUME NEW i \in 1 .. n
        PROVE  RangePrefix(Ranges(s)[i].from, Ranges(s)[i].to) = B(i) /\ Ranges(s)[i].provider = <<i>>
    <3> DEFINE t == IF s.trunk THEN <<0>> ELSE <<>>
    <3>1. /\ Ranges(s)[i].from = t \o Filled(B(i), 0, w)
          /\ Ranges(s)[i].to = t \o Filled(B(i), 9, w)
          /\ Ranges(s)[i].provider = <<i>>
      BY <1>2 DEF Ranges
    <3>2. RangePrefix(t \o Filled(B(i), 0, w), t \o Filled(B(i), 9, w)) = B(i)
      <4>1. PICK b \in Numbers, v \in Nat, trunk \in BOOLEAN : b = B(i) /\ v = w /\ trunk = s.trunk
        BY <1>1, <1>3
      <4>2. Len(b) \in 2 .. v /\ (trunk \/ b[1] # 0)
        BY <1>3, <4>1
      <4> QED
        BY <4>1, <4>2, BlockPrefix
    <3> QED
      BY <3>1, <3>2
  <2> QED
    BY <2>1, <2>2
<1>5. LoadOfcom(Ranges(s)) = Kept(rows)
  BY DEF LoadOfcom
<1> HIDE DEF rows, x, B
<1>6. hits = {i \in 1 .. n : IsPrefix(B(i), x)}
  <2>1. \A i \in 1 .. n : B(i) # None
    BY <1>3, EmptySeq DEF None, Numbers
  <2> QED
    BY <1>4, <2>1
<1>7. within = hits
  <2>1. \A i \in 1 .. n : lowest(i) <= Value(x) /\ Value(x) <= highest(i) <=> IsPrefix(B(i), x)
    BY <1>1, <1>3, InBlock
  <2> QED
    BY <1>2, <1>6, <2>1
<1>8. /\ hits = {} => FindCarrier(Kept(rows), x) = None
      /\ \A i \in hits :
           (\A j \in hits : \/ Len(B(j)) < Len(B(i)) \/ (Len(B(j)) = Len(B(i)) /\ j <= i))
           => FindCarrier(Kept(rows), x) = <<i>>
  <2>1. DOMAIN rows \subseteq Nat /\ \A i \in DOMAIN rows : rows[i].prefix \in Seq(Digits)
    BY <1>3, <1>4 DEF Numbers
  <2>2. x \in Seq(Digits)
    BY <1>1 DEF Numbers
  <2>3. /\ hits = {} => FindCarrier(Kept(rows), x) = None
        /\ \A i \in hits :
             (\A j \in hits : \/ Len(rows[j].prefix) < Len(rows[i].prefix)
                              \/ (Len(rows[j].prefix) = Len(rows[i].prefix) /\ j <= i))
             => FindCarrier(Kept(rows), x) = rows[i].carrier
    BY <2>1, <2>2, LongestLast
  <2>4. \A i \in hits : rows[i].prefix = B(i) /\ rows[i].carrier = <<i>>
    BY <1>4
  <2> HIDE DEF hits
  <2> QED
    BY <2>3, <2>4
<1>9. ASSUME hits # {}
      PROVE  \E i \in smallest : FindCarrier(Kept(rows), x) = <<i>> /\ \A j \in smallest : j <= i
  <2> DEFINE len == [i \in 1 .. n |-> Len(B(i))]
  <2>1. len \in [1 .. n -> 0 .. w]
    BY <1>1, <1>3
  <2>2. PICK i \in hits : \A j \in hits : len[j] < len[i] \/ (len[j] = len[i] /\ j <= i)
    <3>0. PICK H : H = hits
      OBVIOUS
    <3>1. PICK b \in Nat : H = hits /\ b = w
      BY <1>1, <3>0
    <3>2. H \subseteq 1 .. n /\ H # {} /\ len \in [1 .. n -> 0 .. b]
      BY <1>6, <1>9, <2>1, <3>1
    <3> HIDE DEF len
    <3>3. \E i \in H : \A j \in H : len[j] < len[i] \/ (len[j] = len[i] /\ j <= i)
      BY <3>2, LongestExists
    <3> HIDE DEF hits
    <3> QED
      BY <3>1, <3>3
  <2>3. \A j \in hits : Len(B(j)) < Len(B(i)) \/ (Len(B(j)) = Len(B(i)) /\ j <= i)
    BY <1>6, <2>2
  <2>4. FindCarrier(Kept(rows), x) = <<i>>
    BY <1>8, <2>3
  <2>5. \A j, k \in hits :
          lowest(j) <= lowest(k) /\ highest(k) <= highest(j) <=> Len(B(j)) <= Len(B(k))
    BY <1>1, <1>3, <1>6, SmallerBlock
  <2>6. \A j \in hits : j \in Nat /\ Len(B(j)) \in Nat
    BY <1>1, <1>3, <1>6
  <2>7. smallest = {j \in hits : \A k \in hits : Len(B(k)) <= Len(B(j))}
    BY <1>7, <2>5
  <2> HIDE DEF smallest, hits, within
  <2>8. i \in smallest /\ \A j \in smallest : j <= i
    BY <2>3, <2>6, <2>7
  <2> QED
    BY <2>4, <2>8
<1>10. IF within = {} THEN FindCarrier(Kept(rows), x) = None
       ELSE \E i \in smallest : FindCarrier(Kept(rows), x) = <<i>> /\ \A j \in smallest : j <= i
  <2> HIDE DEF smallest, hits, within
  <2> QED
    BY <1>7, <1>8, <1>9
<1> QED
  BY <1>5, <1>10 DEF PrefixFindsRange, x, B

\* The carrier found in a table of codes is that of the last row with them.
LEMMA CodesFound ==
  ASSUME NEW s \in CodeTexts
  PROVE  PrefixFindsCodes(s)
<1> DEFINE x == s.number
           P(i) == CodesPrefix(s.file[i].npa, s.file[i].nxx)
           rows == [i \in DOMAIN s.file |-> [prefix |-> P(i), carrier |-> s.file[i].company]]
           with == {i \in DOMAIN s.file :
                      /\ Len(s.file[i].npa) = 3 /\ Len(s.file[i].nxx) = 3
                      /\ IsPrefix(s.file[i].npa \o s.file[i].nxx, x)}
           hits == {i \in DOMAIN rows : rows[i].prefix # None /\ IsPrefix(rows[i].prefix, x)}
<1>1. x \in Numbers /\ s.file \in Seq([npa : Numbers, nxx : Numbers, company : Numbers])
  BY DEF CodeTexts
<1>2. PICK n \in Nat : n = Len(s.file) /\ DOMAIN s.file = 1 .. n
  BY <1>1, LenProperties
<1>3. ASSUME NEW i \in 1 .. n
      PROVE  /\ s.file[i].npa \in Numbers /\ s.file[i].nxx \in Numbers
             /\ P(i) \in Numbers
             /\ (P(i) # None <=> Len(s.file[i].npa) = 3 /\ Len(s.file[i].nxx) = 3)
             /\ P(i) # None => P(i) = s.file[i].npa \o s.file[i].nxx /\ Len(P(i)) = 6
  <2>1. s.file[i] \in [npa : Numbers, nxx : Numbers, company : Numbers]
    BY <1>1, <1>2, ElementOfSeq
  <2>2. PICK a \in Numbers, b \in Numbers : a = s.file[i].npa /\ b = s.file[i].nxx
    BY <2>1
  <2>3. a \o b \in Seq(Digits) /\ Len(a \o b) = Len(a) + Len(b)
    BY ConcatProperties DEF Numbers
  <2>4. None \in Numbers /\ Len(None) = 0
    BY EmptySeq DEF None, Numbers
  <2>5. P(i) = IF Len(a) = 3 /\ Len(b) = 3 THEN a \o b ELSE None
    BY <2>2 DEF CodesPrefix
  <2>6. CASE Len(a) = 3 /\ Len(b) = 3
    <3>1. P(i) = a \o b /\ Len(P(i)) = 6
      BY <2>3, <2>5, <2>6
    <3>2. P(i) # None
      BY <2>4, <3>1
    <3> QED
      BY <2>2, <2>3, <2>6, <3>1, <3>2 DEF Numbers
  <2>7. CASE ~ (Len(a) = 3 /\ Len(b) = 3)
    <3>1. P(i) = None
      BY <2>5, <2>7
    <3> QED
      BY <2>2, <2>4, <2>7, <3>1
  <2> QED
    BY <2>6, <2>7
<1>4. LoadNanpa(s.file) = Kept(rows)
  BY DEF LoadNanpa
<1>5. DOMAIN rows = 1 .. n /\ \A i \in 1 .. n : rows[i].prefix = P(i) /\ rows[i].carrier = s.file[i].company
  BY <1>2
<1> HIDE DEF rows, P, x
<1>6. hits = with
  <2>1. \A i \in 1 .. n :
          /\ rows[i].prefix # None /\ IsPrefix(rows[i].prefix, x)
          <=> /\ Len(s.file[i].npa) = 3 /\ Len(s.file[i].nxx) = 3
              /\ IsPrefix(s.file[i].npa \o s.file[i].nxx, x)
    BY <1>3, <1>5
  <2> QED
    BY <1>2, <1>5, <2>1
<1>7. /\ hits = {} => FindCarrier(Kept(rows), x) = None
      /\ \A i \in hits :
           (\A j \in hits : j <= i) => FindCarrier(Kept(rows), x) = s.file[i].company
  <2>1. DOMAIN rows \subseteq Nat /\ \A i \in DOMAIN rows : rows[i].prefix \in Seq(Digits)
    <3>1. \A i \in 1 .. n : rows[i].prefix \in Seq(Digits)
      BY <1>3, <1>5 DEF Numbers
    <3> QED
      BY <1>5, <3>1
  <2>2. x \in Seq(Digits)
    BY <1>1 DEF Numbers
  <2>3. /\ hits = {} => FindCarrier(Kept(rows), x) = None
        /\ \A i \in hits :
             (\A j \in hits : \/ Len(rows[j].prefix) < Len(rows[i].prefix)
                              \/ (Len(rows[j].prefix) = Len(rows[i].prefix) /\ j <= i))
             => FindCarrier(Kept(rows), x) = rows[i].carrier
    BY <2>1, <2>2, LongestLast
  <2>4. \A i \in hits : Len(rows[i].prefix) = 6 /\ rows[i].carrier = s.file[i].company
    BY <1>3, <1>5
  <2> HIDE DEF hits
  <2> QED
    BY <2>3, <2>4
<1>8. ASSUME hits # {} PROVE \E i \in hits : \A j \in hits : j <= i
  <2>1. hits \subseteq 0 .. n
    BY <1>5
  <2> HIDE DEF hits
  <2> QED
    BY <1>8, <2>1, Greatest
<1>9. IF with = {} THEN FindCarrier(Kept(rows), x) = None
      ELSE \E i \in with : FindCarrier(Kept(rows), x) = s.file[i].company /\ \A j \in with : j <= i
  <2> HIDE DEF hits, with
  <2> QED
    BY <1>6, <1>7, <1>8
<1> QED
  BY <1>4, <1>9 DEF PrefixFindsCodes, x

-----------------------------------------------------------------------------
(* Texts *)

\* The text e stands in L after p characters.
Stands(L, p, e) == p + Len(e) <= Len(L) /\ \A j \in 1 .. Len(e) : L[p + j] = e[j]

\* A text made of two stands where the one does and the other follows it.
LEMMA StandsConcat ==
  ASSUME NEW S, NEW L \in Seq(S), NEW p \in Nat, NEW d \in Seq(S), NEW e \in Seq(S)
  PROVE  Stands(L, p, d \o e) <=> Stands(L, p, d) /\ Stands(L, p + Len(d), e)
<1>1. PICK m \in Nat, n \in Nat, l \in Nat : m = Len(d) /\ n = Len(e) /\ l = Len(L)
  BY LenProperties
<1>2. /\ Len(d \o e) = m + n
      /\ \A i \in 1 .. m : (d \o e)[i] = d[i]
      /\ \A i \in 1 .. n : (d \o e)[m + i] = e[i]
  <2>1. \A i \in 1 .. m + n : (d \o e)[i] = IF i <= m THEN d[i] ELSE e[i - m]
    BY <1>1, ConcatProperties
  <2>2. \A i \in 1 .. n : m + i \in 1 .. m + n /\ ~ (m + i <= m) /\ (m + i) - m = i
    OBVIOUS
  <2>3. \A i \in 1 .. m : i \in 1 .. m + n /\ i <= m
    OBVIOUS
  <2> QED
    BY <1>1, <2>1, <2>2, <2>3, ConcatProperties
<1>3. ASSUME Stands(L, p, d \o e)
      PROVE  Stands(L, p, d) /\ Stands(L, p + Len(d), e)
  <2>1. \A j \in 1 .. m + n : L[p + j] = (d \o e)[j]
    BY <1>2, <1>3 DEF Stands
  <2>2. p + (m + n) <= l
    BY <1>1, <1>2, <1>3 DEF Stands
  <2>3. \A j \in 1 .. m : j \in 1 .. m + n
    OBVIOUS
  <2>4. \A j \in 1 .. n : m + j \in 1 .. m + n /\ p + (m + j) = (p + m) + j
    OBVIOUS
  <2>5. \A j \in 1 .. n : L[(p + m) + j] = e[j]
    BY <1>2, <2>1, <2>4
  <2>6. \A j \in 1 .. m : L[p + j] = d[j]
    BY <1>2, <2>1, <2>3
  <2> QED
    BY <1>1, <2>2, <2>5, <2>6 DEF Stands
<1>4. ASSUME Stands(L, p, d), Stands(L, p + Len(d), e)
      PROVE  Stands(L, p, d \o e)
  <2>1. (p + m) + n <= l
    BY <1>1, <1>4 DEF Stands
  <2>2. \A j \in 1 .. m : L[p + j] = d[j]
    BY <1>1, <1>4 DEF Stands
  <2>3. \A j \in 1 .. n : L[(p + m) + j] = e[j]
    BY <1>1, <1>4 DEF Stands
  <2>4. ASSUME NEW j \in 1 .. m + n PROVE L[p + j] = (d \o e)[j]
    <3>1. CASE j \in 1 .. m
      BY <1>2, <2>2, <3>1
    <3>2. CASE j \notin 1 .. m
      <4>1. PICK i \in 1 .. n : j = m + i
        BY <3>2, j - m \in 1 .. n
      <4>2. p + j = (p + m) + i
        BY <4>1
      <4> QED
        BY <1>2, <2>3, <4>1, <4>2
    <3> QED
      BY <3>1, <3>2
  <2> QED
    BY <1>1, <1>2, <2>1, <2>4 DEF Stands
<1> QED
  BY <1>3, <1>4

\* What is strung together stands in its order, one part after the other.
LEMMA Parts ==
  ASSUME NEW S, NEW ps \in Seq(Seq(S))
  PROVE  \E q \in [0 .. Len(ps) -> Nat] :
           /\ FlattenSeq(ps) \in Seq(S)
           /\ q[0] = 0 /\ q[Len(ps)] = Len(FlattenSeq(ps))
           /\ \A k \in 1 .. Len(ps) :
                q[k] = q[k - 1] + Len(ps[k]) /\ Stands(FlattenSeq(ps), q[k - 1], ps[k])
<1>1. PICK n \in Nat : n = Len(ps) /\ \A i \in 1 .. n : ps[i] \in Seq(S)
  BY LenProperties, ElementOfSeq
<1>2. PICK T : T = Seq(S)
  OBVIOUS
<1>3. PICK a \in T : a = <<>> /\ Len(a) = 0
  BY <1>2, EmptySeq
<1> DEFINE h == [i \in 1 .. n |-> [x \in T |-> x \o ps[i]]]
<1>4. \A i \in 1 .. n : \A x \in T : x \o ps[i] \in T /\ Len(x \o ps[i]) = Len(x) + Len(ps[i])
  BY <1>1, <1>2, ConcatProperties
<1>5. h \in [1 .. n -> [T -> T]]
  BY <1>4
<1>6. \A i \in 1 .. n : \A x \in T : h[i][x] = x \o ps[i]
  OBVIOUS
<1> HIDE DEF h
<1>7. PICK f \in [0 .. n -> T] : Follows(f, a, h, n)
  BY <1>5, Recursion
<1>8. f[0] = <<>> /\ \A i \in 1 .. n : f[i] = f[i - 1] \o ps[i]
  <2>1. \A i \in 1 .. n : f[i - 1] \in T
    OBVIOUS
  <2> QED
    BY <1>3, <1>6, <1>7, <2>1 DEF Follows
<1>9. f[n] = FlattenSeq(ps)
  <2>1. CASE n = 0
    <3>1. ps = <<>>
      BY <1>1, <2>1, EmptySeq
    <3> QED
      BY <1>1, <1>8, <2>1, <3>1 DEF FlattenSeq
  <2>2. CASE n # 0
    <3> DEFINE Eq(g) == g = [i \in 1 .. Len(ps) |-> IF i = 1 THEN ps[i] ELSE g[i - 1] \o ps[i]]
               G == CHOOSE g : Eq(g)
               F == [i \in 1 .. n |-> f[i]]
    <3>1. Eq(F)
      <4>1. \A i \in 1 .. n : F[i] = IF i = 1 THEN ps[i] ELSE F[i - 1] \o ps[i]
        <5>1. ASSUME NEW i \in 1 .. n, i = 1 PROVE F[i] = ps[i]
          <6>1. f[1] = <<>> \o ps[1]
            BY <1>8, <5>1
          <6> QED
            BY <1>1, <5>1, <6>1, ConcatEmptySeq
        <5>2. ASSUME NEW i \in 1 .. n, i # 1 PROVE F[i] = F[i - 1] \o ps[i]
          BY <1>8, <5>2, i - 1 \in 1 .. n
        <5> QED
          BY <5>1, <5>2
      <4> HIDE DEF F
      <4>2. F = [i \in 1 .. n |-> F[i]]
        BY DEF F
      <4> QED
        BY <1>1, <4>1, <4>2
    <3>2. Eq(G)
      <4> HIDE DEF Eq, F
      <4> QED
        BY <3>1
    <3>3. FlattenSeq(ps) = G[n]
      BY <1>1, <2>2 DEF FlattenSeq
    <3> HIDE DEF G
    <3>4. /\ G[1] = ps[1]
          /\ \A i \in 1 .. n : i # 1 => G[i] = G[i - 1] \o ps[i]
      <4>1. G = [i \in 1 .. n |-> IF i = 1 THEN ps[i] ELSE G[i - 1] \o ps[i]]
        BY <1>1, <3>2
      <4>2. \A i \in 1 .. n : G[i] = IF i = 1 THEN ps[i] ELSE G[i - 1] \o ps[i]
        BY <4>1
      <4>3. 1 \in 1 .. n
        BY <2>2
      <4> QED
        BY <4>2, <4>3
    <3> HIDE DEF Eq
    <3> DEFINE E == {i \in Nat : i + 1 <= n => G[i + 1] = f[i + 1]}
    <3>5. 0 \in E
      <4>1. f[1] = <<>> \o ps[1]
        BY <1>8, <2>2, 1 \in 1 .. n, 1 - 1 = 0
      <4>2. f[1] = ps[1]
        BY <1>1, <2>2, <4>1, ConcatEmptySeq
      <4> QED
        BY <3>4, <4>2
    <3>6. ASSUME NEW i \in Nat, i \in E PROVE i + 1 \in E
      <4> SUFFICES ASSUME (i + 1) + 1 <= n PROVE G[(i + 1) + 1] = f[(i + 1) + 1]
        OBVIOUS
      <4>1. PICK j \in 1 .. n : j = (i + 1) + 1 /\ j # 1 /\ j - 1 = i + 1
        OBVIOUS
      <4>2. G[i + 1] = f[i + 1]
        BY <3>6
      <4> QED
        BY <1>8, <3>4, <4>1, <4>2
    <3> HIDE DEF E
    <3>7. n - 1 \in E
      BY <2>2, <3>5, <3>6, Induction
    <3> QED
      BY <2>2, <3>3, <3>7 DEF E
  <2> QED
    BY <2>1, <2>2
<1> DEFINE q == [i \in 0 .. n |-> Len(f[i])]
<1>a. \A i \in 0 .. n : q[i] = Len(f[i])
  OBVIOUS
<1>10. q \in [0 .. n -> Nat]
  <2>1. \A i \in 0 .. n : f[i] \in Seq(S)
    BY <1>2
  <2> QED
    BY <2>1, LenProperties
<1>11. q[0] = 0 /\ q[n] = Len(FlattenSeq(ps)) /\ FlattenSeq(ps) \in Seq(S)
  BY <1>2, <1>3, <1>8, <1>9
<1> HIDE DEF q
<1>12. \A k \in 1 .. n : q[k] = q[k - 1] + Len(ps[k])
  <2>1. \A k \in 1 .. n : f[k - 1] \in T /\ k - 1 \in 0 .. n /\ k \in 0 .. n
    OBVIOUS
  <2>2. \A k \in 1 .. n : Len(f[k]) = Len(f[k - 1]) + Len(ps[k])
    BY <1>4, <1>8, <2>1
  <2> QED
    BY <1>a, <2>1, <2>2
<1>13. ASSUME NEW k \in 1 .. n PROVE Stands(f[n], q[k - 1], ps[k])
  <2> DEFINE E == {i \in Nat : k + i <= n => Stands(f[k + i], q[k - 1], ps[k])}
  <2>0. /\ ps[k] \in Seq(S) /\ f[k - 1] \in Seq(S) /\ q[k - 1] = Len(f[k - 1]) /\ q[k - 1] \in Nat
    <3>1. k - 1 \in 0 .. n
      OBVIOUS
    <3>2. f[k - 1] \in T /\ q[k - 1] = Len(f[k - 1])
      BY <1>a, <3>1
    <3> QED
      BY <1>1, <1>2, <1>10, <3>1, <3>2
  <2>1. 0 \in E
    <3>1. PICK x \in Seq(S), y \in Seq(S) : x = f[k - 1] /\ y = ps[k]
      BY <2>0
    <3>2. f[k] = x \o y
      BY <1>8, <3>1
    <3>3. /\ x \o y \in Seq(S)
          /\ Len(x \o y) = Len(x) + Len(y)
          /\ \A i \in 1 .. Len(x) + Len(y) : (x \o y)[i] = IF i <= Len(x) THEN x[i] ELSE y[i - Len(x)]
      BY ConcatProperties
    <3>4. Len(x) \in Nat /\ Len(y) \in Nat
      BY LenProperties
    <3>5. \A j \in 1 .. Len(y) : (x \o y)[Len(x) + j] = y[j]
      BY <3>3, <3>4
    <3>6. Stands(x \o y, Len(x), y)
      BY <3>3, <3>4, <3>5 DEF Stands
    <3>7. Stands(f[k], q[k - 1], ps[k])
      BY <2>0, <3>1, <3>2, <3>6
    <3> QED
      BY <3>7, k + 0 = k
  <2>2. ASSUME NEW i \in Nat, i \in E PROVE i + 1 \in E
    <3> SUFFICES ASSUME k + (i + 1) <= n PROVE Stands(f[k + (i + 1)], q[k - 1], ps[k])
      OBVIOUS
    <3>1. PICK m \in 1 .. n : m = k + (i + 1) /\ m - 1 = k + i /\ m - 1 \in 0 .. n
      OBVIOUS
    <3>2. PICK x \in Seq(S), y \in Seq(S) : x = f[m - 1] /\ y = ps[m]
      BY <1>1, <1>2, <3>1
    <3>3. f[m] = x \o y
      BY <1>8, <3>1, <3>2
    <3>4. Stands(x, q[k - 1], ps[k])
      BY <2>2, <3>1, <3>2
    <3>5. /\ Len(x \o y) = Len(x) + Len(y)
          /\ \A j \in 1 .. Len(x) + Len(y) : (x \o y)[j] = IF j <= Len(x) THEN x[j] ELSE y[j - Len(x)]
      BY ConcatProperties
    <3>6. PICK a1 \in Nat, b1 \in Nat, c1 \in Nat, p1 \in Nat :
            a1 = Len(x) /\ b1 = Len(y) /\ c1 = Len(ps[k]) /\ p1 = q[k - 1]
      BY <2>0, LenProperties
    <3>7. p1 + c1 <= a1 /\ \A j \in 1 .. c1 : x[p1 + j] = ps[k][j]
      BY <3>4, <3>6 DEF Stands
    <3>8. \A j \in 1 .. c1 : (x \o y)[p1 + j] = ps[k][j]
      <4>1. \A j \in 1 .. c1 : p1 + j \in 1 .. a1 + b1 /\ p1 + j <= a1
        BY <3>7
      <4>2. \A j \in 1 .. a1 + b1 : (x \o y)[j] = IF j <= a1 THEN x[j] ELSE y[j - a1]
        BY <3>5, <3>6
      <4> QED
        BY <3>7, <4>1, <4>2
    <3>9. Stands(x \o y, p1, ps[k])
      <4>0. Len(x \o y) = a1 + b1
        BY <3>5, <3>6
      <4>1. p1 + c1 <= Len(x \o y)
        BY <3>7, <4>0
      <4> QED
        BY <3>6, <3>8, <4>1 DEF Stands
    <3> QED
      BY <3>1, <3>3, <3>6, <3>9
  <2> HIDE DEF E
  <2>3. n - k \in Nat /\ n - k \in E
    <3>1. Nat \subseteq E
      BY <2>1, <2>2, Induction
    <3> QED
      BY <3>1
  <2>4. k + (n - k) = n
    OBVIOUS
  <2> QED
    BY <2>3, <2>4 DEF E
<1> QED
  BY <1>1, <1>9, <1>10, <1>11, <1>12, <1>13

\* The characters of s that are no blanks begin at a and end at b.
Solid(s, a, b) ==
  /\ a \in 1 .. Len(s) /\ b \in 1 .. Len(s) /\ a <= b
  /\ s[a] \notin Blank /\ s[b] \notin Blank
  /\ \A i \in 1 .. Len(s) : i < a \/ i > b => s[i] \in Blank

\* What is trimmed lies between its first and its last solid character.
LEMMA TrimIs ==
  ASSUME NEW S, NEW s \in Seq(S), NEW a, NEW b, Solid(s, a, b)
  PROVE  Trim(s) = SubSeq(s, a, b)
<1> DEFINE solid == {i \in DOMAIN s : s[i] \notin Blank}
<1>1. PICK n \in Nat : n = Len(s) /\ DOMAIN s = 1 .. n
  BY LenProperties
<1>2. /\ a \in solid /\ b \in solid /\ solid \subseteq Nat
      /\ \A i \in solid : a <= i /\ i <= b
  BY <1>1 DEF Solid
<1> HIDE DEF solid
<1>3. \A m \in solid : (\A i \in solid : m <= i) => m = a
  BY <1>2
<1>4. \A m \in solid : (\A i \in solid : m >= i) => m = b
  BY <1>2
<1>5. Min(solid) = a
  <2>1. PICK m : m = CHOOSE x \in solid : \A y \in solid : x <= y
    OBVIOUS
  <2>2. m \in solid /\ \A y \in solid : m <= y
    BY <1>2, <2>1
  <2> QED
    BY <1>3, <2>1, <2>2 DEF Min
<1>6. Max(solid) = b
  <2>1. PICK m : m = CHOOSE x \in solid : \A y \in solid : x >= y
    OBVIOUS
  <2>2. m \in solid /\ \A y \in solid : m >= y
    <3>1. \A y \in solid : b >= y
      BY <1>2
    <3> QED
      BY <1>2, <2>1, <3>1
  <2> QED
    BY <1>4, <2>1, <2>2 DEF Max
<1>7. Trim(s) = IF solid = {} THEN <<>> ELSE SubSeq(s, Min(solid), Max(solid))
  BY DEF Trim, solid
<1> QED
  BY <1>2, <1>5, <1>6, <1>7

\* It is empty, or it begins and ends with one.
LEMMA TrimCases ==
  ASSUME NEW S, NEW s \in Seq(S)
  PROVE  /\ Trim(s) \in Seq(S)
         /\ \/ Trim(s) = <<>> /\ \A i \in 1 .. Len(s) : s[i] \in Blank
            \/ \E a, b : Solid(s, a, b) /\ Trim(s) = SubSeq(s, a, b) /\ Trim(s) # <<>>
<1> DEFINE solid == {i \in DOMAIN s : s[i] \notin Blank}
<1>1. PICK n \in Nat : n = Len(s) /\ DOMAIN s = 1 .. n /\ \A i \in 1 .. n : s[i] \in S
  BY LenProperties, ElementOfSeq
<1>2. CASE solid = {}
  <2>1. Trim(s) = <<>> /\ \A i \in 1 .. Len(s) : s[i] \in Blank
    BY <1>1, <1>2 DEF Trim
  <2> QED
    BY <2>1, EmptySeq
<1>3. CASE solid # {}
  <2>1. solid \subseteq Nat /\ solid \subseteq 0 .. n
    BY <1>1
  <2>2. PICK a \in solid : \A i \in solid : a <= i
    <3> HIDE DEF solid
    <3> QED
      BY <1>3, <2>1, Least
  <2>3. PICK b \in solid : \A i \in solid : i <= b
    <3> HIDE DEF solid
    <3> QED
      BY <1>3, <2>1, Greatest
  <2>4. Solid(s, a, b)
    <3>1. \A i \in 1 .. n : s[i] \notin Blank => a <= i /\ i <= b
      BY <1>1, <2>2, <2>3
    <3>2. a \in 1 .. n /\ b \in 1 .. n /\ a <= b /\ s[a] \notin Blank /\ s[b] \notin Blank
      BY <1>1, <2>2, <2>3
    <3> QED
      BY <1>1, <3>1, <3>2 DEF Solid
  <2>5. Trim(s) = SubSeq(s, a, b)
    BY <2>4, TrimIs
  <2>6. a \in Int /\ b \in Int /\ a <= b /\ \A i \in a .. b : s[i] \in S
    BY <1>1, <2>4 DEF Solid
  <2>7. /\ SubSeq(s, a, b) \in Seq(S)
        /\ Len(SubSeq(s, a, b)) = b - a + 1
    BY <2>6, SubSeqProperties
  <2>8. SubSeq(s, a, b) # <<>>
    BY <2>6, <2>7, EmptySeq
  <2> QED
    BY <2>4, <2>5, <2>7, <2>8
<1> QED
  BY <1>2, <1>3

\* It is empty only of blanks.
LEMMA TrimEmpty ==
  ASSUME NEW S, NEW s \in Seq(S)
  PROVE  Trim(s) = <<>> <=> \A i \in 1 .. Len(s) : s[i] \in Blank
BY TrimCases DEF Solid

-----------------------------------------------------------------------------
(* worker.ts, csv.ts *)

\* The characters with a meaning are characters, and differ.
LEMMA Characters ==
  /\ {Quote, Comma, Space, Newline, Return, Mark} \subseteq Chars
  /\ Quote \notin {Comma, Newline, Return} \cup Blank
  /\ Comma \notin {Newline, Return} \cup Blank
  /\ Newline # Return /\ Newline # Mark /\ Return # Mark
  /\ Blank \subseteq Chars /\ Newline \in Blank /\ Return \in Blank /\ Space \in Blank
<1>1. {Quote, Comma, Space, Newline, Return, Mark} \subseteq Chars
  BY CharsAssumption DEF Special, Blank
<1>2. /\ Quote # Comma /\ Quote # Newline /\ Quote # Return /\ Quote # Space
      /\ Comma # Newline /\ Comma # Return /\ Comma # Space
  BY DEF Quote, Comma, Space, Newline, Return
<1>3. Newline # Return /\ Newline # Mark /\ Return # Mark
  BY DEF Mark, Newline, Return
<1>4. Quote # Mark /\ Comma # Mark
  BY DEF Mark, Quote, Comma
<1> QED
  BY <1>1, <1>2, <1>3, <1>4 DEF Blank

\* What parseLine is in: outside of quotes, inside, or at the second of two quotes inside.
Outside(r, c) == [result |-> r, current |-> c, inQuotes |-> FALSE, skip |-> FALSE]

Inside(r, c) == [result |-> r, current |-> c, inQuotes |-> TRUE, skip |-> FALSE]

Doubled(r, c) == [result |-> r, current |-> c, inQuotes |-> TRUE, skip |-> TRUE]

Parsing ==
  {Outside(r, c) : r \in Seq(String), c \in String}
  \cup {Inside(r, c) : r \in Seq(String), c \in String}
  \cup {Doubled(r, c) : r \in Seq(String), c \in String}

\* parseLine at a character outside of quotes.
LEMMA ScanOutside ==
  ASSUME NEW line, NEW i, NEW r, NEW c
  PROVE  /\ line[i] \notin {Quote, Comma} => Scan(line, Outside(r, c), i) = Outside(r, Append(c, line[i]))
         /\ line[i] = Comma => Scan(line, Outside(r, c), i) = Outside(Append(r, Trim(c)), <<>>)
         /\ line[i] = Quote => Scan(line, Outside(r, c), i) = Inside(r, c)
BY Characters DEF Scan, Outside, Inside

\* And inside of them.
LEMMA ScanInside ==
  ASSUME NEW line, NEW i, NEW r, NEW c
  PROVE  /\ line[i] # Quote => Scan(line, Inside(r, c), i) = Inside(r, Append(c, line[i]))
         /\ line[i] = Quote /\ ~ (i < Len(line) /\ line[i + 1] = Quote) =>
              Scan(line, Inside(r, c), i) = Outside(r, c)
         /\ line[i] = Quote /\ i < Len(line) /\ line[i + 1] = Quote =>
              Scan(line, Inside(r, c), i) = Doubled(r, Append(c, Quote))
         /\ Scan(line, Doubled(r, c), i) = Inside(r, c)
BY Characters DEF Scan, Outside, Inside, Doubled

\* A scan stays of its type.
LEMMA ScanType ==
  ASSUME NEW line \in String, NEW at \in Parsing, NEW i \in 1 .. Len(line)
  PROVE  Scan(line, at, i) \in Parsing
<1>1. PICK r \in Seq(String), c \in String : at = Outside(r, c) \/ at = Inside(r, c) \/ at = Doubled(r, c)
  BY DEF Parsing
<1>2. line[i] \in Chars /\ Quote \in Chars
  BY ElementOfSeq, Characters DEF String
<1>3. Append(c, line[i]) \in String /\ Append(c, Quote) \in String /\ <<>> \in String
  BY <1>2, AppendProperties, EmptySeq DEF String
<1>4. Append(r, Trim(c)) \in Seq(String)
  <2>1. Trim(c) \in String
    BY TrimCases DEF String
  <2> QED
    BY <2>1, AppendProperties
<1>5. \A r1 \in Seq(String), c1 \in String :
        Outside(r1, c1) \in Parsing /\ Inside(r1, c1) \in Parsing /\ Doubled(r1, c1) \in Parsing
  BY DEF Parsing
<1>6. CASE at = Outside(r, c)
  <2>1. \/ Scan(line, at, i) = Outside(r, Append(c, line[i]))
        \/ Scan(line, at, i) = Outside(Append(r, Trim(c)), <<>>)
        \/ Scan(line, at, i) = Inside(r, c)
    BY <1>6, ScanOutside
  <2> QED
    BY <1>3, <1>4, <1>5, <2>1
<1>7. CASE at = Inside(r, c)
  <2>1. \/ Scan(line, at, i) = Inside(r, Append(c, line[i]))
        \/ Scan(line, at, i) = Outside(r, c)
        \/ Scan(line, at, i) = Doubled(r, Append(c, Quote))
    BY <1>7, ScanInside
  <2> QED
    BY <1>3, <1>5, <2>1
<1>8. CASE at = Doubled(r, c)
  BY <1>5, <1>8, ScanInside
<1> QED
  BY <1>1, <1>6, <1>7, <1>8

\* Scanned is the last of the states of a scan.
LEMMA ScannedBy ==
  ASSUME NEW line \in String
  PROVE  \E A : /\ A[0] = Outside(<<>>, <<>>)
                /\ \A i \in 1 .. Len(line) : A[i] = Scan(line, A[i - 1], i)
                /\ A[Len(line)] = Scanned(line)
<1>1. PICK n \in Nat : n = Len(line)
  BY LenProperties DEF String
<1>2. PICK a \in Parsing : a = Outside(<<>>, <<>>)
  <2>1. <<>> \in Seq(String) /\ <<>> \in String
    BY EmptySeq DEF String
  <2>2. \A r \in Seq(String), c \in String : Outside(r, c) \in Parsing
    BY DEF Parsing
  <2> QED
    BY <2>1, <2>2
<1> DEFINE h == [i \in 1 .. n |-> [at \in Parsing |-> Scan(line, at, i)]]
<1>3. h \in [1 .. n -> [Parsing -> Parsing]]
  BY <1>1, ScanType
<1>4. \A i \in 1 .. n : \A at \in Parsing : h[i][at] = Scan(line, at, i)
  OBVIOUS
<1> HIDE DEF h
<1>5. PICK f \in [0 .. n -> Parsing] : Follows(f, a, h, n)
  BY <1>3, Recursion
<1>6. f[0] = a /\ \A i \in 1 .. n : f[i] = Scan(line, f[i - 1], i)
  <2>1. \A i \in 1 .. n : f[i - 1] \in Parsing
    OBVIOUS
  <2> QED
    BY <1>4, <1>5, <2>1 DEF Follows
<1> DEFINE Eq(g) == g = [i \in 0 .. Len(line) |->
             IF i = 0 THEN [result |-> <<>>, current |-> <<>>, inQuotes |-> FALSE, skip |-> FALSE]
             ELSE Scan(line, g[i - 1], i)]
           G == CHOOSE g : Eq(g)
<1>7. Eq(f)
  <2>1. \A i \in 0 .. n : f[i] = IF i = 0 THEN a ELSE Scan(line, f[i - 1], i)
    BY <1>6
  <2>2. f = [i \in 0 .. n |-> f[i]]
    OBVIOUS
  <2> QED
    BY <1>1, <1>2, <2>1, <2>2 DEF Outside
<1>8. Eq(G)
  <2> HIDE DEF Eq
  <2> QED
    BY <1>7
<1>9. Scanned(line) = G[Len(line)]
  BY DEF Scanned
<1> HIDE DEF G
<1>10. \A i \in 0 .. n : G[i] = IF i = 0 THEN a ELSE Scan(line, G[i - 1], i)
  BY <1>1, <1>2, <1>8 DEF Outside
<1> HIDE DEF Eq
<1> QED
  BY <1>1, <1>2, <1>9, <1>10

\* The first characters of a text, one more at a time.
LEMMA Grows ==
  ASSUME NEW S, NEW s \in Seq(S)
  PROVE  /\ SubSeq(s, 1, 0) = <<>> /\ SubSeq(s, 1, Len(s)) = s
         /\ \A j \in Nat : j + 1 <= Len(s) => SubSeq(s, 1, j + 1) = Append(SubSeq(s, 1, j), s[j + 1])
<1>1. SubSeq(s, 1, 0) = <<>>
  BY SubSeqEmpty
<1>2. SubSeq(s, 1, Len(s)) = s
  BY SubSeqFull
<1>3. ASSUME NEW j \in Nat, j + 1 <= Len(s)
      PROVE  SubSeq(s, 1, j + 1) = Append(SubSeq(s, 1, j), s[j + 1])
  <2>1. PICK l \in Nat : l = Len(s) /\ \A i \in 1 .. l : s[i] \in S
    BY LenProperties, ElementOfSeq
  <2>2. 1 \in 1 .. l /\ j + 1 \in 1 .. l /\ (j + 1) - 1 = j
    BY <1>3, <2>1
  <2>3. SubSeq(s, 1, j + 1) = SubSeq(s, 1, (j + 1) - 1) \o <<s[j + 1]>>
    BY <2>1, <2>2, SubSeqRecursiveSecond
  <2>4. SubSeq(s, 1, j) \in Seq(S)
    BY <2>1, <2>2, SubSeqProperties
  <2> QED
    BY <2>1, <2>2, <2>3, <2>4, AppendIsConcat
<1> QED
  BY <1>1, <1>2, <1>3

\* What stands in a text stands in the one that text stands in.
LEMMA StandsIn ==
  ASSUME NEW S, NEW L \in Seq(S), NEW D \in Seq(S), NEW e \in Seq(S), NEW p \in Nat, NEW q \in Nat,
         Stands(L, p, D), Stands(D, q, e)
  PROVE  Stands(L, p + q, e)
<1>1. PICK l \in Nat, d \in Nat, n \in Nat : l = Len(L) /\ d = Len(D) /\ n = Len(e)
  BY LenProperties
<1>2. p + d <= l /\ \A j \in 1 .. d : L[p + j] = D[j]
  BY <1>1 DEF Stands
<1>3. q + n <= d /\ \A j \in 1 .. n : D[q + j] = e[j]
  BY <1>1 DEF Stands
<1>4. \A j \in 1 .. n : q + j \in 1 .. d /\ (p + q) + j = p + (q + j)
  BY <1>3
<1>5. \A j \in 1 .. n : L[(p + q) + j] = e[j]
  BY <1>2, <1>3, <1>4
<1>6. (p + q) + n <= l
  BY <1>2, <1>3
<1> QED
  BY <1>1, <1>5, <1>6 DEF Stands

\* A single character stands at its place.
LEMMA StandsOne ==
  ASSUME NEW L, NEW p \in Nat, NEW c
  PROVE  Stands(L, p, <<c>>) <=> p + 1 <= Len(L) /\ L[p + 1] = c
<1>1. Len(<<c>>) = 1 /\ <<c>>[1] = c
  OBVIOUS
<1>2. \A j \in 1 .. 1 : j = 1
  OBVIOUS
<1> QED
  BY <1>1, <1>2 DEF Stands

\* The characters of a field as they stand between its quotes.
Doubling(f) == [i \in DOMAIN f |-> IF f[i] = Quote THEN <<Quote, Quote>> ELSE <<f[i]>>]

\* A field is written as it is if nothing in it is special, or quoted with its quotes doubled.
LEMMA EscapeIs ==
  ASSUME NEW f \in String
  PROVE  /\ Doubling(f) \in Seq(String) /\ Len(Doubling(f)) = Len(f)
         /\ FlattenSeq(Doubling(f)) \in String
         /\ EscapeCSV(f) \in String
         /\ \/ EscapeCSV(f) = f /\ \A i \in 1 .. Len(f) : f[i] \notin Special
            \/ EscapeCSV(f) = <<Quote>> \o FlattenSeq(Doubling(f)) \o <<Quote>>
<1>1. PICK n \in Nat : n = Len(f) /\ DOMAIN f = 1 .. n /\ \A i \in 1 .. n : f[i] \in Chars
  BY LenProperties, ElementOfSeq DEF String
<1>2. Quote \in Chars
  BY Characters
<1>3. \A i \in 1 .. n : <<f[i]>> \in String /\ <<Quote, Quote>> \in String
  BY <1>1, <1>2 DEF String
<1>4. Doubling(f) \in [1 .. n -> String]
  BY <1>1, <1>3 DEF Doubling
<1>5. Doubling(f) \in Seq(String) /\ Len(Doubling(f)) = n
  BY <1>4, IsSeq
<1>6. FlattenSeq(Doubling(f)) \in String
  <2>1. Doubling(f) \in Seq(Seq(Chars))
    BY <1>5 DEF String
  <2> QED
    BY <2>1, Parts DEF String
<1>7. <<Quote>> \o FlattenSeq(Doubling(f)) \o <<Quote>> \in String
  <2>1. <<Quote>> \in Seq(Chars)
    BY <1>2
  <2>2. <<Quote>> \o FlattenSeq(Doubling(f)) \in Seq(Chars)
    BY <1>6, <2>1, ConcatProperties DEF String
  <2> QED
    BY <2>1, <2>2, ConcatProperties DEF String
<1>8. CASE ToSet(f) \cap Special = {}
  <2>1. EscapeCSV(f) = f
    BY <1>8 DEF EscapeCSV
  <2>2. \A i \in 1 .. n : f[i] \notin Special
    BY <1>1, <1>8 DEF ToSet
  <2> QED
    BY <1>1, <1>5, <1>6, <2>1, <2>2
<1>9. CASE ToSet(f) \cap Special # {}
  <2>1. EscapeCSV(f) = <<Quote>> \o FlattenSeq(Doubling(f)) \o <<Quote>>
    BY <1>9 DEF EscapeCSV, Doubling, Map
  <2> QED
    BY <1>1, <1>5, <1>6, <1>7, <2>1
<1> QED
  BY <1>8, <1>9

Scans(A, line) == \A i \in 1 .. Len(line) : A[i] = Scan(line, A[i - 1], i)

\* A field as it was escaped is read as the field.
LEMMA FieldRead ==
  ASSUME NEW line \in String, NEW A, Scans(A, line),
         NEW f \in String, NEW p \in Nat, NEW r, A[p] = Outside(r, <<>>),
         Stands(line, p, EscapeCSV(f)),
         ~ Stands(line, p + Len(EscapeCSV(f)), <<Quote>>)
  PROVE  A[p + Len(EscapeCSV(f))] = Outside(r, f)
<1>1. PICK n \in Nat, l \in Nat :
        n = Len(f) /\ l = Len(line) /\ DOMAIN f = 1 .. n /\ \A i \in 1 .. n : f[i] \in Chars
  BY LenProperties, ElementOfSeq DEF String
<1>2. /\ SubSeq(f, 1, 0) = <<>> /\ SubSeq(f, 1, n) = f
      /\ \A j \in Nat : j + 1 <= n => SubSeq(f, 1, j + 1) = Append(SubSeq(f, 1, j), f[j + 1])
  BY <1>1, Grows DEF String
<1>3. CASE EscapeCSV(f) = f /\ \A i \in 1 .. Len(f) : f[i] \notin Special
  <2>1. p + n <= l /\ \A j \in 1 .. n : line[p + j] = f[j]
    BY <1>1, <1>3 DEF Stands
  <2> DEFINE E == {j \in Nat : j <= n => A[p + j] = Outside(r, SubSeq(f, 1, j))}
  <2>2. 0 \in E
    BY <1>2, p + 0 = p
  <2>3. ASSUME NEW j \in Nat, j \in E PROVE j + 1 \in E
    <3> SUFFICES ASSUME j + 1 <= n PROVE A[p + (j + 1)] = Outside(r, SubSeq(f, 1, j + 1))
      OBVIOUS
    <3>1. PICK i \in 1 .. l : i = p + (j + 1) /\ i - 1 = p + j
      BY <2>1
    <3>2. A[i] = Scan(line, Outside(r, SubSeq(f, 1, j)), i)
      BY <1>1, <2>3, <3>1 DEF Scans
    <3>3. line[i] = f[j + 1] /\ line[i] \notin {Quote, Comma}
      BY <1>1, <1>3, <2>1, <3>1, j + 1 \in 1 .. n DEF Special
    <3>4. Scan(line, Outside(r, SubSeq(f, 1, j)), i) = Outside(r, Append(SubSeq(f, 1, j), line[i]))
      BY <3>3, ScanOutside
    <3>5. SubSeq(f, 1, j + 1) = Append(SubSeq(f, 1, j), f[j + 1])
      BY <1>2
    <3> QED
      BY <3>1, <3>2, <3>3, <3>4, <3>5
  <2> HIDE DEF E
  <2>4. Nat \subseteq E
    BY <2>2, <2>3, Induction
  <2>5. A[p + n] = Outside(r, SubSeq(f, 1, n))
    BY <2>4 DEF E
  <2> QED
    BY <1>1, <1>2, <1>3, <2>5
<1>4. CASE EscapeCSV(f) = <<Quote>> \o FlattenSeq(Doubling(f)) \o <<Quote>>
  <2>1. PICK D \in String, ps \in Seq(String) :
          /\ D = FlattenSeq(Doubling(f)) /\ ps = Doubling(f) /\ Len(ps) = n
    BY <1>1, EscapeIs
  <2>2. PICK q \in [0 .. n -> Nat] :
          /\ q[0] = 0 /\ q[n] = Len(D)
          /\ \A k \in 1 .. n : q[k] = q[k - 1] + Len(ps[k]) /\ Stands(D, q[k - 1], ps[k])
    <3>1. ps \in Seq(Seq(Chars)) /\ D = FlattenSeq(ps)
      BY <2>1 DEF String
    <3>2. \E q \in [0 .. Len(ps) -> Nat] :
            /\ FlattenSeq(ps) \in Seq(Chars)
            /\ q[0] = 0 /\ q[Len(ps)] = Len(FlattenSeq(ps))
            /\ \A k \in 1 .. Len(ps) :
                 q[k] = q[k - 1] + Len(ps[k]) /\ Stands(FlattenSeq(ps), q[k - 1], ps[k])
      BY <3>1, Parts
    <3>3. Len(ps) = n /\ FlattenSeq(ps) = D
      BY <2>1, <3>1
    <3>4. \E q \in [0 .. n -> Nat] :
            /\ D \in Seq(Chars)
            /\ q[0] = 0 /\ q[n] = Len(D)
            /\ \A k \in 1 .. n : q[k] = q[k - 1] + Len(ps[k]) /\ Stands(D, q[k - 1], ps[k])
      BY <3>2, <3>3
    <3> QED
      BY <3>4
  <2>3. <<Quote>> \in String /\ Len(<<Quote>>) = 1 /\ <<Quote>> \o D \in String /\ Len(<<Quote>> \o D) = 1 + Len(D)
    <3>1. <<Quote>> \in Seq(Chars) /\ Len(<<Quote>>) = 1
      BY Characters
    <3> QED
      BY <3>1, ConcatProperties DEF String
  <2>4. PICK d \in Nat : d = Len(D)
    BY LenProperties DEF String
  <2>5. /\ Len(EscapeCSV(f)) = (1 + d) + 1
        /\ Stands(line, p, <<Quote>>) /\ Stands(line, p + 1, D) /\ Stands(line, p + (1 + d), <<Quote>>)
    <3>1. Len(EscapeCSV(f)) = (1 + d) + 1
      BY <1>4, <2>1, <2>3, <2>4, ConcatProperties DEF String
    <3>2. Stands(line, p, <<Quote>> \o D) /\ Stands(line, p + (1 + d), <<Quote>>)
      <4>1. PICK x \in Seq(Chars), y \in Seq(Chars) : x = <<Quote>> \o D /\ y = <<Quote>> /\ Len(x) = 1 + d
        BY <2>3, <2>4 DEF String
      <4>2. Stands(line, p, x \o y)
        BY <1>4, <2>1, <4>1
      <4>3. Stands(line, p, x) /\ Stands(line, p + Len(x), y)
        BY <4>2, StandsConcat DEF String
      <4> QED
        BY <4>1, <4>3
    <3>3. Stands(line, p, <<Quote>>) /\ Stands(line, p + 1, D)
      BY <2>3, <3>2, StandsConcat DEF String
    <3> QED
      BY <3>1, <3>2, <3>3
  <2>6. A[p + 1] = Inside(r, <<>>)
    <3>1. p + 1 <= l /\ line[p + 1] = Quote
      BY <1>1, <2>5, StandsOne
    <3>2. PICK i \in 1 .. l : i = p + 1 /\ i - 1 = p
      BY <3>1
    <3>3. A[i] = Scan(line, Outside(r, <<>>), i)
      BY <1>1, <3>2 DEF Scans
    <3>4. Scan(line, Outside(r, <<>>), i) = Inside(r, <<>>)
      BY <3>1, <3>2, ScanOutside
    <3> QED
      BY <3>2, <3>3, <3>4
  <2> DEFINE E == {k \in Nat : k <= n => A[(p + 1) + q[k]] = Inside(r, SubSeq(f, 1, k))}
  <2>7. 0 \in E
    BY <1>2, <2>2, <2>6, (p + 1) + 0 = p + 1
  <2>8. ASSUME NEW k \in Nat, k \in E PROVE k + 1 \in E
    <3> SUFFICES ASSUME k + 1 <= n PROVE A[(p + 1) + q[k + 1]] = Inside(r, SubSeq(f, 1, k + 1))
      OBVIOUS
    <3>1. k + 1 \in 1 .. n /\ (k + 1) - 1 = k /\ k \in 0 .. n
      OBVIOUS
    <3>2. PICK t \in Nat : t = (p + 1) + q[k] /\ A[t] = Inside(r, SubSeq(f, 1, k))
      BY <2>2, <2>8, <3>1
    <3>3. Stands(line, t, ps[k + 1]) /\ q[k + 1] = q[k] + Len(ps[k + 1])
      <4>1. Stands(D, q[k], ps[k + 1]) /\ q[k + 1] = q[k] + Len(ps[k + 1])
        BY <2>2, <3>1
      <4>2. ps[k + 1] \in String
        BY <2>1, <3>1, ElementOfSeq
      <4>3. q[k] \in Nat /\ p + 1 \in Nat
        BY <2>2, <3>1
      <4>4. PICK u \in Nat, v \in Nat, e \in String : u = p + 1 /\ v = q[k] /\ e = ps[k + 1]
        BY <4>2, <4>3
      <4>5. Stands(line, u, D) /\ Stands(D, v, e)
        BY <2>5, <4>1, <4>4
      <4>6. Stands(line, u + v, e)
        BY <4>5, StandsIn DEF String
      <4> QED
        BY <3>2, <4>1, <4>4, <4>6
    <3>4. ps[k + 1] = IF f[k + 1] = Quote THEN <<Quote, Quote>> ELSE <<f[k + 1]>>
      BY <1>1, <2>1, <3>1 DEF Doubling
    <3>5. CASE f[k + 1] # Quote
      <4>0. PICK v \in Nat : Len(ps[k + 1]) = 1 /\ v = q[k]
        BY <2>2, <3>1, <3>4, <3>5
      <4>1. Len(ps[k + 1]) = 1 /\ (p + 1) + q[k + 1] = t + 1
        <5>1. t = (p + 1) + v /\ q[k + 1] = v + 1
          BY <3>2, <3>3, <4>0
        <5>2. (p + 1) + (v + 1) = ((p + 1) + v) + 1
          OBVIOUS
        <5> QED
          BY <4>0, <5>1, <5>2
      <4>2. t + 1 <= l /\ line[t + 1] = f[k + 1]
        BY <1>1, <3>3, <3>4, <3>5, StandsOne
      <4>3. PICK i \in 1 .. l : i = t + 1 /\ i - 1 = t
        BY <4>2
      <4>4. A[i] = Inside(r, Append(SubSeq(f, 1, k), f[k + 1]))
        <5>1. A[i] = Scan(line, Inside(r, SubSeq(f, 1, k)), i)
          BY <1>1, <3>2, <4>3 DEF Scans
        <5>2. Scan(line, Inside(r, SubSeq(f, 1, k)), i) = Inside(r, Append(SubSeq(f, 1, k), line[i]))
          BY <3>5, <4>2, <4>3, ScanInside
        <5> QED
          BY <4>2, <4>3, <5>1, <5>2
      <4> QED
        BY <1>2, <4>1, <4>3, <4>4
    <3>6. CASE f[k + 1] = Quote
      <4>0. PICK v \in Nat : Len(ps[k + 1]) = 2 /\ v = q[k]
        BY <2>2, <3>1, <3>4, <3>6
      <4>1. Len(ps[k + 1]) = 2 /\ (p + 1) + q[k + 1] = (t + 1) + 1
        <5>1. t = (p + 1) + v /\ q[k + 1] = v + 2
          BY <3>2, <3>3, <4>0
        <5>2. (p + 1) + (v + 2) = (((p + 1) + v) + 1) + 1
          OBVIOUS
        <5> QED
          BY <4>0, <5>1, <5>2
      <4>2. (t + 1) + 1 <= l /\ line[t + 1] = Quote /\ line[(t + 1) + 1] = Quote
        <5>1. t + 2 <= l /\ \A j \in 1 .. 2 : line[t + j] = <<Quote, Quote>>[j]
          BY <1>1, <3>3, <3>4, <3>6, <4>1 DEF Stands
        <5>2. 1 \in 1 .. 2 /\ 2 \in 1 .. 2 /\ t + 2 = (t + 1) + 1
          OBVIOUS
        <5>3. line[t + 1] = Quote /\ line[t + 2] = Quote
          BY <5>1, <5>2
        <5> QED
          BY <5>1, <5>2, <5>3
      <4>3. PICK i \in 1 .. l, j \in 1 .. l : i = t + 1 /\ i - 1 = t /\ j = i + 1 /\ j - 1 = i /\ i < l
        BY <4>2
      <4>4. A[i] = Doubled(r, Append(SubSeq(f, 1, k), Quote))
        <5>1. A[i] = Scan(line, Inside(r, SubSeq(f, 1, k)), i)
          BY <1>1, <3>2, <4>3 DEF Scans
        <5>2. line[i] = Quote /\ i < Len(line) /\ line[i + 1] = Quote
          BY <1>1, <4>2, <4>3
        <5>3. Scan(line, Inside(r, SubSeq(f, 1, k)), i) = Doubled(r, Append(SubSeq(f, 1, k), Quote))
          <6>1. PICK c : c = SubSeq(f, 1, k)
            OBVIOUS
          <6>2. Scan(line, Inside(r, c), i) = Doubled(r, Append(c, Quote))
            BY <5>2, ScanInside
          <6> QED
            BY <6>1, <6>2
        <5> QED
          BY <5>1, <5>3
      <4>5. A[j] = Inside(r, Append(SubSeq(f, 1, k), Quote))
        <5>1. A[j] = Scan(line, Doubled(r, Append(SubSeq(f, 1, k), Quote)), j)
          BY <1>1, <4>3, <4>4 DEF Scans
        <5> QED
          BY <5>1, ScanInside
      <4> QED
        BY <1>2, <3>6, <4>1, <4>3, <4>5
    <3> QED
      BY <3>5, <3>6
  <2> HIDE DEF E
  <2>9. Nat \subseteq E
    BY <2>7, <2>8, Induction
  <2>10. A[(p + 1) + d] = Inside(r, f)
    <3>1. n \in E
      BY <2>9
    <3>2. A[(p + 1) + q[n]] = Inside(r, SubSeq(f, 1, n))
      BY <3>1 DEF E
    <3> QED
      BY <1>2, <2>2, <2>4, <3>2
  <2>11. PICK i \in 1 .. l : i = (p + 1) + d + 1 /\ i - 1 = (p + 1) + d /\ line[i] = Quote
    <3>1. PICK t \in Nat : t = p + (1 + d)
      OBVIOUS
    <3>2. t + 1 <= l /\ line[t + 1] = Quote
      BY <1>1, <2>5, <3>1, StandsOne
    <3>3. t + 1 = (p + 1) + d + 1 /\ (t + 1) - 1 = (p + 1) + d /\ t + 1 \in 1 .. l
      BY <3>1, <3>2
    <3> QED
      BY <3>2, <3>3
  <2>12. ~ (i < Len(line) /\ line[i + 1] = Quote)
    <3>1. PICK u \in Nat : u = i
      OBVIOUS
    <3>2. ~ Stands(line, u, <<Quote>>)
      BY <2>5, <2>11, <3>1
    <3>3. ~ (u + 1 <= l /\ line[u + 1] = Quote)
      BY <1>1, <3>2, StandsOne
    <3> QED
      BY <1>1, <3>1, <3>3
  <2>13. A[i] = Outside(r, f)
    <3>1. A[i] = Scan(line, Inside(r, f), i)
      BY <1>1, <2>10, <2>11 DEF Scans
    <3> QED
      BY <2>11, <2>12, <3>1, ScanInside
  <2> QED
    BY <2>5, <2>11, <2>13
<1> QED
  BY <1>3, <1>4, EscapeIs

\* Where the fields of a row stand in it: after q[k - 1] characters, the last of which
\* is a comma.
LEMMA RowIs ==
  ASSUME NEW fields \in Fields
  PROVE  /\ ResponseToCSVRow(fields) \in String
         /\ \E q \in [0 .. Len(fields) -> Nat] :
              /\ q[0] = 0 /\ q[Len(fields)] = Len(ResponseToCSVRow(fields)) + 1
              /\ \A k \in 1 .. Len(fields) :
                   /\ q[k] = q[k - 1] + 1 + Len(EscapeCSV(fields[k]))
                   /\ Stands(ResponseToCSVRow(fields), q[k - 1], EscapeCSV(fields[k]))
                   /\ k > 1 => ResponseToCSVRow(fields)[q[k - 1]] = Comma
<1> DEFINE ps == [i \in DOMAIN fields |-> <<Comma>> \o EscapeCSV(fields[i])]
<1>1. fields \in Seq(String) /\ fields # <<>>
  BY DEF Fields
<1>2. PICK n \in Nat : n = Len(fields) /\ n # 0 /\ DOMAIN fields = 1 .. n /\ \A i \in 1 .. n : fields[i] \in String
  <2>1. Len(fields) \in Nat \ {0}
    BY <1>1, EmptySeq
  <2>2. DOMAIN fields = 1 .. Len(fields) /\ \A i \in 1 .. Len(fields) : fields[i] \in String
    BY <1>1, LenProperties, ElementOfSeq
  <2> QED
    BY <2>1, <2>2
<1>3. <<Comma>> \in Seq(Chars) /\ Len(<<Comma>>) = 1 /\ <<Comma>>[1] = Comma
  BY Characters
<1>4. ASSUME NEW i \in 1 .. n
      PROVE  /\ EscapeCSV(fields[i]) \in Seq(Chars)
             /\ ps[i] = <<Comma>> \o EscapeCSV(fields[i])
             /\ ps[i] \in Seq(Chars) /\ Len(ps[i]) = 1 + Len(EscapeCSV(fields[i]))
  <2>1. EscapeCSV(fields[i]) \in Seq(Chars)
    BY <1>2, EscapeIs DEF String
  <2>2. ps[i] = <<Comma>> \o EscapeCSV(fields[i])
    BY <1>2
  <2> HIDE DEF ps
  <2> QED
    BY <1>3, <2>1, <2>2, ConcatProperties
<1>5. ps \in Seq(Seq(Chars)) /\ Len(ps) = n
  <2>1. ps \in [1 .. n -> Seq(Chars)]
    BY <1>2, <1>4
  <2> HIDE DEF ps
  <2> QED
    BY <2>1, IsSeq
<1>6. PICK C : C = FlattenSeq(ps)
  OBVIOUS
<1>7. ResponseToCSVRow(fields) = Tail(C)
  BY <1>6 DEF ResponseToCSVRow, Map
<1> HIDE DEF ps
<1>8. C \in Seq(Chars) /\ \E q \in [0 .. n -> Nat] :
        /\ q[0] = 0 /\ q[n] = Len(C)
        /\ \A k \in 1 .. n : q[k] = q[k - 1] + Len(ps[k]) /\ Stands(C, q[k - 1], ps[k])
  <2>1. \E q \in [0 .. Len(ps) -> Nat] :
          /\ FlattenSeq(ps) \in Seq(Chars)
          /\ q[0] = 0 /\ q[Len(ps)] = Len(FlattenSeq(ps))
          /\ \A k \in 1 .. Len(ps) :
               q[k] = q[k - 1] + Len(ps[k]) /\ Stands(FlattenSeq(ps), q[k - 1], ps[k])
    BY <1>5, Parts
  <2>2. Len(ps) = n /\ FlattenSeq(ps) = C
    BY <1>5, <1>6
  <2> QED
    BY <2>1, <2>2
<1>9. PICK q \in [0 .. n -> Nat] :
        /\ q[0] = 0 /\ q[n] = Len(C)
        /\ \A k \in 1 .. n : q[k] = q[k - 1] + Len(ps[k]) /\ Stands(C, q[k - 1], ps[k])
  BY <1>8
<1>10. ASSUME NEW k \in 1 .. n
       PROVE  /\ q[k - 1] \in Nat /\ q[k] \in Nat
              /\ q[k] = q[k - 1] + 1 + Len(EscapeCSV(fields[k]))
              /\ q[k - 1] + 1 <= Len(C) /\ C[q[k - 1] + 1] = Comma
              /\ Stands(C, q[k - 1] + 1, EscapeCSV(fields[k]))
  <2>1. PICK p \in Nat : p = q[k - 1]
    BY <1>9, k - 1 \in 0 .. n
  <2>2. PICK e \in Seq(Chars), m \in Nat : e = EscapeCSV(fields[k]) /\ m = Len(e)
    BY <1>4, LenProperties
  <2>3. q[k] \in Nat /\ q[k] = p + (1 + m)
    <3>1. q[k] = q[k - 1] + Len(ps[k]) /\ Len(ps[k]) = 1 + Len(EscapeCSV(fields[k]))
      BY <1>4, <1>9
    <3> QED
      BY <2>1, <2>2, <3>1
  <2>4. Stands(C, p, <<Comma>> \o e)
    BY <1>4, <1>9, <2>1, <2>2
  <2>5. Stands(C, p, <<Comma>>) /\ Stands(C, p + 1, e)
    BY <1>3, <1>8, <2>4, StandsConcat
  <2>6. p + 1 <= Len(C) /\ C[p + 1] = Comma
    BY <2>5, StandsOne
  <2>7. q[k] = p + 1 + m
    BY <2>3
  <2> QED
    BY <2>1, <2>2, <2>5, <2>6, <2>7
<1>11. PICK l \in Nat : Len(C) = l + 1 /\ C # <<>>
  <2>1. Len(C) \in Nat /\ q[1 - 1] + 1 <= Len(C) /\ q[1 - 1] = 0
    BY <1>2, <1>8, <1>9, <1>10, LenProperties
  <2>2. Len(C) - 1 \in Nat /\ Len(C) = (Len(C) - 1) + 1
    BY <2>1
  <2>3. C # <<>>
    BY <2>1, EmptySeq
  <2> QED
    BY <2>2, <2>3
<1>12. PICK L \in Seq(Chars) : L = ResponseToCSVRow(fields) /\ Len(L) = l /\ \A i \in 1 .. l : L[i] = C[i + 1]
  <2>1. /\ Tail(C) \in Seq(Chars) /\ Len(Tail(C)) = Len(C) - 1
        /\ \A i \in 1 .. Len(Tail(C)) : Tail(C)[i] = C[i + 1]
    BY <1>8, <1>11, HeadTailProperties
  <2>2. Len(Tail(C)) = l
    BY <1>11, <2>1
  <2> QED
    BY <1>7, <2>1, <2>2
<1>13. ASSUME NEW k \in 1 .. n
       PROVE  Stands(L, q[k - 1], EscapeCSV(fields[k])) /\ (k > 1 => L[q[k - 1]] = Comma)
  <2>1. PICK e \in Seq(Chars), m \in Nat, p \in Nat : e = EscapeCSV(fields[k]) /\ m = Len(e) /\ p = q[k - 1]
    BY <1>4, <1>10, LenProperties
  <2>2. (p + 1) + m <= l + 1 /\ \A j \in 1 .. m : C[(p + 1) + j] = e[j]
    BY <1>10, <1>11, <2>1 DEF Stands
  <2>3. \A j \in 1 .. m : p + j \in 1 .. l /\ (p + 1) + j = (p + j) + 1
    BY <2>2
  <2>4. \A j \in 1 .. m : L[p + j] = e[j]
    BY <1>12, <2>2, <2>3
  <2>5. Stands(L, p, e)
    <3>1. p + m <= Len(L)
      BY <1>12, <2>2
    <3> QED
      BY <2>1, <2>4, <3>1 DEF Stands
  <2>6. ASSUME k > 1 PROVE L[p] = Comma
    <3>1. PICK j \in 1 .. n : j = k - 1
      BY <2>6
    <3>2. q[j] = q[j - 1] + 1 + Len(EscapeCSV(fields[j])) /\ q[j - 1] \in Nat /\ Len(EscapeCSV(fields[j])) \in Nat
      BY <1>4, <1>10, LenProperties
    <3>3. p \in 1 .. l
      <4>1. p + 1 <= l + 1
        BY <1>10, <1>11, <2>1
      <4>2. p = q[j] /\ q[j] > 0
        BY <2>1, <3>1, <3>2
      <4> QED
        BY <4>1, <4>2
    <3> QED
      BY <1>10, <1>12, <2>1, <3>3
  <2> QED
    BY <2>1, <2>5, <2>6
<1>14. \E x \in [0 .. n -> Nat] :
         /\ x[0] = 0 /\ x[n] = Len(L) + 1
         /\ \A k \in 1 .. n :
              /\ x[k] = x[k - 1] + 1 + Len(EscapeCSV(fields[k]))
              /\ Stands(L, x[k - 1], EscapeCSV(fields[k]))
              /\ k > 1 => L[x[k - 1]] = Comma
  BY <1>9, <1>10, <1>11, <1>12, <1>13
<1> QED
  BY <1>2, <1>12, <1>14 DEF String

\* A row of a result file is read back.
LEMMA RowRead ==
  ASSUME NEW fields \in Fields
  PROVE  ParseLine(ResponseToCSVRow(fields)) = Map(Trim, fields)
<1>1. fields \in Seq(String) /\ fields # <<>>
  BY DEF Fields
<1>2. PICK n \in Nat : n = Len(fields) /\ n # 0 /\ DOMAIN fields = 1 .. n /\ \A i \in 1 .. n : fields[i] \in String
  <2>1. Len(fields) \in Nat \ {0}
    BY <1>1, EmptySeq
  <2>2. DOMAIN fields = 1 .. Len(fields) /\ \A i \in 1 .. Len(fields) : fields[i] \in String
    BY <1>1, LenProperties, ElementOfSeq
  <2> QED
    BY <2>1, <2>2
<1>3. PICK L \in String, l \in Nat : L = ResponseToCSVRow(fields) /\ l = Len(L)
  BY RowIs, LenProperties DEF String
<1>4. PICK q \in [0 .. n -> Nat] :
        /\ q[0] = 0 /\ q[n] = l + 1
        /\ \A k \in 1 .. n :
             /\ q[k] = q[k - 1] + 1 + Len(EscapeCSV(fields[k]))
             /\ Stands(L, q[k - 1], EscapeCSV(fields[k]))
             /\ k > 1 => L[q[k - 1]] = Comma
  <2>1. \E x \in [0 .. n -> Nat] :
          /\ x[0] = 0 /\ x[n] = Len(ResponseToCSVRow(fields)) + 1
          /\ \A k \in 1 .. n :
               /\ x[k] = x[k - 1] + 1 + Len(EscapeCSV(fields[k]))
               /\ Stands(ResponseToCSVRow(fields), x[k - 1], EscapeCSV(fields[k]))
               /\ k > 1 => ResponseToCSVRow(fields)[x[k - 1]] = Comma
    BY <1>2, RowIs
  <2> QED
    BY <1>3, <2>1
<1>5. PICK A : A[0] = Outside(<<>>, <<>>) /\ Scans(A, L) /\ A[l] = Scanned(L)
  BY <1>3, ScannedBy DEF Scans
<1> DEFINE Trims(m) == [i \in 1 .. m |-> Trim(fields[i])]
<1>6. \A m \in 0 .. n : Trims(m) \in Seq(String) /\ Len(Trims(m)) = m
  <2> SUFFICES ASSUME NEW m \in 0 .. n PROVE Trims(m) \in Seq(String) /\ Len(Trims(m)) = m
    OBVIOUS
  <2>1. \A i \in 1 .. m : Trim(fields[i]) \in String
    BY <1>2, TrimCases DEF String
  <2>2. Trims(m) \in [1 .. m -> String] /\ m \in Nat
    BY <2>1
  <2> QED
    BY <2>2, IsSeq
<1>7. ASSUME NEW k \in 1 .. n PROVE Append(Trims(k - 1), Trim(fields[k])) = Trims(k)
  <2>1. PICK s \in Seq(String), t \in Seq(String), m \in Nat : s = Trims(k - 1) /\ t = Trims(k) /\ m = k - 1
    BY <1>6
  <2>2. Len(s) = m /\ Len(t) = m + 1 /\ (\A i \in 1 .. m : s[i] = t[i]) /\ t[m + 1] = Trim(fields[k])
    BY <1>6, <2>1
  <2>3. Trim(fields[k]) \in String
    BY <1>2, TrimCases DEF String
  <2>4. /\ Append(s, Trim(fields[k])) \in Seq(String)
        /\ Len(Append(s, Trim(fields[k]))) = m + 1
        /\ \A i \in 1 .. m : Append(s, Trim(fields[k]))[i] = s[i]
        /\ Append(s, Trim(fields[k]))[m + 1] = Trim(fields[k])
    BY <2>2, <2>3, AppendProperties
  <2>5. \A i \in 1 .. m + 1 : i \in 1 .. m \/ i = m + 1
    OBVIOUS
  <2>6. Append(s, Trim(fields[k])) = t
    BY <2>1, <2>2, <2>4, <2>5, SeqEqual
  <2> QED
    BY <2>1, <2>6
<1>8. Trims(0) = <<>>
  BY <1>6, EmptySeq
<1> HIDE DEF Trims
\* From the end of a field to the end of the next.
<1>9. ASSUME NEW k \in 1 .. n, A[q[k - 1]] = Outside(Trims(k - 1), <<>>)
      PROVE  /\ q[k] - 1 \in 0 .. l /\ A[q[k] - 1] = Outside(Trims(k - 1), fields[k])
             /\ k < n => q[k] \in 1 .. l /\ L[q[k]] = Comma
  <2>1. PICK p \in Nat, e \in String, m \in Nat : p = q[k - 1] /\ e = EscapeCSV(fields[k]) /\ m = Len(e)
    <3>1. k - 1 \in 0 .. n /\ EscapeCSV(fields[k]) \in String
      BY <1>2, EscapeIs
    <3>2. q[k - 1] \in Nat /\ Len(EscapeCSV(fields[k])) \in Nat
      BY <1>4, <3>1, LenProperties DEF String
    <3> QED
      BY <3>1, <3>2
  <2>2. q[k] = p + 1 + m /\ Stands(L, p, e)
    BY <1>4, <2>1
  <2>3. p + m <= l
    BY <1>3, <2>1, <2>2 DEF Stands
  <2>4. k < n => L[q[k]] = Comma /\ q[k] <= l
    <3> SUFFICES ASSUME k < n PROVE L[q[k]] = Comma /\ q[k] <= l
      OBVIOUS
    <3>1. PICK j \in 1 .. n : j = k + 1 /\ j > 1 /\ j - 1 = k
      OBVIOUS
    <3>2. L[q[k]] = Comma /\ Stands(L, q[k], EscapeCSV(fields[j]))
      BY <1>4, <3>1
    <3>3. q[k] + Len(EscapeCSV(fields[j])) <= l /\ Len(EscapeCSV(fields[j])) \in Nat /\ q[k] \in Nat
      <4>1. EscapeCSV(fields[j]) \in String /\ k \in 0 .. n
        BY <1>2, EscapeIs
      <4> QED
        BY <1>3, <1>4, <3>2, <4>1, LenProperties DEF Stands, String
    <3> QED
      BY <3>2, <3>3
  <2>5. k = n => p + m = l
    BY <1>4, <2>2
  <2>6. ~ Stands(L, p + m, <<Quote>>)
    <3>1. CASE k = n
      BY <1>3, <2>5, <3>1, StandsOne
    <3>2. CASE k < n
      <4>1. L[(p + m) + 1] # Quote
        BY <2>2, <2>4, <3>2, Characters
      <4> QED
        BY <4>1, StandsOne
    <3> QED
      BY <3>1, <3>2
  <2>7. A[p + m] = Outside(Trims(k - 1), fields[k])
    <3>0. PICK r : r = Trims(k - 1)
      OBVIOUS
    <3>1. PICK f \in String : r = Trims(k - 1) /\ f = fields[k]
      BY <1>2, <3>0
    <3>2. A[p] = Outside(r, <<>>) /\ Stands(L, p, EscapeCSV(f)) /\ ~ Stands(L, p + Len(EscapeCSV(f)), <<Quote>>)
      BY <1>9, <2>1, <2>2, <2>6, <3>1
    <3>3. A[p + Len(EscapeCSV(f))] = Outside(r, f)
      BY <1>5, <3>2, FieldRead
    <3> QED
      BY <2>1, <3>1, <3>3
  <2> QED
    BY <2>2, <2>3, <2>4, <2>7
<1> DEFINE E == {k \in Nat : k < n => A[q[k]] = Outside(Trims(k), <<>>)}
<1>10. 0 \in E
  BY <1>4, <1>5, <1>8
<1>11. ASSUME NEW k \in Nat, k \in E PROVE k + 1 \in E
  <2> SUFFICES ASSUME k + 1 < n PROVE A[q[k + 1]] = Outside(Trims(k + 1), <<>>)
    OBVIOUS
  <2>1. PICK j \in 1 .. n : j = k + 1 /\ j - 1 = k /\ j < n
    OBVIOUS
  <2>2. A[q[j - 1]] = Outside(Trims(j - 1), <<>>)
    BY <1>11, <2>1
  <2>3. PICK i \in 1 .. l : i = q[j] /\ L[i] = Comma /\ A[i - 1] = Outside(Trims(j - 1), fields[j])
    BY <1>9, <2>1, <2>2
  <2>4. A[i] = Scan(L, Outside(Trims(j - 1), fields[j]), i)
    BY <1>3, <1>5, <2>3 DEF Scans
  <2>5. A[i] = Outside(Append(Trims(j - 1), Trim(fields[j])), <<>>)
    BY <2>3, <2>4, ScanOutside
  <2> QED
    BY <1>7, <2>1, <2>3, <2>5
<1> HIDE DEF E
<1>12. A[q[n - 1]] = Outside(Trims(n - 1), <<>>)
  <2>1. Nat \subseteq E
    BY <1>10, <1>11, Induction
  <2>2. n - 1 \in E
    BY <1>2, <2>1
  <2> QED
    BY <1>2, <2>2 DEF E
<1>13. Scanned(L) = Outside(Trims(n - 1), fields[n])
  <2>1. A[q[n] - 1] = Outside(Trims(n - 1), fields[n])
    BY <1>2, <1>9, <1>12
  <2> QED
    BY <1>4, <1>5, <2>1
<1>14. ParseLine(L) = Append(Trims(n - 1), Trim(fields[n]))
  BY <1>13 DEF ParseLine, Outside
<1>15. ParseLine(L) = Trims(n)
  BY <1>2, <1>7, <1>14
<1> QED
  BY <1>2, <1>3, <1>15 DEF Map, Trims

-----------------------------------------------------------------------------
(* Lines *)

At(ls, c) == [lines |-> ls, current |-> c]

Reads(A, text) == \A i \in 1 .. Len(text) : A[i] = Read(A[i - 1], text[i])

\* The split into lines at one character.
LEMMA ReadSteps ==
  ASSUME NEW ls, NEW c, NEW ch
  PROVE  /\ ch # Newline => Read(At(ls, c), ch) = At(ls, Append(c, ch))
         /\ ch = Newline /\ Trim(c) # <<>> => Read(At(ls, c), ch) = At(Append(ls, c), <<>>)
         /\ ch = Newline /\ Trim(c) = <<>> => Read(At(ls, c), ch) = At(ls, <<>>)
         /\ Trim(c) # <<>> => Closed(At(ls, c)) = Append(ls, c)
         /\ Trim(c) = <<>> => Closed(At(ls, c)) = ls
BY DEF Read, Closed, At

\* Blanks are trimmed to nothing.
LEMMA BlankText ==
  ASSUME NEW c \in Seq(Blank)
  PROVE  Trim(c) = <<>>
BY TrimEmpty, ElementOfSeq

\* Lines is where the split ends.
LEMMA LinesBy ==
  ASSUME NEW text \in String
  PROVE  \E A : A[0] = At(<<>>, <<>>) /\ Reads(A, text) /\ Lines(text) = Closed(A[Len(text)])
<1> DEFINE T == [lines : Seq(String), current : String]
<1>1. PICK n \in Nat : n = Len(text) /\ \A i \in 1 .. n : text[i] \in Chars
  BY LenProperties, ElementOfSeq DEF String
<1>2. PICK a \in T : a = At(<<>>, <<>>)
  <2>1. <<>> \in Seq(String) /\ <<>> \in String
    BY EmptySeq DEF String
  <2> QED
    BY <2>1 DEF At
<1>3. ASSUME NEW at \in T, NEW ch \in Chars PROVE Read(at, ch) \in T
  <2>1. PICK ls \in Seq(String), c \in String : at = At(ls, c)
    BY DEF At
  <2>2. Append(ls, c) \in Seq(String)
    BY AppendProperties
  <2>3. Append(c, ch) \in String /\ <<>> \in String
    BY AppendProperties, EmptySeq DEF String
  <2>4. \A x \in Seq(String), y \in String : At(x, y) \in T
    BY DEF At
  <2>5. \/ Read(at, ch) = At(ls, Append(c, ch))
        \/ Read(at, ch) = At(Append(ls, c), <<>>)
        \/ Read(at, ch) = At(ls, <<>>)
    BY <2>1, ReadSteps
  <2> HIDE DEF T
  <2> QED
    BY <2>2, <2>3, <2>4, <2>5
<1> HIDE DEF T
<1> DEFINE h == [i \in 1 .. n |-> [at \in T |-> Read(at, text[i])]]
<1>4. h \in [1 .. n -> [T -> T]]
  BY <1>1, <1>3
<1>5. \A i \in 1 .. n : \A at \in T : h[i][at] = Read(at, text[i])
  OBVIOUS
<1> HIDE DEF h
<1>6. PICK f \in [0 .. n -> T] : Follows(f, a, h, n)
  BY <1>4, Recursion
<1>7. f[0] = a /\ \A i \in 1 .. n : f[i] = Read(f[i - 1], text[i])
  <2>1. \A i \in 1 .. n : f[i - 1] \in T
    OBVIOUS
  <2> QED
    BY <1>5, <1>6, <2>1 DEF Follows
<1> DEFINE Eq(g) == g = [i \in 0 .. Len(text) |->
             IF i = 0 THEN [lines |-> <<>>, current |-> <<>>] ELSE Read(g[i - 1], text[i])]
           G == CHOOSE g : Eq(g)
<1>8. Eq(f)
  <2>1. \A i \in 0 .. n : f[i] = IF i = 0 THEN a ELSE Read(f[i - 1], text[i])
    BY <1>7
  <2>2. f = [i \in 0 .. n |-> f[i]]
    OBVIOUS
  <2> QED
    BY <1>1, <1>2, <2>1, <2>2 DEF At
<1>9. Eq(G)
  <2> HIDE DEF Eq
  <2> QED
    BY <1>8
<1>10. Lines(text) = Closed(G[Len(text)])
  BY DEF Lines
<1> HIDE DEF G
<1>11. \A i \in 0 .. n : G[i] = IF i = 0 THEN a ELSE Read(G[i - 1], text[i])
  BY <1>1, <1>2, <1>9 DEF At
<1> HIDE DEF Eq
<1>12. G[0] = At(<<>>, <<>>) /\ Reads(G, text)
  BY <1>1, <1>2, <1>11 DEF Reads
<1> QED
  BY <1>10, <1>12

Unbroken(w) == \A i \in DOMAIN w : w[i] # Newline

\* A text without line ends is the line so far.
LEMMA WordRead ==
  ASSUME NEW L \in String, NEW A, Reads(A, L), NEW w \in String, Unbroken(w),
         NEW p \in Nat, NEW ls, A[p] = At(ls, <<>>), Stands(L, p, w)
  PROVE  A[p + Len(w)] = At(ls, w)
<1>1. PICK n \in Nat, l \in Nat : n = Len(w) /\ l = Len(L) /\ DOMAIN w = 1 .. n
  BY LenProperties DEF String
<1>2. /\ SubSeq(w, 1, 0) = <<>> /\ SubSeq(w, 1, n) = w
      /\ \A j \in Nat : j + 1 <= n => SubSeq(w, 1, j + 1) = Append(SubSeq(w, 1, j), w[j + 1])
  BY <1>1, Grows DEF String
<1>3. p + n <= l /\ \A j \in 1 .. n : L[p + j] = w[j]
  BY <1>1 DEF Stands
<1> DEFINE E == {j \in Nat : j <= n => A[p + j] = At(ls, SubSeq(w, 1, j))}
<1>4. 0 \in E
  BY <1>2, p + 0 = p
<1>5. ASSUME NEW j \in Nat, j \in E PROVE j + 1 \in E
  <2> SUFFICES ASSUME j + 1 <= n PROVE A[p + (j + 1)] = At(ls, SubSeq(w, 1, j + 1))
    OBVIOUS
  <2>1. PICK i \in 1 .. l : i = p + (j + 1) /\ i - 1 = p + j
    BY <1>3
  <2>2. A[i] = Read(At(ls, SubSeq(w, 1, j)), L[i])
    BY <1>1, <1>5, <2>1 DEF Reads
  <2>3. L[i] = w[j + 1] /\ L[i] # Newline
    BY <1>1, <1>3, <2>1, j + 1 \in 1 .. n DEF Unbroken
  <2>4. A[i] = At(ls, Append(SubSeq(w, 1, j), w[j + 1]))
    BY <2>2, <2>3, ReadSteps
  <2> QED
    BY <1>2, <2>1, <2>4
<1> HIDE DEF E
<1>6. Nat \subseteq E
  BY <1>4, <1>5, Induction
<1>7. A[p + n] = At(ls, SubSeq(w, 1, n))
  BY <1>6 DEF E
<1> QED
  BY <1>1, <1>2, <1>7

\* What ends a line, with the blank lines after it, leaves that line and nothing begun.
LEMMA GapRead ==
  ASSUME NEW L \in String, NEW A, Reads(A, L), NEW w, Trim(w) # <<>>,
         NEW e \in Seq(Blank), e # <<>>, e[1] = Newline, e[Len(e)] = Newline,
         NEW p \in Nat, NEW ls, A[p] = At(ls, w), Stands(L, p, e)
  PROVE  A[p + Len(e)] = At(Append(ls, w), <<>>)
<1>1. PICK n \in Nat, l \in Nat : n = Len(e) /\ n # 0 /\ l = Len(L) /\ \A j \in 1 .. n : e[j] \in Blank
  <2>1. Len(e) \in Nat \ {0}
    BY EmptySeq
  <2> QED
    BY <2>1, LenProperties, ElementOfSeq DEF String
<1>2. p + n <= l /\ \A j \in 1 .. n : L[p + j] = e[j]
  BY <1>1 DEF Stands
<1>3. e[1] = Newline /\ e[n] = Newline
  BY <1>1
<1>4. ASSUME NEW j \in 1 .. n PROVE A[p + j] = Read(A[p + (j - 1)], e[j])
  <2>1. PICK i \in 1 .. l : i = p + j /\ i - 1 = p + (j - 1)
    BY <1>2
  <2>2. A[i] = Read(A[i - 1], L[i])
    BY <1>1, <2>1 DEF Reads
  <2> QED
    BY <1>2, <2>1, <2>2
<1> DEFINE E == {j \in Nat : j + 1 <= n =>
                   \E c \in Seq(Blank) : A[p + (j + 1)] = At(Append(ls, w), c) /\ (e[j + 1] = Newline => c = <<>>)}
<1>5. 0 \in E
  <2>1. PICK j \in 1 .. n : j = 0 + 1 /\ p + (j - 1) = p
    BY <1>1
  <2>2. A[p + j] = Read(At(ls, w), e[j])
    BY <1>4, <2>1
  <2>3. A[p + j] = At(Append(ls, w), <<>>)
    BY <1>3, <2>1, <2>2, ReadSteps
  <2> QED
    BY <2>1, <2>3, EmptySeq
<1>6. ASSUME NEW k \in Nat, k \in E PROVE k + 1 \in E
  <2> SUFFICES ASSUME (k + 1) + 1 <= n
               PROVE  \E c \in Seq(Blank) : /\ A[p + ((k + 1) + 1)] = At(Append(ls, w), c)
                                            /\ e[(k + 1) + 1] = Newline => c = <<>>
    OBVIOUS
  <2>1. PICK j \in 1 .. n : j = (k + 1) + 1 /\ j - 1 = k + 1
    OBVIOUS
  <2>2. PICK c \in Seq(Blank) : A[p + (j - 1)] = At(Append(ls, w), c)
    BY <1>6, <2>1
  <2>3. A[p + j] = Read(At(Append(ls, w), c), e[j])
    BY <1>4, <2>1, <2>2
  <2>4. CASE e[j] = Newline
    <3>1. A[p + j] = At(Append(ls, w), <<>>)
      BY <2>3, <2>4, BlankText, ReadSteps
    <3> QED
      BY <2>1, <3>1, EmptySeq
  <2>5. CASE e[j] # Newline
    <3>1. A[p + j] = At(Append(ls, w), Append(c, e[j]))
      BY <2>3, <2>5, ReadSteps
    <3>2. Append(c, e[j]) \in Seq(Blank)
      BY <1>1, <2>1, AppendProperties
    <3> QED
      BY <2>1, <2>5, <3>1, <3>2
  <2> QED
    BY <2>4, <2>5
<1> HIDE DEF E
<1>7. n - 1 \in E
  <2>1. Nat \subseteq E
    BY <1>5, <1>6, Induction
  <2> QED
    BY <1>1, <2>1
<1>8. PICK c \in Seq(Blank) : A[p + ((n - 1) + 1)] = At(Append(ls, w), c) /\ (e[(n - 1) + 1] = Newline => c = <<>>)
  BY <1>1, <1>7 DEF E
<1>9. (n - 1) + 1 = n
  BY <1>1
<1> QED
  BY <1>1, <1>3, <1>8, <1>9

\* L is the texts ps, each followed by its gap.
Placed(L, ps, es, q, n) ==
  /\ q[0] = 0 /\ q[n] = Len(L)
  /\ \A k \in 1 .. n :
       /\ q[k] = q[k - 1] + Len(ps[k]) + Len(es[k])
       /\ Stands(L, q[k - 1], ps[k]) /\ Stands(L, q[k - 1] + Len(ps[k]), es[k])

\* And these are lines.
Lined(L, ps, es, q, n) ==
  /\ Placed(L, ps, es, q, n)
  /\ \A k \in 1 .. n :
       /\ Lacks(ps[k], {Newline}) /\ Trim(ps[k]) # <<>>
       /\ IsGap(es[k], {Newline}) /\ (k < n => es[k] # <<>>)

\* A text of lines and gaps is split into these lines.
LEMMA LinesRead ==
  ASSUME NEW L \in String, NEW n \in Nat, NEW q \in [0 .. n -> Nat],
         NEW ps \in [1 .. n -> String], NEW es \in [1 .. n -> Seq(Blank)],
         Lined(L, ps, es, q, n)
  PROVE  Lines(L) = ps
<1>1. PICK A : A[0] = At(<<>>, <<>>) /\ Reads(A, L) /\ Lines(L) = Closed(A[Len(L)])
  BY LinesBy
<1> DEFINE Taken(k) == [i \in 1 .. k |-> ps[i]]
<1>2. \A m \in 0 .. n : Taken(m) \in Seq(String) /\ Len(Taken(m)) = m
  <2> SUFFICES ASSUME NEW m \in 0 .. n PROVE Taken(m) \in Seq(String) /\ Len(Taken(m)) = m
    OBVIOUS
  <2>1. Taken(m) \in [1 .. m -> String] /\ m \in Nat
    OBVIOUS
  <2> QED
    BY <2>1, IsSeq
<1>3. ASSUME NEW k \in 1 .. n PROVE Append(Taken(k - 1), ps[k]) = Taken(k)
  <2>1. PICK s \in Seq(String), t \in Seq(String), m \in Nat : s = Taken(k - 1) /\ t = Taken(k) /\ m = k - 1
    <3>1. k - 1 \in 0 .. n /\ k \in 0 .. n /\ k - 1 \in Nat
      OBVIOUS
    <3>2. Taken(k - 1) \in Seq(String) /\ Taken(k) \in Seq(String)
      BY <1>2, <3>1
    <3> HIDE DEF Taken
    <3> QED
      BY <3>1, <3>2
  <2>2. Len(s) = m /\ Len(t) = m + 1 /\ (\A i \in 1 .. m : s[i] = t[i]) /\ t[m + 1] = ps[k]
    BY <1>2, <2>1
  <2>3. PICK w \in String : w = ps[k]
    OBVIOUS
  <2> HIDE DEF Taken
  <2>4. /\ Append(s, w) \in Seq(String)
        /\ Len(Append(s, w)) = m + 1
        /\ \A i \in 1 .. m : Append(s, w)[i] = s[i]
        /\ Append(s, w)[m + 1] = w
    BY <2>2, AppendProperties
  <2>5. \A i \in 1 .. m + 1 : i \in 1 .. m \/ i = m + 1
    OBVIOUS
  <2>6. Append(s, w) = t
    BY <2>1, <2>2, <2>3, <2>4, <2>5, SeqEqual
  <2> QED
    BY <2>1, <2>3, <2>6
<1>4. Taken(0) = <<>> /\ Taken(n) = ps
  BY <1>2, EmptySeq
<1> HIDE DEF Taken
<1>5. ASSUME NEW k \in 1 .. n, A[q[k - 1]] = At(Taken(k - 1), <<>>)
      PROVE  Closed(A[q[k]]) = Taken(k) /\ (es[k] # <<>> => A[q[k]] = At(Taken(k), <<>>))
  <2>1. PICK p \in Nat, w \in String, e \in Seq(Blank) : p = q[k - 1] /\ w = ps[k] /\ e = es[k]
    BY k - 1 \in 0 .. n
  <2>2. PICK ls : ls = Taken(k - 1)
    OBVIOUS
  <2>3. /\ q[k] = p + Len(w) + Len(e)
        /\ Stands(L, p, w) /\ Stands(L, p + Len(w), e)
        /\ Lacks(w, {Newline}) /\ Trim(w) # <<>> /\ IsGap(e, {Newline})
    BY <2>1 DEF Lined, Placed
  <2>4. PICK t \in Nat : t = p + Len(w)
    BY LenProperties DEF String
  <2>5. A[t] = At(ls, w)
    <3>1. A[p] = At(ls, <<>>)
      BY <1>5, <2>1, <2>2
    <3>2. A[p + Len(w)] = At(ls, w)
      <4>1. Reads(A, L) /\ Unbroken(w) /\ Stands(L, p, w)
        BY <1>1, <2>3 DEF Lacks, Unbroken
      <4> QED
        BY <3>1, <4>1, WordRead
    <3> QED
      BY <2>4, <3>2
  <2>6. Append(ls, w) = Taken(k)
    BY <1>3, <2>1, <2>2
  <2>7. CASE e = <<>>
    <3>1. q[k] = t
      BY <2>3, <2>4, <2>7, EmptySeq
    <3>2. Closed(At(ls, w)) = Append(ls, w)
      BY <2>3, ReadSteps
    <3> QED
      BY <2>1, <2>5, <2>6, <2>7, <3>1, <3>2
  <2>8. CASE e # <<>>
    <3>1. A[t + Len(e)] = At(Append(ls, w), <<>>)
      <4>1. Stands(L, t, e)
        BY <2>3, <2>4
      <4>2. Reads(A, L) /\ Trim(w) # <<>> /\ e[1] = Newline /\ e[Len(e)] = Newline
        BY <1>1, <2>3, <2>8 DEF IsGap
      <4> QED
        BY <2>5, <2>8, <4>1, <4>2, GapRead
    <3>2. A[q[k]] = At(Taken(k), <<>>)
      BY <2>3, <2>4, <2>6, <3>1
    <3>3. Trim(<<>>) = <<>>
      BY EmptySeq, BlankText
    <3>4. Closed(At(Taken(k), <<>>)) = Taken(k)
      BY <3>3, ReadSteps
    <3> QED
      BY <3>2, <3>4
  <2> QED
    BY <2>7, <2>8
<1>6. CASE n = 0
  <2>1. Closed(At(<<>>, <<>>)) = <<>>
    <3>1. Trim(<<>>) = <<>>
      BY EmptySeq, BlankText
    <3> QED
      BY <3>1, ReadSteps
  <2>2. Len(L) = 0
    BY <1>6 DEF Lined, Placed
  <2> QED
    BY <1>1, <1>4, <1>6, <2>1, <2>2
<1>7. CASE n # 0
  <2> DEFINE E == {k \in Nat : k < n => A[q[k]] = At(Taken(k), <<>>)}
  <2>1. 0 \in E
    BY <1>1, <1>4 DEF Lined, Placed
  <2>2. ASSUME NEW k \in Nat, k \in E PROVE k + 1 \in E
    <3> SUFFICES ASSUME k + 1 < n PROVE A[q[k + 1]] = At(Taken(k + 1), <<>>)
      OBVIOUS
    <3>1. PICK j \in 1 .. n : j = k + 1 /\ j - 1 = k /\ j < n
      OBVIOUS
    <3>2. A[q[j - 1]] = At(Taken(j - 1), <<>>)
      BY <2>2, <3>1
    <3>3. es[j] # <<>>
      BY <3>1 DEF Lined, Placed
    <3> QED
      BY <1>5, <3>1, <3>2, <3>3
  <2> HIDE DEF E
  <2>3. n - 1 \in E /\ n - 1 < n
    <3>1. Nat \subseteq E
      BY <2>1, <2>2, Induction
    <3> QED
      BY <1>7, <3>1
  <2>4. A[q[n - 1]] = At(Taken(n - 1), <<>>)
    BY <2>3 DEF E
  <2>5. Closed(A[q[n]]) = Taken(n)
    <3>1. n \in 1 .. n
      BY <1>7
    <3> QED
      BY <1>5, <2>4, <3>1
  <2> QED
    BY <1>1, <1>4, <2>5 DEF Lined, Placed
<1> QED
  BY <1>6, <1>7

\* Lines and gaps strung together.
Strung(n, ps, es) == FlattenSeq([i \in 1 .. n |-> ps[i] \o es[i]])

\* Lines and gaps that are flattened stand one behind the other.
LEMMA LinedUp ==
  ASSUME NEW n \in Nat, NEW ps \in [1 .. n -> String], NEW es \in [1 .. n -> Seq(Blank)],
         NEW L, L = Strung(n, ps, es)
  PROVE  L \in String /\ \E q \in [0 .. n -> Nat] : Placed(L, ps, es, q, n)
<1> DEFINE cs == [i \in 1 .. n |-> ps[i] \o es[i]]
<1>1. ASSUME NEW i \in 1 .. n
      PROVE  /\ ps[i] \in Seq(Chars) /\ es[i] \in Seq(Chars)
             /\ cs[i] = ps[i] \o es[i]
             /\ cs[i] \in Seq(Chars) /\ Len(cs[i]) = Len(ps[i]) + Len(es[i])
  <2>1. ps[i] \in Seq(Chars)
    BY DEF String
  <2>2. es[i] \in Seq(Chars)
    BY Characters, SeqMonotonic
  <2>3. cs[i] = ps[i] \o es[i]
    OBVIOUS
  <2> HIDE DEF cs
  <2> QED
    BY <2>1, <2>2, <2>3, ConcatProperties
<1>2. cs \in Seq(Seq(Chars)) /\ Len(cs) = n
  <2>1. cs \in [1 .. n -> Seq(Chars)]
    BY <1>1
  <2> HIDE DEF cs
  <2> QED
    BY <2>1, IsSeq
<1>3. L = FlattenSeq(cs)
  BY DEF Strung
<1> HIDE DEF cs
<1>4. L \in Seq(Chars) /\ \E q \in [0 .. n -> Nat] :
        /\ q[0] = 0 /\ q[n] = Len(L)
        /\ \A k \in 1 .. n : q[k] = q[k - 1] + Len(cs[k]) /\ Stands(L, q[k - 1], cs[k])
  <2>1. \E q \in [0 .. Len(cs) -> Nat] :
          /\ FlattenSeq(cs) \in Seq(Chars)
          /\ q[0] = 0 /\ q[Len(cs)] = Len(FlattenSeq(cs))
          /\ \A k \in 1 .. Len(cs) :
               q[k] = q[k - 1] + Len(cs[k]) /\ Stands(FlattenSeq(cs), q[k - 1], cs[k])
    BY <1>2, Parts
  <2>2. Len(cs) = n /\ FlattenSeq(cs) = L
    BY <1>2, <1>3
  <2> QED
    BY <2>1, <2>2
<1>5. PICK q \in [0 .. n -> Nat] :
        /\ q[0] = 0 /\ q[n] = Len(L)
        /\ \A k \in 1 .. n : q[k] = q[k - 1] + Len(cs[k]) /\ Stands(L, q[k - 1], cs[k])
  BY <1>4
<1>6. ASSUME NEW k \in 1 .. n
      PROVE  /\ q[k] = q[k - 1] + Len(ps[k]) + Len(es[k])
             /\ Stands(L, q[k - 1], ps[k]) /\ Stands(L, q[k - 1] + Len(ps[k]), es[k])
  <2>1. PICK p \in Nat, w \in Seq(Chars), e \in Seq(Chars) : p = q[k - 1] /\ w = ps[k] /\ e = es[k]
    BY <1>1, k - 1 \in 0 .. n
  <2>2. q[k] = p + (Len(w) + Len(e)) /\ Stands(L, p, w \o e)
    BY <1>1, <1>5, <2>1
  <2>3. Len(w) \in Nat /\ Len(e) \in Nat
    BY LenProperties
  <2>4. Stands(L, p, w) /\ Stands(L, p + Len(w), e)
    BY <1>4, <2>2, StandsConcat
  <2> QED
    BY <2>1, <2>2, <2>3, <2>4
<1>7. Placed(L, ps, es, q, n)
  BY <1>5, <1>6 DEF Placed
<1> QED
  BY <1>4, <1>7 DEF String

\* Every kind of line end made one.
Ended(s) == Map(LAMBDA c : IF c = Return THEN Newline ELSE c, s)

\* The replacement of the line ends, character by character.
LEMMA EndedIs ==
  ASSUME NEW s \in String
  PROVE  /\ Ended(s) \in String /\ Len(Ended(s)) = Len(s)
         /\ \A i \in 1 .. Len(s) : Ended(s)[i] = IF s[i] = Return THEN Newline ELSE s[i]
<1>1. PICK n \in Nat : n = Len(s) /\ DOMAIN s = 1 .. n /\ \A i \in 1 .. n : s[i] \in Chars
  BY LenProperties, ElementOfSeq DEF String
<1>2. Ended(s) = [i \in 1 .. n |-> IF s[i] = Return THEN Newline ELSE s[i]]
  BY <1>1 DEF Ended, Map
<1>3. Newline \in Chars
  BY Characters
<1>4. PICK t : t = Ended(s)
  OBVIOUS
<1>5. t \in [1 .. n -> Chars] /\ \A i \in 1 .. n : t[i] = IF s[i] = Return THEN Newline ELSE s[i]
  BY <1>1, <1>2, <1>3, <1>4
<1>6. t \in Seq(Chars) /\ Len(t) = n
  BY <1>5, IsSeq
<1> QED
  BY <1>1, <1>4, <1>5, <1>6 DEF String

\* It leaves everything in its place.
LEMMA EndedStands ==
  ASSUME NEW L \in String, NEW p \in Nat, NEW w \in String, Stands(L, p, w)
  PROVE  Stands(Ended(L), p, Ended(w))
<1>1. PICK n \in Nat, l \in Nat : n = Len(w) /\ l = Len(L)
  BY LenProperties DEF String
<1>2. p + n <= l /\ \A j \in 1 .. n : L[p + j] = w[j]
  BY <1>1 DEF Stands
<1>3. PICK M \in String, v \in String : M = Ended(L) /\ v = Ended(w)
  BY EndedIs
<1>4. Len(M) = l /\ \A i \in 1 .. l : M[i] = IF L[i] = Return THEN Newline ELSE L[i]
  BY <1>1, <1>3, EndedIs
<1>5. Len(v) = n /\ \A i \in 1 .. n : v[i] = IF w[i] = Return THEN Newline ELSE w[i]
  BY <1>1, <1>3, EndedIs
<1>6. \A j \in 1 .. n : p + j \in 1 .. l
  BY <1>2
<1>7. \A j \in 1 .. n : M[p + j] = v[j]
  BY <1>2, <1>4, <1>5, <1>6
<1> QED
  BY <1>2, <1>3, <1>4, <1>5, <1>7 DEF Stands

\* It leaves what has no line end as it is.
LEMMA EndedWord ==
  ASSUME NEW w \in String, Lacks(w, LineEnd)
  PROVE  Ended(w) = w
<1>1. PICK n \in Nat, v \in String : n = Len(w) /\ v = Ended(w) /\ DOMAIN w = 1 .. n
  BY EndedIs, LenProperties DEF String
<1>2. Len(v) = n /\ \A i \in 1 .. n : v[i] = IF w[i] = Return THEN Newline ELSE w[i]
  BY <1>1, EndedIs
<1>3. \A i \in 1 .. n : w[i] # Return
  BY <1>1 DEF Lacks, LineEnd
<1>4. \A i \in 1 .. n : v[i] = w[i]
  BY <1>2, <1>3
<1>5. v = w
  BY <1>1, <1>2, <1>4, SeqEqual DEF String
<1> QED
  BY <1>1, <1>5

\* And a gap is one afterwards.
LEMMA EndedGap ==
  ASSUME NEW e \in Seq(Blank), IsGap(e, LineEnd)
  PROVE  Ended(e) \in Seq(Blank) /\ IsGap(Ended(e), {Newline}) /\ (Ended(e) = <<>> <=> e = <<>>)
<1>1. e \in String
  BY Characters, SeqMonotonic DEF String
<1>2. PICK n \in Nat, v \in String : n = Len(e) /\ v = Ended(e) /\ \A i \in 1 .. n : e[i] \in Blank
  BY <1>1, EndedIs, LenProperties, ElementOfSeq
<1>3. Len(v) = n /\ \A i \in 1 .. n : v[i] = IF e[i] = Return THEN Newline ELSE e[i]
  BY <1>1, <1>2, EndedIs
<1>4. v \in Seq(Blank)
  <2>1. \A i \in 1 .. n : v[i] \in Blank
    BY <1>2, <1>3 DEF Blank
  <2>2. v = [i \in 1 .. n |-> v[i]]
    BY <1>3, LenProperties DEF String
  <2>3. v \in [1 .. n -> Blank]
    BY <2>1, <2>2
  <2> QED
    BY <2>3, IsSeq
<1>5. v = <<>> <=> e = <<>>
  BY <1>2, <1>3, <1>4, EmptySeq
<1>6. ASSUME v # <<>> PROVE v[1] = Newline /\ v[Len(v)] = Newline
  <2>1. e[1] \in LineEnd /\ e[n] \in LineEnd /\ n # 0
    BY <1>2, <1>5, <1>6, EmptySeq DEF IsGap
  <2>2. 1 \in 1 .. n /\ n \in 1 .. n
    BY <2>1
  <2> QED
    BY <1>3, <2>1, <2>2 DEF LineEnd
<1> QED
  BY <1>2, <1>4, <1>5, <1>6 DEF IsGap

\* The mark at the front of a file is no part of its first line.
LEMMA MarkDropped ==
  ASSUME NEW L \in String, NEW m \in {<<>>, <<Mark>>}, L # <<>>, m = <<>> => L[1] # Mark
  PROVE  LinesOf(m \o L) = Lines(Ended(L))
<1>1. PICK l \in Nat : l = Len(L) /\ l # 0 /\ L \in Seq(Chars)
  BY LenProperties, EmptySeq DEF String
<1>2. CASE m = <<>>
  <2>1. m \o L = L
    BY <1>1, <1>2, ConcatEmptySeq
  <2>2. Head(L) = L[1]
    BY <1>1, HeadTailProperties
  <2>3. LinesOf(L) = Lines(Ended(L))
    BY <1>2, <2>2 DEF LinesOf, Ended
  <2> QED
    BY <2>1, <2>3
<1>3. CASE m = <<Mark>>
  <2>0. <<Mark>> \in Seq(Chars) /\ Len(<<Mark>>) = 1 /\ <<Mark>>[1] = Mark
    BY Characters
  <2>1. PICK R : R = <<Mark>> \o L
    OBVIOUS
  <2>2. /\ R \in Seq(Chars) /\ Len(R) = 1 + l
        /\ \A i \in 1 .. 1 + l : R[i] = IF i <= 1 THEN <<Mark>>[i] ELSE L[i - 1]
    BY <1>1, <2>0, <2>1, ConcatProperties
  <2>3. R # <<>>
    BY <2>2, EmptySeq
  <2>4. Head(R) = R[1] /\ Tail(R) \in Seq(Chars) /\ Len(Tail(R)) = Len(R) - 1 /\ \A i \in 1 .. Len(Tail(R)) : Tail(R)[i] = R[i + 1]
    BY <2>2, <2>3, HeadTailProperties
  <2>5. R[1] = Mark
    BY <2>0, <2>2, 1 \in 1 .. 1 + l
  <2>6. Tail(R) = L
    <3>1. PICK t \in Seq(Chars) : t = Tail(R)
      BY <2>4
    <3>2. Len(t) = l /\ \A i \in 1 .. l : t[i] = R[i + 1]
      BY <2>2, <2>4, <3>1
    <3>3. \A i \in 1 .. l : i + 1 \in 1 .. 1 + l /\ ~ (i + 1 <= 1) /\ (i + 1) - 1 = i
      OBVIOUS
    <3>4. \A i \in 1 .. l : t[i] = L[i]
      BY <2>2, <3>2, <3>3
    <3> QED
      BY <1>1, <3>1, <3>2, <3>4, SeqEqual
  <2>7. LinesOf(R) = Lines(Ended(L))
    BY <2>3, <2>4, <2>5, <2>6 DEF LinesOf, Ended
  <2> QED
    BY <1>3, <2>1, <2>7
<1> QED
  BY <1>2, <1>3

\* The lines of a file and what stands between them.
LEMMA FileLines ==
  ASSUME NEW f \in FileTexts, NEW n \in Nat, n = Len(f.rows),
         NEW w \in [1 .. n -> String], \A i \in 1 .. n : w[i] = ResponseToCSVRow(f.rows[i])
  PROVE  n # 0 /\ LinesOf(FileOf(f)) = w
<1>1. /\ f.rows \in Seq(Fields) /\ f.gaps \in Seq(Seq(Blank)) /\ f.mark \in BOOLEAN
      /\ f.rows # <<>> /\ Len(f.gaps) = Len(f.rows)
  BY DEF FileTexts
<1>2. n # 0 /\ DOMAIN f.rows = 1 .. n /\ \A i \in 1 .. n : f.gaps[i] \in Seq(Blank)
  <2>1. Len(f.rows) # 0 /\ DOMAIN f.rows = 1 .. Len(f.rows)
    BY <1>1, EmptySeq, LenProperties
  <2>2. \A i \in 1 .. n : f.gaps[i] \in Seq(Blank)
    BY <1>1, ElementOfSeq
  <2> QED
    BY <2>1, <2>2
<1>3. ASSUME NEW i \in 1 .. n
      PROVE  /\ Lacks(w[i], LineEnd) /\ Trim(w[i]) # <<>> /\ IsGap(f.gaps[i], LineEnd)
             /\ i < n => f.gaps[i] # <<>>
  BY <1>2 DEF FileTexts
<1>4. PICK e \in [1 .. n -> Seq(Blank)] : \A i \in 1 .. n : e[i] = f.gaps[i]
  <2>1. PICK g : g = f.gaps
    OBVIOUS
  <2>2. [i \in 1 .. n |-> g[i]] \in [1 .. n -> Seq(Blank)]
    BY <1>2, <2>1
  <2> QED
    BY <2>1, <2>2
<1>5. PICK L : L = Strung(n, w, e)
  OBVIOUS
<1>6. L \in String
  BY <1>5, LinedUp
<1>7. PICK q \in [0 .. n -> Nat] : Placed(L, w, e, q, n)
  BY <1>5, LinedUp
<1>8. PICK m \in {<<>>, <<Mark>>} : m = IF f.mark THEN <<Mark>> ELSE <<>>
  OBVIOUS
<1>9. FileOf(f) = m \o L
  <2>1. [i \in DOMAIN f.rows |-> ResponseToCSVRow(f.rows[i]) \o f.gaps[i]] = [i \in 1 .. n |-> w[i] \o e[i]]
    BY <1>2, <1>4
  <2> QED
    BY <1>5, <1>8, <2>1 DEF FileOf, Strung
<1>10. L # <<>> /\ (m = <<>> => L[1] # Mark)
  <2>0. w[1] \in String /\ Len(w[1]) \in Nat
    BY <1>2, 1 \in 1 .. n, LenProperties DEF String
  <2>1. PICK v \in String, k \in Nat : v = w[1] /\ k = Len(v)
    BY <2>0
  <2>2. v # <<>>
    <3>1. Trim(<<>>) = <<>>
      BY EmptySeq, BlankText
    <3> QED
      BY <1>2, <1>3, <2>1, <3>1
  <2>3. k # 0
    BY <2>1, <2>2, EmptySeq DEF String
  <2>4. Stands(L, 0, v)
    BY <1>2, <1>7, <2>1, 1 \in 1 .. n, 1 - 1 = 0 DEF Placed
  <2>5. k <= Len(L) /\ L[1] = v[1]
    <3>1. 0 + k <= Len(L) /\ \A j \in 1 .. k : L[0 + j] = v[j]
      BY <2>1, <2>4 DEF Stands
    <3> QED
      BY <2>3, <3>1, 1 \in 1 .. k, 0 + 1 = 1
  <2>6. L # <<>>
    BY <1>6, <2>1, <2>3, <2>5, EmptySeq DEF String
  <2>7. f.mark \/ v[1] # Mark
    BY <1>2, <2>1 DEF FileTexts
  <2>8. m = <<>> => ~ f.mark
    BY <1>8, EmptySeq
  <2> QED
    BY <2>5, <2>6, <2>7, <2>8
<1>11. LinesOf(FileOf(f)) = Lines(Ended(L))
  BY <1>6, <1>9, <1>10, MarkDropped
<1>12. PICK M \in String : M = Ended(L) /\ Len(M) = Len(L)
  BY <1>6, EndedIs
<1>13. PICK c \in [1 .. n -> Seq(Blank)] : \A i \in 1 .. n : c[i] = Ended(e[i])
  <2>1. \A i \in 1 .. n : Ended(e[i]) \in Seq(Blank)
    BY <1>3, <1>4, EndedGap
  <2>2. [i \in 1 .. n |-> Ended(e[i])] \in [1 .. n -> Seq(Blank)]
    BY <2>1
  <2> QED
    BY <2>2
<1>14. Lined(M, w, c, q, n)
  <2>1. ASSUME NEW k \in 1 .. n
        PROVE  /\ q[k] = q[k - 1] + Len(w[k]) + Len(c[k])
               /\ Stands(M, q[k - 1], w[k]) /\ Stands(M, q[k - 1] + Len(w[k]), c[k])
               /\ Lacks(w[k], {Newline}) /\ Trim(w[k]) # <<>>
               /\ IsGap(c[k], {Newline}) /\ (k < n => c[k] # <<>>)
    <3>1. PICK p \in Nat, v \in String, g \in Seq(Blank) : p = q[k - 1] /\ v = w[k] /\ g = e[k]
      BY k - 1 \in 0 .. n
    <3>2. g \in String
      BY Characters, SeqMonotonic DEF String
    <3>3. IsGap(g, LineEnd) /\ Lacks(v, LineEnd) /\ Trim(v) # <<>> /\ (k < n => g # <<>>)
      BY <1>3, <1>4, <3>1
    <3>4. /\ c[k] = Ended(g) /\ Len(Ended(g)) = Len(g)
          /\ IsGap(Ended(g), {Newline}) /\ (Ended(g) = <<>> <=> g = <<>>)
      BY <1>13, <3>1, <3>2, <3>3, EndedGap, EndedIs
    <3>5. Ended(v) = v
      BY <3>3, EndedWord
    <3>6. q[k] = p + Len(v) + Len(g) /\ Stands(L, p, v) /\ Stands(L, p + Len(v), g)
      BY <1>7, <3>1 DEF Placed
    <3>7. Stands(M, p, v)
      BY <1>6, <1>12, <3>5, <3>6, EndedStands
    <3>8. Stands(M, p + Len(v), Ended(g))
      <4>1. PICK t \in Nat : t = p + Len(v)
        BY LenProperties DEF String
      <4>2. Stands(Ended(L), t, Ended(g))
        BY <1>6, <3>2, <3>6, <4>1, EndedStands
      <4> QED
        BY <1>12, <4>1, <4>2
    <3>9. Lacks(v, {Newline})
      BY <3>3 DEF Lacks, LineEnd
    <3> QED
      BY <3>1, <3>3, <3>4, <3>6, <3>7, <3>8, <3>9
  <2> QED
    BY <1>7, <1>12, <2>1 DEF Lined, Placed
<1>15. Lines(M) = w
  BY <1>14, LinesRead
<1> QED
  BY <1>2, <1>11, <1>12, <1>15

\* A file of rows is read back.
LEMMA FileRead ==
  ASSUME NEW f \in FileTexts
  PROVE  ParseCSV(FileOf(f)) =
           [j \in 1 .. Len(f.rows) - 1 |->
              [i \in DOMAIN f.rows[1] |->
                 IF i \in DOMAIN f.rows[j + 1] THEN Trim(f.rows[j + 1][i]) ELSE <<>>]]
<1>1. f.rows \in Seq(Fields)
  BY DEF FileTexts
<1>2. PICK n \in Nat : n = Len(f.rows) /\ \A i \in 1 .. n : f.rows[i] \in Fields
  BY <1>1, LenProperties, ElementOfSeq
<1>3. PICK w \in [1 .. n -> String] : \A i \in 1 .. n : w[i] = ResponseToCSVRow(f.rows[i])
  <2>1. \A i \in 1 .. n : ResponseToCSVRow(f.rows[i]) \in String
    BY <1>2, RowIs
  <2>2. [i \in 1 .. n |-> ResponseToCSVRow(f.rows[i])] \in [1 .. n -> String]
    BY <2>1
  <2> QED
    BY <2>2
<1>4. n # 0 /\ LinesOf(FileOf(f)) = w
  BY <1>2, <1>3, FileLines
<1>5. w \in Seq(String) /\ Len(w) = n
  BY IsSeq
<1>6. ASSUME NEW k \in 1 .. n
      PROVE  /\ DOMAIN ParseLine(w[k]) = DOMAIN f.rows[k]
             /\ \A i \in DOMAIN f.rows[k] : ParseLine(w[k])[i] = Trim(f.rows[k][i])
  <2>1. ParseLine(w[k]) = [i \in DOMAIN f.rows[k] |-> Trim(f.rows[k][i])]
    BY <1>2, <1>3, RowRead DEF Map
  <2>2. PICK D : D = DOMAIN f.rows[k]
    OBVIOUS
  <2> QED
    BY <2>1
<1> DEFINE row(l) == [i \in DOMAIN ParseLine(w[1]) |->
                        IF i \in DOMAIN ParseLine(l) THEN ParseLine(l)[i] ELSE <<>>]
           wide(j) == [i \in DOMAIN f.rows[1] |->
                         IF i \in DOMAIN f.rows[j + 1] THEN Trim(f.rows[j + 1][i]) ELSE <<>>]
<1>7. ParseCSV(FileOf(f)) = IF n < 2 THEN <<>> ELSE [j \in DOMAIN Tail(w) |-> row(Tail(w)[j])]
  BY <1>4, <1>5 DEF ParseCSV, Map
<1>8. ASSUME NEW j \in 1 .. n - 1 PROVE row(w[j + 1]) = wide(j)
  <2>1. 1 \in 1 .. n /\ j + 1 \in 1 .. n
    OBVIOUS
  <2>2. /\ DOMAIN ParseLine(w[1]) = DOMAIN f.rows[1]
        /\ DOMAIN ParseLine(w[j + 1]) = DOMAIN f.rows[j + 1]
        /\ \A i \in DOMAIN f.rows[j + 1] : ParseLine(w[j + 1])[i] = Trim(f.rows[j + 1][i])
    BY <1>6, <2>1
  <2> QED
    BY <2>2
<1>9. CASE n < 2
  <2>1. 1 .. n - 1 = {} /\ n - 1 = 0
    BY <1>4, <1>9
  <2>2. <<>> = [j \in 1 .. n - 1 |-> wide(j)]
    <3>1. PICK x : x = [j \in 1 .. n - 1 |-> wide(j)]
      OBVIOUS
    <3>2. x \in [1 .. 0 -> Nat]
      BY <2>1, <3>1
    <3>3. x = <<>>
      BY <3>2, IsSeq, EmptySeq
    <3> QED
      BY <3>1, <3>3
  <2> QED
    BY <1>2, <1>7, <1>9, <2>2
<1>10. CASE ~ (n < 2)
  <2>1. w # <<>>
    BY <1>4, <1>5, EmptySeq
  <2>2. /\ Tail(w) \in Seq(String) /\ Len(Tail(w)) = n - 1
        /\ \A i \in 1 .. Len(Tail(w)) : Tail(w)[i] = w[i + 1]
    BY <1>5, <2>1, HeadTailProperties
  <2>3. DOMAIN Tail(w) = 1 .. n - 1 /\ \A i \in 1 .. n - 1 : Tail(w)[i] = w[i + 1]
    BY <2>2, LenProperties
  <2> HIDE DEF row, wide
  <2>4. \A j \in 1 .. n - 1 : row(Tail(w)[j]) = wide(j)
    BY <1>8, <2>3
  <2>5. [j \in DOMAIN Tail(w) |-> row(Tail(w)[j])] = [j \in 1 .. n - 1 |-> wide(j)]
    BY <2>3, <2>4
  <2> QED
    BY <1>2, <1>7, <1>10, <2>5 DEF wide
<1> QED
  BY <1>9, <1>10

-----------------------------------------------------------------------------
(* routes/lookup.ts *)

\* What filter(Boolean) leaves of texts none of which is empty.
LEMMA NonEmptyIs ==
  ASSUME NEW n \in Nat, NEW ps \in [1 .. n -> String], \A i \in 1 .. n : ps[i] # <<>>
  PROVE  NonEmpty(ps) = ps
<1>0. ps \in Seq(String) /\ Len(ps) = n
  BY IsSeq
<1> DEFINE Taken(k) == [i \in 1 .. k |-> ps[i]]
<1>2. \A m \in 0 .. n : Taken(m) \in Seq(String) /\ Len(Taken(m)) = m
  <2> SUFFICES ASSUME NEW m \in 0 .. n PROVE Taken(m) \in Seq(String) /\ Len(Taken(m)) = m
    OBVIOUS
  <2>1. Taken(m) \in [1 .. m -> String] /\ m \in Nat
    OBVIOUS
  <2> QED
    BY <2>1, IsSeq
<1>3. ASSUME NEW k \in 1 .. n PROVE Append(Taken(k - 1), ps[k]) = Taken(k)
  <2>1. PICK s \in Seq(String), t \in Seq(String), m \in Nat : s = Taken(k - 1) /\ t = Taken(k) /\ m = k - 1
    <3>1. k - 1 \in 0 .. n /\ k \in 0 .. n /\ k - 1 \in Nat
      OBVIOUS
    <3>2. Taken(k - 1) \in Seq(String) /\ Taken(k) \in Seq(String)
      BY <1>2, <3>1
    <3> HIDE DEF Taken
    <3> QED
      BY <3>1, <3>2
  <2>2. Len(s) = m /\ Len(t) = m + 1 /\ (\A i \in 1 .. m : s[i] = t[i]) /\ t[m + 1] = ps[k]
    BY <1>2, <2>1
  <2>3. PICK w \in String : w = ps[k]
    OBVIOUS
  <2> HIDE DEF Taken
  <2>4. /\ Append(s, w) \in Seq(String)
        /\ Len(Append(s, w)) = m + 1
        /\ \A i \in 1 .. m : Append(s, w)[i] = s[i]
        /\ Append(s, w)[m + 1] = w
    BY <2>2, AppendProperties
  <2>5. \A i \in 1 .. m + 1 : i \in 1 .. m \/ i = m + 1
    OBVIOUS
  <2>6. Append(s, w) = t
    BY <2>1, <2>2, <2>3, <2>4, <2>5, SeqEqual
  <2> QED
    BY <2>1, <2>3, <2>6
<1>4. Taken(0) = <<>> /\ Taken(n) = ps
  BY <1>2, EmptySeq
<1> DEFINE Eq(g) == g = [i \in 0 .. Len(ps) |->
             IF i = 0 THEN <<>> ELSE IF ps[i] = <<>> THEN g[i - 1] ELSE Append(g[i - 1], ps[i])]
           G == CHOOSE g : Eq(g)
           f == [k \in 0 .. n |-> Taken(k)]
<1>5. Eq(f)
  <2>1. \A i \in 0 .. n : f[i] = Taken(i)
    OBVIOUS
  <2>2. f = [i \in 0 .. n |-> f[i]]
    OBVIOUS
  <2> HIDE DEF f, Taken
  <2>3. \A i \in 0 .. n : f[i] =
          IF i = 0 THEN <<>> ELSE IF ps[i] = <<>> THEN f[i - 1] ELSE Append(f[i - 1], ps[i])
    <3>1. f[0] = <<>>
      BY <1>4, <2>1
    <3>2. \A i \in 1 .. n : f[i] = Append(f[i - 1], ps[i])
      <4>1. \A i \in 1 .. n : i - 1 \in 0 .. n /\ i \in 0 .. n
        OBVIOUS
      <4> QED
        BY <1>3, <2>1, <4>1
    <3>3. \A i \in 0 .. n : i = 0 \/ (i # 0 /\ i \in 1 .. n)
      OBVIOUS
    <3>4. \A i \in 0 .. n : i # 0 => ps[i] # <<>> /\ f[i] = Append(f[i - 1], ps[i])
      BY <3>2, <3>3
    <3> QED
      BY <3>1, <3>4
  <2> QED
    BY <1>0, <2>2, <2>3
<1>6. Eq(G)
  <2> HIDE DEF Eq, f
  <2> QED
    BY <1>5
<1>7. NonEmpty(ps) = G[n]
  BY <1>0 DEF NonEmpty
<1> HIDE DEF G, f, Taken
<1>8. G[0] = <<>> /\ \A i \in 1 .. n : G[i] = Append(G[i - 1], ps[i])
  <2>1. \A i \in 0 .. n : G[i] =
          IF i = 0 THEN <<>> ELSE IF ps[i] = <<>> THEN G[i - 1] ELSE Append(G[i - 1], ps[i])
    BY <1>0, <1>6
  <2>2. ASSUME NEW i \in 1 .. n PROVE G[i] = Append(G[i - 1], ps[i])
    <3>1. i \in 0 .. n /\ i # 0 /\ ps[i] # <<>>
      OBVIOUS
    <3> HIDE DEF Eq
    <3> QED
      BY <2>1, <3>1
  <2>3. G[0] = <<>>
    BY <2>1, 0 \in 0 .. n
  <2> QED
    BY <2>2, <2>3
<1> HIDE DEF Eq
<1> DEFINE E == {i \in Nat : i <= n => G[i] = Taken(i)}
<1>9. 0 \in E
  BY <1>4, <1>8
<1>10. ASSUME NEW i \in Nat, i \in E PROVE i + 1 \in E
  <2> SUFFICES ASSUME i + 1 <= n PROVE G[i + 1] = Taken(i + 1)
    OBVIOUS
  <2>1. PICK j \in 1 .. n : j = i + 1 /\ j - 1 = i
    OBVIOUS
  <2>2. G[j - 1] = Taken(j - 1)
    BY <1>10, <2>1
  <2> QED
    BY <1>3, <1>8, <2>1, <2>2
<1> HIDE DEF E
<1>11. n \in E
  <2>1. Nat \subseteq E
    BY <1>9, <1>10, Induction
  <2> QED
    BY <2>1
<1> QED
  BY <1>4, <1>7, <1>11 DEF E

\* The first field ends before the first comma.
LEMMA FirstFieldIs ==
  ASSUME NEW T \in String
  PROVE  /\ (\A i \in 1 .. Len(T) : T[i] # Comma) => FirstField(T) = T
         /\ \A k \in 1 .. Len(T) : T[k] = Comma /\ (\A i \in 1 .. k - 1 : T[i] # Comma)
              => FirstField(T) = SubSeq(T, 1, k - 1)
<1>1. PICK n \in Nat : n = Len(T) /\ DOMAIN T = 1 .. n
  BY LenProperties DEF String
<1> DEFINE commas == {i \in DOMAIN T : T[i] = Comma}
<1>2. FirstField(T) = IF commas = {} THEN T ELSE SubSeq(T, 1, Min(commas) - 1)
  BY DEF FirstField
<1>3. (\A i \in 1 .. n : T[i] # Comma) => commas = {}
  BY <1>1
<1>4. ASSUME NEW k \in 1 .. n, T[k] = Comma, \A i \in 1 .. k - 1 : T[i] # Comma
      PROVE  commas # {} /\ Min(commas) = k
  <2>1. k \in commas /\ commas \subseteq Int /\ \A i \in commas : k <= i
    <3>1. \A i \in commas : i \in 1 .. n /\ i \notin 1 .. k - 1
      BY <1>1, <1>4
    <3> QED
      BY <1>1, <1>4, <3>1
  <2> HIDE DEF commas
  <2>2. \A m \in commas : (\A i \in commas : m <= i) => m = k
    BY <2>1
  <2>3. PICK m : m = CHOOSE x \in commas : \A y \in commas : x <= y
    OBVIOUS
  <2>4. m \in commas /\ \A y \in commas : m <= y
    BY <2>1, <2>3
  <2> QED
    BY <2>1, <2>2, <2>3, <2>4 DEF Min
<1> HIDE DEF commas
<1> QED
  BY <1>1, <1>2, <1>3, <1>4

\* Both ends of w are no blanks.
Firm(w) == w # <<>> /\ w[1] \notin Blank /\ w[Len(w)] \notin Blank

\* A text that begins and ends with no blank is what is trimmed of blanks after it.
LEMMA TrimsTo ==
  ASSUME NEW R \in String, NEW w \in String, Firm(w), Stands(R, 0, w),
         \A i \in 1 .. Len(R) : i > Len(w) => R[i] \in Blank
  PROVE  Trim(R) = w
<1>1. PICK n \in Nat, l \in Nat : n = Len(w) /\ l = Len(R) /\ n # 0
  BY LenProperties, EmptySeq DEF String, Firm
<1>2. n <= l /\ \A j \in 1 .. n : R[j] = w[j]
  <2>1. 0 + n <= l /\ \A j \in 1 .. n : R[0 + j] = w[j]
    BY <1>1 DEF Stands
  <2>2. \A j \in 1 .. n : 0 + j = j
    OBVIOUS
  <2> QED
    BY <2>1, <2>2
<1>3. R[1] \notin Blank /\ R[n] \notin Blank
  <2>1. 1 \in 1 .. n /\ n \in 1 .. n
    BY <1>1
  <2> QED
    BY <1>1, <1>2, <2>1 DEF Firm
<1>4. Solid(R, 1, n)
  <2>1. \A i \in 1 .. l : i < 1 \/ i > n => R[i] \in Blank
    BY <1>1
  <2> QED
    BY <1>1, <1>2, <1>3, <2>1 DEF Solid
<1>5. Trim(R) = SubSeq(R, 1, n)
  BY <1>4, TrimIs DEF String
<1>6. \A i \in 1 .. l : R[i] \in Chars
  BY <1>1, ElementOfSeq DEF String
<1>7. PICK t \in Seq(Chars) : t = SubSeq(R, 1, n) /\ Len(t) = n /\ \A i \in 1 .. n : t[i] = R[i]
  <2>1. 1 \in Int /\ n \in Int /\ 1 <= n + 1 /\ \A i \in 1 .. n : R[i] \in Chars
    BY <1>1, <1>2, <1>6
  <2>2. /\ SubSeq(R, 1, n) \in Seq(Chars)
        /\ Len(SubSeq(R, 1, n)) = n - 1 + 1
        /\ \A i \in 1 .. n - 1 + 1 : SubSeq(R, 1, n)[i] = R[1 + i - 1]
    <3>1. 1 <= n
      BY <1>1
    <3> QED
      BY <2>1, <3>1, SubSeqProperties
  <2>3. n - 1 + 1 = n /\ \A i \in 1 .. n : 1 + i - 1 = i
    OBVIOUS
  <2> QED
    BY <2>2, <2>3
<1>8. t = w
  BY <1>1, <1>2, <1>7, SeqEqual DEF String
<1> QED
  BY <1>5, <1>7, <1>8

\* What trimming leaves as it is begins and ends with no blank.
LEMMA FirmNumber ==
  ASSUME NEW w \in String, w # <<>>, Trim(w) = w
  PROVE  Firm(w)
<1>1. PICK n \in Nat : n = Len(w)
  BY LenProperties DEF String
<1>2. PICK a, b : Solid(w, a, b) /\ Trim(w) = SubSeq(w, a, b)
  BY TrimCases DEF String
<1>3. a \in 1 .. n /\ b \in 1 .. n /\ a <= b /\ w[a] \notin Blank /\ w[b] \notin Blank
  BY <1>1, <1>2 DEF Solid
<1>4. Len(SubSeq(w, a, b)) = b - a + 1
  <2>1. \A i \in a .. b : w[i] \in Chars
    <3>1. \A i \in a .. b : i \in 1 .. n
      BY <1>3
    <3> QED
      BY <1>1, <3>1, ElementOfSeq DEF String
  <2> QED
    BY <1>3, <2>1, SubSeqProperties
<1>5. b - a + 1 = n
  BY <1>1, <1>2, <1>4
<1>6. a = 1 /\ b = n
  BY <1>3, <1>5
<1> QED
  BY <1>1, <1>3, <1>6 DEF Firm

\* Without the quotes at its ends a number, quoted or not, is the number.
LEMMA BareIs ==
  ASSUME NEW w \in String, w # <<>>, w[1] # Quote, w[Len(w)] # Quote
  PROVE  Bare(w) = w /\ Bare(<<Quote>> \o w \o <<Quote>>) = w
<1>1. PICK n \in Nat : n = Len(w) /\ n # 0 /\ w \in Seq(Chars)
  BY LenProperties, EmptySeq DEF String
<1>2. Bare(w) = w
  <2>1. Head(w) = w[1]
    BY <1>1, HeadTailProperties
  <2> QED
    BY <2>1 DEF Bare
<1>3. PICK o \in Seq(Chars) : o = <<Quote>> /\ Len(o) = 1 /\ o[1] = Quote
  <2>1. <<Quote>> \in Seq(Chars) /\ Len(<<Quote>>) = 1 /\ <<Quote>>[1] = Quote
    BY Characters
  <2> QED
    BY <2>1
<1>4. PICK d \in Seq(Chars) : /\ d = o \o w /\ Len(d) = 1 + n
                              /\ \A i \in 1 .. 1 + n : d[i] = IF i <= 1 THEN o[i] ELSE w[i - 1]
  <2>1. PICK d : d = o \o w
    OBVIOUS
  <2>2. /\ d \in Seq(Chars) /\ Len(d) = Len(o) + Len(w)
        /\ \A i \in 1 .. Len(o) + Len(w) : d[i] = IF i <= Len(o) THEN o[i] ELSE w[i - Len(o)]
    BY <1>1, <2>1, ConcatProperties
  <2> QED
    BY <1>1, <1>3, <2>1, <2>2
<1>5. PICK e \in Seq(Chars) : /\ e = d \o o /\ Len(e) = (1 + n) + 1
                              /\ \A i \in 1 .. (1 + n) + 1 : e[i] = IF i <= 1 + n THEN d[i] ELSE o[i - (1 + n)]
  <2>1. PICK e : e = d \o o
    OBVIOUS
  <2>2. /\ e \in Seq(Chars) /\ Len(e) = Len(d) + Len(o)
        /\ \A i \in 1 .. Len(d) + Len(o) : e[i] = IF i <= Len(d) THEN d[i] ELSE o[i - Len(d)]
    BY <2>1, ConcatProperties
  <2>3. Len(d) = 1 + n /\ Len(o) = 1
    BY <1>3, <1>4
  <2> QED
    BY <2>1, <2>2, <2>3
<1>6. /\ e # <<>> /\ e[1] = Quote /\ e[(1 + n) + 1] = Quote
      /\ \A i \in 1 .. n : e[i + 1] = w[i]
  <2>1. e # <<>>
    BY <1>5, EmptySeq
  <2>2. e[1] = Quote
    BY <1>3, <1>4, <1>5, 1 \in 1 .. (1 + n) + 1, 1 \in 1 .. 1 + n
  <2>3. e[(1 + n) + 1] = Quote
    <3>1. (1 + n) + 1 \in 1 .. (1 + n) + 1 /\ ~ ((1 + n) + 1 <= 1 + n) /\ ((1 + n) + 1) - (1 + n) = 1
      OBVIOUS
    <3> QED
      BY <1>3, <1>5, <3>1
  <2>4. ASSUME NEW i \in 1 .. n PROVE e[i + 1] = w[i]
    <3>1. i + 1 \in 1 .. (1 + n) + 1 /\ i + 1 <= 1 + n /\ i + 1 \in 1 .. 1 + n /\ ~ (i + 1 <= 1) /\ (i + 1) - 1 = i
      OBVIOUS
    <3> QED
      BY <1>4, <1>5, <3>1
  <2> QED
    BY <2>1, <2>2, <2>3, <2>4
<1>7. PICK t \in Seq(Chars) : /\ t = Tail(e) /\ Len(t) = n + 1
                              /\ \A i \in 1 .. n + 1 : t[i] = e[i + 1]
  <2>1. /\ Tail(e) \in Seq(Chars) /\ Len(Tail(e)) = Len(e) - 1
        /\ \A i \in 1 .. Len(Tail(e)) : Tail(e)[i] = e[i + 1]
    BY <1>6, HeadTailProperties
  <2>2. Len(e) - 1 = n + 1
    BY <1>5
  <2> QED
    BY <2>1, <2>2
<1>8. Head(e) = Quote
  BY <1>6, HeadTailProperties
<1>9. t # <<>> /\ t[n + 1] = Quote
  <2>1. n + 1 \in 1 .. n + 1 /\ (n + 1) + 1 = (1 + n) + 1 /\ n + 1 # 0
    OBVIOUS
  <2>2. t[n + 1] = e[(n + 1) + 1]
    BY <1>7, <2>1
  <2>3. t # <<>>
    BY <1>7, <2>1, EmptySeq
  <2> QED
    BY <1>6, <2>1, <2>2, <2>3
<1>10. PICK m \in Nat : m = Len(t) /\ m = n + 1 /\ m - 1 = n
  BY <1>7
<1>11. SubSeq(t, 1, n) = w
  <2>1. \A i \in 1 .. n : t[i] \in Chars
    BY <1>7, ElementOfSeq
  <2>2. /\ SubSeq(t, 1, n) \in Seq(Chars)
        /\ Len(SubSeq(t, 1, n)) = n
        /\ \A i \in 1 .. n : SubSeq(t, 1, n)[i] = t[i]
    <3>1. 1 \in Int /\ n \in Int /\ 1 <= n /\ n - 1 + 1 = n /\ \A i \in 1 .. n : 1 + i - 1 = i
      BY <1>1
    <3> QED
      BY <2>1, <3>1, SubSeqProperties
  <2>3. \A i \in 1 .. n : t[i] = w[i]
    <3>1. \A i \in 1 .. n : i \in 1 .. n + 1
      OBVIOUS
    <3> QED
      BY <1>6, <1>7, <3>1
  <2>4. PICK v \in Seq(Chars) : v = SubSeq(t, 1, n)
    BY <2>2
  <2> QED
    BY <1>1, <2>2, <2>3, <2>4, SeqEqual
<1>12. Bare(e) = w
  BY <1>6, <1>7, <1>8, <1>9, <1>10, <1>11 DEF Bare
<1> QED
  BY <1>2, <1>3, <1>4, <1>5, <1>12

\* A text w in the middle of a line X: blanks before and after it, then columns.
Framed(X, w, b, m, n) ==
  /\ b \in Nat /\ m \in Nat /\ n \in Nat
  /\ Stands(X, b, w) /\ Firm(w) /\ Lacks(w, {Comma})
  /\ \A i \in 1 .. b : X[i] \in Blank
  /\ \A i \in 1 .. m : X[b + Len(w) + i] \in Blank
  /\ Len(X) = b + Len(w) + m + n
  /\ n # 0 => X[b + Len(w) + m + 1] = Comma

\* The first field of a line that is trimmed, without its blanks, is what stands in front of the comma.
LEMMA FramedRead ==
  ASSUME NEW X \in String, NEW w \in String, NEW b, NEW m, NEW n, Framed(X, w, b, m, n)
  PROVE  Trim(X) # <<>> /\ Trim(FirstField(Trim(X))) = w
<1>1. PICK k \in Nat, l \in Nat : k = Len(w) /\ l = Len(X) /\ k # 0
  BY LenProperties, EmptySeq DEF String, Framed, Firm
<1>2. /\ b \in Nat /\ m \in Nat /\ n \in Nat
      /\ \A i \in 1 .. b : X[i] \in Blank
      /\ \A i \in 1 .. m : X[b + k + i] \in Blank
      /\ l = b + k + m + n
      /\ n # 0 => X[b + k + m + 1] = Comma
  BY <1>1 DEF Framed
<1>3. /\ \A j \in 1 .. k : X[b + j] = w[j] /\ w[j] # Comma
      /\ w[1] \notin Blank /\ w[k] \notin Blank /\ DOMAIN w = 1 .. k
  <2>1. DOMAIN w = 1 .. k
    BY <1>1, LenProperties DEF String
  <2> QED
    BY <1>1, <2>1 DEF Framed, Firm, Stands, Lacks
<1>4. X[b + 1] \notin Blank /\ X[b + k] \notin Blank
  <2>1. 1 \in 1 .. k /\ k \in 1 .. k
    BY <1>1
  <2> QED
    BY <1>3, <2>1
<1>5. Trim(X) # <<>>
  <2>1. b + 1 \in 1 .. l
    BY <1>1, <1>2
  <2> QED
    BY <1>1, <1>4, <2>1, TrimEmpty DEF String
<1>6. PICK x, y : Solid(X, x, y) /\ Trim(X) = SubSeq(X, x, y)
  BY <1>5, TrimCases DEF String
<1>7. /\ x \in 1 .. l /\ y \in 1 .. l /\ x <= y /\ X[x] \notin Blank /\ X[y] \notin Blank
      /\ \A i \in 1 .. l : i < x \/ i > y => X[i] \in Blank
  BY <1>1, <1>6 DEF Solid
<1>8. x = b + 1
  <2>1. ~ (x \in 1 .. b)
    BY <1>2, <1>7
  <2>2. b + 1 \in 1 .. l /\ ~ (b + 1 < x)
    BY <1>1, <1>2, <1>4, <1>7
  <2> QED
    BY <1>2, <1>7, <2>1, <2>2
<1>9. y >= b + k /\ (n = 0 => y = b + k) /\ (n # 0 => y >= b + k + m + 1)
  <2>1. b + k \in 1 .. l /\ ~ (b + k > y)
    BY <1>1, <1>2, <1>4, <1>7
  <2>2. ASSUME n = 0 PROVE y = b + k
    <3> SUFFICES ASSUME y # b + k PROVE FALSE
      OBVIOUS
    <3>1. y - (b + k) \in 1 .. m /\ b + k + (y - (b + k)) = y
      BY <1>2, <1>7, <2>1, <2>2
    <3> QED
      BY <1>2, <1>7, <3>1
  <2>3. ASSUME n # 0 PROVE y >= b + k + m + 1
    <3>1. b + k + m + 1 \in 1 .. l /\ X[b + k + m + 1] \notin Blank
      BY <1>1, <1>2, <2>3, Characters
    <3> QED
      BY <1>2, <1>7, <3>1
  <2> QED
    BY <1>2, <1>7, <2>1, <2>2, <2>3
<1>10. PICK z \in Nat : z = y - b
  BY <1>2, <1>9, <1>7
<1>11. PICK T \in String : T = Trim(X) /\ Len(T) = z /\ \A i \in 1 .. z : T[i] = X[b + i]
  <2>1. \A i \in x .. y : X[i] \in Chars
    <3>1. \A i \in x .. y : i \in 1 .. l
      BY <1>7
    <3> QED
      BY <1>1, <3>1, ElementOfSeq DEF String
  <2>2. PICK U : U = SubSeq(X, x, y)
    OBVIOUS
  <2>3. U \in Seq(Chars) /\ Len(U) = y - x + 1 /\ \A i \in 1 .. y - x + 1 : U[i] = X[x + i - 1]
    <3>1. x \in Int /\ y \in Int /\ x <= y
      BY <1>7
    <3> QED
      BY <2>1, <2>2, <3>1, SubSeqProperties
  <2>4. y - x + 1 = z /\ \A i \in 1 .. z : x + i - 1 = b + i
    BY <1>2, <1>7, <1>8, <1>10
  <2>5. Len(U) = z /\ \A i \in 1 .. z : U[i] = X[b + i]
    BY <2>3, <2>4
  <2> QED
    BY <1>6, <2>2, <2>3, <2>5 DEF String
<1>12. k <= z /\ (n = 0 => z = k) /\ (n # 0 => z >= k + m + 1)
  BY <1>2, <1>7, <1>9, <1>10
<1>13. \A i \in 1 .. k : T[i] = w[i] /\ T[i] # Comma
  <2>1. \A i \in 1 .. k : i \in 1 .. z
    BY <1>12
  <2> QED
    BY <1>3, <1>11, <2>1
\* What is before the first comma begins with w.
<1>14. ASSUME NEW R \in String, k <= Len(R), \A i \in 1 .. k : R[i] = T[i],
              \A i \in 1 .. Len(R) : i > k => R[i] \in Blank
       PROVE  Trim(R) = w
  <2>1. \A j \in 1 .. k : R[0 + j] = w[j]
    <3>1. \A j \in 1 .. k : 0 + j = j
      OBVIOUS
    <3> QED
      BY <1>13, <1>14, <3>1
  <2>2. 0 + k <= Len(R)
    BY <1>14
  <2>3. Stands(R, 0, w)
    BY <1>1, <2>1, <2>2 DEF Stands
  <2>4. Firm(w)
    BY DEF Framed
  <2> QED
    BY <1>1, <1>14, <2>3, <2>4, TrimsTo
<1>15. CASE n = 0
  <2>1. z = k /\ FirstField(T) = T
    BY <1>11, <1>12, <1>13, <1>15, FirstFieldIs
  <2>2. Trim(T) = w
    BY <1>11, <1>14, <2>1
  <2> QED
    BY <1>5, <1>11, <2>1, <2>2
<1>16. CASE n # 0
  <2>1. PICK c \in 1 .. z : c = k + m + 1 /\ c - 1 = k + m
    BY <1>2, <1>12, <1>16
  <2>2. T[c] = Comma
    <3>1. b + c = b + k + m + 1
      BY <1>2, <2>1
    <3> QED
      BY <1>2, <1>11, <1>16, <2>1, <3>1
  <2>3. \A i \in 1 .. c - 1 : i > k => T[i] \in Blank
    <3> SUFFICES ASSUME NEW i \in 1 .. c - 1, i > k PROVE T[i] \in Blank
      OBVIOUS
    <3>1. PICK j \in 1 .. m : i = k + j
      BY <1>2, <2>1, i - k \in 1 .. m
    <3>2. i \in 1 .. z /\ b + i = b + k + j
      BY <1>2, <2>1, <3>1
    <3> QED
      BY <1>2, <1>11, <3>1, <3>2
  <2>4. \A i \in 1 .. c - 1 : T[i] # Comma
    <3>1. \A i \in 1 .. c - 1 : i \in 1 .. k \/ i > k
      OBVIOUS
    <3> QED
      BY <1>13, <2>3, <3>1, Characters
  <2>5. FirstField(T) = SubSeq(T, 1, c - 1)
    BY <1>11, <2>2, <2>4, FirstFieldIs
  <2>6. PICK R \in String : /\ R = SubSeq(T, 1, c - 1) /\ Len(R) = c - 1
                            /\ \A i \in 1 .. c - 1 : R[i] = T[i]
    <3>1. \A i \in 1 .. c - 1 : T[i] \in Chars
      <4>1. \A i \in 1 .. c - 1 : i \in 1 .. z
        OBVIOUS
      <4> QED
        BY <1>11, <4>1, ElementOfSeq DEF String
    <3>2. 1 \in Int /\ c - 1 \in Int /\ 1 <= c - 1 /\ (c - 1) - 1 + 1 = c - 1 /\ \A i \in 1 .. c - 1 : 1 + i - 1 = i
      BY <1>1, <1>2, <2>1
    <3>3. /\ SubSeq(T, 1, c - 1) \in Seq(Chars)
          /\ Len(SubSeq(T, 1, c - 1)) = (c - 1) - 1 + 1
          /\ \A i \in 1 .. (c - 1) - 1 + 1 : SubSeq(T, 1, c - 1)[i] = T[1 + i - 1]
      BY <3>1, <3>2, SubSeqProperties
    <3> QED
      BY <3>2, <3>3 DEF String
  <2>7. k <= c - 1 /\ \A i \in 1 .. k : i \in 1 .. c - 1
    BY <1>2, <2>1
  <2>8. Trim(R) = w
    BY <1>14, <2>3, <2>6, <2>7
  <2> QED
    BY <1>5, <1>11, <2>5, <2>6, <2>8
<1> QED
  BY <1>15, <1>16

\* The number of a line with its quotes is firm and holds no comma and no end of line.
LEMMA QuotedIs ==
  ASSUME NEW l \in NumberLines
  PROVE  /\ l.number \in String /\ l.number # <<>>
         /\ Quoted(l) \in String /\ Firm(Quoted(l)) /\ Lacks(Quoted(l), {Comma, Newline})
         /\ Bare(Quoted(l)) = l.number
<1>1. PICK w \in String : w = l.number
  BY DEF NumberLines
<1>2. /\ w # <<>> /\ Trim(w) = w /\ Lacks(w, {Comma, Newline})
      /\ w[1] # Quote /\ w[Len(w)] # Quote
  BY <1>1 DEF NumberLines
<1>3. PICK n \in Nat : n = Len(w) /\ n # 0 /\ w \in Seq(Chars) /\ \A i \in 1 .. n : w[i] # Comma /\ w[i] # Newline
  <2>1. DOMAIN w = 1 .. Len(w)
    BY LenProperties DEF String
  <2> QED
    BY <1>2, <2>1, LenProperties, EmptySeq DEF String, Lacks
<1>4. Firm(w)
  BY <1>2, FirmNumber
<1>5. PICK Q : Q = Quoted(l)
  OBVIOUS
<1>6. CASE Q = w
  BY <1>1, <1>2, <1>4, <1>5, <1>6, BareIs
<1>7. CASE Q = <<Quote>> \o w \o <<Quote>>
  <2>1. PICK o \in Seq(Chars) : o = <<Quote>> /\ Len(o) = 1 /\ o[1] = Quote
    <3>1. <<Quote>> \in Seq(Chars) /\ Len(<<Quote>>) = 1 /\ <<Quote>>[1] = Quote
      BY Characters
    <3> QED
      BY <3>1
  <2>2. PICK d \in Seq(Chars) : /\ d = o \o w /\ Len(d) = 1 + n
                                /\ \A i \in 1 .. 1 + n : d[i] = IF i <= 1 THEN o[i] ELSE w[i - 1]
    <3>1. PICK d : d = o \o w
      OBVIOUS
    <3>2. /\ d \in Seq(Chars) /\ Len(d) = Len(o) + Len(w)
          /\ \A i \in 1 .. Len(o) + Len(w) : d[i] = IF i <= Len(o) THEN o[i] ELSE w[i - Len(o)]
      BY <1>3, <3>1, ConcatProperties
    <3> QED
      BY <1>3, <2>1, <3>1, <3>2
  <2>3. /\ Q \in Seq(Chars) /\ Len(Q) = (1 + n) + 1
        /\ \A i \in 1 .. (1 + n) + 1 : Q[i] = IF i <= 1 + n THEN d[i] ELSE o[i - (1 + n)]
    <3>1. Q = d \o o
      BY <1>7, <2>1, <2>2
    <3>2. /\ Q \in Seq(Chars) /\ Len(Q) = Len(d) + Len(o)
          /\ \A i \in 1 .. Len(d) + Len(o) : Q[i] = IF i <= Len(d) THEN d[i] ELSE o[i - Len(d)]
      BY <3>1, ConcatProperties
    <3>3. Len(d) = 1 + n /\ Len(o) = 1
      BY <2>1, <2>2
    <3> QED
      BY <3>2, <3>3
  <2>4. ASSUME NEW i \in 1 .. (1 + n) + 1
        PROVE  /\ i = 1 \/ i = (1 + n) + 1 => Q[i] = Quote
               /\ Q[i] # Comma /\ Q[i] # Newline
    <3>1. CASE i = 1
      <4>1. Q[i] = Quote
        BY <2>1, <2>2, <2>3, <3>1, 1 \in 1 .. 1 + n
      <4> QED
        BY <4>1, Characters
    <3>2. CASE i = (1 + n) + 1
      <4>1. Q[i] = Quote
        BY <2>1, <2>3, <3>2, ~ (i <= 1 + n), i - (1 + n) = 1
      <4> QED
        BY <4>1, Characters
    <3>3. CASE i # 1 /\ i # (1 + n) + 1
      <4>1. PICK j \in 1 .. n : j = i - 1
        BY <3>3
      <4>2. i <= 1 + n /\ i \in 1 .. 1 + n /\ ~ (i <= 1)
        BY <3>3
      <4>3. Q[i] = w[j]
        BY <2>2, <2>3, <4>1, <4>2
      <4> QED
        BY <1>3, <3>3, <4>3
    <3> QED
      BY <3>1, <3>2, <3>3
  <2>5. Q # <<>> /\ DOMAIN Q = 1 .. (1 + n) + 1
    BY <2>3, EmptySeq, LenProperties
  <2>6. Firm(Q)
    <3>1. 1 \in 1 .. (1 + n) + 1 /\ (1 + n) + 1 \in 1 .. (1 + n) + 1
      OBVIOUS
    <3>2. Q[1] = Quote /\ Q[Len(Q)] = Quote
      BY <2>3, <2>4, <3>1
    <3> QED
      BY <2>5, <3>2, Characters DEF Firm
  <2>7. Lacks(Q, {Comma, Newline})
    BY <2>4, <2>5 DEF Lacks
  <2>8. Bare(Q) = w
    BY <1>2, <1>7, BareIs
  <2> QED
    BY <1>1, <1>2, <1>5, <2>3, <2>6, <2>7, <2>8 DEF String
<1> QED
  BY <1>1, <1>5, <1>6, <1>7 DEF Quoted

\* A line of a file of numbers gives its number.
LEMMA LineIs ==
  ASSUME NEW l \in NumberLines
  PROVE  /\ LineOf(l) \in String /\ Lacks(LineOf(l), {Newline}) /\ Trim(LineOf(l)) # <<>>
         /\ Bare(Trim(FirstField(Trim(LineOf(l))))) = l.number
<1>1. PICK B \in Seq(Blank \ {Newline}), A \in Seq(Blank \ {Newline}), c \in String :
        B = l.before /\ A = l.after /\ c = l.columns
  BY DEF NumberLines
<1>2. PICK Q \in String : Q = Quoted(l) /\ Firm(Q) /\ Lacks(Q, {Comma, Newline}) /\ Bare(Q) = l.number
  BY QuotedIs
<1>3. c # <<>> => c[1] = Comma /\ Lacks(c, {Newline})
  BY <1>1 DEF NumberLines
<1>4. B \in Seq(Chars) /\ A \in Seq(Chars) /\ c \in Seq(Chars) /\ Q \in Seq(Chars)
  <2>1. Blank \ {Newline} \subseteq Chars
    BY Characters
  <2> QED
    BY <2>1, SeqMonotonic DEF String
<1>5. PICK b \in Nat, m \in Nat, n \in Nat, k \in Nat : b = Len(B) /\ m = Len(A) /\ n = Len(c) /\ k = Len(Q)
  BY <1>4, LenProperties
<1>6. /\ \A i \in 1 .. b : B[i] \in Blank /\ B[i] # Newline
      /\ \A i \in 1 .. m : A[i] \in Blank /\ A[i] # Newline
      /\ \A i \in 1 .. n : c[i] # Newline
      /\ \A i \in 1 .. k : Q[i] # Newline
      /\ n # 0 => c[1] = Comma
  <2>1. DOMAIN c = 1 .. n /\ DOMAIN Q = 1 .. k
    BY <1>4, <1>5, LenProperties
  <2>2. (\A i \in 1 .. b : B[i] \in Blank \ {Newline}) /\ \A i \in 1 .. m : A[i] \in Blank \ {Newline}
    BY <1>5, ElementOfSeq
  <2>3. n # 0 => c # <<>>
    BY <1>5, EmptySeq
  <2>4. n = 0 => 1 .. n = {}
    BY <1>5
  <2>5. \A i \in 1 .. n : c[i] # Newline
    BY <1>3, <2>1, <2>3, <2>4 DEF Lacks
  <2>6. \A i \in 1 .. k : Q[i] # Newline
    BY <1>2, <2>1 DEF Lacks
  <2> QED
    BY <1>3, <2>2, <2>3, <2>5, <2>6
<1>7. PICK x \in Seq(Chars) : x = B \o Q /\ Len(x) = b + k
  BY <1>4, <1>5, ConcatProperties
<1>8. PICK y \in Seq(Chars) : y = x \o A /\ Len(y) = b + k + m
  <2>1. x \o A \in Seq(Chars) /\ Len(x \o A) = Len(x) + Len(A)
    BY <1>4, ConcatProperties
  <2> QED
    BY <1>5, <1>7, <2>1
<1>9. PICK X \in Seq(Chars) : X = y \o c /\ Len(X) = b + k + m + n
  <2>1. y \o c \in Seq(Chars) /\ Len(y \o c) = Len(y) + Len(c)
    BY <1>4, ConcatProperties
  <2> QED
    BY <1>5, <1>8, <2>1
<1>10. X = LineOf(l)
  BY <1>1, <1>2, <1>7, <1>8, <1>9 DEF LineOf
<1>11. Stands(X, 0, B) /\ Stands(X, b, Q) /\ Stands(X, b + k, A) /\ Stands(X, b + k + m, c)
  <2>1. Stands(X, 0, X)
    BY <1>9 DEF Stands
  <2>2. Stands(X, 0, y) /\ Stands(X, 0 + Len(y), c)
    BY <1>4, <1>9, <2>1, StandsConcat
  <2>3. Stands(X, 0, x) /\ Stands(X, 0 + Len(x), A)
    BY <1>4, <1>8, <2>2, StandsConcat
  <2>4. Stands(X, 0, B) /\ Stands(X, 0 + Len(B), Q)
    BY <1>4, <1>7, <2>3, StandsConcat
  <2>5. 0 + Len(y) = b + k + m /\ 0 + Len(x) = b + k /\ 0 + Len(B) = b
    BY <1>5, <1>7, <1>8
  <2> QED
    BY <2>2, <2>3, <2>4, <2>5
<1>12. /\ \A j \in 1 .. b : X[j] = B[j]
       /\ \A j \in 1 .. k : X[b + j] = Q[j]
       /\ \A j \in 1 .. m : X[b + k + j] = A[j]
       /\ \A j \in 1 .. n : X[b + k + m + j] = c[j]
  <2>1. \A j \in 1 .. b : X[0 + j] = B[j] /\ 0 + j = j
    BY <1>5, <1>11 DEF Stands
  <2> QED
    BY <1>5, <1>11, <2>1 DEF Stands
<1>13. Framed(X, Q, b, m, n)
  <2>1. \A i \in 1 .. b : X[i] \in Blank
    BY <1>6, <1>12
  <2>2. \A i \in 1 .. m : X[b + k + i] \in Blank
    BY <1>6, <1>12
  <2>3. n # 0 => X[b + k + m + 1] = Comma
    BY <1>6, <1>12
  <2>4. Lacks(Q, {Comma})
    BY <1>2 DEF Lacks
  <2> QED
    BY <1>2, <1>5, <1>9, <1>11, <2>1, <2>2, <2>3, <2>4 DEF Framed
<1>14. Trim(X) # <<>> /\ Trim(FirstField(Trim(X))) = Q
  BY <1>13, FramedRead DEF String
<1>15. Lacks(X, {Newline})
  <2>1. ASSUME NEW i \in 1 .. b + k + m + n PROVE X[i] # Newline
    <3>1. \/ i \in 1 .. b
          \/ i - b \in 1 .. k /\ b + (i - b) = i
          \/ i - (b + k) \in 1 .. m /\ b + k + (i - (b + k)) = i
          \/ i - (b + k + m) \in 1 .. n /\ b + k + m + (i - (b + k + m)) = i
      OBVIOUS
    <3>2. /\ \A j \in 1 .. b : X[j] # Newline
          /\ \A j \in 1 .. k : X[b + j] # Newline
          /\ \A j \in 1 .. m : X[b + k + j] # Newline
          /\ \A j \in 1 .. n : X[b + k + m + j] # Newline
      BY <1>6, <1>12
    <3> QED
      BY <3>1, <3>2
  <2>2. DOMAIN X = 1 .. b + k + m + n
    BY <1>9, LenProperties
  <2> QED
    BY <2>1, <2>2 DEF Lacks
<1> QED
  BY <1>2, <1>10, <1>14, <1>15 DEF String

\* A file of numbers gives its numbers.
LEMMA UploadRead ==
  ASSUME NEW u \in UploadTexts
  PROVE  ParseNumbersFromText(UploadOf(u)) = [i \in DOMAIN u.lines |-> u.lines[i].number]
<1>1. PICK ls \in Seq(NumberLines) : ls = u.lines
  BY DEF UploadTexts
<1>2. PICK n \in Nat : n = Len(ls) /\ DOMAIN ls = 1 .. n /\ \A i \in 1 .. n : ls[i] \in NumberLines
  BY LenProperties, ElementOfSeq
<1>3. PICK w \in [1 .. n -> String] : \A i \in 1 .. n : w[i] = LineOf(ls[i])
  <2>1. \A i \in 1 .. n : LineOf(ls[i]) \in String
    BY <1>2, LineIs
  <2>2. [i \in 1 .. n |-> LineOf(ls[i])] \in [1 .. n -> String]
    BY <2>1
  <2> QED
    BY <2>2
<1>4. PICK e \in [1 .. n -> Seq(Blank)] : \A i \in 1 .. n : e[i] = ls[i].gap
  <2>1. \A i \in 1 .. n : ls[i].gap \in Seq(Blank)
    BY <1>2 DEF NumberLines
  <2>2. [i \in 1 .. n |-> ls[i].gap] \in [1 .. n -> Seq(Blank)]
    BY <2>1
  <2> QED
    BY <2>2
<1>5. PICK L : L = Strung(n, w, e)
  OBVIOUS
<1>6. UploadOf(u) = L
  <2>1. [i \in DOMAIN ls |-> LineOf(ls[i]) \o ls[i].gap] = [i \in 1 .. n |-> w[i] \o e[i]]
    BY <1>2, <1>3, <1>4
  <2> QED
    BY <1>1, <1>5, <2>1 DEF UploadOf, Strung
<1>7. L \in String
  BY <1>5, LinedUp
<1>8. PICK q \in [0 .. n -> Nat] : Placed(L, w, e, q, n)
  BY <1>5, LinedUp
<1>9. Lined(L, w, e, q, n)
  <2>1. ASSUME NEW k \in 1 .. n
        PROVE  /\ Lacks(w[k], {Newline}) /\ Trim(w[k]) # <<>>
               /\ IsGap(e[k], {Newline}) /\ (k < n => e[k] # <<>>)
    <3>1. PICK l \in NumberLines : l = ls[k]
      BY <1>2
    <3>2. w[k] = LineOf(l) /\ e[k] = l.gap
      BY <1>3, <1>4, <3>1
    <3>3. IsGap(l.gap, {Newline})
      BY DEF NumberLines
    <3>4. k < n => l.gap # <<>>
      BY <1>1, <1>2, <3>1 DEF UploadTexts
    <3>5. Lacks(LineOf(l), {Newline}) /\ Trim(LineOf(l)) # <<>>
      BY LineIs
    <3> QED
      BY <3>2, <3>3, <3>4, <3>5
  <2> QED
    BY <1>8, <2>1 DEF Lined
<1>10. Lines(L) = w
  BY <1>7, <1>9, LinesRead
<1> DEFINE ns == [i \in 1 .. n |-> ls[i].number]
<1>11. ns \in [1 .. n -> String] /\ \A i \in 1 .. n : ns[i] = ls[i].number /\ ns[i] # <<>>
  <2>1. \A i \in 1 .. n : ls[i].number \in String /\ ls[i].number # <<>>
    BY <1>2, QuotedIs
  <2> QED
    BY <2>1
<1>12. Map(LAMBDA l : Bare(Trim(FirstField(Trim(l)))), w) = ns
  <2>1. \A i \in 1 .. n : Bare(Trim(FirstField(Trim(w[i])))) = ls[i].number
    <3> SUFFICES ASSUME NEW i \in 1 .. n PROVE Bare(Trim(FirstField(Trim(w[i])))) = ls[i].number
      OBVIOUS
    <3>1. PICK l \in NumberLines : l = ls[i]
      BY <1>2
    <3> QED
      BY <1>3, <3>1, LineIs
  <2>2. DOMAIN w = 1 .. n
    OBVIOUS
  <2> QED
    BY <2>1, <2>2 DEF Map
<1> HIDE DEF ns
<1>13. NonEmpty(ns) = ns
  BY <1>11, NonEmptyIs
<1>14. ParseNumbersFromText(L) = ns
  BY <1>10, <1>12, <1>13 DEF ParseNumbersFromText
<1> QED
  BY <1>1, <1>2, <1>6, <1>14 DEF ns

-----------------------------------------------------------------------------
(* Any sample *)

\* The kind of a sample says which it is.
LEMMA SampleKinds ==
  ASSUME sample \in AnySample
  PROVE  /\ sample.kind = "row" => sample \in RowTexts
         /\ sample.kind = "file" => sample \in FileTexts
         /\ sample.kind = "upload" => sample \in UploadTexts
         /\ sample.kind = "ranges" => sample \in RangeTexts
         /\ sample.kind = "codes" => sample \in CodeTexts
         /\ sample.kind = "bytes" => sample \in ByteTexts
<1>1. PICK x : x = sample
  OBVIOUS
<1>2. /\ x \in RowTexts => x.kind = "row"
      /\ x \in CodeTexts => x.kind = "codes"
      /\ x \in ByteTexts => x.kind = "bytes"
  BY DEF RowTexts, CodeTexts, ByteTexts
<1>3. /\ x \in FileTexts => x.kind = "file"
      /\ x \in UploadTexts => x.kind = "upload"
      /\ x \in RangeTexts => x.kind = "ranges"
  BY DEF FileTexts, UploadTexts, RangeTexts
<1> QED
  BY <1>1, <1>2, <1>3 DEF AnySample

\* RowsReadBack, of rows and files of any length: what the worker writes of any fields
\* is what the parser of the loader reads (worker.ts 27-34, csv.ts 1-54).
THEOREM RowsAreReadBack == sample \in AnySample => RowsReadBack
<1> SUFFICES ASSUME sample \in AnySample PROVE RowsReadBack
  OBVIOUS
<1>1. PICK x : x = sample
  OBVIOUS
<1>2. ASSUME x.kind = "row"
      PROVE  ParseLine(ResponseToCSVRow(x.fields)) = Map(Trim, x.fields)
  <2>1. x \in RowTexts
    BY <1>1, <1>2, SampleKinds
  <2>2. x.fields \in Fields
    BY <2>1 DEF RowTexts
  <2> QED
    BY <2>2, RowRead
<1>3. ASSUME x.kind = "file"
      PROVE  ParseCSV(FileOf(x)) =
               [j \in 1 .. Len(x.rows) - 1 |->
                  [i \in DOMAIN x.rows[1] |->
                     IF i \in DOMAIN x.rows[j + 1] THEN Trim(x.rows[j + 1][i]) ELSE <<>>]]
  <2>1. x \in FileTexts
    BY <1>1, <1>3, SampleKinds
  <2> QED
    BY <2>1, FileRead
<1> QED
  BY <1>1, <1>2, <1>3 DEF RowsReadBack

\* UploadReadsNumbers, of files of any length: the numbers of an upload are read, all of
\* them and no other, in their order (lookup.ts 147-158).
THEOREM UploadsAreRead == sample \in AnySample => UploadReadsNumbers
<1> SUFFICES ASSUME sample \in AnySample, sample.kind = "upload"
             PROVE  ParseNumbersFromText(UploadOf(sample)) = [i \in DOMAIN sample.lines |-> sample.lines[i].number]
  BY DEF UploadReadsNumbers
<1>1. PICK x \in UploadTexts : x = sample
  BY SampleKinds
<1> QED
  BY <1>1, UploadRead

\* PrefixFindsCarrier, of tables and numbers of any length: the longest prefix is that of
\* the smallest range or of the last row (ofcom.ts 39-93, nanpa.ts 55-81, carrierRepo.ts 4-32).
THEOREM CarrierIsFound == sample \in AnySample => PrefixFindsCarrier
<1> SUFFICES ASSUME sample \in AnySample PROVE PrefixFindsCarrier
  OBVIOUS
<1>1. ASSUME sample.kind = "ranges" PROVE PrefixFindsRange(sample)
  <2>1. PICK x \in RangeTexts : x = sample
    BY <1>1, SampleKinds
  <2> QED
    BY <2>1, RangesFound
<1>2. ASSUME sample.kind = "codes" PROVE PrefixFindsCodes(sample)
  <2>1. PICK x \in CodeTexts : x = sample
    BY <1>2, SampleKinds
  <2> QED
    BY <2>1, CodesFound
<1> QED
  BY <1>1, <1>2 DEF PrefixFindsCarrier

\* KeyIsItsBytes, of keys of any length and of words of any width that hold a byte and
\* what a letter may leave over: no bit of a key is lost in the word (apiKey.ts 8-24).
THEOREM KeyIsBytes == sample \in AnySample => KeyIsItsBytes
<1> SUFFICES ASSUME sample \in AnySample, sample.kind = "bytes" PROVE KeyIsItsBytes
  BY DEF KeyIsItsBytes
<1>1. PICK x : x = sample.bytes
  OBVIOUS
<1>2. x \in Seq(Bytes)
  BY <1>1, SampleKinds DEF ByteTexts
<1> QED
  BY <1>1, <1>2, KeyLetters DEF KeyIsItsBytes
=============================================================================
