----------------------------- MODULE TextProofs -----------------------------
(***************************************************************************)
(* Proofs about texts, for every set of them: the check of a segment of a  *)
(* media target, for any number of rounds, the reading of the segment      *)
(* after /@, and the Referer suffix.  Passes over a text and its layers    *)
(* are recursive functions, so their equations are proved first, by        *)
(* induction over sets of numbers (CutLemmas).                             *)
(***************************************************************************)
EXTENDS SegmentCheck, FeedPaths, RefererSuffix, CutLemmas

-----------------------------------------------------------------------------
(* The layers of a segment *)

\* The first k layers below s, by the equation that defines Layer(s).
LayersTo(s, k, f) ==
    f = [n \in 0 .. k |-> IF n = 0 THEN s ELSE decode_valid_escapes(f[n - 1])]

LEMMA LayersExist ==
    ASSUME NEW s, NEW k \in Nat
    PROVE  \E f : LayersTo(s, k, f)
<1> DEFINE S == {n \in Nat : \E f : LayersTo(s, n, f)}
<1>1. 0 \in S
  <2> DEFINE f == [n \in 0 .. 0 |-> s]
  <2>1. LayersTo(s, 0, f)
    BY DEF LayersTo
  <2> QED
    BY <2>1
<1>2. ASSUME NEW n \in S PROVE n + 1 \in S
  <2>1. PICK f : LayersTo(s, n, f)
    BY <1>2
  <2> DEFINE g == [m \in 0 .. n + 1 |-> IF m = n + 1
                       THEN decode_valid_escapes(f[n]) ELSE f[m]]
  <2>2. n \in Nat /\ g = [m \in 0 .. n + 1 |-> g[m]]
    OBVIOUS
  <2>3. ASSUME NEW m \in 0 .. n + 1
        PROVE  g[m] = IF m = 0 THEN s ELSE decode_valid_escapes(g[m - 1])
    <3>1. CASE m = 0
      BY <2>1, <2>2, <3>1 DEF LayersTo
    <3>2. CASE m # 0 /\ m # n + 1
      <4>1. m \in 0 .. n /\ m - 1 \in 0 .. n + 1 /\ m - 1 # n + 1
        BY <2>2, <3>2
      <4>2. g[m] = f[m] /\ g[m - 1] = f[m - 1]
        BY <3>2, <4>1
      <4>3. f[m] = decode_valid_escapes(f[m - 1])
        BY <2>1, <3>2, <4>1 DEF LayersTo
      <4> QED
        BY <3>2, <4>2, <4>3
    <3>3. CASE m = n + 1
      <4>1. m # 0 /\ m - 1 = n /\ n \in 0 .. n + 1 /\ n # n + 1
        BY <2>2, <3>3
      <4>2. g[m] = decode_valid_escapes(f[n]) /\ g[m - 1] = f[n]
        BY <3>3, <4>1
      <4> QED
        BY <4>1, <4>2
    <3> QED
      BY <3>1, <3>2, <3>3
  <2>4. LayersTo(s, n + 1, g)
    <3> HIDE DEF g
    <3> QED
      BY <2>2, <2>3 DEF LayersTo
  <2> QED
    BY <2>2, <2>4
<1> HIDE DEF S
<1>3. S \in SUBSET Nat
  BY DEF S
<1>4. S = Nat
  BY <1>1, <1>2, <1>3, SetInduction
<1> QED
  BY <1>4 DEF S

\* The layer below n is what one more round makes of it.
LEMMA LayerByLayer ==
    ASSUME NEW s
    PROVE  /\ Layer(s)[0] = s
           /\ \A n \in 0 .. MAX_DECODE_ROUNDS - 1 :
                 Layer(s)[n + 1] = decode_valid_escapes(Layer(s)[n])
<1>1. Layer(s) = CHOOSE f : LayersTo(s, MAX_DECODE_ROUNDS, f)
  BY DEF Layer, LayersTo, decode_valid_escapes
<1>2. LayersTo(s, MAX_DECODE_ROUNDS, Layer(s))
  BY <1>1, LayersExist, RoundsAssumption
<1> DEFINE f == Layer(s)
<1>3. LayersTo(s, MAX_DECODE_ROUNDS, f) /\ MAX_DECODE_ROUNDS \in Nat
  BY <1>2, RoundsAssumption
<1> HIDE DEF f
<1>4. f[0] = s
  BY <1>3 DEF LayersTo
<1>5. ASSUME NEW n \in 0 .. MAX_DECODE_ROUNDS - 1
      PROVE  f[n + 1] = decode_valid_escapes(f[n])
  <2>1. n + 1 \in 0 .. MAX_DECODE_ROUNDS /\ n + 1 # 0 /\ n + 1 - 1 = n
    BY <1>3
  <2> QED
    BY <1>3, <2>1 DEF LayersTo
<1> QED
  BY <1>4, <1>5 DEF f

-----------------------------------------------------------------------------
(* One pass of decoding *)

Digits(E) == {i + 1 : i \in E} \cup {i + 2 : i \in E}
Written(s, E, i) == IF i \in E THEN Escaped(s, i) ELSE s[i]

\* The first k steps of a pass over s, by the equation that defines DecodeAt.
ScannedTo(s, E, k, f) ==
    f = [i \in 0 .. k |->
            IF i = 0 THEN << >>
            ELSE IF i \in Digits(E) THEN f[i - 1]
            ELSE Append(f[i - 1], Written(s, E, i))]

LEMMA ScansExist ==
    ASSUME NEW s, NEW E, NEW k \in Nat
    PROVE  \E f : ScannedTo(s, E, k, f)
<1> DEFINE S == {n \in Nat : \E f : ScannedTo(s, E, n, f)}
<1>1. 0 \in S
  <2> DEFINE f == [n \in 0 .. 0 |-> << >>]
  <2>1. ScannedTo(s, E, 0, f)
    BY DEF ScannedTo
  <2> QED
    BY <2>1
<1>2. ASSUME NEW n \in S PROVE n + 1 \in S
  <2>1. PICK f : ScannedTo(s, E, n, f)
    BY <1>2
  <2> DEFINE g == [m \in 0 .. n + 1 |->
                       IF m = n + 1
                       THEN IF m \in Digits(E) THEN f[n]
                            ELSE Append(f[n], Written(s, E, m))
                       ELSE f[m]]
  <2>2. n \in Nat /\ g = [m \in 0 .. n + 1 |-> g[m]]
    OBVIOUS
  <2>3. ASSUME NEW m \in 0 .. n + 1
        PROVE  g[m] = IF m = 0 THEN << >>
                      ELSE IF m \in Digits(E) THEN g[m - 1]
                      ELSE Append(g[m - 1], Written(s, E, m))
    <3>1. CASE m = 0
      BY <2>1, <2>2, <3>1 DEF ScannedTo
    <3>2. CASE m # 0 /\ m # n + 1
      <4>1. m \in 0 .. n /\ m - 1 \in 0 .. n + 1 /\ m - 1 # n + 1
        BY <2>2, <3>2
      <4>2. g[m] = f[m] /\ g[m - 1] = f[m - 1]
        BY <3>2, <4>1
      <4>3. f[m] = IF m \in Digits(E) THEN f[m - 1]
                   ELSE Append(f[m - 1], Written(s, E, m))
        BY <2>1, <3>2, <4>1 DEF ScannedTo
      <4> QED
        BY <3>2, <4>2, <4>3
    <3>3. CASE m = n + 1
      <4>1. m # 0 /\ m - 1 = n /\ n \in 0 .. n + 1 /\ n # n + 1
        BY <2>2, <3>3
      <4>2. g[m] = (IF m \in Digits(E) THEN f[n]
                    ELSE Append(f[n], Written(s, E, m))) /\ g[m - 1] = f[n]
        BY <3>3, <4>1
      <4> QED
        BY <4>1, <4>2
    <3> QED
      BY <3>1, <3>2, <3>3
  <2>4. ScannedTo(s, E, n + 1, g)
    <3> HIDE DEF g
    <3> QED
      BY <2>2, <2>3 DEF ScannedTo
  <2> QED
    BY <2>2, <2>4
<1> HIDE DEF S
<1>3. S \in SUBSET Nat
  BY DEF S
<1>4. S = Nat
  BY <1>1, <1>2, <1>3, SetInduction
<1> QED
  BY <1>4 DEF S

\* The pass over s that decodes at E: what is written after each byte.
Pass(s, E) == CHOOSE f : ScannedTo(s, E, Len(s), f)

LEMMA PassOf ==
    ASSUME NEW s, Len(s) \in Nat, NEW E
    PROVE  /\ DecodeAt(s, E) = Pass(s, E)[Len(s)]
           /\ Pass(s, E)[0] = << >>
           /\ \A i \in 1 .. Len(s) :
                 Pass(s, E)[i] =
                     IF i \in Digits(E) THEN Pass(s, E)[i - 1]
                     ELSE Append(Pass(s, E)[i - 1], Written(s, E, i))
<1>1. DecodeAt(s, E) = Pass(s, E)[Len(s)]
  BY DEF DecodeAt, Pass, ScannedTo, Digits, Written
<1>2. ScannedTo(s, E, Len(s), Pass(s, E))
  BY ScansExist DEF Pass
<1> DEFINE f == Pass(s, E)
           k == Len(s)
<1>3. ScannedTo(s, E, k, f) /\ k \in Nat
  BY <1>2
<1> HIDE DEF f, k
<1>4. f[0] = << >>
  BY <1>3 DEF ScannedTo
<1>5. ASSUME NEW i \in 1 .. k
      PROVE  f[i] = IF i \in Digits(E) THEN f[i - 1]
                    ELSE Append(f[i - 1], Written(s, E, i))
  <2>1. i \in 0 .. k /\ i # 0
    BY <1>3
  <2> QED
    BY <1>3, <2>1 DEF ScannedTo
<1> QED
  BY <1>1, <1>4, <1>5 DEF f, k

-----------------------------------------------------------------------------
(* Bytes, escapes and prefixes *)

LEMMA HexValue ==
    ASSUME NEW b, IsHex(b)
    PROVE  hex_value(b) \in 0 .. 15 /\ b \in Byte /\ b # PERCENT
<1>1. b \in digits \/ b \in lower_hex \/ b \in upper_hex
  BY DEF IsHex
<1>2. CASE b \in digits
  <2>1. b \in 48 .. 57 /\ b \notin lower_hex /\ b \notin upper_hex
    BY <1>2 DEF digits, lower_hex, upper_hex
  <2>2. hex_value(b) = b - 48
    BY <1>2, <2>1 DEF hex_value
  <2> QED
    BY <2>1, <2>2 DEF Byte, PERCENT
<1>3. CASE b \in lower_hex
  <2>1. b \in 97 .. 102 /\ b \notin digits /\ b \notin upper_hex
    BY <1>3 DEF digits, lower_hex, upper_hex
  <2>2. hex_value(b) = b - 87
    BY <1>3, <2>1 DEF hex_value
  <2> QED
    BY <2>1, <2>2 DEF Byte, PERCENT
<1>4. CASE b \in upper_hex
  <2>1. b \in 65 .. 70 /\ b \notin lower_hex /\ b \notin digits
    BY <1>4 DEF digits, lower_hex, upper_hex
  <2>2. hex_value(b) = b - 55
    BY <1>4, <2>1 DEF hex_value
  <2> QED
    BY <2>1, <2>2 DEF Byte, PERCENT
<1> QED
  BY <1>1, <1>2, <1>3, <1>4

\* The byte that a percent sign and two digits stand for.
Value(high, low) == 16 * hex_value(high) + hex_value(low)

LEMMA ValueIsByte ==
    ASSUME NEW high, NEW low, IsHex(high), IsHex(low)
    PROVE  Value(high, low) \in Byte
<1>1. hex_value(high) \in 0 .. 15 /\ hex_value(low) \in 0 .. 15
  BY HexValue
<1> QED
  BY <1>1 DEF Value, Byte

LEMMA EscapeParts ==
    ASSUME NEW s \in Seq(Byte), NEW i \in Escapes(s, {})
    PROVE  /\ i \in 1 .. Len(s) /\ i + 1 \in 1 .. Len(s) /\ i + 2 \in 1 .. Len(s)
           /\ s[i] = PERCENT /\ IsHex(s[i + 1]) /\ IsHex(s[i + 2])
           /\ Escaped(s, i) = Value(s[i + 1], s[i + 2])
           /\ Escaped(s, i) \in Byte
<1>1. /\ i \in DOMAIN s /\ i + 2 \in DOMAIN s
      /\ s[i] = PERCENT /\ IsHex(s[i + 1]) /\ IsHex(s[i + 2])
  BY DEF Escapes, escape_at
<1>2. Escaped(s, i) = Value(s[i + 1], s[i + 2])
  BY DEF Escaped, Value
<1>3. DOMAIN s = 1 .. Len(s) /\ Len(s) \in Nat
  OBVIOUS
<1> QED
  BY <1>1, <1>2, <1>3, ValueIsByte

\* And there is one wherever the three are.
LEMMA EscapeIsThere ==
    ASSUME NEW s \in Seq(Byte), NEW i \in 1 .. Len(s), i + 2 <= Len(s),
           s[i] = PERCENT, IsHex(s[i + 1]), IsHex(s[i + 2])
    PROVE  i \in Escapes(s, {})
<1>1. i \in DOMAIN s /\ i + 2 \in DOMAIN s
  OBVIOUS
<1> QED
  BY <1>1 DEF Escapes, escape_at

\* Two escapes share no byte.
LEMMA EscapesAreApart ==
    ASSUME NEW s \in Seq(Byte), NEW E \in SUBSET Escapes(s, {}), NEW i \in Int
    PROVE  /\ i \in E => i \notin Digits(E)
           /\ i \in E => i + 1 \notin E /\ i + 2 \notin E
           /\ i \in E => i - 1 \notin E /\ i - 2 \notin E
<1>1. ASSUME NEW e \in E
      PROVE  /\ e \in Int /\ e + 1 \notin E /\ e + 2 \notin E
  <2>1. /\ e \in Int /\ s[e] = PERCENT
        /\ s[e + 1] # PERCENT /\ s[e + 2] # PERCENT
    BY EscapeParts, HexValue
  <2>2. \A x \in E : s[x] = PERCENT
    BY EscapeParts
  <2> QED
    BY <2>1, <2>2
<1>2. ASSUME i \in E PROVE i \notin Digits(E)
  <2> SUFFICES ASSUME i \in Digits(E) PROVE FALSE
    OBVIOUS
  <2>1. PICK e \in E : i = e + 1 \/ i = e + 2
    BY DEF Digits
  <2> QED
    BY <1>1, <1>2, <2>1
<1>3. ASSUME i \in E PROVE i - 1 \notin E /\ i - 2 \notin E
  <2>1. i - 1 \in E => i - 1 + 1 \notin E
    BY <1>1
  <2>2. i - 2 \in E => i - 2 + 2 \notin E
    BY <1>1
  <2>3. i - 1 + 1 = i /\ i - 2 + 2 = i
    OBVIOUS
  <2> QED
    BY <1>3, <2>1, <2>2, <2>3
<1> QED
  BY <1>1, <1>2, <1>3

Prefix(s, i) == SubSeq(s, 1, i)

LEMMA PrefixParts ==
    ASSUME NEW s \in Seq(Byte)
    PROVE  /\ Prefix(s, 0) = << >> /\ Prefix(s, Len(s)) = s
           /\ \A i \in 0 .. Len(s) :
                 Prefix(s, i) \in Seq(Byte) /\ Len(Prefix(s, i)) = i
           /\ \A i \in 0 .. Len(s), j \in 1 .. Len(s) :
                 j <= i => Prefix(s, i)[j] = s[j]
           /\ \A i \in 0 .. Len(s) - 1 :
                 Prefix(s, i + 1) = Append(Prefix(s, i), s[i + 1])
<1>1. Prefix(s, 0) = << >> /\ Prefix(s, Len(s)) = s
  BY DEF Prefix
<1>2. ASSUME NEW i \in 0 .. Len(s)
      PROVE  /\ Prefix(s, i) \in Seq(Byte) /\ Len(Prefix(s, i)) = i
             /\ \A j \in 1 .. Len(s) : j <= i => Prefix(s, i)[j] = s[j]
  BY DEF Prefix
<1>3. ASSUME NEW i \in 0 .. Len(s) - 1
      PROVE  Prefix(s, i + 1) = Append(Prefix(s, i), s[i + 1])
  BY DEF Prefix
<1> QED
  BY <1>1, <1>2, <1>3

\* A pass writes bytes, no more of them than it has read, and fewer once it
\* is past an escape that it decodes.
Shrinks(s, E, i) ==
    /\ Pass(s, E)[i] \in Seq(Byte) /\ Len(Pass(s, E)[i]) <= i
    /\ \A e \in E : e < i => Len(Pass(s, E)[i]) < i

LEMMA PassShrinks ==
    ASSUME NEW s \in Seq(Byte), NEW E \in SUBSET Escapes(s, {}),
           NEW i \in 0 .. Len(s)
    PROVE  Shrinks(s, E, i)
<1> DEFINE S == {n \in Nat : n <= Len(s) => Shrinks(s, E, n)}
           f == Pass(s, E)
<1>1. /\ Len(s) \in Nat
      /\ f[0] = << >>
      /\ \A n \in 1 .. Len(s) :
            f[n] = IF n \in Digits(E) THEN f[n - 1]
                   ELSE Append(f[n - 1], Written(s, E, n))
  BY PassOf
<1>2. \A e \in E : e \in 1 .. Len(s) /\ e \in Int
  BY EscapeParts
<1> HIDE DEF f
<1>3. Shrinks(s, E, 0)
  BY <1>1, <1>2 DEF Shrinks, f
<1>4. ASSUME NEW n \in Nat, n <= Len(s) => Shrinks(s, E, n), n + 1 <= Len(s)
      PROVE  Shrinks(s, E, n + 1)
  <2>1. /\ f[n] \in Seq(Byte) /\ Len(f[n]) <= n
        /\ \A e \in E : e < n => Len(f[n]) < n
    BY <1>1, <1>4 DEF Shrinks, f
  <2>2. /\ n + 1 \in 1 .. Len(s) /\ n + 1 - 1 = n
        /\ f[n + 1] = IF n + 1 \in Digits(E) THEN f[n]
                      ELSE Append(f[n], Written(s, E, n + 1))
    BY <1>1, <1>4
  <2>3. CASE n + 1 \in Digits(E)
    <3>1. f[n + 1] = f[n]
      BY <2>2, <2>3
    <3> QED
      BY <2>1, <3>1 DEF Shrinks, f
  <2>4. CASE n + 1 \notin Digits(E)
    <3>1. f[n + 1] = Append(f[n], Written(s, E, n + 1))
      BY <2>2, <2>4
    <3>2. Written(s, E, n + 1) \in Byte
      BY <2>2, EscapeParts DEF Written
    <3>3. f[n + 1] \in Seq(Byte) /\ Len(f[n + 1]) = Len(f[n]) + 1
      BY <2>1, <3>1, <3>2
    <3>4. ASSUME NEW e \in E, e < n + 1 PROVE e < n
      <4>1. e # n
        BY <2>4 DEF Digits
      <4> QED
        BY <1>2, <3>4, <4>1
    <3>5. /\ Len(f[n + 1]) <= n + 1
          /\ \A e \in E : e < n + 1 => Len(f[n + 1]) < n + 1
      BY <2>1, <3>3, <3>4
    <3> QED
      BY <3>3, <3>5 DEF Shrinks, f
  <2> QED
    BY <2>3, <2>4
<1>5. 0 \in S /\ \A n \in S : n + 1 \in S
  BY <1>1, <1>3, <1>4
<1>6. S \in SUBSET Nat
  OBVIOUS
<1> HIDE DEF S
<1>7. S = Nat
  BY <1>5, <1>6, SetInduction
<1> QED
  BY <1>1, <1>7 DEF S

LEMMA DecodedIsShorter ==
    ASSUME NEW s \in Seq(Byte), NEW E \in SUBSET Escapes(s, {})
    PROVE  /\ DecodeAt(s, E) \in Seq(Byte) /\ Len(DecodeAt(s, E)) <= Len(s)
           /\ E # {} => Len(DecodeAt(s, E)) < Len(s)
<1>1. Len(s) \in Nat /\ Len(s) \in 0 .. Len(s)
  OBVIOUS
<1>2. DecodeAt(s, E) = Pass(s, E)[Len(s)]
  BY <1>1, PassOf
<1>3. Shrinks(s, E, Len(s))
  BY <1>1, PassShrinks
<1>4. ASSUME NEW e \in E PROVE e < Len(s)
  BY EscapeParts
<1> QED
  BY <1>2, <1>3, <1>4 DEF Shrinks

\* A pass that decodes nothing copies.
LEMMA NothingToDecode ==
    ASSUME NEW s \in Seq(Byte)
    PROVE  DecodeAt(s, {}) = s
<1> DEFINE f == Pass(s, {})
           S == {n \in Nat : n <= Len(s) => f[n] = Prefix(s, n)}
<1>1. /\ Len(s) \in Nat /\ DecodeAt(s, {}) = f[Len(s)]
      /\ f[0] = << >>
      /\ \A n \in 1 .. Len(s) :
            f[n] = IF n \in Digits({}) THEN f[n - 1]
                   ELSE Append(f[n - 1], Written(s, {}, n))
  BY PassOf
<1>2. \A n : n \notin Digits({}) /\ Written(s, {}, n) = s[n]
  BY DEF Digits, Written
<1>3. /\ Prefix(s, 0) = << >> /\ Prefix(s, Len(s)) = s
      /\ \A i \in 0 .. Len(s) - 1 :
            Prefix(s, i + 1) = Append(Prefix(s, i), s[i + 1])
  BY PrefixParts
<1> HIDE DEF f
<1>4. ASSUME NEW n \in S PROVE n + 1 \in S
  <2> SUFFICES ASSUME n + 1 <= Len(s) PROVE f[n + 1] = Prefix(s, n + 1)
    OBVIOUS
  <2>1. n + 1 \in 1 .. Len(s) /\ n + 1 - 1 = n /\ n \in 0 .. Len(s) - 1
    BY <1>1, <1>4
  <2>2. f[n] = Prefix(s, n)
    BY <1>1, <1>4, <2>1
  <2>3. f[n + 1] = Append(f[n], s[n + 1])
    <3>1. f[n + 1] = IF n + 1 \in Digits({}) THEN f[n + 1 - 1]
                     ELSE Append(f[n + 1 - 1], Written(s, {}, n + 1))
      BY <1>1, <2>1
    <3>2. n + 1 \notin Digits({}) /\ Written(s, {}, n + 1) = s[n + 1]
      BY <1>2
    <3> QED
      BY <2>1, <3>1, <3>2
  <2>4. Prefix(s, n + 1) = Append(Prefix(s, n), s[n + 1])
    BY <1>3, <2>1
  <2> QED
    BY <2>2, <2>3, <2>4
<1>5. 0 \in S /\ S \in SUBSET Nat
  BY <1>1, <1>3
<1> HIDE DEF S
<1>6. S = Nat
  BY <1>4, <1>5, SetInduction
<1> QED
  BY <1>1, <1>3, <1>6 DEF S

-----------------------------------------------------------------------------
(* What all decoding ends at.  Byte by byte, as on a stack: a byte that    *)
(* completes an escape gives way, with the two before it, to the byte that *)
(* the three stand for, which may complete another one.                    *)

Closes(t, b) ==
    /\ Len(t) >= 2 /\ t[Len(t) - 1] = PERCENT
    /\ IsHex(t[Len(t)]) /\ IsHex(b)

Closed(t, b) == Append(SubSeq(t, 1, Len(t) - 2), Value(t[Len(t)], b))

Pushed(g, t, b) == IF Closes(t, b) THEN g[Closed(t, b)] ELSE Append(t, b)

\* The function g is this for texts of up to n bytes.
EndsUpTo(g, n) ==
    /\ g \in [Seq(Byte) -> Seq(Byte)] /\ g[<< >>] = << >>
    /\ \A s \in Seq(Byte) : Len(s) <= n => Len(g[s]) <= Len(s)
    /\ \A s \in Seq(Byte), b \in Byte :
          Len(s) < n => g[Append(s, b)] = Pushed(g, g[s], b)

LEMMA ClosedIsShorter ==
    ASSUME NEW t \in Seq(Byte), NEW b \in Byte, Closes(t, b)
    PROVE  /\ Closed(t, b) \in Seq(Byte)
           /\ Len(Closed(t, b)) = Len(t) - 1
           /\ \A i \in 1 .. Len(t) - 2 : Closed(t, b)[i] = t[i]
<1> DEFINE r == SubSeq(t, 1, Len(t) - 2)
           v == Value(t[Len(t)], b)
<1>1. Len(t) \in Nat /\ Len(t) >= 2 /\ v \in Byte
  BY ValueIsByte DEF Closes
<1>2. /\ r \in Seq(Byte) /\ Len(r) = Len(t) - 2
      /\ \A i \in 1 .. Len(t) - 2 : r[i] = t[i]
  <2>0. Len(t) - 2 \in 0 .. Len(t)
    BY <1>1
  <2>1. PICK m \in 0 .. Len(t) : m = Len(t) - 2
    BY <2>0
  <2>2. r = Prefix(t, m)
    BY <2>1 DEF Prefix
  <2>3. /\ Prefix(t, m) \in Seq(Byte) /\ Len(Prefix(t, m)) = m
        /\ \A i \in 1 .. Len(t) : i <= m => Prefix(t, m)[i] = t[i]
    BY PrefixParts
  <2> HIDE DEF r
  <2> QED
    BY <1>1, <2>1, <2>2, <2>3
<1> HIDE DEF r, v
<1>3. /\ Append(r, v) \in Seq(Byte) /\ Len(Append(r, v)) = Len(t) - 1
      /\ \A i \in 1 .. Len(t) - 2 : Append(r, v)[i] = t[i]
  BY <1>1, <1>2
<1> QED
  BY <1>3 DEF r, v, Closed

LEMMA LastOf ==
    ASSUME NEW s \in Seq(Byte), NEW b \in Byte
    PROVE  /\ Append(s, b) \in Seq(Byte) /\ Len(Append(s, b)) = Len(s) + 1
           /\ Prefix(Append(s, b), Len(Append(s, b)) - 1) = s
           /\ Append(s, b)[Len(Append(s, b))] = b
  BY DEF Prefix

LEMMA EndsExist ==
    ASSUME NEW n \in Nat
    PROVE  \E g : EndsUpTo(g, n)
<1> DEFINE S == {k \in Nat : \E g : EndsUpTo(g, k)}
<1>1. 0 \in S
  <2> DEFINE g == [s \in Seq(Byte) |-> << >>]
  <2>1. << >> \in Seq(Byte) /\ Len(<< >>) = 0
        /\ \A s \in Seq(Byte) : Len(s) \in Nat
    OBVIOUS
  <2>2. EndsUpTo(g, 0)
    BY <2>1 DEF EndsUpTo
  <2> QED
    BY <2>2
<1>2. ASSUME NEW k \in S PROVE k + 1 \in S
  <2>1. PICK g : EndsUpTo(g, k)
    BY <1>2
  <2>2. /\ k \in Nat /\ g \in [Seq(Byte) -> Seq(Byte)] /\ g[<< >>] = << >>
        /\ \A s \in Seq(Byte) : g[s] \in Seq(Byte)
        /\ \A s \in Seq(Byte) : Len(s) <= k => Len(g[s]) <= Len(s)
        /\ \A s \in Seq(Byte), b \in Byte :
              Len(s) < k => g[Append(s, b)] = Pushed(g, g[s], b)
    BY <2>1 DEF EndsUpTo
  <2> DEFINE long(s) == Pushed(g, g[Prefix(s, Len(s) - 1)], s[Len(s)])
             h == [s \in Seq(Byte) |-> IF Len(s) <= k THEN g[s] ELSE long(s)]
  <2>3. ASSUME NEW t \in Seq(Byte), NEW b \in Byte
        PROVE  /\ Pushed(g, t, b) \in Seq(Byte)
               /\ Len(t) <= k => Len(Pushed(g, t, b)) <= Len(t) + 1
    <3>1. CASE Closes(t, b)
      <4> DEFINE c == Closed(t, b)
      <4>1. c \in Seq(Byte) /\ Len(c) = Len(t) - 1 /\ Len(t) \in Nat
        BY <3>1, ClosedIsShorter
      <4>2. Pushed(g, t, b) = g[c]
        BY <3>1 DEF Pushed
      <4> HIDE DEF c
      <4>3. g[c] \in Seq(Byte) /\ Len(g[c]) \in Nat
        BY <2>2, <4>1
      <4>4. Len(t) <= k => Len(g[c]) <= Len(c)
        <5> SUFFICES ASSUME Len(t) <= k PROVE Len(g[c]) <= Len(c)
          OBVIOUS
        <5>1. Len(c) <= k
          BY <2>2, <4>1
        <5> QED
          BY <2>2, <4>1, <5>1
      <4> QED
        BY <4>1, <4>2, <4>3, <4>4
    <3>2. CASE ~Closes(t, b)
      <4>1. Pushed(g, t, b) = Append(t, b)
        BY <3>2 DEF Pushed
      <4> QED
        BY <4>1
    <3> QED
      BY <3>1, <3>2
  <2>4. ASSUME NEW s \in Seq(Byte), Len(s) > k
        PROVE  /\ Prefix(s, Len(s) - 1) \in Seq(Byte)
               /\ Len(Prefix(s, Len(s) - 1)) = Len(s) - 1
               /\ s[Len(s)] \in Byte
    <3>0. Len(s) - 1 \in 0 .. Len(s)
      BY <2>2, <2>4
    <3>1. PICK m \in 0 .. Len(s) : m = Len(s) - 1
      BY <3>0
    <3>2. Prefix(s, m) \in Seq(Byte) /\ Len(Prefix(s, m)) = m
      BY PrefixParts
    <3>3. Len(s) \in 1 .. Len(s)
      BY <2>2, <2>4
    <3> QED
      BY <3>1, <3>2, <3>3
  <2>5. ASSUME NEW s \in Seq(Byte), Len(s) > k
        PROVE  /\ long(s) \in Seq(Byte)
               /\ Len(s) <= k + 1 => Len(long(s)) <= Len(s)
    <3> DEFINE p == Prefix(s, Len(s) - 1)
               b == s[Len(s)]
    <3>1. p \in Seq(Byte) /\ Len(p) = Len(s) - 1 /\ b \in Byte /\ Len(s) \in Nat
      BY <2>4, <2>5
    <3> HIDE DEF p, b
    <3>2. g[p] \in Seq(Byte) /\ Len(g[p]) \in Nat
          /\ (Len(s) <= k + 1 => Len(g[p]) <= Len(p))
      BY <2>2, <3>1
    <3>3. /\ Pushed(g, g[p], b) \in Seq(Byte)
          /\ Len(g[p]) <= k => Len(Pushed(g, g[p], b)) <= Len(g[p]) + 1
      BY <2>3, <3>1, <3>2
    <3>4. Len(Pushed(g, g[p], b)) \in Nat
      BY <3>3
    <3>5. Len(s) <= k + 1 => Len(Pushed(g, g[p], b)) <= Len(s)
      BY <2>2, <3>1, <3>2, <3>3, <3>4
    <3> QED
      BY <3>3, <3>5 DEF p, b
  <2>6. /\ h \in [Seq(Byte) -> Seq(Byte)]
        /\ \A s \in Seq(Byte) : Len(s) <= k => h[s] = g[s]
        /\ \A s \in Seq(Byte) : Len(s) > k => h[s] = long(s)
    <3> HIDE DEF long
    <3>1. \A s \in Seq(Byte) : Len(s) \in Nat
      OBVIOUS
    <3> QED
      BY <2>2, <2>5, <3>1
  <2>7. \A s \in Seq(Byte) : Len(s) <= k + 1 => Len(h[s]) <= Len(s)
    <3> HIDE DEF long, h
    <3>1. \A s \in Seq(Byte) : Len(s) \in Nat
      OBVIOUS
    <3> QED
      BY <2>2, <2>5, <2>6, <3>1
  <2>8. ASSUME NEW t \in Seq(Byte), NEW b \in Byte, Len(t) <= k
        PROVE  Pushed(h, t, b) = Pushed(g, t, b)
    <3>1. CASE Closes(t, b)
      <4>1. Closed(t, b) \in Seq(Byte) /\ Len(Closed(t, b)) <= k
        BY <2>2, <2>8, <3>1, ClosedIsShorter
      <4>2. h[Closed(t, b)] = g[Closed(t, b)]
        BY <2>6, <4>1
      <4> QED
        BY <3>1, <4>2 DEF Pushed
    <3>2. CASE ~Closes(t, b)
      BY <3>2 DEF Pushed
    <3> QED
      BY <3>1, <3>2
  <2>9. ASSUME NEW s \in Seq(Byte), NEW b \in Byte, Len(s) < k + 1
        PROVE  h[Append(s, b)] = Pushed(h, h[s], b)
    <3> DEFINE a == Append(s, b)
    <3>1. /\ a \in Seq(Byte) /\ Len(a) = Len(s) + 1 /\ Len(s) \in Nat
          /\ Prefix(a, Len(a) - 1) = s /\ a[Len(a)] = b
      BY LastOf
    <3>2. Len(s) <= k /\ h[s] = g[s] /\ g[s] \in Seq(Byte) /\ Len(g[s]) <= k
      <4>1. Len(s) <= k
        BY <2>2, <2>9, <3>1
      <4>2. g[s] \in Seq(Byte) /\ Len(g[s]) <= Len(s) /\ h[s] = g[s]
        BY <2>2, <2>6, <4>1
      <4>3. Len(g[s]) \in Nat
        BY <4>2
      <4> QED
        BY <2>2, <3>1, <4>1, <4>2, <4>3
    <3>3. Pushed(h, h[s], b) = Pushed(g, g[s], b)
      BY <2>8, <3>2
    <3>4. CASE Len(s) < k
      <4>1. g[a] = Pushed(g, g[s], b)
        BY <2>2, <3>4
      <4>2. Len(a) <= k
        BY <2>2, <3>1, <3>4
      <4> HIDE DEF a, h
      <4>3. h[a] = g[a]
        BY <2>6, <3>1, <4>2
      <4> QED
        BY <3>3, <4>1, <4>3 DEF a
    <3>5. CASE Len(s) = k
      <4>1. Len(a) > k
        BY <2>2, <3>1, <3>5
      <4>2. long(a) = Pushed(g, g[s], b)
        BY <3>1
      <4> HIDE DEF a, h, long
      <4>3. h[a] = long(a)
        BY <2>6, <3>1, <4>1
      <4> QED
        BY <3>3, <4>2, <4>3 DEF a
    <3> QED
      BY <2>2, <3>1, <3>2, <3>4, <3>5
  <2>10. h[<< >>] = << >>
    <3>1. << >> \in Seq(Byte) /\ Len(<< >>) <= k
      BY <2>2
    <3> QED
      BY <2>2, <2>6, <3>1
  <2> HIDE DEF h, long
  <2>11. EndsUpTo(h, k + 1)
    BY <2>6, <2>7, <2>9, <2>10 DEF EndsUpTo
  <2> QED
    BY <2>2, <2>11
<1>3. S \in SUBSET Nat
  OBVIOUS
<1> HIDE DEF S
<1>4. S = Nat
  BY <1>1, <1>2, <1>3, SetInduction
<1> QED
  BY <1>4 DEF S

LEMMA Unappended ==
    ASSUME NEW s \in Seq(Byte), Len(s) # 0
    PROVE  \E p \in Seq(Byte), b \in Byte :
               s = Append(p, b) /\ Len(s) = Len(p) + 1
<1>1. Len(s) \in Nat /\ Len(s) - 1 \in 0 .. Len(s) /\ Len(s) - 1 \in 0 .. Len(s) - 1
      /\ Len(s) \in 1 .. Len(s)
  OBVIOUS
<1>2. PICK n \in 0 .. Len(s) - 1 : n = Len(s) - 1
  BY <1>1
<1>3. /\ Prefix(s, Len(s)) = s
      /\ Prefix(s, n) \in Seq(Byte) /\ Len(Prefix(s, n)) = n
      /\ Prefix(s, n + 1) = Append(Prefix(s, n), s[n + 1])
  BY <1>1, <1>2, PrefixParts
<1>4. n + 1 = Len(s) /\ s[Len(s)] \in Byte
  BY <1>1, <1>2
<1> QED
  BY <1>3, <1>4

\* One more byte, and how it is taken.
LEMMA EndsOfOneMore ==
    ASSUME NEW L \in Nat, NEW g, EndsUpTo(g, L),
           NEW p \in Seq(Byte), NEW b \in Byte, Len(p) < L
    PROVE  /\ g[p] \in Seq(Byte) /\ Len(g[p]) <= Len(p)
           /\ Closes(g[p], b) =>
                 /\ g[Append(p, b)] = g[Closed(g[p], b)]
                 /\ Closed(g[p], b) \in Seq(Byte)
                 /\ Len(Closed(g[p], b)) = Len(g[p]) - 1
           /\ ~Closes(g[p], b) => g[Append(p, b)] = Append(g[p], b)
<1>1. /\ g[p] \in Seq(Byte) /\ Len(g[p]) <= Len(p)
      /\ g[Append(p, b)] = Pushed(g, g[p], b)
  <2>1. Len(p) \in Nat /\ Len(p) <= L
    OBVIOUS
  <2> QED
    BY <2>1 DEF EndsUpTo
<1>2. Closes(g[p], b) =>
          /\ Closed(g[p], b) \in Seq(Byte)
          /\ Len(Closed(g[p], b)) = Len(g[p]) - 1
  BY <1>1, ClosedIsShorter
<1> QED
  BY <1>1, <1>2 DEF Pushed

\* Nothing is left to decode at the end.
LEMMA EndsAreFinal ==
    ASSUME NEW L \in Nat, NEW g, EndsUpTo(g, L),
           NEW s \in Seq(Byte), Len(s) <= L
    PROVE  g[g[s]] = g[s]
<1> DEFINE S == {n \in Nat : \A t \in Seq(Byte) :
                    Len(t) <= n /\ n <= L => g[g[t]] = g[t]}
<1>1. 0 \in S
  <2> SUFFICES ASSUME NEW t \in Seq(Byte), Len(t) <= 0 PROVE g[g[t]] = g[t]
    OBVIOUS
  <2>1. t = << >>
    OBVIOUS
  <2> QED
    BY <2>1 DEF EndsUpTo
<1>2. ASSUME NEW n \in S PROVE n + 1 \in S
  <2> SUFFICES ASSUME NEW t \in Seq(Byte), Len(t) <= n + 1, n + 1 <= L
               PROVE  g[g[t]] = g[t]
    OBVIOUS
  <2>1. /\ n \in Nat /\ n <= L
        /\ \A u \in Seq(Byte) : Len(u) <= n => g[g[u]] = g[u]
    BY <1>2
  <2> HIDE DEF S
  <2>2. CASE Len(t) <= n
    BY <2>1, <2>2
  <2>3. CASE Len(t) > n
    <3>1. Len(t) = n + 1 /\ Len(t) # 0
      BY <2>1, <2>3
    <3>2. PICK p \in Seq(Byte), b \in Byte :
              t = Append(p, b) /\ Len(t) = Len(p) + 1
      BY <3>1, Unappended
    <3>3. Len(p) = n /\ Len(p) < L
      BY <2>1, <3>1, <3>2
    <3>4. /\ g[p] \in Seq(Byte) /\ Len(g[p]) <= Len(p) /\ Len(g[p]) \in Nat
          /\ Closes(g[p], b) =>
                 /\ g[t] = g[Closed(g[p], b)]
                 /\ Closed(g[p], b) \in Seq(Byte)
                 /\ Len(Closed(g[p], b)) = Len(g[p]) - 1
          /\ ~Closes(g[p], b) => g[t] = Append(g[p], b)
      BY <3>2, <3>3, EndsOfOneMore
    <3>5. CASE Closes(g[p], b)
      <4>1. Len(Closed(g[p], b)) <= n
        BY <2>1, <3>3, <3>4, <3>5
      <4> QED
        BY <2>1, <3>4, <3>5, <4>1
    <3>6. CASE ~Closes(g[p], b)
      <4> DEFINE u == g[p]
      <4>1. u \in Seq(Byte) /\ Len(u) < L /\ g[u] = u
        BY <2>1, <3>3, <3>4
      <4>2. g[t] = Append(u, b) /\ ~Closes(u, b)
        BY <3>4, <3>6
      <4> HIDE DEF u
      <4>3. ~Closes(g[u], b) => g[Append(u, b)] = Append(g[u], b)
        BY <4>1, EndsOfOneMore
      <4> QED
        BY <4>1, <4>2, <4>3
    <3> QED
      BY <3>5, <3>6
  <2>4. Len(t) \in Nat
    OBVIOUS
  <2> QED
    BY <2>1, <2>2, <2>3, <2>4
<1>3. S \in SUBSET Nat
  OBVIOUS
<1> HIDE DEF S
<1>4. S = Nat
  BY <1>1, <1>2, <1>3, SetInduction
<1> QED
  BY <1>4 DEF S

\* An escape is worth the byte it stands for, wherever the text goes on.
LEMMA EndsOfEscape ==
    ASSUME NEW L \in Nat, NEW g, EndsUpTo(g, L), NEW p \in Seq(Byte),
           Len(p) + 3 <= L, NEW high, NEW low, IsHex(high), IsHex(low)
    PROVE  g[Append(Append(Append(p, PERCENT), high), low)]
               = g[Append(p, Value(high, low))]
<1> DEFINE v  == Value(high, low)
           q  == Append(p, PERCENT)
           r  == Append(q, high)
           t  == g[p]
           tq == Append(t, PERCENT)
           tr == Append(tq, high)
<1>1. /\ high \in Byte /\ low \in Byte /\ PERCENT \in Byte /\ v \in Byte
      /\ ~IsHex(PERCENT) /\ Len(p) \in Nat
  <2>1. high \in Byte /\ low \in Byte /\ ~IsHex(PERCENT)
    BY HexValue
  <2>2. PERCENT \in Byte
    BY DEF PERCENT, Byte
  <2>3. v \in Byte
    BY ValueIsByte
  <2> QED
    BY <2>1, <2>2, <2>3
<1>2. t \in Seq(Byte) /\ Len(t) <= Len(p) /\ Len(t) \in Nat /\ g[t] = t
  BY <1>1, EndsOfOneMore, EndsAreFinal
<1>3. /\ q \in Seq(Byte) /\ Len(q) = Len(p) + 1
      /\ r \in Seq(Byte) /\ Len(r) = Len(p) + 2
  BY <1>1
<1> HIDE DEF t
<1>4. /\ tq \in Seq(Byte) /\ Len(tq) = Len(t) + 1 /\ tq[Len(tq)] = PERCENT
  BY <1>1, <1>2
<1> HIDE DEF tq
<1>5. /\ tr \in Seq(Byte) /\ Len(tr) = Len(tq) + 1 /\ tr[Len(tr)] = high
      /\ tr[Len(tr) - 1] = PERCENT
  BY <1>1, <1>2, <1>4
<1>6. SubSeq(tr, 1, Len(tr) - 2) = t
  <2>1. Len(tr) - 2 = Len(t)
    BY <1>2, <1>4, <1>5
  <2>2. tr = Append(Append(t, PERCENT), high)
    BY DEF tq
  <2> HIDE DEF tr
  <2>3. SubSeq(Append(Append(t, PERCENT), high), 1, Len(t)) = t
    BY <1>1, <1>2
  <2> QED
    BY <2>1, <2>2, <2>3
<1> HIDE DEF tr, q, r, v
<1>7. g[q] = tq
  <2>1. ~Closes(t, PERCENT)
    BY <1>1 DEF Closes
  <2> QED
    BY <1>1, <2>1, EndsOfOneMore DEF q, t, tq
<1>8. g[r] = tr
  <2>1. ~Closes(tq, high)
    BY <1>1, <1>4 DEF Closes
  <2>2. Len(q) < L
    BY <1>1, <1>3
  <2> QED
    BY <1>1, <1>3, <1>7, <2>1, <2>2, EndsOfOneMore DEF r, tr
<1>9. Closes(tr, low) /\ Closed(tr, low) = Append(t, v)
  <2>1. Len(tr) >= 2
    BY <1>2, <1>4, <1>5
  <2>2. Closes(tr, low)
    BY <1>5, <2>1 DEF Closes
  <2>3. Closed(tr, low) = Append(t, v)
    BY <1>5, <1>6 DEF Closed, v
  <2> QED
    BY <2>2, <2>3
<1>10. g[Append(r, low)] = g[Append(t, v)]
  <2>1. Len(r) < L
    BY <1>1, <1>3
  <2>2. Closes(g[r], low) /\ Closed(g[r], low) = Append(t, v)
    BY <1>8, <1>9
  <2>3. Closes(g[r], low) => g[Append(r, low)] = g[Closed(g[r], low)]
    BY <1>1, <1>3, <2>1, EndsOfOneMore
  <2> QED
    BY <2>2, <2>3
<1>11. g[Append(t, v)] = g[Append(p, v)]
  <2>1. Len(t) < L /\ Len(p) < L
    BY <1>1, <1>2
  <2>2. g[Append(t, v)] = Pushed(g, g[t], v) /\ g[Append(p, v)] = Pushed(g, g[p], v)
    BY <1>1, <1>2, <2>1 DEF EndsUpTo
  <2> QED
    BY <1>2, <2>2 DEF t
<1> QED
  BY <1>10, <1>11 DEF q, r, v

LEMMA EndsAlike ==
    ASSUME NEW L \in Nat, NEW g, EndsUpTo(g, L),
           NEW p \in Seq(Byte), NEW q \in Seq(Byte), NEW b \in Byte,
           Len(p) < L, Len(q) < L, g[p] = g[q]
    PROVE  g[Append(p, b)] = g[Append(q, b)]
<1>1. g[Append(p, b)] = Pushed(g, g[p], b) /\ g[Append(q, b)] = Pushed(g, g[q], b)
  BY DEF EndsUpTo
<1> QED
  BY <1>1

\* How what a pass has written compares with what it has read: the same end,
\* or a byte is written whose digits are still to be read.
Tracks(g, s, E, i) ==
    LET f == Pass(s, E)
    IN  /\ i \notin E /\ i - 1 \notin E => g[f[i]] = g[Prefix(s, i)]
        /\ i \in E => /\ f[i] = Append(f[i - 1], Written(s, E, i))
                      /\ g[f[i - 1]] = g[Prefix(s, i - 1)]
        /\ i - 1 \in E => /\ f[i] = Append(f[i - 2], Written(s, E, i - 1))
                          /\ g[f[i - 2]] = g[Prefix(s, i - 2)]

LEMMA PassTracks ==
    ASSUME NEW L \in Nat, NEW g, EndsUpTo(g, L),
           NEW s \in Seq(Byte), Len(s) <= L,
           NEW E \in SUBSET Escapes(s, {}), NEW i \in 0 .. Len(s)
    PROVE  Tracks(g, s, E, i)
<1> DEFINE S == {n \in Nat : n <= Len(s) => Tracks(g, s, E, n)}
           f == Pass(s, E)
           W(n) == Written(s, E, n)
<1>1. /\ Len(s) \in Nat
      /\ f[0] = << >>
      /\ \A n \in 1 .. Len(s) :
            f[n] = IF n \in Digits(E) THEN f[n - 1] ELSE Append(f[n - 1], W(n))
  BY PassOf
<1>2. \A n \in 0 .. Len(s) : f[n] \in Seq(Byte) /\ Len(f[n]) <= n
  BY PassShrinks DEF Shrinks
<1>3. \A e \in E : /\ e \in Int /\ 1 <= e /\ e + 2 <= Len(s)
                   /\ s[e] = PERCENT /\ IsHex(s[e + 1]) /\ IsHex(s[e + 2])
                   /\ W(e) = Value(s[e + 1], s[e + 2]) /\ W(e) \in Byte
  <2> SUFFICES ASSUME NEW e \in E
               PROVE  /\ e \in Int /\ 1 <= e /\ e + 2 <= Len(s)
                      /\ s[e] = PERCENT /\ IsHex(s[e + 1]) /\ IsHex(s[e + 2])
                      /\ W(e) = Value(s[e + 1], s[e + 2]) /\ W(e) \in Byte
    OBVIOUS
  <2>1. W(e) = Escaped(s, e)
    BY DEF Written
  <2> HIDE DEF W
  <2> QED
    BY <1>1, <2>1, EscapeParts
<1>4. \A n : n \notin E => W(n) = s[n]
  BY DEF Written
<1>5. /\ Prefix(s, 0) = << >>
      /\ \A n \in 0 .. Len(s) :
            Prefix(s, n) \in Seq(Byte) /\ Len(Prefix(s, n)) = n
      /\ \A n \in 0 .. Len(s) - 1 :
            Prefix(s, n + 1) = Append(Prefix(s, n), s[n + 1])
  BY PrefixParts
<1>6. \A n \in Int : /\ n \in Digits(E) <=> n - 1 \in E \/ n - 2 \in E
  <2> SUFFICES ASSUME NEW n \in Int
               PROVE  n \in Digits(E) <=> n - 1 \in E \/ n - 2 \in E
    OBVIOUS
  <2>1. ASSUME n - 1 \in E PROVE n \in Digits(E)
    <3>1. n = (n - 1) + 1
      OBVIOUS
    <3> QED
      BY <2>1, <3>1 DEF Digits
  <2>2. ASSUME n - 2 \in E PROVE n \in Digits(E)
    <3>1. n = (n - 2) + 2
      OBVIOUS
    <3> QED
      BY <2>2, <3>1 DEF Digits
  <2>3. ASSUME n \in Digits(E) PROVE n - 1 \in E \/ n - 2 \in E
    <3>1. PICK e \in E : n = e + 1 \/ n = e + 2
      BY <2>3 DEF Digits
    <3>2. e \in Int
      BY <1>3
    <3>3. n - 1 = e \/ n - 2 = e
      BY <3>1, <3>2
    <3> QED
      BY <3>3
  <2> QED
    BY <2>1, <2>2, <2>3
<1> HIDE DEF f, W
<1>7. Tracks(g, s, E, 0)
  <2>1. 0 \notin E /\ 0 - 1 \notin E
    BY <1>3
  <2> QED
    BY <1>1, <1>5, <2>1 DEF Tracks, f
<1>8. ASSUME NEW n \in Nat, Tracks(g, s, E, n), n + 1 <= Len(s)
      PROVE  Tracks(g, s, E, n + 1)
  <2>1. /\ n \notin E /\ n - 1 \notin E => g[f[n]] = g[Prefix(s, n)]
        /\ n \in E => /\ f[n] = Append(f[n - 1], W(n))
                      /\ g[f[n - 1]] = g[Prefix(s, n - 1)]
        /\ n - 1 \in E => /\ f[n] = Append(f[n - 2], W(n - 1))
                          /\ g[f[n - 2]] = g[Prefix(s, n - 2)]
    BY <1>8 DEF Tracks, f, W
  <2>2. /\ n + 1 \in 1 .. Len(s) /\ n \in 0 .. Len(s) - 1 /\ n \in 0 .. Len(s)
        /\ n + 1 - 1 = n /\ n + 1 - 2 = n - 1 /\ n < L /\ n \in Int
        /\ n + 1 \in Int /\ n - 1 \in Int
    BY <1>1, <1>8
  <2>3. /\ n + 1 \in E => n \notin E /\ n - 1 \notin E
        /\ n \in E => n + 1 \notin E /\ n - 1 \notin E
        /\ n - 1 \in E => n \notin E /\ n + 1 \notin E
    <3>1. \A e \in E : /\ e \in Int /\ e + 1 \notin E /\ e + 2 \notin E
                       /\ e - 1 \notin E /\ e - 2 \notin E
      BY <1>3, EscapesAreApart
    <3>2. n - 1 + 1 = n /\ n - 1 + 2 = n + 1
      BY <2>2
    <3> QED
      BY <2>2, <3>1, <3>2
  <2>4. f[n + 1] = IF n \in E \/ n - 1 \in E THEN f[n] ELSE Append(f[n], W(n + 1))
    <3>1. f[n + 1] = IF n + 1 \in Digits(E) THEN f[n + 1 - 1]
                     ELSE Append(f[n + 1 - 1], W(n + 1))
      BY <1>1, <2>2
    <3>2. n + 1 \in Digits(E) <=> n + 1 - 1 \in E \/ n + 1 - 2 \in E
      BY <1>6, <2>2
    <3> QED
      BY <2>2, <3>1, <3>2
  <2> SUFFICES /\ n + 1 \notin E /\ n \notin E => g[f[n + 1]] = g[Prefix(s, n + 1)]
               /\ n + 1 \in E => /\ f[n + 1] = Append(f[n], W(n + 1))
                                 /\ g[f[n]] = g[Prefix(s, n)]
               /\ n \in E => /\ f[n + 1] = Append(f[n - 1], W(n))
                             /\ g[f[n - 1]] = g[Prefix(s, n - 1)]
    BY <2>2 DEF Tracks, f, W
  <2>5. CASE n + 1 \in E
    BY <2>1, <2>3, <2>4, <2>5
  <2>6. CASE n \in E
    BY <2>1, <2>3, <2>4, <2>6
  <2>7. CASE n - 1 \in E
    <3> DEFINE e == n - 1
               k == n - 2
    <3>1. /\ e \in Int /\ 1 <= e /\ s[e] = PERCENT
          /\ IsHex(s[e + 1]) /\ IsHex(s[e + 2])
          /\ W(e) = Value(s[e + 1], s[e + 2]) /\ W(e) \in Byte
      BY <1>3, <2>7
    <3>2. /\ k \in 0 .. Len(s) /\ k + 1 = e /\ e + 1 = n /\ e + 2 = n + 1
          /\ k \in 0 .. Len(s) - 1 /\ e \in 0 .. Len(s) - 1
          /\ k < L /\ k + 3 <= L
      BY <1>1, <2>2, <3>1
    <3>3. f[n + 1] = Append(f[k], W(e)) /\ g[f[k]] = g[Prefix(s, k)]
      BY <2>1, <2>3, <2>4, <2>7
    <3> HIDE DEF e, k
    <3>4. /\ Prefix(s, e) = Append(Prefix(s, k), PERCENT)
          /\ Prefix(s, n) = Append(Prefix(s, e), s[e + 1])
          /\ Prefix(s, n + 1) = Append(Prefix(s, n), s[e + 2])
      <4>1. Prefix(s, k + 1) = Append(Prefix(s, k), s[k + 1])
        BY <1>5, <3>2
      <4>2. Prefix(s, e + 1) = Append(Prefix(s, e), s[e + 1])
        BY <1>5, <3>2
      <4>3. Prefix(s, n + 1) = Append(Prefix(s, n), s[n + 1])
        BY <1>5, <2>2
      <4> QED
        BY <3>1, <3>2, <4>1, <4>2, <4>3
    <3>5. /\ Prefix(s, k) \in Seq(Byte) /\ Len(Prefix(s, k)) = k
          /\ f[k] \in Seq(Byte) /\ Len(f[k]) <= k /\ Len(f[k]) \in Nat
      BY <1>2, <1>5, <3>2
    <3>6. g[Prefix(s, n + 1)] = g[Append(Prefix(s, k), W(e))]
      <4>1. Len(Prefix(s, k)) + 3 <= L
        BY <3>2, <3>5
      <4>2. g[Append(Append(Append(Prefix(s, k), PERCENT), s[e + 1]), s[e + 2])]
               = g[Append(Prefix(s, k), Value(s[e + 1], s[e + 2]))]
        BY <3>1, <3>5, <4>1, EndsOfEscape
      <4> QED
        BY <3>1, <3>4, <4>2
    <3>7. g[Append(f[k], W(e))] = g[Append(Prefix(s, k), W(e))]
      <4> DEFINE p == f[k]
                 q == Prefix(s, k)
                 b == W(e)
      <4>1. Len(p) < L /\ Len(q) < L
        BY <3>2, <3>5
      <4>2. p \in Seq(Byte) /\ q \in Seq(Byte) /\ b \in Byte /\ g[p] = g[q]
        BY <3>1, <3>3, <3>5
      <4> HIDE DEF p, q, b
      <4>3. g[Append(p, b)] = g[Append(q, b)]
        BY <4>1, <4>2, EndsAlike
      <4> QED
        BY <4>3 DEF p, q, b
    <3>8. g[f[n + 1]] = g[Prefix(s, n + 1)]
      BY <3>3, <3>6, <3>7
    <3> QED
      BY <2>3, <2>7, <3>8
  <2>8. CASE n + 1 \notin E /\ n \notin E /\ n - 1 \notin E
    <3>1. f[n + 1] = Append(f[n], s[n + 1]) /\ g[f[n]] = g[Prefix(s, n)]
      BY <1>4, <2>1, <2>4, <2>8
    <3>2. Prefix(s, n + 1) = Append(Prefix(s, n), s[n + 1])
      BY <1>5, <2>2
    <3>3. /\ Prefix(s, n) \in Seq(Byte) /\ Len(Prefix(s, n)) = n
          /\ f[n] \in Seq(Byte) /\ Len(f[n]) <= n /\ Len(f[n]) \in Nat
          /\ s[n + 1] \in Byte
      BY <1>2, <1>5, <2>2
    <3>4. Len(Prefix(s, n)) < L /\ Len(f[n]) < L
      BY <2>2, <3>3
    <3>5. g[Append(f[n], s[n + 1])] = g[Append(Prefix(s, n), s[n + 1])]
      BY <3>1, <3>3, <3>4, EndsAlike
    <3> QED
      BY <2>8, <3>1, <3>2, <3>5
  <2> QED
    BY <2>5, <2>6, <2>7, <2>8
<1>9. 0 \in S /\ (\A n \in S : n + 1 \in S) /\ S \in SUBSET Nat
  <2>1. ASSUME NEW n \in S PROVE n + 1 \in S
    <3> SUFFICES ASSUME n + 1 <= Len(s) PROVE Tracks(g, s, E, n + 1)
      OBVIOUS
    <3>1. n \in Nat /\ n <= Len(s)
      BY <1>1
    <3>2. Tracks(g, s, E, n)
      BY <3>1
    <3> QED
      BY <1>8, <3>1, <3>2
  <2> QED
    BY <1>7, <2>1
<1> HIDE DEF S
<1>10. S = Nat
  BY <1>9, SetInduction
<1> QED
  BY <1>1, <1>10 DEF S

\* Decoding some of the escapes first does not change where it ends.
LEMMA EndsOfPass ==
    ASSUME NEW L \in Nat, NEW g, EndsUpTo(g, L),
           NEW s \in Seq(Byte), Len(s) <= L, NEW E \in SUBSET Escapes(s, {})
    PROVE  g[DecodeAt(s, E)] = g[s]
<1>1. Len(s) \in Nat /\ Len(s) \in 0 .. Len(s)
  OBVIOUS
<1>2. Tracks(g, s, E, Len(s))
  BY <1>1, PassTracks
<1>3. Len(s) \notin E /\ Len(s) - 1 \notin E
  <2>1. \A e \in E : e \in Int /\ e + 2 <= Len(s)
    <3> SUFFICES ASSUME NEW e \in E PROVE e \in Int /\ e + 2 <= Len(s)
      OBVIOUS
    <3> QED
      BY <1>1, EscapeParts
  <2> QED
    BY <1>1, <2>1
<1>4. DecodeAt(s, E) = Pass(s, E)[Len(s)] /\ Prefix(s, Len(s)) = s
  BY <1>1, PassOf, PrefixParts
<1> QED
  BY <1>2, <1>3, <1>4 DEF Tracks

\* A text without an escape is its own end.
LEMMA EndsOfPlain ==
    ASSUME NEW L \in Nat, NEW g, EndsUpTo(g, L),
           NEW s \in Seq(Byte), Len(s) <= L, Escapes(s, {}) = {}
    PROVE  g[s] = s
<1> DEFINE S == {n \in Nat : n <= Len(s) => g[Prefix(s, n)] = Prefix(s, n)}
<1>0. Len(s) \in Nat
  OBVIOUS
<1>1. /\ Prefix(s, 0) = << >> /\ Prefix(s, Len(s)) = s
      /\ \A n \in 0 .. Len(s) :
            Prefix(s, n) \in Seq(Byte) /\ Len(Prefix(s, n)) = n
      /\ \A n \in 0 .. Len(s), j \in 1 .. Len(s) :
            j <= n => Prefix(s, n)[j] = s[j]
      /\ \A n \in 0 .. Len(s) - 1 :
            Prefix(s, n + 1) = Append(Prefix(s, n), s[n + 1])
  BY PrefixParts, Zenon
<1>2. 0 \in S
  BY <1>1 DEF EndsUpTo
<1>3. ASSUME NEW n \in S PROVE n + 1 \in S
  <2> SUFFICES ASSUME n + 1 <= Len(s)
               PROVE  g[Prefix(s, n + 1)] = Prefix(s, n + 1)
    OBVIOUS
  <2> DEFINE p == Prefix(s, n)
             b == s[n + 1]
  <2>1. /\ n \in Nat /\ n \in 0 .. Len(s) /\ n \in 0 .. Len(s) - 1 /\ n < L
        /\ n + 1 \in 1 .. Len(s) /\ g[p] = p
    BY <1>0, <1>1
  <2>2. p \in Seq(Byte) /\ Len(p) = n /\ b \in Byte
        /\ Prefix(s, n + 1) = Append(p, b)
    BY <1>0, <1>1, <2>1
  <2>3. \A j \in 1 .. Len(s) : j <= n => p[j] = s[j]
    BY <1>0, <1>1, <2>1
  <2> HIDE DEF p
  <2>4. ~Closes(p, b)
    <3> SUFFICES ASSUME Closes(p, b) PROVE FALSE
      OBVIOUS
    <3>1. /\ n >= 2 /\ p[n - 1] = PERCENT /\ IsHex(p[n]) /\ IsHex(b)
      BY <2>2 DEF Closes
    <3>2. /\ n - 1 \in 1 .. Len(s) /\ n - 1 + 2 <= Len(s) /\ n \in 1 .. Len(s)
          /\ n - 1 + 1 = n /\ n - 1 + 2 = n + 1 /\ n - 1 <= n /\ n <= n
      BY <1>0, <1>1, <2>1, <3>1
    <3>3. s[n - 1] = PERCENT /\ IsHex(s[n - 1 + 1]) /\ IsHex(s[n - 1 + 2])
      BY <2>3, <3>1, <3>2
    <3>4. n - 1 \in Escapes(s, {})
      BY <3>2, <3>3, EscapeIsThere
    <3> QED
      BY <3>4
  <2>5. ~Closes(g[p], b)
    BY <2>1, <2>4
  <2>6. ~Closes(g[p], b) => g[Append(p, b)] = Append(g[p], b)
    <3>1. Len(p) < L
      BY <2>1, <2>2
    <3> QED
      BY <2>2, <3>1, EndsOfOneMore
  <2> QED
    BY <2>1, <2>2, <2>5, <2>6
<1>4. S \in SUBSET Nat
  OBVIOUS
<1> HIDE DEF S
<1>5. S = Nat
  BY <1>2, <1>3, <1>4, SetInduction
<1> QED
  BY <1>0, <1>1, <1>5 DEF S

HasByte(s, b) == \E i \in 1 .. Len(s) : s[i] = b

LEMMA HasByteOneMore ==
    ASSUME NEW p \in Seq(Byte), NEW c \in Byte, NEW b
    PROVE  HasByte(Append(p, c), b) <=> HasByte(p, b) \/ c = b
<1> DEFINE s == Append(p, c)
<1>1. /\ Len(p) \in Nat /\ Len(s) = Len(p) + 1 /\ s[Len(p) + 1] = c
      /\ \A i \in 1 .. Len(p) : s[i] = p[i]
  OBVIOUS
<1> HIDE DEF s
<1>2. HasByte(s, b) <=> HasByte(p, b) \/ c = b
  BY <1>1 DEF HasByte
<1> QED
  BY <1>2 DEF s

\* What is no part of an escape is never decoded away.
LEMMA EndsKeep ==
    ASSUME NEW L \in Nat, NEW g, EndsUpTo(g, L),
           NEW b \in Byte, b # PERCENT, ~IsHex(b),
           NEW s \in Seq(Byte), Len(s) <= L, HasByte(s, b)
    PROVE  HasByte(g[s], b)
<1> DEFINE S == {n \in Nat : \A t \in Seq(Byte) :
                    Len(t) <= n /\ n <= L /\ HasByte(t, b) => HasByte(g[t], b)}
<1>1. 0 \in S
  <2> SUFFICES ASSUME NEW t \in Seq(Byte), Len(t) <= 0, HasByte(t, b)
               PROVE  FALSE
    OBVIOUS
  <2> QED
    BY DEF HasByte
<1>2. ASSUME NEW n \in S PROVE n + 1 \in S
  <2> SUFFICES ASSUME NEW t \in Seq(Byte), Len(t) <= n + 1, n + 1 <= L,
                      HasByte(t, b)
               PROVE  HasByte(g[t], b)
    OBVIOUS
  <2>1. /\ n \in Nat /\ n <= L
        /\ \A u \in Seq(Byte) : Len(u) <= n /\ HasByte(u, b) => HasByte(g[u], b)
    BY <1>2
  <2> HIDE DEF S
  <2>2. CASE Len(t) <= n
    BY <2>1, <2>2
  <2>3. CASE Len(t) > n
    <3>1. Len(t) = n + 1 /\ Len(t) # 0
      BY <2>1, <2>3
    <3>2. PICK p \in Seq(Byte), c \in Byte :
              t = Append(p, c) /\ Len(t) = Len(p) + 1
      BY <3>1, Unappended
    <3>3. Len(p) = n /\ Len(p) <= n /\ Len(p) < L
      BY <2>1, <3>1, <3>2
    <3>4. /\ g[p] \in Seq(Byte) /\ Len(g[p]) <= Len(p) /\ Len(g[p]) \in Nat
          /\ Closes(g[p], c) =>
                 /\ g[t] = g[Closed(g[p], c)]
                 /\ Closed(g[p], c) \in Seq(Byte)
                 /\ Len(Closed(g[p], c)) = Len(g[p]) - 1
          /\ ~Closes(g[p], c) => g[t] = Append(g[p], c)
      BY <3>2, <3>3, EndsOfOneMore
    <3>5. HasByte(p, b) \/ c = b
      BY <3>2, HasByteOneMore
    <3>6. HasByte(p, b) => HasByte(g[p], b)
      BY <2>1, <3>3
    <3>7. CASE Closes(g[p], c)
      <4> DEFINE u == g[p]
                 v == Closed(u, c)
      <4>1. c # b /\ HasByte(u, b)
        BY <3>5, <3>6, <3>7 DEF Closes
      <4>2. /\ u \in Seq(Byte) /\ Len(u) \in Nat /\ Closes(u, c) /\ g[t] = g[v]
            /\ v \in Seq(Byte) /\ Len(v) = Len(u) - 1 /\ Len(u) <= n
        BY <3>3, <3>4, <3>7
      <4>3. \A i \in 1 .. Len(u) - 2 : v[i] = u[i]
        BY <4>2, ClosedIsShorter
      <4> HIDE DEF u, v
      <4>4. PICK i \in 1 .. Len(u) : u[i] = b
        BY <4>1 DEF HasByte
      <4>5. i # Len(u) /\ i # Len(u) - 1
        <5>1. u[Len(u)] # b /\ u[Len(u) - 1] # b
          BY <4>2 DEF Closes
        <5> QED
          BY <4>4, <5>1
      <4>6. i \in 1 .. Len(u) - 2 /\ i \in 1 .. Len(v)
        <5> PICK m \in Nat : m = Len(u)
          BY <4>2
        <5>1. i \in 1 .. m /\ i # m /\ i # m - 1
          BY <4>4, <4>5
        <5>2. i \in 1 .. m - 2 /\ i \in 1 .. m - 1
          BY <5>1
        <5> QED
          BY <4>2, <5>2
      <4>7. HasByte(v, b) /\ Len(v) <= n
        <5>1. v[i] = b
          BY <4>3, <4>4, <4>6
        <5>2. HasByte(v, b)
          BY <4>6, <5>1 DEF HasByte
        <5>3. Len(v) <= n
          BY <2>1, <4>2
        <5> QED
          BY <5>2, <5>3
      <4> QED
        BY <2>1, <4>2, <4>7
    <3>8. CASE ~Closes(g[p], c)
      <4>1. HasByte(Append(g[p], c), b) <=> HasByte(g[p], b) \/ c = b
        BY <3>4, HasByteOneMore
      <4> QED
        BY <3>4, <3>5, <3>6, <3>8, <4>1
    <3> QED
      BY <3>7, <3>8
  <2>4. Len(t) \in Nat
    OBVIOUS
  <2> QED
    BY <2>1, <2>2, <2>3, <2>4
<1>3. S \in SUBSET Nat
  OBVIOUS
<1> HIDE DEF S
<1>4. S = Nat
  BY <1>1, <1>2, <1>3, SetInduction
<1> QED
  BY <1>4 DEF S

-----------------------------------------------------------------------------
(* The check of a segment *)

Ends(n) == CHOOSE g : EndsUpTo(g, n)

\* A text that decoding can make of the segment, by any passes at all: it is
\* no longer, and ends where the segment does.
Reached(text) ==
    /\ text \in Seq(Byte) /\ Len(text) <= Len(segment)
    /\ Ends(Len(segment))[text] = Ends(Len(segment))[segment]

\* The layer under judgement is the one that so many rounds lead to, whoever
\* reads the segment stays on its way to the same end, and a verdict for it
\* is given at that end.
SegmentInv ==
    /\ segment \in Seq(Byte) /\ round \in 0 .. MAX_DECODE_ROUNDS
    /\ current = Layer(segment)[round]
    /\ Reached(current) /\ Reached(view)
    /\ verdict = "raw" => round = 0
    /\ verdict = "safe" => ~Refused(current) /\ Escapes(current, {}) = {}
    /\ RefusalHasACause

\* What one more pass reaches.
LEMMA PassReaches ==
    ASSUME segment \in Seq(Byte), NEW t, Reached(t),
           NEW E \in SUBSET Escapes(t, {})
    PROVE  Reached(DecodeAt(t, E))
<1> DEFINE n == Len(segment)
           d == DecodeAt(t, E)
<1>1. /\ n \in Nat /\ t \in Seq(Byte) /\ Len(t) <= n
      /\ Ends(n)[t] = Ends(n)[segment]
  BY DEF Reached
<1>2. EndsUpTo(Ends(n), n)
  BY <1>1, EndsExist DEF Ends
<1>3. d \in Seq(Byte) /\ Len(d) <= Len(t)
  BY <1>1, DecodedIsShorter
<1>4. Ends(n)[d] = Ends(n)[t]
  <2> DEFINE g == Ends(n)
  <2>1. EndsUpTo(g, n)
    BY <1>2
  <2> HIDE DEF g, n
  <2>2. g[DecodeAt(t, E)] = g[t]
    BY <1>1, <2>1, EndsOfPass
  <2> QED
    BY <2>2 DEF g
<1> HIDE DEF d
<1>5. Len(d) <= n
  <2>1. Len(d) \in Nat /\ Len(t) \in Nat
    BY <1>1, <1>3
  <2> QED
    BY <1>1, <1>3, <2>1
<1> QED
  BY <1>1, <1>3, <1>4, <1>5 DEF Reached, d

\* decode_valid_escapes changes exactly what has an escape.
LEMMA UnchangedMeansPlain ==
    ASSUME NEW t \in Seq(Byte)
    PROVE  decode_valid_escapes(t) = t <=> Escapes(t, {}) = {}
<1> DEFINE E == Escapes(t, {})
           d == DecodeAt(t, E)
<1>1. decode_valid_escapes(t) = d /\ E \in SUBSET Escapes(t, {})
  BY DEF decode_valid_escapes
<1>2. E = {} => d = t
  BY NothingToDecode
<1>3. E # {} => Len(d) < Len(t)
  BY <1>1, DecodedIsShorter
<1>4. Len(t) \in Nat
  OBVIOUS
<1> HIDE DEF d, E
<1>5. E # {} => d # t
  BY <1>3, <1>4
<1> QED
  BY <1>1, <1>2, <1>5 DEF E

LEMMA InitSegment == SegmentInit => SegmentInv
<1> SUFFICES ASSUME SegmentInit PROVE SegmentInv
  OBVIOUS
<1>1. /\ segment \in Seq(Byte) /\ current = segment /\ view = segment
      /\ round = 0 /\ verdict = "raw" /\ MAX_DECODE_ROUNDS \in Nat
  BY SegmentsAssumption, RoundsAssumption DEF SegmentInit
<1>2. Reached(segment)
  BY <1>1 DEF Reached
<1>3. current = Layer(segment)[round]
  BY <1>1, LayerByLayer
<1>4. RefusalHasACause
  BY <1>1 DEF RefusalHasACause
<1> QED
  BY <1>1, <1>2, <1>3, <1>4 DEF SegmentInv

\* A stray percent sign, in the words of the property.
Stray(s) ==
    \E i \in DOMAIN s :
        /\ s[i] = PERCENT
        /\ \/ i > Len(s) - 2
           \/ ~(IsHex(s[i + 1]) /\ IsHex(s[i + 2]))

LEMMA MalformedIsStray ==
    ASSUME NEW s \in Seq(Byte), ~escapes_are_wellformed(s)
    PROVE  Stray(s)
<1>1. PICK i \in DOMAIN s : s[i] = PERCENT /\ ~escape_at(s, i)
  BY DEF escapes_are_wellformed
<1>2. DOMAIN s = 1 .. Len(s) /\ Len(s) \in Nat
  OBVIOUS
<1>3. \/ i > Len(s) - 2
      \/ ~(IsHex(s[i + 1]) /\ IsHex(s[i + 2]))
  BY <1>1, <1>2 DEF escape_at
<1> QED
  BY <1>1, <1>3 DEF Stray

LEMMA CauseOf ==
    RefusalHasACause <=>
        /\ verdict = "safe" => round <= MAX_DECODE_ROUNDS
        /\ verdict = "unsafe" =>
              \/ segment = << >> \/ Stray(segment)
              \/ \E n \in 0 .. MAX_DECODE_ROUNDS : Refused(Layer(segment)[n])
              \/ Escapes(Layer(segment)[MAX_DECODE_ROUNDS], {}) # {}
  BY DEF RefusalHasACause, Stray

\* A step that leaves the texts alone has only its verdict to account for.
LEMMA VerdictKeeps ==
    ASSUME SegmentInv, UNCHANGED <<segment, current, round, view>>,
           verdict' # "raw",
           verdict' = "safe" => ~Refused(current) /\ Escapes(current, {}) = {},
           verdict' = "unsafe" =>
              \/ segment = << >> \/ Stray(segment)
              \/ Refused(Layer(segment)[round])
              \/ /\ round = MAX_DECODE_ROUNDS
                 /\ Escapes(Layer(segment)[round], {}) # {}
    PROVE  SegmentInv'
<1>1. /\ segment' = segment /\ current' = current /\ round' = round /\ view' = view
      /\ Layer(segment)' = Layer(segment) /\ Stray(segment)' = Stray(segment)
  BY DEF Layer, Stray
<1>2. round \in 0 .. MAX_DECODE_ROUNDS /\ MAX_DECODE_ROUNDS \in Nat
  BY RoundsAssumption DEF SegmentInv
<1>3. RefusalHasACause'
  BY <1>1, <1>2 DEF RefusalHasACause, Stray
<1>4. Reached(current)' /\ Reached(view)'
  BY <1>1 DEF SegmentInv, Reached
<1>5. (~Refused(current))' = ~Refused(current)
      /\ (Escapes(current, {}))' = Escapes(current, {})
  BY <1>1 DEF Refused, Hides, IsUtf8, Escapes
<1> QED
  BY <1>1, <1>3, <1>4, <1>5 DEF SegmentInv

LEMMA NextSegment == SegmentInv /\ [SegmentNext]_segmentVars => SegmentInv'
<1> SUFFICES ASSUME SegmentInv, [SegmentNext]_segmentVars PROVE SegmentInv'
  OBVIOUS
<1>1. /\ segment \in Seq(Byte) /\ round \in 0 .. MAX_DECODE_ROUNDS
      /\ current = Layer(segment)[round] /\ MAX_DECODE_ROUNDS \in Nat
      /\ Reached(current) /\ Reached(view) /\ current \in Seq(Byte)
  BY RoundsAssumption DEF SegmentInv, Reached
<1>2. CASE RefuseRaw
  <2>1. segment = << >> \/ Stray(segment)
    BY <1>1, <1>2, MalformedIsStray DEF RefuseRaw
  <2>2. verdict' = "unsafe" /\ UNCHANGED <<segment, current, round, view>>
    BY <1>2 DEF RefuseRaw
  <2> QED
    BY <2>1, <2>2, VerdictKeeps
<1>3. CASE BeginDecoding
  <2>1. verdict' = "decoding" /\ UNCHANGED <<segment, current, round, view>>
    BY <1>3 DEF BeginDecoding
  <2> QED
    BY <2>1, VerdictKeeps
<1>4. CASE RefuseLayer
  <2>1. /\ verdict' = "unsafe" /\ UNCHANGED <<segment, current, round, view>>
        /\ Refused(Layer(segment)[round])
    BY <1>1, <1>4 DEF RefuseLayer
  <2> QED
    BY <2>1, VerdictKeeps
<1>5. CASE Accept
  <2>1. /\ verdict' = "safe" /\ UNCHANGED <<segment, current, round, view>>
        /\ ~Refused(current) /\ decode_valid_escapes(current) = current
    BY <1>5 DEF Accept
  <2>2. Escapes(current, {}) = {}
    BY <1>1, <2>1, UnchangedMeansPlain
  <2> QED
    BY <2>1, <2>2, VerdictKeeps
<1>6. CASE GiveUp
  <2>1. /\ verdict' = "unsafe" /\ UNCHANGED <<segment, current, round, view>>
        /\ round = MAX_DECODE_ROUNDS /\ decode_valid_escapes(current) # current
    BY <1>6 DEF GiveUp, LastRound
  <2>2. Escapes(Layer(segment)[round], {}) # {}
    BY <1>1, <2>1, UnchangedMeansPlain
  <2> QED
    BY <2>1, <2>2, VerdictKeeps
<1>7. CASE NextRound
  <2>1. /\ verdict = "decoding" /\ verdict' = "decoding" /\ round' = round + 1
        /\ round # MAX_DECODE_ROUNDS /\ current' = decode_valid_escapes(current)
        /\ segment' = segment /\ view' = view
    BY <1>7 DEF NextRound, LastRound
  <2>2. round \in 0 .. MAX_DECODE_ROUNDS - 1 /\ round' \in 0 .. MAX_DECODE_ROUNDS
    BY <1>1, <2>1
  <2>3. Layer(segment)[round + 1] = decode_valid_escapes(Layer(segment)[round])
    BY <2>2, LayerByLayer
  <2>4. current' = Layer(segment)[round'] /\ Layer(segment)' = Layer(segment)
    BY <1>1, <2>1, <2>3 DEF Layer
  <2>5. Reached(decode_valid_escapes(current))
    <3>1. Reached(DecodeAt(current, Escapes(current, {})))
      BY <1>1, PassReaches
    <3> QED
      BY <3>1 DEF decode_valid_escapes
  <2>6. Reached(current)' /\ Reached(view)'
    BY <1>1, <2>1, <2>5 DEF Reached
  <2>7. RefusalHasACause'
    BY <2>1 DEF RefusalHasACause
  <2> QED
    BY <1>1, <2>1, <2>2, <2>4, <2>6, <2>7 DEF SegmentInv
<1>8. CASE ReaderDecodes
  <2>1. PICK at \in Escapes(view, {}) : view' = DecodeAt(view, {at})
    BY <1>8 DEF ReaderDecodes
  <2>2. verdict = "safe" /\ UNCHANGED <<segment, current, round, verdict>>
    BY <1>8 DEF ReaderDecodes
  <2>3. Reached(DecodeAt(view, {at}))
    <3>1. {at} \in SUBSET Escapes(view, {})
      BY <2>1
    <3> QED
      BY <1>1, <3>1, PassReaches
  <2>4. Reached(current)' /\ Reached(view)'
    BY <1>1, <2>1, <2>2, <2>3 DEF Reached
  <2>5. /\ Layer(segment)' = Layer(segment)
        /\ (Refused(current))' = Refused(current)
        /\ (Escapes(current, {}))' = Escapes(current, {})
    BY <2>2 DEF Layer, Refused, Hides, IsUtf8, Escapes
  <2>6. RefusalHasACause'
    BY <1>1, <2>2 DEF RefusalHasACause
  <2> QED
    BY <1>1, <2>2, <2>4, <2>5, <2>6 DEF SegmentInv
<1>9. CASE UNCHANGED segmentVars
  <2>1. UNCHANGED <<segment, current, round, verdict, view>>
    BY <1>9 DEF segmentVars
  <2>2. Reached(current)' /\ Reached(view)' /\ RefusalHasACause'
    BY <2>1 DEF Reached, RefusalHasACause, SegmentInv
  <2>3. /\ Layer(segment)' = Layer(segment)
        /\ (Refused(current))' = Refused(current)
        /\ (Escapes(current, {}))' = Escapes(current, {})
    BY <2>1 DEF Layer, Refused, Hides, IsUtf8, Escapes
  <2> QED
    BY <2>1, <2>2, <2>3 DEF SegmentInv
<1> QED
  BY <1>2, <1>3, <1>4, <1>5, <1>6, <1>7, <1>8, <1>9 DEF SegmentNext

LEMMA SegmentInvHolds == SegmentSpec => []SegmentInv
  BY InitSegment, NextSegment, PTL DEF SegmentSpec

\* Once a segment is let through, the layer it was judged at is the end of
\* whatever a reader has made of it.
LEMMA JudgedAtTheEnd ==
    ASSUME SegmentInv, verdict = "safe"
    PROVE  Ends(Len(segment))[view] = current
<1> DEFINE n == Len(segment)
           g == Ends(n)
<1>1. /\ n \in Nat /\ current \in Seq(Byte) /\ Len(current) <= n
      /\ g[current] = g[segment] /\ g[view] = g[segment]
      /\ Escapes(current, {}) = {}
  BY DEF SegmentInv, Reached
<1>2. EndsUpTo(g, n)
  BY <1>1, EndsExist DEF Ends
<1> HIDE DEF g, n
<1>3. g[current] = current
  BY <1>1, <1>2, EndsOfPlain
<1> QED
  BY <1>1, <1>3 DEF g, n

\* The bytes that no layer may hold are no part of an escape.
LEMMA HiddenBytes ==
    ASSUME NEW b \in {SLASH, BACKSLASH, SEMICOLON, DEL} \cup 0 .. 31
    PROVE  b \in Byte /\ b # PERCENT /\ ~IsHex(b)
<1>1. b \in {47, 92, 59, 127} \cup 0 .. 31
  BY DEF SLASH, BACKSLASH, SEMICOLON, DEL
<1> QED
  BY <1>1 DEF Byte, PERCENT, IsHex, digits, lower_hex, upper_hex

\* A text that hides something ends at one that does.
LEMMA HidingLasts ==
    ASSUME NEW L \in Nat, NEW g, EndsUpTo(g, L),
           NEW t \in Seq(Byte), Len(t) <= L, Hides(t)
    PROVE  Hides(g[t])
<1>1. CASE t = <<DOT>> \/ t = <<DOT, DOT>>
  <2>1. \A i \in DOMAIN t : t[i] = DOT
    BY <1>1
  <2>2. Escapes(t, {}) = {}
    BY <2>1 DEF Escapes, DOT, PERCENT
  <2>3. g[t] = t
    BY <2>2, EndsOfPlain
  <2> QED
    BY <2>3
<1>2. CASE \E i \in DOMAIN t :
               t[i] \in {SLASH, BACKSLASH, SEMICOLON, DEL} \cup 0 .. 31
  <2>1. PICK i \in DOMAIN t :
               t[i] \in {SLASH, BACKSLASH, SEMICOLON, DEL} \cup 0 .. 31
    BY <1>2
  <2>2. PICK b \in {SLASH, BACKSLASH, SEMICOLON, DEL} \cup 0 .. 31 : b = t[i]
    BY <2>1
  <2>3. b \in Byte /\ b # PERCENT /\ ~IsHex(b)
    BY HiddenBytes
  <2>4. HasByte(t, b)
    BY <2>1, <2>2 DEF HasByte
  <2>5. HasByte(g[t], b)
    BY <2>3, <2>4, EndsKeep
  <2>6. g[t] \in Seq(Byte)
    BY DEF EndsUpTo
  <2>7. PICK j \in 1 .. Len(g[t]) : g[t][j] = b
    BY <2>5 DEF HasByte
  <2>8. j \in DOMAIN g[t]
    BY <2>6, <2>7
  <2> QED
    BY <2>7, <2>8 DEF Hides
<1> QED
  BY <1>1, <1>2 DEF Hides

\* No chain of readers behind the proxy, decoding what they like in any order
\* and as often as they like, ever finds a separator, a dot segment or a
\* control byte in a segment that path_is_safe let through, however many
\* rounds it allows.
THEOREM AcceptedStaysHarmless == SegmentSpec => []NoReaderFindsMore
<1>1. SegmentInv => NoReaderFindsMore
  <2> SUFFICES ASSUME SegmentInv, verdict = "safe", Hides(view) PROVE FALSE
    BY DEF NoReaderFindsMore
  <2> DEFINE n == Len(segment)
             g == Ends(n)
  <2>1. /\ n \in Nat /\ view \in Seq(Byte) /\ Len(view) <= n /\ ~Refused(current)
    BY DEF SegmentInv, Reached
  <2>2. EndsUpTo(g, n)
    BY <2>1, EndsExist DEF Ends
  <2>3. g[view] = current
    BY JudgedAtTheEnd
  <2> HIDE DEF g, n
  <2>4. Hides(g[view])
    BY <2>1, <2>2, HidingLasts
  <2> QED
    BY <2>1, <2>3, <2>4 DEF Refused
<1> QED
  BY <1>1, SegmentInvHolds, PTL

\* Readers who have decoded all there is agree with segment_is_safe on the
\* name, and it is UTF-8: decoding in another order makes no other name.
THEOREM ReadersEndAlike == SegmentSpec => []ReadersAgree
<1>1. SegmentInv => ReadersAgree
  <2> SUFFICES ASSUME SegmentInv, verdict = "safe", Escapes(view, {}) = {}
               PROVE  view = current /\ IsUtf8(view)
    BY DEF ReadersAgree
  <2> DEFINE n == Len(segment)
             g == Ends(n)
  <2>1. /\ n \in Nat /\ view \in Seq(Byte) /\ Len(view) <= n /\ ~Refused(current)
    BY DEF SegmentInv, Reached
  <2>2. EndsUpTo(g, n)
    BY <2>1, EndsExist DEF Ends
  <2>3. g[view] = current
    BY JudgedAtTheEnd
  <2> HIDE DEF g, n
  <2>4. g[view] = view
    BY <2>1, <2>2, EndsOfPlain
  <2>5. view = current
    BY <2>3, <2>4
  <2> QED
    BY <2>1, <2>5 DEF Refused
<1> QED
  BY <1>1, SegmentInvHolds, PTL

\* segment_is_safe refuses for a documented cause only, and never lets a
\* segment through that is wrapped deeper than it decodes.
THEOREM RefusalsAreJustified == SegmentSpec => []RefusalHasACause
<1>1. SegmentInv => RefusalHasACause
  BY DEF SegmentInv
<1> QED
  BY <1>1, SegmentInvHolds, PTL

-----------------------------------------------------------------------------
(* find-my-way writes %25 as %2525 and leaves the reserved characters      *)
(* escaped; decode_like_find_my_way leaves %25 with them.  Both end in the *)
(* same text: what follows walks through the two texts side by side.       *)

Guards(s, i) == s[i] = PERCENT /\ escape_at(s, i) /\ Escaped(s, i) = PERCENT
Chunk(s, i) == IF Guards(s, i) THEN <<PERCENT, 50, 53>> ELSE <<s[i]>>

LEMMA ChunkIsText ==
    ASSUME NEW s \in Seq(Byte), NEW i \in 1 .. Len(s)
    PROVE  Chunk(s, i) \in Seq(Byte)
<1>1. PERCENT \in Byte /\ 50 \in Byte /\ 53 \in Byte
  BY DEF PERCENT, Byte
<1>2. <<PERCENT, 50, 53>> \in Seq(Byte)
  BY <1>1
<1>3. s[i] \in Byte /\ <<s[i]>> \in Seq(Byte)
  OBVIOUS
<1> QED
  BY <1>2, <1>3 DEF Chunk

\* The first k chunks of a text, one after the other.
JoinedTo(s, k, f) ==
    f = [i \in 1 .. k |-> IF i = 1 THEN Chunk(s, i) ELSE f[i - 1] \o Chunk(s, i)]

LEMMA JoinsExist ==
    ASSUME NEW s, NEW k \in Nat
    PROVE  \E f : JoinedTo(s, k, f)
<1> DEFINE S == {n \in Nat : \E f : JoinedTo(s, n, f)}
<1>1. 0 \in S
  <2> DEFINE f == [n \in 1 .. 0 |-> << >>]
  <2>1. JoinedTo(s, 0, f)
    BY DEF JoinedTo
  <2> QED
    BY <2>1
<1>2. ASSUME NEW n \in S PROVE n + 1 \in S
  <2>1. PICK f : JoinedTo(s, n, f)
    BY <1>2
  <2> DEFINE g == [m \in 1 .. n + 1 |->
                       IF m = n + 1
                       THEN IF m = 1 THEN Chunk(s, m) ELSE f[n] \o Chunk(s, m)
                       ELSE f[m]]
  <2>2. n \in Nat /\ g = [m \in 1 .. n + 1 |-> g[m]]
    OBVIOUS
  <2>3. ASSUME NEW m \in 1 .. n + 1
        PROVE  g[m] = IF m = 1 THEN Chunk(s, m) ELSE g[m - 1] \o Chunk(s, m)
    <3>1. CASE m # n + 1 /\ m = 1
      <4>1. m \in 1 .. n /\ g[m] = f[m]
        BY <2>2, <3>1
      <4> QED
        BY <2>1, <3>1, <4>1 DEF JoinedTo
    <3>2. CASE m # n + 1 /\ m # 1
      <4>1. m \in 1 .. n /\ m - 1 \in 1 .. n + 1 /\ m - 1 # n + 1
        BY <2>2, <3>2
      <4>2. g[m] = f[m] /\ g[m - 1] = f[m - 1]
        BY <3>2, <4>1
      <4>3. f[m] = f[m - 1] \o Chunk(s, m)
        BY <2>1, <3>2, <4>1 DEF JoinedTo
      <4> QED
        BY <3>2, <4>2, <4>3
    <3>3. CASE m = n + 1
      <4>1. g[m] = IF m = 1 THEN Chunk(s, m) ELSE f[n] \o Chunk(s, m)
        BY <3>3
      <4>2. m # 1 => g[m - 1] = f[n]
        <5> SUFFICES ASSUME m # 1 PROVE g[m - 1] = f[n]
          OBVIOUS
        <5>1. m - 1 = n /\ n \in 1 .. n + 1 /\ n # n + 1
          BY <2>2, <3>3
        <5> QED
          BY <5>1
      <4> QED
        BY <4>1, <4>2
    <3> QED
      BY <3>1, <3>2, <3>3
  <2>4. JoinedTo(s, n + 1, g)
    <3> HIDE DEF g
    <3> QED
      BY <2>2, <2>3 DEF JoinedTo
  <2> QED
    BY <2>2, <2>4
<1> HIDE DEF S
<1>3. S \in SUBSET Nat
  BY DEF S
<1>4. S = Nat
  BY <1>1, <1>2, <1>3, SetInduction
<1> QED
  BY <1>4 DEF S

\* The guarded form of the first i bytes of s.
Joined(s) == CHOOSE f : JoinedTo(s, Len(s), f)
GuardedTo(s, i) == IF i = 0 THEN << >> ELSE Joined(s)[i]

LEMMA GuardedByChunks ==
    ASSUME NEW s \in Seq(Byte)
    PROVE  /\ Guarded(s) = GuardedTo(s, Len(s))
           /\ GuardedTo(s, 0) = << >>
           /\ \A i \in 1 .. Len(s) :
                 GuardedTo(s, i) = GuardedTo(s, i - 1) \o Chunk(s, i)
<1> DEFINE chunks == [i \in 1 .. Len(s) |-> Chunk(s, i)]
           n == Len(s)
<1>1. n \in Nat /\ Len(chunks) = n /\ \A i \in 1 .. n : chunks[i] = Chunk(s, i)
  OBVIOUS
<1>2. Guarded(s) = FlattenSeq(chunks)
  BY DEF Guarded, Chunk, Guards
<1>3. FlattenSeq(chunks) =
          IF Len(chunks) = 0 THEN chunks
          ELSE (CHOOSE f : f = [i \in 1 .. Len(chunks) |->
                    IF i = 1 THEN chunks[i] ELSE f[i - 1] \o chunks[i]])[Len(chunks)]
  BY DEF FlattenSeq
<1> DEFINE f == Joined(s)
<1>4. JoinedTo(s, n, f)
  BY <1>1, JoinsExist DEF Joined
<1>5. n # 0 => Guarded(s) = f[n]
  <2>1. \A h : h = [i \in 1 .. Len(chunks) |->
                    IF i = 1 THEN chunks[i] ELSE h[i - 1] \o chunks[i]]
               <=> JoinedTo(s, n, h)
    <3> TAKE h
    <3>1. [i \in 1 .. Len(chunks) |->
                 IF i = 1 THEN chunks[i] ELSE h[i - 1] \o chunks[i]]
          = [i \in 1 .. n |->
                 IF i = 1 THEN Chunk(s, i) ELSE h[i - 1] \o Chunk(s, i)]
      BY <1>1
    <3> QED
      BY <3>1 DEF JoinedTo
  <2> HIDE DEF chunks
  <2>2. (CHOOSE h : h = [i \in 1 .. Len(chunks) |->
                    IF i = 1 THEN chunks[i] ELSE h[i - 1] \o chunks[i]])
        = CHOOSE h : JoinedTo(s, n, h)
    BY <2>1, Zenon
  <2> QED
    BY <1>1, <1>2, <1>3, <2>2 DEF Joined
<1>6. n = 0 => Guarded(s) = << >>
  <2>1. n = 0 => chunks = << >>
    BY <1>1
  <2> HIDE DEF chunks
  <2> QED
    BY <1>1, <1>2, <1>3, <2>1
<1> HIDE DEF f, n
<1>7. ASSUME NEW i \in 1 .. n
      PROVE  GuardedTo(s, i) = GuardedTo(s, i - 1) \o Chunk(s, i)
  <2>1. i \in Nat /\ i # 0 /\ GuardedTo(s, i) = f[i]
        /\ f[i] = IF i = 1 THEN Chunk(s, i) ELSE f[i - 1] \o Chunk(s, i)
    <3>1. i \in Nat /\ i # 0
      BY <1>1
    <3>2. GuardedTo(s, i) = f[i]
      BY <3>1 DEF GuardedTo, f
    <3>3. f[i] = IF i = 1 THEN Chunk(s, i) ELSE f[i - 1] \o Chunk(s, i)
      BY <1>4 DEF JoinedTo
    <3> QED
      BY <3>1, <3>2, <3>3
  <2>2. CASE i = 1
    <3>1. Chunk(s, i) \in Seq(Byte)
      BY ChunkIsText DEF n
    <3>2. << >> \o Chunk(s, i) = Chunk(s, i)
      BY <3>1
    <3>3. GuardedTo(s, i - 1) = << >>
      BY <2>2 DEF GuardedTo
    <3> QED
      BY <2>1, <2>2, <3>2, <3>3
  <2>3. CASE i # 1
    <3>1. i - 1 # 0
      BY <2>1, <2>3
    <3> QED
      BY <2>1, <2>3, <3>1 DEF GuardedTo, f
  <2> QED
    BY <2>2, <2>3
<1>8. GuardedTo(s, 0) = << >>
  BY DEF GuardedTo
<1>9. Guarded(s) = GuardedTo(s, n)
  BY <1>5, <1>6 DEF GuardedTo, f
<1> QED
  BY <1>7, <1>8, <1>9 DEF n

LEMMA GuardedIsText ==
    ASSUME NEW s \in Seq(Byte), NEW i \in 0 .. Len(s)
    PROVE  GuardedTo(s, i) \in Seq(Byte)
<1> DEFINE S == {n \in Nat : n <= Len(s) => GuardedTo(s, n) \in Seq(Byte)}
<1>1. /\ GuardedTo(s, 0) = << >>
      /\ \A n \in 1 .. Len(s) :
            GuardedTo(s, n) = GuardedTo(s, n - 1) \o Chunk(s, n)
  BY GuardedByChunks
<1>2. ASSUME NEW n \in S PROVE n + 1 \in S
  <2> SUFFICES ASSUME n + 1 <= Len(s) PROVE GuardedTo(s, n + 1) \in Seq(Byte)
    OBVIOUS
  <2>1. n + 1 \in 1 .. Len(s) /\ n + 1 - 1 = n /\ GuardedTo(s, n) \in Seq(Byte)
    OBVIOUS
  <2>2. GuardedTo(s, n + 1) = GuardedTo(s, n) \o Chunk(s, n + 1)
    BY <1>1, <2>1
  <2>3. Chunk(s, n + 1) \in Seq(Byte)
    BY <2>1, ChunkIsText
  <2> HIDE DEF S
  <2> DEFINE h == GuardedTo(s, n)
             c == Chunk(s, n + 1)
  <2>4. h \in Seq(Byte) /\ c \in Seq(Byte)
    BY <2>1, <2>3
  <2> HIDE DEF h, c
  <2>5. h \o c \in Seq(Byte)
    BY <2>4
  <2> QED
    BY <2>2, <2>5 DEF h, c
<1>3. 0 \in S /\ S \in SUBSET Nat
  <2>1. << >> \in Seq(Byte)
    OBVIOUS
  <2>2. GuardedTo(s, 0) \in Seq(Byte)
    BY <1>1, <2>1, Zenon
  <2> QED
    BY <2>2
<1> HIDE DEF S
<1>4. S = Nat
  BY <1>2, <1>3, SetInduction
<1> QED
  BY <1>4 DEF S

\* Where byte i of s ends in the guarded form.
Mark(s, i) == Len(GuardedTo(s, i))

Begins(h, t) == Len(h) <= Len(t) /\ \A k \in 1 .. Len(h) : t[k] = h[k]

LEMMA GuardedBegins ==
    ASSUME NEW s \in Seq(Byte), NEW i \in 0 .. Len(s)
    PROVE  Begins(GuardedTo(s, i), Guarded(s))
<1> DEFINE S == {n \in Nat : n <= Len(s) =>
                     Begins(GuardedTo(s, Len(s) - n), Guarded(s))}
<1>1. /\ GuardedTo(s, Len(s)) = Guarded(s) /\ Len(s) \in Nat
      /\ \A n \in 1 .. Len(s) :
            GuardedTo(s, n) = GuardedTo(s, n - 1) \o Chunk(s, n)
  BY GuardedByChunks
<1>2. ASSUME NEW n \in S PROVE n + 1 \in S
  <2> SUFFICES ASSUME n + 1 <= Len(s)
               PROVE  Begins(GuardedTo(s, Len(s) - (n + 1)), Guarded(s))
    OBVIOUS
  <2> DEFINE k == Len(s) - n
             h == GuardedTo(s, k - 1)
             c == Chunk(s, k)
             t == Guarded(s)
  <2>1. /\ k \in 1 .. Len(s) /\ k \in 0 .. Len(s) /\ k - 1 \in 0 .. Len(s)
        /\ k - 1 = Len(s) - (n + 1) /\ n \in Nat /\ n <= Len(s)
    BY <1>1
  <2>2. Begins(GuardedTo(s, k), t)
    BY <2>1
  <2> HIDE DEF k
  <2>3. GuardedTo(s, k) = h \o c
    BY <1>1, <2>1
  <2>4. h \in Seq(Byte) /\ c \in Seq(Byte) /\ t \in Seq(Byte)
    <3>1. Len(s) \in 0 .. Len(s)
      BY <1>1
    <3>2. t \in Seq(Byte)
      BY <1>1, <3>1, GuardedIsText
    <3>3. h \in Seq(Byte)
      BY <2>1, GuardedIsText
    <3>4. c \in Seq(Byte)
      BY <2>1, ChunkIsText
    <3> QED
      BY <3>2, <3>3, <3>4
  <2> HIDE DEF h, c, t
  <2>5. Begins(h, t)
    BY <2>2, <2>3, <2>4 DEF Begins
  <2> QED
    BY <2>1, <2>5 DEF h, t
<1>3. 0 \in S /\ S \in SUBSET Nat
  <2>1. Len(s) - 0 = Len(s)
    BY <1>1
  <2>2. Begins(Guarded(s), Guarded(s))
    <3>1. Len(s) \in 0 .. Len(s)
      BY <1>1
    <3>2. Guarded(s) \in Seq(Byte)
      BY <1>1, <3>1, GuardedIsText
    <3> QED
      BY <3>2 DEF Begins
  <2> QED
    BY <1>1, <2>1, <2>2
<1> HIDE DEF S
<1>4. S = Nat
  BY <1>2, <1>3, SetInduction
<1>5. Len(s) - i \in Nat /\ Len(s) - i <= Len(s) /\ Len(s) - (Len(s) - i) = i
  BY <1>1
<1>6. Len(s) - i \in S
  BY <1>4, <1>5
<1> QED
  BY <1>5, <1>6 DEF S

LEMMA MarkInside ==
    ASSUME NEW s \in Seq(Byte), NEW i \in 0 .. Len(s)
    PROVE  Mark(s, i) \in 0 .. Len(Guarded(s))
<1>1. GuardedTo(s, i) \in Seq(Byte) /\ Begins(GuardedTo(s, i), Guarded(s))
  BY GuardedIsText, GuardedBegins
<1>2. Guarded(s) \in Seq(Byte)
  <2>1. Len(s) \in 0 .. Len(s) /\ Guarded(s) = GuardedTo(s, Len(s))
    BY GuardedByChunks
  <2> QED
    BY <2>1, GuardedIsText
<1> QED
  BY <1>1, <1>2 DEF Begins, Mark

\* A byte that is not guarded is copied.
LEMMA CopiedByte ==
    ASSUME NEW s \in Seq(Byte), NEW i \in 1 .. Len(s), ~Guards(s, i)
    PROVE  /\ Mark(s, i) = Mark(s, i - 1) + 1
           /\ Guarded(s)[Mark(s, i)] = s[i]
<1>1. i \in 0 .. Len(s) /\ i - 1 \in 0 .. Len(s)
  OBVIOUS
<1>2. GuardedTo(s, i) = GuardedTo(s, i - 1) \o <<s[i]>>
  BY GuardedByChunks DEF Chunk
<1>3. GuardedTo(s, i - 1) \in Seq(Byte) /\ <<s[i]>> \in Seq(Byte)
  BY <1>1, GuardedIsText
<1>4. Begins(GuardedTo(s, i), Guarded(s))
  BY <1>1, GuardedBegins
<1>5. /\ Len(GuardedTo(s, i)) = Len(GuardedTo(s, i - 1)) + 1
      /\ GuardedTo(s, i)[Len(GuardedTo(s, i - 1)) + 1] = s[i]
      /\ Len(GuardedTo(s, i - 1)) + 1 \in 1 .. Len(GuardedTo(s, i))
  BY <1>2, <1>3
<1> QED
  BY <1>4, <1>5 DEF Begins, Mark

LEMMA Concatenated ==
    ASSUME NEW T, NEW a \in Seq(T), NEW b \in Seq(T)
    PROVE  /\ Len(a \o b) = Len(a) + Len(b)
           /\ \A k \in 1 .. Len(b) : (a \o b)[Len(a) + k] = b[k]
  OBVIOUS

\* An escaped percent sign becomes three bytes: %25.
LEMMA GuardedByte ==
    ASSUME NEW s \in Seq(Byte), NEW i \in 1 .. Len(s), Guards(s, i)
    PROVE  /\ Mark(s, i) = Mark(s, i - 1) + 3
           /\ Guarded(s)[Mark(s, i - 1) + 1] = PERCENT
           /\ Guarded(s)[Mark(s, i - 1) + 2] = 50
           /\ Guarded(s)[Mark(s, i - 1) + 3] = 53
<1>1. i \in 0 .. Len(s) /\ i - 1 \in 0 .. Len(s)
  OBVIOUS
<1> DEFINE h == GuardedTo(s, i - 1)
           c == <<PERCENT, 50, 53>>
<1>2. GuardedTo(s, i) = h \o c
  BY GuardedByChunks DEF Chunk
<1>3. h \in Seq(Byte) /\ c \in Seq(Byte)
  <2>1. h \in Seq(Byte)
    BY <1>1, GuardedIsText
  <2>2. Chunk(s, i) \in Seq(Byte)
    BY ChunkIsText
  <2> QED
    BY <2>1, <2>2 DEF Chunk
<1>4. Begins(GuardedTo(s, i), Guarded(s))
  BY <1>1, GuardedBegins
<1>5. Len(c) = 3
  OBVIOUS
<1>6. c[1] = PERCENT /\ c[2] = 50 /\ c[3] = 53
  OBVIOUS
<1> HIDE DEF h, c
<1>7. /\ Len(GuardedTo(s, i)) = Len(h) + 3 /\ Len(h) \in Nat
      /\ GuardedTo(s, i)[Len(h) + 1] = PERCENT
      /\ GuardedTo(s, i)[Len(h) + 2] = 50
      /\ GuardedTo(s, i)[Len(h) + 3] = 53
  <2>1. Len(h) \in Nat
    BY <1>3
  <2>2. Len(h \o c) = Len(h) + 3
    <3>1. Len(h \o c) = Len(h) + Len(c)
      BY <1>3, Concatenated, Zenon
    <3> QED
      BY <1>5, <3>1
  <2>3. \A k \in 1 .. 3 : (h \o c)[Len(h) + k] = c[k]
    <3>1. \A k \in 1 .. Len(c) : (h \o c)[Len(h) + k] = c[k]
      BY <1>3, Concatenated, Zenon
    <3> QED
      BY <1>5, <3>1
  <2>4. 1 \in 1 .. 3 /\ 2 \in 1 .. 3 /\ 3 \in 1 .. 3
    OBVIOUS
  <2>5. /\ (h \o c)[Len(h) + 1] = c[1] /\ (h \o c)[Len(h) + 2] = c[2]
        /\ (h \o c)[Len(h) + 3] = c[3]
    BY <2>3, <2>4
  <2> QED
    BY <1>2, <1>6, <2>1, <2>2, <2>5
<1>8. /\ Len(h) + 1 \in 1 .. Len(GuardedTo(s, i))
      /\ Len(h) + 2 \in 1 .. Len(GuardedTo(s, i))
      /\ Len(h) + 3 \in 1 .. Len(GuardedTo(s, i))
  BY <1>7
<1> QED
  BY <1>4, <1>7, <1>8 DEF Begins, Mark, h

LEMMA DigitIsCopied ==
    ASSUME NEW s, NEW i, IsHex(s[i])
    PROVE  ~Guards(s, i)
  BY HexValue DEF Guards

LEMMA EscapeKept ==
    ASSUME NEW s, NEW kept, NEW i
    PROVE  i \in Escapes(s, kept) <=>
               i \in Escapes(s, {}) /\ Escaped(s, i) \notin kept
  BY DEF Escapes

LEMMA GuardedText ==
    ASSUME NEW s \in Seq(Byte)
    PROVE  /\ Guarded(s) \in Seq(Byte)
           /\ Mark(s, 0) = 0 /\ Mark(s, Len(s)) = Len(Guarded(s))
<1>1. Len(s) \in 0 .. Len(s) /\ Guarded(s) = GuardedTo(s, Len(s))
  BY GuardedByChunks
<1>2. Guarded(s) \in Seq(Byte)
  BY <1>1, GuardedIsText
<1>3. Mark(s, 0) = 0
  <2>1. GuardedTo(s, 0) = << >>
    BY DEF GuardedTo
  <2> QED
    BY <2>1 DEF Mark
<1> QED
  BY <1>1, <1>2, <1>3 DEF Mark

\* What decode_like_find_my_way decodes of s, and decodeURI of its guarded form.
Ours(s) == Escapes(s, RESERVED \cup {PERCENT})
Theirs(s) == Escapes(Guarded(s), RESERVED)

\* The two bytes after a percent sign are copied with it, if they are digits.
LEMMA TwoMore ==
    ASSUME NEW s \in Seq(Byte), NEW n \in 1 .. Len(s),
           n + 2 <= Len(s), IsHex(s[n + 1]), IsHex(s[n + 2])
    PROVE  /\ Mark(s, n + 1) = Mark(s, n) + 1 /\ Mark(s, n + 2) = Mark(s, n) + 2
           /\ Guarded(s)[Mark(s, n) + 1] = s[n + 1]
           /\ Guarded(s)[Mark(s, n) + 2] = s[n + 2]
<1>1. /\ n + 1 \in 1 .. Len(s) /\ n + 2 \in 1 .. Len(s)
      /\ n + 1 - 1 = n /\ n + 2 - 1 = n + 1
  OBVIOUS
<1>2. ~Guards(s, n + 1) /\ ~Guards(s, n + 2)
  BY DigitIsCopied
<1>3. Mark(s, n + 1) = Mark(s, n + 1 - 1) + 1 /\ Guarded(s)[Mark(s, n + 1)] = s[n + 1]
  BY <1>1, <1>2, CopiedByte
<1>4. Mark(s, n + 2) = Mark(s, n + 2 - 1) + 1 /\ Guarded(s)[Mark(s, n + 2)] = s[n + 2]
  BY <1>1, <1>2, CopiedByte
<1>5. Mark(s, n) \in Int
  <2>1. n \in 0 .. Len(s)
    OBVIOUS
  <2>2. Mark(s, n) \in 0 .. Len(Guarded(s))
    BY <2>1, MarkInside
  <2> QED
    BY <2>2
<1> QED
  BY <1>1, <1>3, <1>4, <1>5

\* An escape of ours is copied, and is one of theirs.
LEMMA OursIsTheirs ==
    ASSUME NEW s \in Seq(Byte), NEW n \in Ours(s)
    PROVE  /\ n \in 1 .. Len(s) /\ ~Guards(s, n)
           /\ Mark(s, n) \in Theirs(s)
           /\ Escaped(Guarded(s), Mark(s, n)) = Escaped(s, n)
<1> DEFINE g == Guarded(s)
           p == Mark(s, n)
<1>1. n \in Escapes(s, {}) /\ Escaped(s, n) \notin RESERVED /\ Escaped(s, n) # PERCENT
  BY EscapeKept DEF Ours
<1>2. /\ n \in 1 .. Len(s) /\ n + 1 \in 1 .. Len(s) /\ n + 2 \in 1 .. Len(s)
      /\ s[n] = PERCENT /\ IsHex(s[n + 1]) /\ IsHex(s[n + 2])
      /\ Escaped(s, n) = Value(s[n + 1], s[n + 2])
  BY <1>1, EscapeParts
<1>3. ~Guards(s, n)
  BY <1>1 DEF Guards
<1>4. p = Mark(s, n - 1) + 1 /\ g[p] = PERCENT
  BY <1>2, <1>3, CopiedByte
<1>5. /\ Mark(s, n + 2) = p + 2
      /\ g[p + 1] = s[n + 1] /\ g[p + 2] = s[n + 2]
  <2>1. n + 2 <= Len(s)
    BY <1>2
  <2> QED
    BY <1>2, <2>1, TwoMore
<1>6. g \in Seq(Byte) /\ Len(g) \in Nat
  BY GuardedText
<1>7. p \in 1 .. Len(g) /\ p + 2 <= Len(g)
  <2>1. n - 1 \in 0 .. Len(s) /\ n + 2 \in 0 .. Len(s)
    BY <1>2
  <2>2. Mark(s, n - 1) \in 0 .. Len(g) /\ Mark(s, n + 2) \in 0 .. Len(g)
    BY <2>1, MarkInside
  <2> QED
    BY <1>4, <1>5, <1>6, <2>2
<1> HIDE DEF g, p
<1>8. p \in Escapes(g, {})
  <2>1. IsHex(g[p + 1]) /\ IsHex(g[p + 2]) /\ g[p] = PERCENT
    BY <1>2, <1>4, <1>5
  <2> QED
    BY <1>6, <1>7, <2>1, EscapeIsThere
<1>9. Escaped(g, p) = Escaped(s, n)
  <2>1. Escaped(g, p) = Value(g[p + 1], g[p + 2])
    BY <1>6, <1>8, EscapeParts
  <2> QED
    BY <1>2, <1>5, <2>1
<1>10. p \in Escapes(g, RESERVED)
  BY <1>1, <1>8, <1>9, EscapeKept
<1> QED
  BY <1>2, <1>3, <1>9, <1>10 DEF Theirs, g, p

\* And at a byte that is copied there is no other.
LEMMA TheirsIsOurs ==
    ASSUME NEW s \in Seq(Byte), NEW n \in 1 .. Len(s), ~Guards(s, n),
           Mark(s, n) \in Theirs(s)
    PROVE  n \in Ours(s)
<1> DEFINE g == Guarded(s)
           p == Mark(s, n)
<1>1. p \in Escapes(g, {}) /\ Escaped(g, p) \notin RESERVED
  BY EscapeKept DEF Theirs
<1>2. g \in Seq(Byte) /\ Len(g) \in Nat /\ Mark(s, Len(s)) = Len(g)
  BY GuardedText
<1>3. /\ p \in 1 .. Len(g) /\ p + 1 \in 1 .. Len(g) /\ p + 2 \in 1 .. Len(g)
      /\ g[p] = PERCENT /\ IsHex(g[p + 1]) /\ IsHex(g[p + 2])
      /\ Escaped(g, p) = Value(g[p + 1], g[p + 2])
  <2> HIDE DEF g, p
  <2> QED
    BY <1>1, <1>2, EscapeParts
<1>4. g[p] = s[n]
  BY CopiedByte
<1> HIDE DEF g, p
\* A byte after it is copied too, for a guarded one starts with a percent sign.
<1>5. ASSUME NEW k \in 0 .. Len(s) - 1, IsHex(g[Mark(s, k) + 1])
      PROVE  Mark(s, k + 1) = Mark(s, k) + 1 /\ s[k + 1] = g[Mark(s, k) + 1]
  <2>1. k + 1 \in 1 .. Len(s) /\ k + 1 - 1 = k
    OBVIOUS
  <2>2. ~Guards(s, k + 1)
    <3> SUFFICES ASSUME Guards(s, k + 1) PROVE FALSE
      OBVIOUS
    <3>1. g[Mark(s, k + 1 - 1) + 1] = PERCENT
      BY <2>1, GuardedByte DEF g
    <3> QED
      BY <1>5, <2>1, <3>1, HexValue
  <2>3. /\ Mark(s, k + 1) = Mark(s, k + 1 - 1) + 1
        /\ g[Mark(s, k + 1)] = s[k + 1]
    BY <2>1, <2>2, CopiedByte DEF g
  <2> QED
    BY <2>1, <2>3
<1>6. Len(s) \in Nat /\ p = Mark(s, n) /\ p \in Int
  BY <1>3 DEF p
<1>7. n # Len(s)
  BY <1>2, <1>3, <1>6
<1>8. Mark(s, n + 1) = p + 1 /\ s[n + 1] = g[p + 1]
  <2>1. n \in 0 .. Len(s) - 1
    BY <1>6, <1>7
  <2> QED
    BY <1>3, <1>5, <1>6, <2>1
<1>9. n + 1 # Len(s)
  BY <1>2, <1>3, <1>8
<1>10. s[n + 2] = g[p + 2]
  <2>1. n + 1 \in 0 .. Len(s) - 1 /\ n + 1 + 1 = n + 2
    BY <1>6, <1>7, <1>9
  <2>2. IsHex(g[Mark(s, n + 1) + 1]) /\ Mark(s, n + 1) + 1 = p + 2
    BY <1>3, <1>6, <1>8
  <2>3. s[n + 1 + 1] = g[Mark(s, n + 1) + 1]
    BY <1>5, <2>1, <2>2
  <2> QED
    BY <2>1, <2>2, <2>3
<1>11. n \in Escapes(s, {})
  <2>1. n + 2 <= Len(s)
    BY <1>6, <1>7, <1>9
  <2>2. s[n] = PERCENT /\ IsHex(s[n + 1]) /\ IsHex(s[n + 2])
    BY <1>3, <1>4, <1>8, <1>10
  <2> QED
    BY <2>1, <2>2, EscapeIsThere
<1>12. Escaped(s, n) = Escaped(g, p)
  <2>1. Escaped(s, n) = Value(s[n + 1], s[n + 2])
    BY <1>11, EscapeParts
  <2> QED
    BY <1>3, <1>8, <1>10, <2>1
<1>13. Escaped(s, n) # PERCENT
  BY <1>11 DEF Guards, Escapes
<1> QED
  BY <1>1, <1>11, <1>12, <1>13, EscapeKept DEF Ours

\* The guard of an escaped percent sign is one of theirs, and none of ours.
LEMMA GuardIsTheirs ==
    ASSUME NEW s \in Seq(Byte), NEW n \in 1 .. Len(s), Guards(s, n)
    PROVE  /\ n \notin Ours(s)
           /\ Mark(s, n - 1) + 1 \in Theirs(s)
           /\ Escaped(Guarded(s), Mark(s, n - 1) + 1) = PERCENT
<1> DEFINE g == Guarded(s)
           p == Mark(s, n - 1) + 1
<1>1. n - 1 \in 0 .. Len(s) /\ n \in 0 .. Len(s)
  OBVIOUS
<1>2. Mark(s, n - 1) \in 0 .. Len(g) /\ Mark(s, n) \in 0 .. Len(g)
  BY <1>1, MarkInside
<1>3. /\ Mark(s, n) = Mark(s, n - 1) + 3
      /\ g[p] = PERCENT
      /\ g[Mark(s, n - 1) + 2] = 50
      /\ g[Mark(s, n - 1) + 3] = 53
  BY GuardedByte
<1>4. g \in Seq(Byte) /\ Len(g) \in Nat
  BY GuardedText
<1>5. p \in 1 .. Len(g) /\ p + 2 <= Len(g) /\ g[p + 1] = 50 /\ g[p + 2] = 53
  BY <1>2, <1>3, <1>4
<1>6. IsHex(50) /\ IsHex(53) /\ Value(50, 53) = PERCENT
  <2>1. 50 \in digits /\ 53 \in digits
    BY DEF digits
  <2>2. hex_value(50) = 2 /\ hex_value(53) = 5
    BY DEF hex_value, digits, lower_hex, upper_hex
  <2> QED
    BY <2>1, <2>2 DEF IsHex, Value, PERCENT
<1>7. n \notin Ours(s)
  BY EscapeKept DEF Ours, Guards
<1> HIDE DEF g, p
<1>8. p \in Escapes(g, {})
  BY <1>3, <1>4, <1>5, <1>6, EscapeIsThere
<1>9. Escaped(g, p) = PERCENT
  BY <1>4, <1>5, <1>6, <1>8, EscapeParts
<1>10. PERCENT \notin RESERVED
  BY DEF PERCENT, RESERVED
<1>11. p \in Theirs(s)
  BY <1>8, <1>9, <1>10, EscapeKept DEF Theirs, g
<1> QED
  BY <1>7, <1>9, <1>11 DEF g, p

LEMMA OnlyCopiesAreTheirs ==
    ASSUME NEW s \in Seq(Byte), NEW k \in 0 .. Len(s), Mark(s, k) \in Theirs(s)
    PROVE  k \in Ours(s)
<1>1. /\ Guarded(s) \in Seq(Byte) /\ Mark(s, 0) = 0
      /\ Mark(s, k) \in Escapes(Guarded(s), {})
  BY GuardedText, EscapeKept DEF Theirs
<1>2. Mark(s, k) \in 1 .. Len(Guarded(s)) /\ Guarded(s)[Mark(s, k)] = PERCENT
  BY <1>1, EscapeParts
<1>3. k \in 1 .. Len(s)
  <2>1. k # 0
    BY <1>1, <1>2
  <2> QED
    BY <2>1
<1>4. ~Guards(s, k)
  <2> SUFFICES ASSUME Guards(s, k) PROVE FALSE
    OBVIOUS
  <2>1. Mark(s, k) = Mark(s, k - 1) + 3 /\ Guarded(s)[Mark(s, k - 1) + 3] = 53
    BY <1>3, GuardedByte
  <2> QED
    BY <1>2, <2>1 DEF PERCENT
<1> QED
  BY <1>3, <1>4, TheirsIsOurs

LEMMA DigitOfTheirs ==
    ASSUME NEW s \in Seq(Byte), NEW n \in 1 .. Len(s), ~Guards(s, n),
           Mark(s, n) \in Digits(Theirs(s))
    PROVE  n \in Digits(Ours(s))
<1> DEFINE g == Guarded(s)
<1>1. PICK q \in Theirs(s) : Mark(s, n) = q + 1 \/ Mark(s, n) = q + 2
  BY DEF Digits
<1>2. q \in Int /\ q >= 1 /\ g[q] = PERCENT
  <2>1. g \in Seq(Byte) /\ q \in Escapes(g, {})
    BY GuardedText, EscapeKept DEF Theirs
  <2> QED
    BY <2>1, EscapeParts
<1>3. n - 1 \in 0 .. Len(s) /\ n - 1 \in Int
  OBVIOUS
<1>4. Mark(s, n) = Mark(s, n - 1) + 1 /\ Mark(s, n - 1) \in Int
  BY <1>3, CopiedByte, MarkInside
<1>5. CASE Mark(s, n) = q + 1
  <2>1. Mark(s, n - 1) = q
    BY <1>2, <1>4, <1>5
  <2>2. n - 1 \in Ours(s)
    BY <1>1, <1>3, <2>1, OnlyCopiesAreTheirs
  <2>3. n = (n - 1) + 1
    OBVIOUS
  <2> QED
    BY <2>2, <2>3 DEF Digits
<1>6. CASE Mark(s, n) = q + 2
  <2>1. Mark(s, n - 1) = q + 1
    BY <1>2, <1>4, <1>6
  <2>2. n - 1 \in 1 .. Len(s)
    <3>1. Mark(s, 0) = 0
      BY GuardedText
    <3>2. n - 1 # 0
      BY <1>2, <2>1, <3>1
    <3> QED
      BY <1>3, <3>2
  <2>3. ~Guards(s, n - 1)
    <3> SUFFICES ASSUME Guards(s, n - 1) PROVE FALSE
      OBVIOUS
    <3>1. /\ Mark(s, n - 1) = Mark(s, n - 1 - 1) + 3
          /\ g[Mark(s, n - 1 - 1) + 2] = 50
      BY <2>2, GuardedByte
    <3>2. n - 1 - 1 \in 0 .. Len(s)
      BY <2>2
    <3>3. Mark(s, n - 1 - 1) \in Int
      BY <3>2, MarkInside
    <3>4. q = Mark(s, n - 1 - 1) + 2
      BY <1>2, <2>1, <3>1, <3>3
    <3> QED
      BY <1>2, <3>1, <3>4 DEF PERCENT
  <2>4. n - 2 \in 0 .. Len(s) /\ n - 1 - 1 = n - 2
    BY <2>2
  <2>5. Mark(s, n - 1) = Mark(s, n - 2) + 1 /\ Mark(s, n - 2) \in Int
    BY <2>2, <2>3, <2>4, CopiedByte, MarkInside
  <2>6. Mark(s, n - 2) = q
    BY <1>2, <2>1, <2>5
  <2>7. n - 2 \in Ours(s)
    BY <1>1, <2>4, <2>6, OnlyCopiesAreTheirs
  <2>8. n = (n - 2) + 2
    OBVIOUS
  <2> QED
    BY <2>7, <2>8 DEF Digits
<1> QED
  BY <1>1, <1>5, <1>6

LEMMA DigitOfOurs ==
    ASSUME NEW s \in Seq(Byte), NEW n \in 1 .. Len(s), n \in Digits(Ours(s))
    PROVE  Mark(s, n) \in Digits(Theirs(s))
<1>1. PICK e \in Ours(s) : n = e + 1 \/ n = e + 2
  BY DEF Digits
<1>2. e \in 1 .. Len(s) /\ Mark(s, e) \in Theirs(s)
  BY OursIsTheirs
<1>3. e + 2 <= Len(s) /\ IsHex(s[e + 1]) /\ IsHex(s[e + 2])
  <2>1. e \in Escapes(s, {})
    BY EscapeKept DEF Ours
  <2> QED
    BY <2>1, EscapeParts
<1>4. Mark(s, e + 1) = Mark(s, e) + 1 /\ Mark(s, e + 2) = Mark(s, e) + 2
  BY <1>2, <1>3, TwoMore
<1> QED
  BY <1>1, <1>2, <1>4 DEF Digits

\* The two passes have written the same wherever they have read the same.
LEMMA SideBySide ==
    ASSUME NEW s \in Seq(Byte), NEW i \in 0 .. Len(s)
    PROVE  Pass(Guarded(s), Theirs(s))[Mark(s, i)] = Pass(s, Ours(s))[i]
<1> DEFINE g == Guarded(s)
           D == Theirs(s)
           E == Ours(s)
           f == Pass(s, E)
           h == Pass(g, D)
           m(n) == Mark(s, n)
           S == {n \in Nat : n <= Len(s) => h[m(n)] = f[n]}
<1>1. /\ Len(s) \in Nat /\ f[0] = << >>
      /\ \A n \in 1 .. Len(s) :
            f[n] = IF n \in Digits(E) THEN f[n - 1]
                   ELSE Append(f[n - 1], Written(s, E, n))
  BY PassOf
<1>2. g \in Seq(Byte) /\ Len(g) \in Nat /\ m(0) = 0
  BY GuardedText
<1>3. /\ h[0] = << >>
      /\ \A p \in 1 .. Len(g) :
            h[p] = IF p \in Digits(D) THEN h[p - 1]
                   ELSE Append(h[p - 1], Written(g, D, p))
  BY <1>2, PassOf
<1>4. \A n \in 0 .. Len(s) : m(n) \in 0 .. Len(g)
  BY MarkInside
<1>5. E \in SUBSET Escapes(s, {}) /\ D \in SUBSET Escapes(g, {})
  BY EscapeKept DEF Ours, Theirs
<1> HIDE DEF g, D, E, f, h, m
<1>6. ASSUME NEW n \in 1 .. Len(s), h[m(n - 1)] = f[n - 1]
      PROVE  h[m(n)] = f[n]
  <2>1. /\ f[n] = IF n \in Digits(E) THEN f[n - 1]
                  ELSE Append(f[n - 1], Written(s, E, n))
        /\ n \in 0 .. Len(s) /\ n - 1 \in 0 .. Len(s) /\ n \in Int
    BY <1>1
  <2>2. m(n) \in 0 .. Len(g) /\ m(n - 1) \in 0 .. Len(g)
    BY <1>4, <2>1
  <2>3. CASE ~Guards(s, n)
    <3>1. m(n) = m(n - 1) + 1 /\ g[m(n)] = s[n]
      BY <2>3, CopiedByte DEF g, m
    <3>2. m(n) \in Digits(D) <=> n \in Digits(E)
      BY <2>3, DigitOfTheirs, DigitOfOurs DEF m, D, E
    <3>3. Written(g, D, m(n)) = Written(s, E, n)
      <4>1. m(n) \in D <=> n \in E
        BY <2>3, OursIsTheirs, TheirsIsOurs DEF m, D, E
      <4>2. n \in E => Escaped(g, m(n)) = Escaped(s, n)
        BY OursIsTheirs DEF m, g, E
      <4> QED
        BY <3>1, <4>1, <4>2 DEF Written
    <3>4. m(n) \in 1 .. Len(g) /\ m(n) - 1 = m(n - 1)
      BY <1>2, <2>2, <3>1
    <3>5. h[m(n)] = IF m(n) \in Digits(D) THEN h[m(n) - 1]
                    ELSE Append(h[m(n) - 1], Written(g, D, m(n)))
      BY <1>3, <3>4
    <3> QED
      BY <1>6, <2>1, <3>2, <3>3, <3>4, <3>5
  <2>4. CASE Guards(s, n)
    <3> DEFINE p == m(n - 1) + 1
    <3>1. /\ n \notin E /\ p \in D /\ Escaped(g, p) = PERCENT
          /\ m(n) = m(n - 1) + 3
      BY <2>4, GuardIsTheirs, GuardedByte DEF m, g, D, E
    <3>2. s[n] = PERCENT
      BY <2>4 DEF Guards
    <3>3. n \notin Digits(E)
      <4> SUFFICES ASSUME n \in Digits(E) PROVE FALSE
        OBVIOUS
      <4>1. PICK e \in E : n = e + 1 \/ n = e + 2
        BY DEF Digits
      <4>2. IsHex(s[e + 1]) /\ IsHex(s[e + 2])
        BY <1>5, EscapeParts
      <4>3. IsHex(s[n])
        BY <4>1, <4>2
      <4> QED
        BY <3>2, <4>3, HexValue
    <3>4. f[n] = Append(f[n - 1], PERCENT)
      BY <2>1, <3>1, <3>2, <3>3 DEF Written
    <3>5. /\ p \in Int /\ p \in 1 .. Len(g)
          /\ p + 1 \in 1 .. Len(g) /\ p + 2 \in 1 .. Len(g)
          /\ p - 1 = m(n - 1) /\ p + 1 - 1 = p /\ p + 2 - 1 = p + 1
          /\ m(n) = p + 2
      <4>1. p \in Int /\ p \in 1 .. Len(g)
        BY <1>2, <2>2, <3>1
      <4>2. p + 1 \in 1 .. Len(g) /\ p + 2 \in 1 .. Len(g)
        BY <1>2, <2>2, <3>1
      <4>3. p - 1 = m(n - 1) /\ p + 1 - 1 = p /\ p + 2 - 1 = p + 1 /\ m(n) = p + 2
        BY <1>2, <2>2, <3>1
      <4> QED
        BY <4>1, <4>2, <4>3
    <3> HIDE DEF p
    <3>6. p \notin Digits(D) /\ p + 1 \in Digits(D) /\ p + 2 \in Digits(D)
      <4>1. p \notin Digits(D)
        BY <1>2, <1>5, <3>1, <3>5, EscapesAreApart
      <4> QED
        BY <3>1, <4>1 DEF Digits
    <3>7. h[p] = Append(h[m(n - 1)], PERCENT)
      BY <1>3, <3>1, <3>5, <3>6 DEF Written
    <3>8. h[p + 1] = h[p] /\ h[p + 2] = h[p + 1]
      BY <1>3, <3>5, <3>6
    <3> QED
      BY <1>6, <3>4, <3>5, <3>7, <3>8
  <2> QED
    BY <2>3, <2>4
<1>7. ASSUME NEW n \in S PROVE n + 1 \in S
  <2> SUFFICES ASSUME n + 1 <= Len(s) PROVE h[m(n + 1)] = f[n + 1]
    OBVIOUS
  <2>1. n + 1 \in 1 .. Len(s) /\ n + 1 - 1 = n /\ n <= Len(s)
    BY <1>1
  <2>2. h[m(n)] = f[n]
    BY <2>1
  <2> QED
    BY <1>6, <2>1, <2>2
<1>8. 0 \in S /\ S \in SUBSET Nat
  BY <1>1, <1>2, <1>3
<1> HIDE DEF S
<1>9. S = Nat
  BY <1>7, <1>8, SetInduction
<1> QED
  BY <1>1, <1>9 DEF S, g, D, E, f, h, m

\* find-my-way's two steps and the one of decode_like_find_my_way end in the
\* same text.
LEMMA DecodedAlike ==
    ASSUME NEW s \in Seq(Byte)
    PROVE  decodeURI(Guarded(s)) = decode_like_find_my_way(s)
<1>1. /\ Guarded(s) \in Seq(Byte) /\ Len(Guarded(s)) \in Nat
      /\ Mark(s, Len(s)) = Len(Guarded(s)) /\ Len(s) \in 0 .. Len(s) /\ Len(s) \in Nat
  BY GuardedText
<1>2. decodeURI(Guarded(s)) = Pass(Guarded(s), Theirs(s))[Len(Guarded(s))]
  BY <1>1, PassOf DEF decodeURI, Theirs
<1>3. decode_like_find_my_way(s) = Pass(s, Ours(s))[Len(s)]
  BY <1>1, PassOf DEF decode_like_find_my_way, Ours
<1>4. Pass(Guarded(s), Theirs(s))[Mark(s, Len(s))] = Pass(s, Ours(s))[Len(s)]
  BY <1>1, SideBySide
<1> QED
  BY <1>1, <1>2, <1>3, <1>4

-----------------------------------------------------------------------------
(* Feeds *)

LEMMA NothingIsNoFeed == ~EndsLikeAFeed(decode_like_find_my_way(<< >>))
<1>1. decode_like_find_my_way(<< >>) = << >>
  <2>1. << >> \in Seq(Byte) /\ Len(<< >>) = 0
    OBVIOUS
  <2>2. DecodeAt(<< >>, Ours(<< >>)) = Pass(<< >>, Ours(<< >>))[Len(<< >>)]
    BY <2>1, PassOf
  <2>3. Pass(<< >>, Ours(<< >>))[0] = << >>
    BY <2>1, PassOf
  <2> QED
    BY <2>1, <2>2, <2>3 DEF decode_like_find_my_way, Ours
<1>2. ASSUME NEW feed \in FEEDS PROVE ~IsSuffix(feed, << >>)
  <2>1. feed \in Seq(Int) /\ Len(feed) > 0
    <3>1. CASE feed = <<46, 114, 115, 115>>
      BY <3>1
    <3>2. CASE feed = <<46, 97, 116, 111, 109>>
      BY <3>2
    <3>3. CASE feed = <<46, 106, 115, 111, 110>>
      BY <3>3
    <3> QED
      BY <3>1, <3>2, <3>3 DEF FEEDS
  <2>2. Len(Reverse(feed)) = Len(feed) /\ Len(Reverse(<< >>)) = 0
    BY <2>1 DEF Reverse
  <2> QED
    BY <2>1, <2>2 DEF IsSuffix, IsPrefix
<1> QED
  BY <1>1, <1>2 DEF EndsLikeAFeed

\* What the route says of the segment, once both sides have read it.
FeedInv ==
    /\ acct \in Seq(Byte)
    /\ proxy \in {"reading", "not_found", "forwarded"}
    /\ proxy = "not_found" => is_feed_path(acct)
    /\ proxy = "forwarded" => ~is_feed_path(acct)
    /\ route # "none" => proxy = "forwarded" /\ route = MisskeysChoice(acct)

LEMMA ChoiceIsOurs ==
    ASSUME NEW s \in Seq(Byte)
    PROVE  /\ MisskeysChoice(s) = "feed" => is_feed_path(s)
           /\ MisskeysChoice(s) = "actor" => ~is_feed_path(s)
<1>1. EndsLikeAFeed(decodeURI(Guarded(s)))
          <=> EndsLikeAFeed(decode_like_find_my_way(s))
  BY DecodedAlike
<1>2. is_feed_path(s) <=> EndsLikeAFeed(decode_like_find_my_way(s))
  BY NothingIsNoFeed DEF is_feed_path
<1>3. \/ Throws(Guarded(s)) /\ MisskeysChoice(s) = "bad_request"
      \/ /\ EndsLikeAFeed(decodeURI(Guarded(s)))
         /\ MisskeysChoice(s) = "feed"
      \/ /\ ~EndsLikeAFeed(decodeURI(Guarded(s)))
         /\ MisskeysChoice(s) = "actor"
  BY DEF MisskeysChoice
<1> QED
  BY <1>1, <1>2, <1>3

LEMMA InitFeed == FeedInit => FeedInv
<1> SUFFICES ASSUME FeedInit PROVE FeedInv
  OBVIOUS
<1>1. acct \in Seq(Byte \ {SLASH})
  BY AcctsAssumption DEF FeedInit
<1>2. acct \in Seq(Byte)
  BY <1>1
<1> QED
  BY <1>2 DEF FeedInit, FeedInv

LEMMA NextFeed == FeedInv /\ [FeedNext]_feedVars => FeedInv'
<1> SUFFICES ASSUME FeedInv, [FeedNext]_feedVars PROVE FeedInv'
  OBVIOUS
<1> USE DEF FeedInv
<1>1. CASE RejectFeed
  BY <1>1 DEF RejectFeed
<1>2. CASE Forward
  BY <1>2 DEF Forward
<1>3. CASE MisskeyRoutes
  BY <1>3 DEF MisskeyRoutes
<1>4. CASE UNCHANGED feedVars
  BY <1>4 DEF feedVars
<1> QED
  BY <1>1, <1>2, <1>3, <1>4 DEF FeedNext

LEMMA FeedInvHolds == FeedSpec => []FeedInv
  BY InitFeed, NextFeed, PTL DEF FeedSpec

\* No feed gets past is_feed_path (src/feed_routes.rs), however its bytes are
\* escaped: find-my-way reads no feed in what is forwarded.
THEOREM FeedsAreStopped == FeedSpec => []NoFeedIsServed
<1>1. FeedInv => NoFeedIsServed
  <2> SUFFICES ASSUME FeedInv, route = "feed" PROVE FALSE
    BY DEF NoFeedIsServed
  <2>1. ~is_feed_path(acct) /\ MisskeysChoice(acct) = "feed" /\ acct \in Seq(Byte)
    BY DEF FeedInv
  <2> QED
    BY <2>1, ChoiceIsOurs
<1> QED
  BY <1>1, FeedInvHolds, PTL

\* And is_feed_path stops nothing that find-my-way would take for an actor.
THEOREM ActorsAreNotStopped == FeedSpec => []ActorsGetThrough
<1>1. FeedInv => ActorsGetThrough
  BY ChoiceIsOurs DEF FeedInv, ActorsGetThrough
<1> QED
  BY <1>1, FeedInvHolds, PTL

-----------------------------------------------------------------------------
(* Labels *)

Chars == LabelChars \cup {"."}
Label == Seq(LabelChars)

LEMMA LabelIsPiece == Piece(Chars, ".") = Label
<1>1. Chars \ {"."} = LabelChars
  BY DEF Chars, LabelChars, DIGITS
<1> QED
  BY <1>1, Zenon DEF Piece, Label

LEMMA LabelsOfNothing == Labels(<< >>) = << << >> >>
  BY SplitOfNothing DEF Labels

LEMMA LabelsOfMore ==
    ASSUME NEW s \in Seq(Chars), NEW c \in Chars
    PROVE  Labels(Append(s, c)) = Longer(Labels(s), c, ".")
  BY SplitOfMore DEF Labels

LEMMA LabelsAreLabels ==
    ASSUME NEW s \in Seq(Chars)
    PROVE  Labels(s) \in Seq(Label) /\ Labels(s) # << >>
<1>1. Split(s, ".") \in Seq(Piece(Chars, ".")) /\ Split(s, ".") # << >>
  BY PiecesOf
<1> QED
  BY <1>1, LabelIsPiece DEF Labels

\* A dot between two texts parts their labels.
LEMMA LabelsOfTwo ==
    ASSUME NEW r \in Seq(Chars), NEW t \in Seq(Chars)
    PROVE  Labels(Append(r, ".") \o t) = Labels(r) \o Labels(t)
<1>1. "." \in Chars
  BY DEF Chars
<1> QED
  BY <1>1, SplitOfTwo DEF Labels

LEMMA LabelIsText ==
    ASSUME NEW x \in Label
    PROVE  x \in Seq(Chars) /\ Labels(x) = <<x>>
<1>1. x \in Piece(Chars, ".")
  BY LabelIsPiece
<1>2. x \in Seq(Chars) /\ Split(x, ".") = <<x>>
  BY <1>1, PieceIsWhole
<1> QED
  BY <1>2 DEF Labels

-----------------------------------------------------------------------------
(* Text *)

TextTo(labels, k, f) ==
    f = [i \in 1 .. k |->
            IF i = 1 THEN labels[1] ELSE f[i - 1] \o <<".">> \o labels[i]]

LEMMA TextsExist ==
    ASSUME NEW labels, NEW k \in Nat
    PROVE  \E f : TextTo(labels, k, f)
<1> DEFINE S == {n \in Nat : \E f : TextTo(labels, n, f)}
<1>1. 0 \in S
  <2> DEFINE f == [n \in 1 .. 0 |-> << >>]
  <2>1. TextTo(labels, 0, f)
    BY DEF TextTo
  <2> QED
    BY <2>1
<1>2. ASSUME NEW n \in S PROVE n + 1 \in S
  <2>1. PICK f : TextTo(labels, n, f)
    BY <1>2
  <2> DEFINE g == [m \in 1 .. n + 1 |->
                       IF m = n + 1
                       THEN IF m = 1 THEN labels[1] ELSE f[n] \o <<".">> \o labels[m]
                       ELSE f[m]]
  <2>2. n \in Nat /\ g = [m \in 1 .. n + 1 |-> g[m]]
    OBVIOUS
  <2>3. ASSUME NEW m \in 1 .. n + 1
        PROVE  g[m] = IF m = 1 THEN labels[1] ELSE g[m - 1] \o <<".">> \o labels[m]
    <3>1. CASE m # n + 1 /\ m = 1
      <4>1. m \in 1 .. n /\ g[m] = f[m]
        BY <2>2, <3>1
      <4> QED
        BY <2>1, <3>1, <4>1 DEF TextTo
    <3>2. CASE m # n + 1 /\ m # 1
      <4>1. m \in 1 .. n /\ m - 1 \in 1 .. n + 1 /\ m - 1 # n + 1
        BY <2>2, <3>2
      <4>2. g[m] = f[m] /\ g[m - 1] = f[m - 1]
        BY <3>2, <4>1
      <4>3. f[m] = f[m - 1] \o <<".">> \o labels[m]
        BY <2>1, <3>2, <4>1 DEF TextTo
      <4> QED
        BY <3>2, <4>2, <4>3
    <3>3. CASE m = n + 1
      <4>1. g[m] = IF m = 1 THEN labels[1] ELSE f[n] \o <<".">> \o labels[m]
        BY <3>3
      <4>2. m # 1 => g[m - 1] = f[n]
        <5> SUFFICES ASSUME m # 1 PROVE g[m - 1] = f[n]
          OBVIOUS
        <5>1. m - 1 = n /\ n \in 1 .. n + 1 /\ n # n + 1
          BY <2>2, <3>3
        <5> QED
          BY <5>1
      <4> QED
        BY <4>1, <4>2
    <3> QED
      BY <3>1, <3>2, <3>3
  <2>4. TextTo(labels, n + 1, g)
    <3> HIDE DEF g
    <3> QED
      BY <2>2, <2>3 DEF TextTo
  <2> QED
    BY <2>2, <2>4
<1> HIDE DEF S
<1>3. S \in SUBSET Nat
  BY DEF S
<1>4. S = Nat
  BY <1>1, <1>2, <1>3, SetInduction
<1> QED
  BY <1>4 DEF S

LEMMA TextStep ==
    ASSUME NEW labels, NEW k \in Nat, NEW f, TextTo(labels, k, f),
           NEW i \in 1 .. k, i # 1
    PROVE  f[i] = f[i - 1] \o <<".">> \o labels[i]
  BY DEF TextTo

LEMMA TextsAgree ==
    ASSUME NEW a, NEW b, NEW k \in Nat, NEW j \in Nat, NEW f, NEW g,
           TextTo(a, k, f), TextTo(b, j, g), 1 <= k, k <= j,
           \A i \in 1 .. k : a[i] = b[i]
    PROVE  f[k] = g[k]
<1> DEFINE S == {n \in Nat : n + 1 <= k => f[n + 1] = g[n + 1]}
<1>1. f[1] = a[1] /\ g[1] = b[1] /\ a[1] = b[1]
  BY DEF TextTo
<1>2. ASSUME NEW n \in S PROVE n + 1 \in S
  <2> SUFFICES ASSUME n + 1 + 1 <= k PROVE f[n + 1 + 1] = g[n + 1 + 1]
    OBVIOUS
  <2> DEFINE m == n + 1 + 1
  <2>1. /\ n \in Nat /\ m \in 1 .. k /\ m \in 1 .. j /\ m # 1
        /\ m - 1 = n + 1 /\ n + 1 <= k
    OBVIOUS
  <2>2. f[n + 1] = g[n + 1] /\ a[m] = b[m]
    BY <2>1
  <2> HIDE DEF S, m
  <2>3. f[m] = f[m - 1] \o <<".">> \o a[m]
    BY <2>1 DEF TextTo
  <2>4. g[m] = g[m - 1] \o <<".">> \o b[m]
    BY <2>1 DEF TextTo
  <2>5. f[m] = g[m]
    BY <2>1, <2>2, <2>3, <2>4
  <2> QED
    BY <2>5 DEF m
<1>3. 0 \in S /\ S \in SUBSET Nat
  BY <1>1
<1> HIDE DEF S
<1>4. S = Nat
  BY <1>2, <1>3, SetInduction
<1> DEFINE m == k - 1
<1>5. m \in Nat /\ m + 1 = k
  OBVIOUS
<1> HIDE DEF m
<1>6. m + 1 <= k => f[m + 1] = g[m + 1]
  BY <1>4, <1>5 DEF S
<1> QED
  BY <1>5, <1>6

LEMMA TextIsJoined ==
    ASSUME NEW labels, Len(labels) \in Nat
    PROVE  \E f : TextTo(labels, Len(labels), f) /\ Text(labels) = f[Len(labels)]
<1> DEFINE f == CHOOSE h : TextTo(labels, Len(labels), h)
<1>1. Text(labels) = f[Len(labels)]
  BY DEF Text, TextTo
<1>2. TextTo(labels, Len(labels), f)
  BY TextsExist
<1> QED
  BY <1>1, <1>2

LEMMA TextOfOne ==
    ASSUME NEW x \in Label
    PROVE  Text(<<x>>) = x
<1> DEFINE s == <<x>>
<1>1. Len(s) = 1 /\ Len(s) \in Nat /\ s[1] = x
  OBVIOUS
<1> HIDE DEF s
<1>2. PICK f : TextTo(s, Len(s), f) /\ Text(s) = f[Len(s)]
  BY <1>1, TextIsJoined
<1>3. f[1] = s[1]
  BY <1>1, <1>2 DEF TextTo
<1> QED
  BY <1>1, <1>2, <1>3 DEF s

LEMMA TextOfMore ==
    ASSUME NEW labels \in Seq(Label), labels # << >>, NEW x \in Label
    PROVE  Text(Append(labels, x)) = Text(labels) \o <<".">> \o x
<1> DEFINE a == Append(labels, x)
           n == Len(labels)
<1>1. /\ n \in Nat /\ n >= 1 /\ Len(a) = n + 1 /\ n + 1 \in Nat
      /\ \A i \in 1 .. n : labels[i] = a[i]
      /\ a[n + 1] = x
  BY AppendProperties, LenProperties, EmptySeq
<1> HIDE DEF a, n
<1>2. PICK m \in Nat : m = n + 1
  BY <1>1
<1>3. m - 1 = n /\ n <= m /\ m \in 1 .. m /\ m # 1 /\ Len(a) = m /\ a[m] = x
  BY <1>1, <1>2
<1>4. PICK f : TextTo(labels, n, f) /\ Text(labels) = f[n]
  BY <1>1, TextIsJoined DEF n
<1>5. PICK g : TextTo(a, m, g) /\ Text(a) = g[m]
  BY <1>3, TextIsJoined
<1>6. f[n] = g[n]
  BY <1>1, <1>3, <1>4, <1>5, TextsAgree
<1>7. g[m] = g[m - 1] \o <<".">> \o a[m]
  BY <1>3, <1>5, TextStep
<1> QED
  BY <1>3, <1>4, <1>5, <1>6, <1>7 DEF a

LEMMA TextIsText ==
    ASSUME NEW labels \in Seq(Label), labels # << >>
    PROVE  Text(labels) \in Seq(Chars) /\ Labels(Text(labels)) = labels
<1> DEFINE S == {h \in Seq(Label) : h # << >> =>
                     Text(h) \in Seq(Chars) /\ Labels(Text(h)) = h}
<1>1. << >> \in S
  OBVIOUS
<1>2. ASSUME NEW h \in S, NEW x \in Label PROVE Append(h, x) \in S
  <2>1. x \in Seq(Chars) /\ Labels(x) = <<x>> /\ Text(<<x>>) = x
    BY LabelIsText, TextOfOne
  <2>2. h \in Seq(Label) /\ (h # << >> => /\ Text(h) \in Seq(Chars)
                                          /\ Labels(Text(h)) = h)
    OBVIOUS
  <2> HIDE DEF S
  <2>3. Append(h, x) \in Seq(Label)
    BY <2>2, AppendProperties
  <2>4. CASE h = << >>
    <3>1. Append(h, x) = <<x>>
      BY <2>4
    <3> QED
      BY <2>1, <2>3, <3>1 DEF S
  <2>5. CASE h # << >>
    <3> DEFINE t == Text(h)
               d == Append(t, ".")
    <3>1. t \in Seq(Chars) /\ Labels(t) = h
      BY <2>2, <2>5
    <3>2. Text(Append(h, x)) = t \o <<".">> \o x
      BY <2>2, <2>5, TextOfMore
    <3> HIDE DEF t
    <3>3. t \o <<".">> = d /\ d \in Seq(Chars)
      BY <3>1 DEF Chars
    <3> HIDE DEF d
    <3>4. Text(Append(h, x)) = d \o x
      BY <3>2, <3>3, Zenon
    <3>5. Labels(d \o x) = Labels(t) \o Labels(x)
      BY <2>1, <3>1, LabelsOfTwo DEF d
    <3>6. h \o <<x>> = Append(h, x)
      BY <2>2, AppendIsConcat
    <3>7. d \o x \in Seq(Chars)
      BY <2>1, <3>3, ConcatProperties
    <3> QED
      BY <2>1, <2>3, <3>1, <3>4, <3>5, <3>6, <3>7 DEF S
  <2> QED
    BY <2>4, <2>5
<1>3. S \in SUBSET Seq(Label)
  OBVIOUS
<1> HIDE DEF S
<1>4. S = Seq(Label)
  BY <1>1, <1>2, <1>3, TextInduction
<1> QED
  BY <1>4 DEF S

LEMMA TextOfLabels ==
    ASSUME NEW s \in Seq(Chars)
    PROVE  Text(Labels(s)) = s
<1> DEFINE S == {t \in Seq(Chars) : Text(Labels(t)) = t}
<1>1. << >> \in S
  <2>1. << >> \in Label /\ << >> \in Seq(Chars)
    BY DEF Label
  <2>2. Text(<< << >> >>) = << >>
    BY <2>1, TextOfOne
  <2> QED
    BY <2>1, <2>2, LabelsOfNothing
<1>2. ASSUME NEW t \in S, NEW c \in Chars PROVE Append(t, c) \in S
  <2> DEFINE h == Front(Labels(t))
             x == Last(Labels(t))
             y == Append(x, c)
             u == Text(h)
             e == << >>
  <2>1. t \in Seq(Chars) /\ Text(Labels(t)) = t
    OBVIOUS
  <2> HIDE DEF S
  <2>2. Labels(t) \in Seq(Label) /\ Labels(t) # << >>
    BY <2>1, LabelsAreLabels
  <2>3. h \in Seq(Label) /\ x \in Label /\ Labels(t) = Append(h, x)
    BY <2>2, LastAndFront
  <2>4. Labels(Append(t, c)) = IF c = "." THEN Append(Labels(t), e)
                               ELSE Append(h, y)
    BY <2>1, LabelsOfMore DEF Longer
  <2>5. Append(t, c) \in Seq(Chars)
    BY <2>1, AppendProperties
  <2> HIDE DEF h, x
  <2>6. e \in Label /\ (c # "." => y \in Label)
    BY <2>3 DEF Label, Chars
  <2>7. e \in Seq(Chars) /\ x \in Seq(Chars)
    BY <2>3, LabelIsText
  <2>8. t \o <<".">> = Append(t, ".")
    BY <2>1
  <2>9. Append(t, ".") \o e = Append(t, ".")
    BY <2>1 DEF Chars
  <2> HIDE DEF e, y, u
  <2>10. CASE c = "."
    <3>1. Text(Append(Labels(t), e)) = t \o <<".">> \o e
      BY <2>1, <2>2, <2>6, TextOfMore
    <3>2. t \o <<".">> \o e = Append(t, ".")
      BY <2>8, <2>9, Zenon
    <3> QED
      BY <2>4, <2>5, <2>10, <3>1, <3>2 DEF S
  <2>11. CASE c # "." /\ h = << >>
    <3>1. Append(h, y) = <<y>> /\ Append(h, x) = <<x>>
      BY <2>11
    <3>2. Text(<<y>>) = y /\ Text(<<x>>) = x
      BY <2>3, <2>6, <2>11, TextOfOne
    <3>3. x = t
      BY <2>1, <2>3, <3>1, <3>2
    <3> QED
      BY <2>4, <2>5, <2>11, <3>1, <3>2, <3>3 DEF S, y
  <2>12. CASE c # "." /\ h # << >>
    <3> DEFINE d == u \o <<".">>
    <3>1. u \in Seq(Chars)
      BY <2>3, <2>12, TextIsText DEF u
    <3>2. Text(Append(h, y)) = d \o y
      BY <2>3, <2>6, <2>12, TextOfMore DEF u
    <3>3. Text(Append(h, x)) = d \o x
      BY <2>3, <2>12, TextOfMore DEF u
    <3>4. d \in Seq(Chars)
      BY <3>1 DEF Chars
    <3> HIDE DEF d
    <3>5. d \o Append(x, c) = Append(d \o x, c)
      BY <2>7, <3>4, ConcatAppend
    <3> QED
      BY <2>1, <2>3, <2>4, <2>5, <2>12, <3>2, <3>3, <3>5 DEF S, y
  <2> QED
    BY <2>10, <2>11, <2>12
<1>3. S \in SUBSET Seq(Chars)
  OBVIOUS
<1> HIDE DEF S
<1>4. S = Seq(Chars)
  BY <1>1, <1>2, <1>3, TextInduction
<1> QED
  BY <1>4 DEF S

\* The text of two runs of labels is their texts with a dot between them.
LEMMA TextOfTwo ==
    ASSUME NEW a \in Seq(Label), NEW b \in Seq(Label), a # << >>, b # << >>
    PROVE  Text(a \o b) = Append(Text(a), ".") \o Text(b)
<1> DEFINE s == Text(a)
           t == Text(b)
<1>1. /\ s \in Seq(Chars) /\ t \in Seq(Chars)
      /\ Labels(s) = a /\ Labels(t) = b
  BY TextIsText
<1> HIDE DEF s, t
<1>2. Labels(Append(s, ".") \o t) = a \o b
  BY <1>1, LabelsOfTwo
<1>3. Append(s, ".") \o t \in Seq(Chars)
  <2>1. "." \in Chars
    BY DEF Chars
  <2> QED
    BY <1>1, <2>1, AppendProperties, ConcatProperties
<1> QED
  BY <1>2, <1>3, TextOfLabels DEF s, t

-----------------------------------------------------------------------------
(* Suffixes *)

LEMMA ReverseOf ==
    ASSUME NEW T, NEW s \in Seq(T)
    PROVE  /\ Reverse(s) \in Seq(T) /\ Len(Reverse(s)) = Len(s)
           /\ \A i \in 1 .. Len(s) : Reverse(s)[i] = s[Len(s) - i + 1]
<1>1. Len(s) \in Nat /\ \A i \in 1 .. Len(s) : s[Len(s) - i + 1] \in T
  OBVIOUS
<1> QED
  BY <1>1 DEF Reverse

LEMMA SuffixOf ==
    ASSUME NEW T, NEW s \in Seq(T), NEW t \in Seq(T)
    PROVE  IsSuffix(s, t) <=>
               /\ Len(s) <= Len(t)
               /\ SubSeq(t, 1, Len(t) - Len(s)) \o s = t
<1> DEFINE r == Reverse(s)
           q == Reverse(t)
           n == Len(s)
           k == Len(t) - Len(s)
<1>1. /\ r \in Seq(T) /\ Len(r) = n /\ q \in Seq(T) /\ Len(q) = Len(t)
      /\ \A i \in 1 .. n : r[i] = s[n - i + 1]
      /\ \A i \in 1 .. Len(t) : q[i] = t[Len(t) - i + 1]
  BY ReverseOf
<1>2. n \in Nat /\ Len(t) \in Nat /\ k \in Int
  OBVIOUS
<1> HIDE DEF r, q
<1>3. IsSuffix(s, t) <=> n <= Len(t) /\ SubSeq(r, 1, n) = SubSeq(q, 1, n)
  BY <1>1 DEF IsSuffix, IsPrefix, r, q
<1> SUFFICES ASSUME n <= Len(t)
             PROVE  SubSeq(r, 1, n) = SubSeq(q, 1, n)
                      <=> SubSeq(t, 1, k) \o s = t
  BY <1>3
<1>4. k \in 0 .. Len(t) /\ k + n = Len(t) /\ n \in 0 .. Len(t)
  BY <1>2
<1>5. SubSeq(r, 1, n) = SubSeq(q, 1, n) <=> \A i \in 1 .. n : r[i] = q[i]
  <2>1. /\ SubSeq(r, 1, n) \in Seq(T) /\ Len(SubSeq(r, 1, n)) = n
        /\ \A i \in 1 .. n : SubSeq(r, 1, n)[i] = r[i]
    BY <1>1, <1>2
  <2>2. /\ SubSeq(q, 1, n) \in Seq(T) /\ Len(SubSeq(q, 1, n)) = n
        /\ \A i \in 1 .. n : SubSeq(q, 1, n)[i] = q[i]
    BY <1>1, <1>2, <1>4
  <2> DEFINE a == SubSeq(r, 1, n)
             b == SubSeq(q, 1, n)
  <2> HIDE DEF a, b
  <2>3. (\A i \in 1 .. n : a[i] = b[i]) => a = b
    BY <2>1, <2>2, SeqEqual DEF a, b
  <2> QED
    BY <2>1, <2>2, <2>3 DEF a, b
<1>6. (\A i \in 1 .. n : r[i] = q[i]) <=> (\A i \in 1 .. n : s[i] = t[k + i])
  <2>1. ASSUME \A i \in 1 .. n : r[i] = q[i], NEW i \in 1 .. n
        PROVE  s[i] = t[k + i]
    <3> DEFINE j == n - i + 1
    <3>1. j \in 1 .. n /\ j \in 1 .. Len(t) /\ n - j + 1 = i /\ Len(t) - j + 1 = k + i
      BY <1>2, <1>4
    <3> HIDE DEF j
    <3> QED
      BY <1>1, <2>1, <3>1
  <2>2. ASSUME \A i \in 1 .. n : s[i] = t[k + i], NEW i \in 1 .. n
        PROVE  r[i] = q[i]
    <3> DEFINE j == n - i + 1
    <3>1. j \in 1 .. n /\ i \in 1 .. Len(t) /\ Len(t) - i + 1 = k + j
      BY <1>2, <1>4
    <3> HIDE DEF j
    <3> QED
      BY <1>1, <2>2, <3>1 DEF j
  <2> QED
    BY <2>1, <2>2
<1>7. (\A i \in 1 .. n : s[i] = t[k + i]) <=> SubSeq(t, 1, k) \o s = t
  <2> DEFINE p == SubSeq(t, 1, k)
  <2>1. /\ p \in Seq(T) /\ Len(p) = k
        /\ \A i \in 1 .. k : p[i] = t[i]
    BY <1>4
  <2> HIDE DEF p
  <2> DEFINE w == p \o s
  <2>2. /\ w \in Seq(T) /\ Len(w) = k + n
        /\ \A i \in 1 .. k + n : w[i] = IF i <= k THEN p[i] ELSE s[i - k]
    BY <2>1, ConcatProperties
  <2> HIDE DEF w, k, n
  <2>3. ASSUME w = t, NEW i \in 1 .. n PROVE s[i] = t[k + i]
    <3> DEFINE j == k + i
    <3>1. j \in 1 .. k + n /\ ~(j <= k) /\ j - k = i
      BY <1>2, <1>4
    <3>2. t[j] = t[k + i]
      OBVIOUS
    <3> HIDE DEF j
    <3>3. w[j] = s[j - k]
      BY <2>2, <3>1
    <3> QED
      BY <2>3, <3>1, <3>2, <3>3
  <2>4. ASSUME \A i \in 1 .. n : s[i] = t[k + i] PROVE w = t
    <3>1. ASSUME NEW i \in 1 .. Len(w) PROVE w[i] = t[i]
      <4>1. i \in 1 .. k + n /\ i \in Int
        BY <2>2
      <4>2. CASE i <= k
        <5>1. i \in 1 .. k
          BY <1>2, <4>1, <4>2
        <5> QED
          BY <2>1, <2>2, <4>1, <4>2, <5>1
      <4>3. CASE ~(i <= k)
        <5>1. i - k \in 1 .. n /\ k + (i - k) = i
          BY <1>2, <1>4, <4>1, <4>3
        <5> QED
          BY <2>2, <2>4, <4>1, <4>3, <5>1
      <4> QED
        BY <4>2, <4>3
    <3>2. Len(w) = Len(t)
      BY <1>4, <2>2
    <3> QED
      BY <2>2, <3>1, <3>2, SeqEqual
  <2> QED
    BY <2>3, <2>4 DEF w, p
<1> QED
  BY <1>5, <1>6, <1>7

LEMMA SuffixOfConcat ==
    ASSUME NEW T, NEW p \in Seq(T), NEW s \in Seq(T)
    PROVE  /\ IsSuffix(s, p \o s)
           /\ SubSeq(p \o s, 1, Len(p \o s) - Len(s)) = p
<1> DEFINE t == p \o s
<1>1. /\ t \in Seq(T) /\ Len(t) = Len(p) + Len(s)
      /\ Len(p) \in Nat /\ Len(s) \in Nat
      /\ \A i \in 1 .. Len(p) + Len(s) :
            t[i] = IF i <= Len(p) THEN p[i] ELSE s[i - Len(p)]
  BY ConcatProperties, LenProperties
<1>2. Len(t) - Len(s) = Len(p) /\ Len(s) <= Len(t)
  BY <1>1
<1> HIDE DEF t
<1>3. SubSeq(t, 1, Len(p)) = p
  <2> DEFINE a == SubSeq(t, 1, Len(p))
  <2>1. a \in Seq(T) /\ Len(a) = Len(p) /\ \A i \in 1 .. Len(p) : a[i] = t[i]
    BY <1>1
  <2>2. \A i \in 1 .. Len(p) : t[i] = p[i]
    BY <1>1
  <2> HIDE DEF a
  <2>3. a = p
    BY <2>1, <2>2, SeqEqual
  <2> QED
    BY <2>3 DEF a
<1>4. IsSuffix(s, t)
  BY <1>1, <1>2, <1>3, SuffixOf DEF t
<1> QED
  BY <1>2, <1>3, <1>4 DEF t

-----------------------------------------------------------------------------
(* The verdict on a host *)

LEMMA LeadingDot ==
    ASSUME NEW s \in Seq(Chars), s # << >>, Head(s) = ".", NEW p \in Seq(Chars)
    PROVE  Tail(s) \in Seq(Chars) /\ p \o s = Append(p, ".") \o Tail(s)
<1> DEFINE r == Tail(s)
           d == <<".">>
<1>1. r \in Seq(Chars) /\ d \in Seq(Chars) /\ Len(d) = 1 /\ d[1] = "."
  BY HeadTailProperties DEF Chars
<1>2. s = d \o r
  <2>1. /\ d \o r \in Seq(Chars) /\ Len(d \o r) = Len(s)
        /\ \A i \in 1 .. Len(s) : (d \o r)[i] = s[i]
    OBVIOUS
  <2> HIDE DEF d, r
  <2> QED
    BY <2>1, SeqEqual
<1>3. Append(p, ".") = p \o d
  <2>1. "." \in Chars
    BY DEF Chars
  <2> QED
    BY <2>1, AppendIsConcat, Zenon DEF d
<1> HIDE DEF d, r
<1>4. p \o (d \o r) = (p \o d) \o r
  <2>1. d \in Seq(Chars)
    BY <1>1
  <2>2. r \in Seq(Chars)
    BY <1>1
  <2>3. (p \o d) \o r = p \o (d \o r)
    BY <2>1, <2>2, ConcatAssociative, SMTT(30)
  <2> QED
    BY <2>3
<1> QED
  BY <1>1, <1>2, <1>3, <1>4 DEF r

LEMMA UnderMeansSuffix ==
    ASSUME NEW h \in Seq(Label), h # << >>, NEW s \in Seq(Chars), ~OnlyDots(s),
           host_is_internal(Text(h), s)
    PROVE  /\ IsSuffix(Named(s), h)
           /\ Head(s) = "." => Len(h) > Len(Named(s))
<1> DEFINE t == Text(h)
           rest == SubSeq(t, 1, Len(t) - Len(s))
<1>1. t \in Seq(Chars) /\ Labels(t) = h
  BY TextIsText
<1>2. s # << >>
  BY DEF OnlyDots
<1>3. IsSuffix(s, t) /\ (Head(s) = "." \/ rest = << >> \/ Last(rest) = ".")
  BY DEF host_is_internal
<1> HIDE DEF t
<1>4. Len(s) <= Len(t) /\ rest \o s = t
  BY <1>1, <1>3, SuffixOf
<1>5. rest \in Seq(Chars)
  BY <1>1, <1>4
<1> HIDE DEF rest
\* Labels before the ones that were named.
<1>6. ASSUME NEW q \in Seq(Chars), NEW r \in Seq(Chars), Append(q, ".") \o r = t
      PROVE  IsSuffix(Labels(r), h) /\ Len(h) > Len(Labels(r))
  <2>1. h = Labels(q) \o Labels(r)
    BY <1>1, <1>6, LabelsOfTwo
  <2>2. /\ Labels(q) \in Seq(Label) /\ Labels(q) # << >>
        /\ Labels(r) \in Seq(Label)
    BY LabelsAreLabels
  <2>3. Len(h) = Len(Labels(q)) + Len(Labels(r))
    BY <2>1, <2>2, ConcatProperties
  <2>4. Len(Labels(q)) \in Nat \ {0} /\ Len(Labels(r)) \in Nat
    BY <2>2, EmptySeq, LenProperties
  <2>5. IsSuffix(Labels(r), h)
    BY <2>1, <2>2, SuffixOfConcat
  <2> QED
    BY <2>3, <2>4, <2>5
<1>7. CASE Head(s) = "."
  <2>1. Tail(s) \in Seq(Chars) /\ rest \o s = Append(rest, ".") \o Tail(s)
    BY <1>2, <1>5, <1>7, LeadingDot
  <2> QED
    BY <1>4, <1>5, <1>6, <1>7, <2>1 DEF Named
<1>8. CASE Head(s) # "." /\ rest = << >>
  <2>1. s = t
    BY <1>4, <1>8
  <2>2. Named(s) = h
    BY <1>1, <1>8, <2>1 DEF Named
  <2>3. << >> \o h = h /\ << >> \in Seq(Label)
    OBVIOUS
  <2>4. IsSuffix(h, << >> \o h)
    BY <2>3, SuffixOfConcat
  <2> QED
    BY <1>8, <2>2, <2>3, <2>4
<1>9. CASE Head(s) # "." /\ rest # << >>
  <2>1. rest = Append(Front(rest), ".") /\ Front(rest) \in Seq(Chars)
    BY <1>3, <1>5, <1>9, LastAndFront
  <2> QED
    BY <1>4, <1>6, <1>9, <2>1 DEF Named
<1> QED
  BY <1>7, <1>8, <1>9

LEMMA SuffixMeansUnder ==
    ASSUME NEW h \in Seq(Label), h # << >>, NEW s \in Seq(Chars), ~OnlyDots(s),
           IsSuffix(Named(s), h), Head(s) = "." => Len(h) > Len(Named(s))
    PROVE  host_is_internal(Text(h), s)
<1> DEFINE t == Text(h)
           N == Named(s)
           a == SubSeq(h, 1, Len(h) - Len(N))
<1>1. s # << >>
  BY DEF OnlyDots
<1>2. Head(s) = "." => Tail(s) \in Seq(Chars)
  BY <1>1
<1>3. N \in Seq(Label) /\ N # << >>
  BY <1>2, LabelsAreLabels DEF Named
<1>4. Text(N) = IF Head(s) = "." THEN Tail(s) ELSE s
  BY <1>2, TextOfLabels DEF Named
<1> HIDE DEF N
<1>5. Len(N) <= Len(h) /\ a \o N = h
  BY <1>3, SuffixOf DEF N
<1>6. a \in Seq(Label) /\ Len(a) = Len(h) - Len(N)
  BY <1>3, <1>5
<1> HIDE DEF a
<1>7. t \in Seq(Chars) /\ (a # << >> => Text(a) \in Seq(Chars))
  BY <1>6, TextIsText
<1>8. a # << >> => t = Append(Text(a), ".") \o Text(N)
  BY <1>3, <1>5, <1>6, TextOfTwo
<1> HIDE DEF t
<1>9. CASE Head(s) = "."
  <2>1. a # << >>
    BY <1>6, <1>9 DEF N
  <2>2. Text(a) \o s = t
    BY <1>1, <1>4, <1>7, <1>8, <1>9, <2>1, LeadingDot
  <2>3. IsSuffix(s, t)
    BY <1>7, <2>1, <2>2, SuffixOfConcat
  <2> QED
    BY <1>9, <2>3 DEF host_is_internal, t
<1>10. CASE Head(s) # "." /\ a = << >>
  <2>1. h = N
    BY <1>3, <1>5, <1>10
  <2>2. t = s /\ << >> \o s = s /\ << >> \in Seq(Chars)
    BY <1>4, <1>10, <2>1 DEF t
  <2>3. IsSuffix(s, t) /\ SubSeq(t, 1, Len(t) - Len(s)) = << >>
    BY <2>2, SuffixOfConcat
  <2> QED
    BY <2>3 DEF host_is_internal, t
<1>11. CASE Head(s) # "." /\ a # << >>
  <2> DEFINE p == Append(Text(a), ".")
  <2>1. p \in Seq(Chars) /\ Last(p) = "."
    <3>1. "." \in Chars
      BY DEF Chars
    <3> QED
      BY <1>7, <1>11, <3>1, AppendNotEmpty
  <2>2. t = p \o s
    BY <1>4, <1>8, <1>11
  <2> HIDE DEF p
  <2>3. IsSuffix(s, t) /\ SubSeq(t, 1, Len(t) - Len(s)) = p
    BY <2>1, <2>2, SuffixOfConcat
  <2> QED
    BY <2>1, <2>3 DEF host_is_internal, t
<1> QED
  BY <1>9, <1>10, <1>11

-----------------------------------------------------------------------------
(* What startup lets through *)

LEMMA NormalisedIsText ==
    ASSUME NEW s \in Seq(DOMAIN lowercase), IsSuffixSetting(normalised(s))
    PROVE  normalised(s) \in Seq(Chars)
<1> DEFINE t == trimmed(s)
           kept == {i \in DOMAIN s : s[i] # " "}
<1>1. \E n \in Nat : DOMAIN t = 1 .. n
  <2>1. CASE kept = {}
    <3>1. t = << >>
      BY <2>1 DEF trimmed
    <3> HIDE DEF t
    <3>2. DOMAIN t = 1 .. 0
      BY <3>1
    <3> QED
      BY <3>2
  <2>2. CASE kept # {}
    <3>1. /\ kept \in SUBSET (1 .. Len(s)) /\ kept \in SUBSET Nat
          /\ Len(s) \in Nat
      <4> HIDE DEF lowercase
      <4>1. DOMAIN s = 1 .. Len(s) /\ Len(s) \in Nat
        BY LenProperties
      <4>2. kept \in SUBSET (1 .. Len(s))
        BY <4>1
      <4>3. 1 .. Len(s) \in SUBSET Nat
        BY <4>1
      <4> HIDE DEF kept
      <4> QED
        BY <4>1, <4>2, <4>3
    <3> HIDE DEF kept
    <3>2. Min(kept) \in kept
      <4>1. \E m \in kept : \A k \in kept : m <= k
        BY <2>2, <3>1, LeastElement
      <4> QED
        BY <4>1 DEF Min
    <3>3. Max(kept) \in kept
      <4>1. \E m \in kept : \A k \in kept : k <= m
        BY <2>2, <3>1, GreatestElement
      <4>2. \E m \in kept : \A k \in kept : m >= k
        BY <3>1, <4>1
      <4> QED
        BY <4>2 DEF Max
    <3>4. t = SubSeq(s, Min(kept), Max(kept))
      BY <2>2 DEF trimmed, kept
    <3>5. t \in Seq(DOMAIN lowercase)
      <4> DEFINE a == Min(kept)
                 b == Max(kept)
      <4>1. a \in 1 .. Len(s) /\ b \in 1 .. Len(s)
        BY <3>1, <3>2, <3>3
      <4> HIDE DEF a, b, t
      <4>2. t = SubSeq(s, a, b)
        BY <3>4 DEF a, b
      <4> HIDE DEF lowercase
      <4> QED
        BY <4>1, <4>2
    <3> HIDE DEF t
    <3> QED
      BY <3>5, LenProperties
  <2> QED
    BY <2>1, <2>2
<1>2. PICK n \in Nat : DOMAIN t = 1 .. n
  BY <1>1
<1> DEFINE u == normalised(s)
<1>3. DOMAIN u = 1 .. n /\ u = [i \in 1 .. n |-> u[i]]
  BY <1>2 DEF normalised
<1>4. \A i \in 1 .. n : u[i] \in Chars
  BY <1>3 DEF IsSuffixSetting, Chars
<1> HIDE DEF u
<1>5. u \in [1 .. n -> Chars]
  BY <1>3, <1>4
<1>6. u \in Seq(Chars)
  BY <1>5
<1> QED
  BY <1>6 DEF u

-----------------------------------------------------------------------------
(* Hosts under a name *)

LEMMA NamedAreLabels ==
    ASSUME NEW s \in Seq(Chars), ~OnlyDots(s)
    PROVE  Named(s) \in Seq(Label) /\ Named(s) # << >>
<1>1. s # << >>
  BY DEF OnlyDots
<1>2. Head(s) = "." => Tail(s) \in Seq(Chars)
  BY <1>1
<1> QED
  BY <1>2, LabelsAreLabels DEF Named

LEMMA PadLabels ==
    /\ <<"a">> \in Label /\ <<"1">> \in Label
    /\ \A x \in {<<"a">>, <<"1">>} : x # << >> /\ x[1] # "xn--"
    /\ ~IsNumber(<<"a">>) /\ IsOctet(<<"1">>)
<1>1. /\ Len(<<"a">>) = 1 /\ Len(<<"1">>) = 1
      /\ <<"a">>[1] = "a" /\ <<"1">>[1] = "1"
  OBVIOUS
<1>2. <<"a">> \in Label /\ <<"1">> \in Label
  BY DEF Label, LabelChars, DIGITS
<1>3. ~IsNumber(<<"a">>)
  BY <1>1 DEF IsNumber, DIGITS
<1>4. IsOctet(<<"1">>)
  BY <1>1 DEF IsOctet, DIGITS
<1> QED
  BY <1>1, <1>2, <1>3, <1>4

\* A name stays one with the label "a" before it, and a host under it matches.
LEMMA NameCanMatch ==
    ASSUME NEW s \in Seq(Chars), ~OnlyDots(s), IsName(Named(s))
    PROVE  CanMatch(s)
<1> DEFINE n == Named(s)
           x == <<"a">>
           p == <<x>>
           h == p \o n
<1>1. n \in Seq(Label) /\ n # << >>
  BY NamedAreLabels
<1>a. Len(n) \in Nat \ {0} /\ DOMAIN n = 1 .. Len(n)
  <2> HIDE DEF n
  <2> QED
    BY <1>1, EmptySeq, LenProperties
<1>2. x \in Label /\ x # << >> /\ x[1] # "xn--" /\ ~IsNumber(x)
  BY PadLabels
<1>3. IsName(n)
  OBVIOUS
<1> HIDE DEF n, x
<1>4. /\ p \in Seq(Label) /\ h \in Seq(Label) /\ Len(h) = Len(n) + 1
      /\ h[1] = x /\ \A i \in 2 .. Len(n) + 1 : h[i] = n[i - 1]
  BY <1>1, <1>2, <1>a
<1> HIDE DEF h
<1>5. ~EndsInNumber(h)
  <2>1. h[Len(h)] = n[Len(n)]
    <3>1. Len(n) + 1 \in 2 .. Len(n) + 1 /\ (Len(n) + 1) - 1 = Len(n)
      BY <1>a
    <3> QED
      BY <1>4, <3>1
  <2>2. CASE Len(n) = 1
    BY <1>2, <1>3, <1>4, <2>1, <2>2 DEF IsName, EndsInNumber
  <2>3. CASE Len(n) > 1
    <3>1. Len(n) \in 2 .. Len(n) + 1
      BY <1>a, <2>3
    <3>2. h[Len(n)] = n[Len(n) - 1] /\ Len(h) - 1 = Len(n)
      BY <1>a, <1>4, <3>1
    <3>3. ~IsNumber(n[Len(n)]) /\ ~(n[Len(n)] = << >> /\ IsNumber(n[Len(n) - 1]))
      BY <1>3, <2>3 DEF IsName, EndsInNumber
    <3> QED
      BY <2>1, <3>2, <3>3 DEF EndsInNumber
  <2>4. Len(n) = 1 \/ Len(n) > 1
    BY <1>a
  <2> QED
    BY <2>2, <2>3, <2>4
<1>6. ASSUME NEW i \in DOMAIN h PROVE h[i] = << >> \/ h[i][1] # "xn--"
  <2>1. i \in 1 .. Len(n) + 1 /\ DOMAIN n = 1 .. Len(n)
    BY <1>a, <1>4
  <2>2. CASE i = 1
    BY <1>2, <1>4, <2>2
  <2>3. CASE i # 1
    <3>1. i - 1 \in 1 .. Len(n) /\ h[i] = n[i - 1]
      BY <1>a, <1>4, <2>1, <2>3
    <3> QED
      BY <1>3, <2>1, <3>1 DEF IsName
  <2> QED
    BY <2>2, <2>3
<1>7. IsHost(h)
  BY <1>4, <1>5, <1>6 DEF IsHost, IsName, Label
<1>8. IsSuffix(n, h)
  BY <1>1, <1>4, SuffixOfConcat DEF h
<1>9. host_is_internal(Text(h), s)
  <2>1. h # << >> /\ Len(h) > Len(n)
    BY <1>a, <1>4
  <2> QED
    BY <1>4, <1>8, <2>1, SuffixMeansUnder DEF n
<1>10. p \in Pads
  BY DEF Pads, x
<1> QED
  BY <1>7, <1>9, <1>10 DEF CanMatch, h, n

\* What is under a name ends in a number if the name does, and begins labels
\* the way the name does.
LEMMA NameOfHost ==
    ASSUME NEW h \in Seq(Label), NEW n \in Seq(Label), n # << >>,
           Len(n) <= Len(h),
           \A i \in 1 .. Len(n) : n[i] = h[Len(h) - Len(n) + i],
           IsName(h)
    PROVE  IsName(n)
<1>1. Len(n) \in Nat \ {0} /\ Len(h) \in Nat /\ DOMAIN n = 1 .. Len(n)
  BY EmptySeq, LenProperties
<1>2. ~EndsInNumber(n)
  <2>1. n[Len(n)] = h[Len(h)]
    BY <1>1
  <2>2. Len(n) > 1 => n[Len(n) - 1] = h[Len(h) - 1] /\ Len(h) > 1
    BY <1>1
  <2> QED
    BY <2>1, <2>2 DEF IsName, EndsInNumber
<1>3. ASSUME NEW i \in DOMAIN n PROVE n[i] = << >> \/ n[i][1] # "xn--"
  <2>1. Len(h) - Len(n) + i \in DOMAIN h /\ n[i] = h[Len(h) - Len(n) + i]
    BY <1>1
  <2> QED
    BY <2>1 DEF IsName
<1> QED
  BY <1>2, <1>3 DEF IsName

\* An address's end becomes an address with a 1 for each number that lacks.
LEMMA AddressCanMatch ==
    ASSUME NEW s \in Seq(Chars), ~OnlyDots(s),
           Len(Named(s)) <= 4, \A i \in DOMAIN Named(s) : IsOctet(Named(s)[i]),
           Head(s) = "." => Len(Named(s)) < 4
    PROVE  CanMatch(s)
<1> DEFINE n == Named(s)
           y == <<"1">>
<1>1. n \in Seq(Label) /\ n # << >>
  BY NamedAreLabels
<1>a. Len(n) \in Nat \ {0} /\ DOMAIN n = 1 .. Len(n)
  <2> HIDE DEF n
  <2> QED
    BY <1>1, EmptySeq, LenProperties
<1>2. y \in Label /\ IsOctet(y)
  BY PadLabels
<1>3. Len(n) \in 1 .. 4 /\ \A i \in 1 .. Len(n) : IsOctet(n[i])
  <2>1. Len(n) <= 4 /\ \A i \in DOMAIN n : IsOctet(n[i])
    OBVIOUS
  <2> HIDE DEF n
  <2>2. Len(n) \in 1 .. 4
    <3>1. Len(n) \in Nat \ {0} /\ Len(n) <= 4
      BY <1>a, <2>1, Zenon
    <3> DEFINE k == Len(n)
    <3>2. k \in Nat \ {0} /\ k <= 4
      BY <3>1
    <3> HIDE DEF k
    <3>3. k \in 1 .. 4
      BY <3>2
    <3> QED
      BY <3>3 DEF k
  <2>3. \A i \in 1 .. Len(n) : IsOctet(n[i])
    BY <1>a, <2>1
  <2> QED
    BY <2>2, <2>3
<1>4. Head(s) = "." => Len(n) < 4
  OBVIOUS
<1> HIDE DEF n, y
<1>5. ASSUME NEW pad \in Seq(Label), pad \in Pads, Len(pad) + Len(n) = 4,
             \A i \in 1 .. Len(pad) : pad[i] = y
      PROVE  CanMatch(s)
  <2> DEFINE h == pad \o n
  <2>1. /\ h \in Seq(Label) /\ Len(h) = 4 /\ Len(pad) \in Nat
        /\ \A i \in 1 .. 4 :
              h[i] = IF i <= Len(pad) THEN pad[i] ELSE n[i - Len(pad)]
    BY <1>1, <1>5, ConcatProperties, LenProperties
  <2> HIDE DEF h
  <2>2. ASSUME NEW i \in 1 .. 4 PROVE IsOctet(h[i])
    <3>1. CASE i <= Len(pad)
      <4>1. i \in 1 .. Len(pad) /\ h[i] = pad[i]
        BY <2>1, <3>1
      <4> QED
        BY <1>2, <1>5, <4>1
    <3>2. CASE ~(i <= Len(pad))
      <4>1. i - Len(pad) \in 1 .. Len(n) /\ h[i] = n[i - Len(pad)]
        BY <1>a, <1>5, <2>1, <3>2
      <4> QED
        BY <1>3, <4>1
    <3> QED
      BY <3>1, <3>2
  <2>3. IsHost(h)
    BY <2>1, <2>2 DEF IsHost, IsAddress, Label
  <2>4. IsSuffix(n, h)
    BY <1>1, <1>5, SuffixOfConcat DEF h
  <2>5. host_is_internal(Text(h), s)
    <3>1. h # << >>
      <4>1. Len(<< >>) = 0
        OBVIOUS
      <4>2. Len(h) # 0
        BY <2>1
      <4> QED
        BY <4>1, <4>2, Zenon
    <3>2. Head(s) = "." => Len(h) > Len(n)
      BY <1>3, <1>4, <2>1
    <3> QED
      BY <2>1, <2>4, <3>1, <3>2, SuffixMeansUnder DEF n
  <2> QED
    BY <1>5, <2>3, <2>5 DEF CanMatch, h, n
<1>6. /\ << >> \in Seq(Label) /\ <<y>> \in Seq(Label) /\ <<y, y>> \in Seq(Label)
      /\ <<y, y, y>> \in Seq(Label)
  BY <1>2
<1>7. /\ << >> \in Pads /\ <<y>> \in Pads /\ <<y, y>> \in Pads
      /\ <<y, y, y>> \in Pads
  BY DEF Pads, y
<1>8. CASE Len(n) = 4
  <2>1. Len(<< >>) + Len(n) = 4 /\ \A i \in 1 .. Len(<< >>) : << >>[i] = y
    BY <1>8
  <2> QED
    BY <1>5, <1>6, <1>7, <2>1
<1>9. CASE Len(n) = 3
  <2>1. Len(<<y>>) + Len(n) = 4 /\ \A i \in 1 .. Len(<<y>>) : <<y>>[i] = y
    BY <1>9
  <2> QED
    BY <1>5, <1>6, <1>7, <2>1
<1>10. CASE Len(n) = 2
  <2>1. Len(<<y, y>>) + Len(n) = 4
        /\ \A i \in 1 .. Len(<<y, y>>) : <<y, y>>[i] = y
    BY <1>10
  <2> QED
    BY <1>5, <1>6, <1>7, <2>1
<1>11. CASE Len(n) = 1
  <2>1. Len(<<y, y, y>>) + Len(n) = 4
        /\ \A i \in 1 .. Len(<<y, y, y>>) : <<y, y, y>>[i] = y
    BY <1>11
  <2> QED
    BY <1>5, <1>6, <1>7, <2>1
<1> QED
  BY <1>3, <1>8, <1>9, <1>10, <1>11

\* A setting that a host matches is one that CanMatch says can be matched.
LEMMA MatchedCanMatch ==
    ASSUME NEW s \in Seq(Chars), ~OnlyDots(s), NEW h \in Seq(Label), h # << >>,
           IsHost(h), host_is_internal(Text(h), s)
    PROVE  CanMatch(s)
<1> DEFINE n == Named(s)
<1>1. n \in Seq(Label) /\ n # << >>
  BY NamedAreLabels
<1>2. IsSuffix(n, h) /\ (Head(s) = "." => Len(h) > Len(n))
  BY UnderMeansSuffix
<1> HIDE DEF n
<1>3. Len(n) <= Len(h) /\ SubSeq(h, 1, Len(h) - Len(n)) \o n = h
  BY <1>1, <1>2, SuffixOf
<1>a. Len(n) <= Len(h) /\ Len(n) \in Nat /\ Len(h) \in Nat /\ DOMAIN n = 1 .. Len(n)
  BY <1>1, <1>3, LenProperties
<1>4. \A i \in 1 .. Len(n) : n[i] = h[Len(h) - Len(n) + i]
  <2> DEFINE p == SubSeq(h, 1, Len(h) - Len(n))
  <2>1. p \in Seq(Label) /\ Len(p) = Len(h) - Len(n) /\ p \o n = h
    BY <1>3, <1>a
  <2> HIDE DEF p
  <2> SUFFICES ASSUME NEW i \in 1 .. Len(n) PROVE n[i] = h[Len(p) + i]
    BY <2>1
  <2> DEFINE j == Len(p) + i
  <2>2. j \in 1 .. Len(p) + Len(n) /\ ~(j <= Len(p)) /\ j - Len(p) = i
    BY <1>a, <2>1
  <2> HIDE DEF j
  <2>3. (p \o n)[j] = n[j - Len(p)]
    BY <1>1, <2>1, <2>2, ConcatProperties
  <2> QED
    BY <2>1, <2>2, <2>3 DEF j
<1>5. CASE IsName(h)
  <2>1. IsName(n)
    BY <1>1, <1>3, <1>4, <1>5, NameOfHost
  <2> QED
    BY <2>1, NameCanMatch DEF n
<1>6. CASE IsAddress(h)
  <2>1. Len(h) = 4 /\ \A i \in 1 .. 4 : IsOctet(h[i])
    BY <1>6 DEF IsAddress
  <2>2. ASSUME NEW i \in DOMAIN n PROVE IsOctet(n[i])
    <3>1. i \in 1 .. Len(n) /\ Len(h) - Len(n) + i \in 1 .. 4
      BY <1>a, <2>1
    <3> QED
      BY <1>4, <2>1, <3>1
  <2> QED
    BY <1>2, <1>3, <2>1, <2>2, AddressCanMatch DEF n
<1> QED
  BY <1>5, <1>6 DEF IsHost

-----------------------------------------------------------------------------
(* Referers *)

SuffixInv ==
    /\ raw \in Seq(DOMAIN lowercase)
    /\ phase \in {"waiting", "answered"} =>
          suffix \in Seq(Chars) /\ IsSuffixSetting(suffix)
    /\ phase = "answered" =>
          /\ referer \in Hosts \cup {NoHost}
          /\ internal <=> /\ referer # NoHost
                          /\ host_is_internal(Text(referer), suffix)

LEMMA InitSuffix == SuffixInit => SuffixInv
  BY RawAssumption DEF SuffixInit, SuffixInv

LEMMA NextSuffix == SuffixInv /\ [SuffixNext]_suffixVars => SuffixInv'
<1> SUFFICES ASSUME SuffixInv, [SuffixNext]_suffixVars PROVE SuffixInv'
  OBVIOUS
<1>1. CASE parse_referer_suffix
  <2>1. raw' = raw /\ phase' \in {"waiting", "stopped"} /\ raw \in Seq(DOMAIN lowercase)
    BY <1>1 DEF parse_referer_suffix, SuffixInv
  <2>2. phase' = "waiting" => /\ suffix' = normalised(raw)
                              /\ IsSuffixSetting(normalised(raw))
    BY <1>1 DEF parse_referer_suffix
  <2>3. phase' = "waiting" => suffix' \in Seq(Chars) /\ IsSuffixSetting(suffix')
    BY <2>1, <2>2, NormalisedIsText
  <2> QED
    BY <2>1, <2>3 DEF SuffixInv
<1>2. CASE referer_is_internal
  BY <1>2 DEF referer_is_internal, SuffixInv
<1>3. CASE UNCHANGED suffixVars
  BY <1>3 DEF suffixVars, SuffixInv
<1> QED
  BY <1>1, <1>2, <1>3 DEF SuffixNext

LEMMA SuffixInvHolds == SuffixSpec => []SuffixInv
  BY InitSuffix, NextSuffix, PTL DEF SuffixSpec

\* A Referer counts as internal exactly if its labels end with the ones the
\* operator named (host_is_internal), whatever the ends of the two texts share.
THEOREM NamesMatchByLabels == SuffixSpec => []InternalMeansUnderTheName
<1>1. SuffixInv => InternalMeansUnderTheName
  <2> SUFFICES ASSUME SuffixInv, phase = "answered"
               PROVE  internal <=>
                         /\ referer # NoHost
                         /\ IsSuffix(Named(suffix), referer)
                         /\ Head(suffix) = "." => Len(referer) > Len(Named(suffix))
    BY DEF InternalMeansUnderTheName
  <2>1. /\ suffix \in Seq(Chars) /\ ~OnlyDots(suffix)
        /\ referer \in Hosts \cup {NoHost}
        /\ internal <=> referer # NoHost /\ host_is_internal(Text(referer), suffix)
    BY DEF SuffixInv, IsSuffixSetting
  <2>2. CASE referer = NoHost
    BY <2>1, <2>2
  <2>3. CASE referer # NoHost
    <3>1. referer \in Seq(Label) /\ referer # << >>
      BY <2>1, <2>3, HostsAssumption DEF Label
    <3> QED
      BY <2>1, <2>3, <3>1, UnderMeansSuffix, SuffixMeansUnder
  <2> QED
    BY <2>2, <2>3
<1> QED
  BY <1>1, SuffixInvHolds, PTL

\* parse_referer_suffix accepts no name that no Referer could match, and a
\* setting that some Referer matches is one that CanMatch tells: a setting of
\* which it tells nothing is matched by no Referer at all.
THEOREM AcceptedNamesMatch == SuffixSpec => []NamesCanMatch
<1>1. SuffixInv => NamesCanMatch
  <2> SUFFICES ASSUME SuffixInv PROVE NamesCanMatch
    OBVIOUS
  <2>1. phase \in {"waiting", "answered"} =>
            suffix \in Seq(Chars) /\ ~OnlyDots(suffix)
    BY DEF SuffixInv, IsSuffixSetting
  <2>2. phase = "waiting" /\ IsName(Named(suffix)) => CanMatch(suffix)
    BY <2>1, NameCanMatch
  <2>3. ASSUME phase = "answered", internal, IsHost(referer)
        PROVE  CanMatch(suffix)
    <3>1. /\ referer \in Hosts /\ host_is_internal(Text(referer), suffix)
      BY <2>3 DEF SuffixInv
    <3>2. referer \in Seq(Label) /\ referer # << >>
      BY <3>1, HostsAssumption DEF Label
    <3> QED
      BY <2>1, <2>3, <3>1, <3>2, MatchedCanMatch
  <2> QED
    BY <2>2, <2>3 DEF NamesCanMatch
<1> QED
  BY <1>1, SuffixInvHolds, PTL
=============================================================================
