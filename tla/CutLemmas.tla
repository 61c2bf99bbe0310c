----------------------------- MODULE CutLemmas -----------------------------
(***************************************************************************)
(* Lemmas about sequences in general and about what Cuts.tla makes of      *)
(* them.  Induction is over sets of numbers, by their least counterexample. *)
(***************************************************************************)
EXTENDS Cuts, SequenceTheorems, WellFoundedInduction, TLAPS

-----------------------------------------------------------------------------
(* Induction over a set of numbers *)

Below == OpToRel(<, Nat)

LEMMA BelowIsLess == \A m, n \in Nat : <<m, n>> \in Below <=> m < n
  BY SMT DEF OpToRel, Below

LEMMA BelowIsWellFounded == IsWellFoundedOn(Below, Nat)
  BY NatLessThanWellFounded, Zenon DEF Below

LEMMA LeastElement ==
    ASSUME NEW T \in SUBSET Nat, T # {}
    PROVE  \E n \in T : \A m \in T : n <= m
<1> HIDE DEF Below
<1>1. PICK n \in T : \A m \in T : ~(<<m, n>> \in Below)
  BY BelowIsWellFounded, WFMin, Zenon
<1>2. ASSUME NEW m \in T PROVE n <= m
  <2>1. ~(<<m, n>> \in Below) /\ m \in Nat /\ n \in Nat
    BY <1>1
  <2>2. ~(m < n)
    BY <2>1, BelowIsLess
  <2> QED
    BY <2>1, <2>2
<1> QED
  BY <1>1, <1>2

LEMMA SetInduction ==
    ASSUME NEW S \in SUBSET Nat, 0 \in S, \A n \in S : n + 1 \in S
    PROVE  S = Nat
<1> SUFFICES ASSUME S # Nat PROVE FALSE
  OBVIOUS
<1>1. PICK n \in Nat \ S : \A m \in Nat \ S : n <= m
  BY LeastElement
<1>2. n # 0 /\ n - 1 \in Nat
  BY <1>1
<1>3. n - 1 \in S
  BY <1>1, <1>2
<1> QED
  BY <1>1, <1>2, <1>3

LEMMA GreatestElement ==
    ASSUME NEW n \in Nat, NEW T \in SUBSET (1 .. n), T # {}
    PROVE  \E m \in T : \A k \in T : k <= m
<1> DEFINE D == {n - k : k \in T}
<1>1. D \in SUBSET Nat /\ D # {}
  <2>1. ASSUME NEW k \in T PROVE n - k \in Nat
    <3>1. k \in 1 .. n
      OBVIOUS
    <3> QED
      BY <3>1
  <2> QED
    BY <2>1
<1>2. PICK d \in D : \A e \in D : d <= e
  BY <1>1, LeastElement
<1>3. PICK m \in T : d = n - m
  BY <1>2
<1>4. ASSUME NEW k \in T PROVE k <= m
  <2>1. n - k \in D /\ d <= n - k
    BY <1>2
  <2> QED
    BY <1>3, <2>1
<1> QED
  BY <1>4

-----------------------------------------------------------------------------
(* Texts in general *)

LEMMA TextInduction ==
    ASSUME NEW T, NEW S \in SUBSET Seq(T), << >> \in S,
           \A s \in S, c \in T : Append(s, c) \in S
    PROVE  S = Seq(T)
<1> DEFINE N == {n \in Nat : \A s \in Seq(T) : Len(s) = n => s \in S}
<1>1. ASSUME NEW n \in N PROVE n + 1 \in N
  <2> SUFFICES ASSUME NEW s \in Seq(T), Len(s) = n + 1 PROVE s \in S
    OBVIOUS
  <2>1. s # << >> /\ n \in Nat
    BY EmptySeq
  <2>2. PICK r \in Seq(T), c \in T : s = Append(r, c)
    BY <2>1, SequenceEmptyOrAppend
  <2>3. Len(s) = Len(r) + 1 /\ Len(r) \in Nat
    BY <2>2, AppendProperties, LenProperties
  <2>4. Len(r) = n
    BY <2>1, <2>3
  <2>5. r \in S
    BY <2>4
  <2> QED
    BY <2>2, <2>5
<1>2. 0 \in N
  <2> SUFFICES ASSUME NEW s \in Seq(T), Len(s) = 0 PROVE s \in S
    OBVIOUS
  <2>1. s = << >>
    BY EmptySeq
  <2> QED
    BY <2>1
<1>3. N \in SUBSET Nat
  OBVIOUS
<1> HIDE DEF N
<1>4. N = Nat
  BY <1>1, <1>2, <1>3, SetInduction
<1>5. ASSUME NEW s \in Seq(T) PROVE s \in S
  BY <1>4, LenProperties DEF N
<1> QED
  BY <1>5

LEMMA AppendNotEmpty ==
    ASSUME NEW T, NEW s \in Seq(T), NEW c \in T
    PROVE  /\ Append(s, c) \in Seq(T) /\ Append(s, c) # << >>
           /\ Front(Append(s, c)) = s /\ Last(Append(s, c)) = c
<1>1. /\ Append(s, c) \in Seq(T) /\ Append(s, c) # << >>
      /\ Len(Append(s, c)) = Len(s) + 1 /\ Len(s) \in Nat
      /\ \A i \in 1 .. Len(s) : Append(s, c)[i] = s[i]
      /\ Append(s, c)[Len(s) + 1] = c
  BY AppendProperties, LenProperties
<1> DEFINE a == Append(s, c)
<1> HIDE DEF a
<1>2. Last(a) = c
  BY <1>1 DEF Last, a
<1>3. Front(a) = s
  <2>1. Front(a) = SubSeq(a, 1, Len(s))
    BY <1>1 DEF Front, a
  <2>2. Len(s) \in 0 .. Len(s) + 1
    BY <1>1
  <2>3. /\ SubSeq(a, 1, Len(s)) \in Seq(T)
        /\ Len(SubSeq(a, 1, Len(s))) = Len(s)
        /\ \A i \in 1 .. Len(s) : SubSeq(a, 1, Len(s))[i] = s[i]
    BY <1>1 DEF a
  <2> QED
    BY <2>1, <2>3, SeqEqual
<1> QED
  BY <1>1, <1>2, <1>3 DEF a

LEMMA LastAndFront ==
    ASSUME NEW T, NEW s \in Seq(T), s # << >>
    PROVE  /\ Front(s) \in Seq(T) /\ Last(s) \in T
           /\ s = Append(Front(s), Last(s))
<1>1. PICK r \in Seq(T), c \in T : s = Append(r, c)
  BY SequenceEmptyOrAppend
<1>2. Front(s) = r /\ Last(s) = c
  BY <1>1, AppendNotEmpty
<1> QED
  BY <1>1, <1>2

LEMMA ConcatAppend ==
    ASSUME NEW T, NEW r \in Seq(T), NEW s \in Seq(T), NEW c \in T
    PROVE  r \o Append(s, c) = Append(r \o s, c)
<1>1. /\ Append(s, c) = s \o <<c>> /\ r \o s \in Seq(T)
      /\ Append(r \o s, c) = (r \o s) \o <<c>> /\ <<c>> \in Seq(T)
  BY AppendIsConcat, ConcatProperties
<1> QED
  BY <1>1, ConcatAssociative

-----------------------------------------------------------------------------
(* Short texts                                                              *)

LEMMA Single ==
    ASSUME NEW T, NEW x \in T
    PROVE  Append(<< >>, x) = <<x>> /\ <<x>> \in Seq(T)
  OBVIOUS

LEMMA Pair ==
    ASSUME NEW T, NEW x \in T, NEW y \in T
    PROVE  Append(<<x>>, y) = <<x, y>> /\ <<x>> \o <<y>> = <<x, y>>
<1> DEFINE a == <<x>>
           c == Append(a, y)
           d == <<x, y>>
<1>1. a \in Seq(T)
  OBVIOUS
<1>2. d \in Seq(T) /\ Len(d) = 2 /\ d[1] = x /\ d[2] = y
  OBVIOUS
<1>3. c \in Seq(T) /\ Len(c) = 2 /\ c[1] = x /\ c[2] = y
  OBVIOUS
<1>4. c = a \o <<y>>
  <2> HIDE DEF a
  <2>1. QED
    BY <1>1, AppendIsConcat
<1> HIDE DEF c, d
<1>5. \A i \in 1 .. Len(c) : c[i] = d[i]
  <2>1. \A i \in 1 .. Len(c) : i = 1 \/ i = 2
    BY <1>3
  <2>2. QED
    BY <1>2, <1>3, <2>1
<1>6. c = d
  BY <1>2, <1>3, <1>5, SeqEqual
<1>7. QED
  BY <1>4, <1>6 DEF c, d

LEMMA Triple ==
    ASSUME NEW T, NEW x \in T, NEW y \in T, NEW z \in T
    PROVE  Append(<<x, y>>, z) = <<x, y, z>> /\ <<x, y>> \o <<z>> = <<x, y, z>>
<1> DEFINE a == <<x, y>>
           c == Append(a, z)
           d == <<x, y, z>>
<1>1. a \in Seq(T)
  OBVIOUS
<1>2. d \in Seq(T) /\ Len(d) = 3 /\ d[1] = x /\ d[2] = y /\ d[3] = z
  OBVIOUS
<1>3. c \in Seq(T) /\ Len(c) = 3 /\ c[1] = x /\ c[2] = y /\ c[3] = z
  OBVIOUS
<1>4. c = a \o <<z>>
  <2> HIDE DEF a
  <2>1. QED
    BY <1>1, AppendIsConcat
<1> HIDE DEF c, d
<1>5. \A i \in 1 .. Len(c) : c[i] = d[i]
  <2>1. \A i \in 1 .. Len(c) : i = 1 \/ i = 2 \/ i = 3
    BY <1>3
  <2>2. QED
    BY <1>2, <1>3, <2>1
<1>6. c = d
  BY <1>2, <1>3, <1>5, SeqEqual
<1>7. QED
  BY <1>4, <1>6 DEF c, d

LEMMA Quadruple ==
    ASSUME NEW T, NEW x \in T, NEW y \in T, NEW z \in T, NEW w \in T
    PROVE  Append(<<x, y, z>>, w) = <<x, y, z, w>> /\ <<x, y, z>> \o <<w>> = <<x, y, z, w>>
<1> DEFINE a == <<x, y, z>>
           c == Append(a, w)
           d == <<x, y, z, w>>
<1>1. a \in Seq(T)
  OBVIOUS
<1>2. d \in Seq(T) /\ Len(d) = 4 /\ d[1] = x /\ d[2] = y /\ d[3] = z /\ d[4] = w
  OBVIOUS
<1>3. c \in Seq(T) /\ Len(c) = 4 /\ c[1] = x /\ c[2] = y /\ c[3] = z /\ c[4] = w
  OBVIOUS
<1>4. c = a \o <<w>>
  <2> HIDE DEF a
  <2>1. QED
    BY <1>1, AppendIsConcat
<1> HIDE DEF c, d
<1>5. \A i \in 1 .. Len(c) : c[i] = d[i]
  <2>1. \A i \in 1 .. Len(c) : i = 1 \/ i = 2 \/ i = 3 \/ i = 4
    BY <1>3
  <2>2. QED
    BY <1>2, <1>3, <2>1
<1>6. c = d
  BY <1>2, <1>3, <1>5, SeqEqual
<1>7. QED
  BY <1>4, <1>6 DEF c, d

LEMMA TwoPairs ==
    ASSUME NEW T, NEW x \in T, NEW y \in T, NEW z \in T, NEW w \in T
    PROVE  <<x, y>> \o <<z, w>> = <<x, y, z, w>>
<1> DEFINE a == <<x, y>>
           one == <<z>>
<1>1. a \in Seq(T) /\ one \in Seq(T)
  OBVIOUS
<1>2. a \o one = <<x, y, z>>
  BY Triple
<1>3. <<z, w>> = Append(one, w)
  BY Pair
<1>4. Append(<<x, y, z>>, w) = <<x, y, z, w>>
  BY Quadruple, Zenon
<1> HIDE DEF a, one
<1>5. a \o Append(one, w) = Append(a \o one, w)
  BY <1>1, ConcatAppend
<1>6. QED
  BY <1>2, <1>3, <1>4, <1>5 DEF a

-----------------------------------------------------------------------------
(* Pieces *)

Piece(T, mark) == Seq(T \ {mark})

SplitTo(s, mark, k, f) ==
    f = [i \in 0 .. k |-> IF i = 0 THEN << << >> >> ELSE Longer(f[i - 1], s[i], mark)]

LEMMA SplitsExist ==
    ASSUME NEW s, NEW mark, NEW k \in Nat
    PROVE  \E f : SplitTo(s, mark, k, f)
<1> DEFINE S == {n \in Nat : \E f : SplitTo(s, mark, n, f)}
<1>1. 0 \in S
  <2> DEFINE f == [n \in 0 .. 0 |-> << << >> >>]
  <2>1. SplitTo(s, mark, 0, f)
    BY DEF SplitTo
  <2> QED
    BY <2>1
<1>2. ASSUME NEW n \in S PROVE n + 1 \in S
  <2>1. PICK f : SplitTo(s, mark, n, f)
    BY <1>2
  <2> DEFINE g == [m \in 0 .. n + 1 |->
                       IF m = n + 1 THEN Longer(f[n], s[m], mark) ELSE f[m]]
  <2>2. n \in Nat /\ g = [m \in 0 .. n + 1 |-> g[m]]
    OBVIOUS
  <2>3. ASSUME NEW m \in 0 .. n + 1
        PROVE  g[m] = IF m = 0 THEN << << >> >> ELSE Longer(g[m - 1], s[m], mark)
    <3>1. CASE m = 0
      BY <2>1, <2>2, <3>1 DEF SplitTo
    <3>2. CASE m # 0 /\ m # n + 1
      <4>1. m \in 0 .. n /\ m - 1 \in 0 .. n + 1 /\ m - 1 # n + 1
        BY <2>2, <3>2
      <4>2. g[m] = f[m] /\ g[m - 1] = f[m - 1]
        BY <3>2, <4>1
      <4>3. f[m] = Longer(f[m - 1], s[m], mark)
        BY <2>1, <3>2, <4>1 DEF SplitTo
      <4> QED
        BY <3>2, <4>2, <4>3
    <3>3. CASE m = n + 1
      <4>1. m # 0 /\ m - 1 = n /\ n \in 0 .. n + 1 /\ n # n + 1
        BY <2>2, <3>3
      <4>2. g[m] = Longer(f[n], s[m], mark) /\ g[m - 1] = f[n]
        BY <3>3, <4>1
      <4> QED
        BY <4>1, <4>2
    <3> QED
      BY <3>1, <3>2, <3>3
  <2>4. SplitTo(s, mark, n + 1, g)
    <3> HIDE DEF g
    <3> QED
      BY <2>2, <2>3 DEF SplitTo
  <2> QED
    BY <2>2, <2>4
<1> HIDE DEF S
<1>3. S \in SUBSET Nat
  BY DEF S
<1>4. S = Nat
  BY <1>1, <1>2, <1>3, SetInduction
<1> QED
  BY <1>4 DEF S

\* The pieces so far depend on the characters so far.
LEMMA SplitsAgree ==
    ASSUME NEW s, NEW t, NEW mark, NEW k \in Nat, NEW j \in Nat, NEW f, NEW g,
           SplitTo(s, mark, k, f), SplitTo(t, mark, j, g), k <= j,
           \A i \in 1 .. k : s[i] = t[i]
    PROVE  f[k] = g[k]
<1> DEFINE S == {n \in Nat : n <= k => f[n] = g[n]}
<1>1. f[0] = << << >> >> /\ g[0] = << << >> >>
  BY DEF SplitTo
<1>2. ASSUME NEW n \in S PROVE n + 1 \in S
  <2> SUFFICES ASSUME n + 1 <= k PROVE f[n + 1] = g[n + 1]
    OBVIOUS
  <2>1. /\ n \in Nat /\ n + 1 \in 0 .. k /\ n + 1 \in 0 .. j /\ n + 1 # 0
        /\ n + 1 \in 1 .. k /\ n + 1 - 1 = n /\ n <= k
    OBVIOUS
  <2>2. f[n] = g[n] /\ s[n + 1] = t[n + 1]
    BY <2>1
  <2> HIDE DEF S
  <2>3. f[n + 1] = Longer(f[n + 1 - 1], s[n + 1], mark)
    BY <2>1 DEF SplitTo
  <2>4. g[n + 1] = Longer(g[n + 1 - 1], t[n + 1], mark)
    BY <2>1 DEF SplitTo
  <2> QED
    BY <2>1, <2>2, <2>3, <2>4
<1>3. 0 \in S /\ S \in SUBSET Nat
  BY <1>1
<1> HIDE DEF S
<1>4. S = Nat
  BY <1>2, <1>3, SetInduction
<1> QED
  BY <1>4 DEF S

LEMMA SplitIsScan ==
    ASSUME NEW s, NEW mark, Len(s) \in Nat
    PROVE  \E f : SplitTo(s, mark, Len(s), f) /\ Split(s, mark) = f[Len(s)]
<1> DEFINE f == CHOOSE h : SplitTo(s, mark, Len(s), h)
<1>1. Split(s, mark) = f[Len(s)]
  BY DEF Split, SplitTo
<1>2. SplitTo(s, mark, Len(s), f)
  BY SplitsExist
<1> QED
  BY <1>1, <1>2

LEMMA SplitOfNothing ==
    ASSUME NEW mark
    PROVE  Split(<< >>, mark) = << << >> >>
<1>1. Len(<< >>) = 0 /\ Len(<< >>) \in Nat
  OBVIOUS
<1>2. PICK f : SplitTo(<< >>, mark, Len(<< >>), f) /\ Split(<< >>, mark) = f[Len(<< >>)]
  BY <1>1, SplitIsScan
<1>3. f[0] = << << >> >>
  BY <1>1, <1>2 DEF SplitTo
<1> QED
  BY <1>1, <1>2, <1>3

LEMMA SplitOfMore ==
    ASSUME NEW T, NEW mark, NEW s \in Seq(T), NEW c \in T
    PROVE  Split(Append(s, c), mark) = Longer(Split(s, mark), c, mark)
<1> DEFINE a == Append(s, c)
           n == Len(s)
<1>1. /\ n \in Nat /\ Len(a) = n + 1 /\ n + 1 \in Nat
      /\ \A i \in 1 .. n : s[i] = a[i]
      /\ a[n + 1] = c
  BY AppendProperties, LenProperties
<1> HIDE DEF a, n
<1>2. PICK f : SplitTo(s, mark, n, f) /\ Split(s, mark) = f[n]
  BY <1>1, SplitIsScan DEF n
<1>3. PICK g : SplitTo(a, mark, n + 1, g) /\ Split(a, mark) = g[n + 1]
  BY <1>1, SplitIsScan
<1>4. f[n] = g[n]
  BY <1>1, <1>2, <1>3, SplitsAgree
<1>5. g[n + 1] = Longer(g[n + 1 - 1], a[n + 1], mark)
  <2>1. n + 1 \in 0 .. n + 1 /\ n + 1 # 0
    BY <1>1
  <2> QED
    BY <1>3, <2>1 DEF SplitTo
<1>6. n + 1 - 1 = n
  BY <1>1
<1> QED
  BY <1>1, <1>2, <1>3, <1>4, <1>5, <1>6 DEF a

LEMMA LongerIsPieces ==
    ASSUME NEW T, NEW mark, NEW pieces \in Seq(Piece(T, mark)), pieces # << >>,
           NEW c \in T
    PROVE  /\ Longer(pieces, c, mark) \in Seq(Piece(T, mark))
           /\ Longer(pieces, c, mark) # << >>
<1> DEFINE P == Piece(T, mark)
<1>1. << >> \in P
  BY DEF Piece
<1>2. Front(pieces) \in Seq(P) /\ Last(pieces) \in P
  BY LastAndFront
<1>3. c # mark => Append(Last(pieces), c) \in P
  BY <1>2 DEF Piece
<1> HIDE DEF P
<1>4. pieces \in Seq(P)
  BY DEF P
<1>5. Longer(pieces, c, mark) \in Seq(P) /\ Longer(pieces, c, mark) # << >>
  <2>1. CASE c = mark
    BY <1>1, <1>4, <2>1, AppendProperties DEF Longer
  <2>2. CASE c # mark
    <3>1. Append(Last(pieces), c) \in P
      BY <1>3, <2>2
    <3> QED
      BY <1>2, <2>2, <3>1, AppendProperties DEF Longer
  <2> QED
    BY <2>1, <2>2
<1> QED
  BY <1>5 DEF P

LEMMA PiecesOf ==
    ASSUME NEW T, NEW mark, NEW s \in Seq(T)
    PROVE  Split(s, mark) \in Seq(Piece(T, mark)) /\ Split(s, mark) # << >>
<1> DEFINE P == Piece(T, mark)
           S == {t \in Seq(T) : Split(t, mark) \in Seq(P) /\ Split(t, mark) # << >>}
<1>1. << >> \in S
  <2>1. << >> \in P /\ << >> \in Seq(T)
    BY DEF Piece
  <2> HIDE DEF P
  <2>2. << << >> >> \in Seq(P) /\ << << >> >> # << >>
    BY <2>1
  <2>3. Split(<< >>, mark) = << << >> >>
    BY SplitOfNothing
  <2> QED
    BY <2>1, <2>2, <2>3
<1>2. ASSUME NEW t \in S, NEW c \in T PROVE Append(t, c) \in S
  <2>1. Split(Append(t, c), mark) = Longer(Split(t, mark), c, mark)
    BY SplitOfMore
  <2>2. /\ Longer(Split(t, mark), c, mark) \in Seq(P)
        /\ Longer(Split(t, mark), c, mark) # << >>
    BY LongerIsPieces
  <2>3. Append(t, c) \in Seq(T)
    OBVIOUS
  <2> QED
    BY <2>1, <2>2, <2>3
<1>3. S \in SUBSET Seq(T)
  OBVIOUS
<1> HIDE DEF S
<1>4. S = Seq(T)
  BY <1>1, <1>2, <1>3, TextInduction
<1> QED
  BY <1>4 DEF S

LEMMA LongerOnTheRight ==
    ASSUME NEW T, NEW mark, NEW a \in Seq(Piece(T, mark)),
           NEW b \in Seq(Piece(T, mark)), b # << >>, NEW c \in T
    PROVE  Longer(a \o b, c, mark) = a \o Longer(b, c, mark)
<1> DEFINE P == Piece(T, mark)
<1>0. << >> \in P /\ \A p \in P : c # mark => Append(p, c) \in P
  BY DEF Piece
<1>11. a \in Seq(P) /\ b \in Seq(P)
  OBVIOUS
<1> HIDE DEF P
<1> DEFINE h == Front(b)
           x == Last(b)
<1>2. h \in Seq(P) /\ x \in P /\ b = Append(h, x)
  BY <1>11, LastAndFront
<1>3. c # mark => Append(x, c) \in P
  BY <1>0, <1>2
<1> HIDE DEF h, x
<1> DEFINE y == a \o h
<1>4. y \in Seq(P)
  BY <1>2, <1>11, ConcatProperties
<1>5. a \o Append(h, x) = Append(y, x)
  BY <1>2, <1>11, ConcatAppend
<1> HIDE DEF y
<1>8. Front(a \o b) = y /\ Last(a \o b) = x
  <2>1. Front(Append(y, x)) = y /\ Last(Append(y, x)) = x
    BY <1>2, <1>4, AppendNotEmpty
  <2> QED
    BY <1>2, <1>5, <2>1
<1>6. CASE c = mark
  <2> DEFINE e == << >>
  <2>1. Longer(a \o b, c, mark) = Append(a \o b, e) /\ Longer(b, c, mark) = Append(b, e)
    BY <1>6 DEF Longer
  <2>2. e \in P
    BY <1>0
  <2> HIDE DEF e
  <2>3. a \o Append(b, e) = Append(a \o b, e)
    BY <1>11, <2>2, ConcatAppend
  <2> QED
    BY <2>1, <2>3
<1>7. CASE c # mark
  <2> DEFINE z == Append(x, c)
  <2>1. Longer(a \o b, c, mark) = Append(y, z)
    BY <1>7, <1>8 DEF Longer
  <2>2. Longer(b, c, mark) = Append(h, z)
    BY <1>7 DEF Longer, h, x
  <2>3. z \in P
    BY <1>3, <1>7
  <2> HIDE DEF z
  <2>4. a \o Append(h, z) = Append(y, z)
    BY <1>2, <1>11, <2>3, ConcatAppend DEF y
  <2> QED
    BY <2>1, <2>2, <2>4
<1> QED
  BY <1>6, <1>7

\* A mark between two texts parts their pieces.
LEMMA SplitOfTwo ==
    ASSUME NEW T, NEW mark \in T, NEW r \in Seq(T), NEW t \in Seq(T)
    PROVE  Split(Append(r, mark) \o t, mark) = Split(r, mark) \o Split(t, mark)
<1> DEFINE S == {u \in Seq(T) :
                     Split(Append(r, mark) \o u, mark)
                         = Split(r, mark) \o Split(u, mark)}
           d == Append(r, mark)
           P == Piece(T, mark)
           q == Split(r, mark)
<1>1. d \in Seq(T)
  OBVIOUS
<1>2. Split(d, mark) = Append(q, << >>)
  BY <1>1, SplitOfMore DEF Longer
<1>3. q \in Seq(P) /\ << >> \in P
  <2>1. q \in Seq(P)
    BY PiecesOf
  <2> QED
    BY <2>1 DEF Piece
<1>0. \A u \in Seq(T) : Split(u, mark) \in Seq(P) /\ Split(u, mark) # << >>
  BY PiecesOf
<1> HIDE DEF d, P, q
<1>4. << >> \in S
  <2>1. d \o << >> = d /\ << >> \in Seq(T)
    BY <1>1, ConcatEmptySeq
  <2>2. Append(q, << >>) = q \o << << >> >>
    BY <1>3, AppendIsConcat
  <2>3. Split(<< >>, mark) = << << >> >>
    BY SplitOfNothing
  <2> QED
    BY <1>2, <2>1, <2>2, <2>3 DEF d, q
<1>5. ASSUME NEW u \in S, NEW c \in T PROVE Append(u, c) \in S
  <2> DEFINE b == Split(u, mark)
  <2>1. u \in Seq(T) /\ Split(d \o u, mark) = q \o b
    BY DEF d, q
  <2> HIDE DEF S
  <2>2. /\ Append(u, c) \in Seq(T) /\ d \o u \in Seq(T)
        /\ d \o Append(u, c) = Append(d \o u, c)
    BY <1>1, <2>1, ConcatAppend, ConcatProperties, AppendProperties
  <2>3. Split(Append(d \o u, c), mark) = Longer(Split(d \o u, mark), c, mark)
    BY <2>2, SplitOfMore
  <2>4. Split(Append(u, c), mark) = Longer(b, c, mark)
    BY <2>1, SplitOfMore
  <2>5. b \in Seq(P) /\ b # << >>
    BY <1>0, <2>1
  <2> HIDE DEF b
  <2>6. Longer(q \o b, c, mark) = q \o Longer(b, c, mark)
    BY <1>3, <2>5, LongerOnTheRight DEF P
  <2>9. Split(d \o Append(u, c), mark) = q \o Split(Append(u, c), mark)
    BY <2>1, <2>2, <2>3, <2>4, <2>6
  <2> QED
    BY <2>2, <2>9 DEF S, d, q
<1>6. S \in SUBSET Seq(T)
  OBVIOUS
<1> HIDE DEF S
<1>7. S = Seq(T)
  BY <1>4, <1>5, <1>6, TextInduction
<1> QED
  BY <1>7 DEF S

\* A text without a mark is its one piece.
LEMMA PieceIsWhole ==
    ASSUME NEW T, NEW mark, NEW x \in Piece(T, mark)
    PROVE  x \in Seq(T) /\ Split(x, mark) = <<x>>
<1> DEFINE D == T \ {mark}
           S == {u \in Seq(D) : u \in Seq(T) /\ Split(u, mark) = <<u>>}
<1>1. << >> \in S
  BY SplitOfNothing
<1>2. ASSUME NEW u \in S, NEW c \in D PROVE Append(u, c) \in S
  <2>1. u \in Seq(D) /\ u \in Seq(T) /\ Split(u, mark) = <<u>>
    OBVIOUS
  <2>2. c \in T /\ c # mark
    OBVIOUS
  <2> HIDE DEF S, D
  <2>3. Append(u, c) \in Seq(D) /\ Append(u, c) \in Seq(T)
    BY <2>1, <2>2
  <2>4. Split(Append(u, c), mark) = Append(Front(<<u>>), Append(Last(<<u>>), c))
    BY <2>1, <2>2, SplitOfMore DEF Longer
  <2>6. Front(<<u>>) = << >> /\ Last(<<u>>) = u
    BY DEF Front, Last
  <2>7. Append(<< >>, Append(u, c)) = <<Append(u, c)>>
    BY <2>3
  <2>8. Split(Append(u, c), mark) = <<Append(u, c)>>
    BY <2>4, <2>6, <2>7
  <2> QED
    BY <2>3, <2>8 DEF S
<1>3. S \in SUBSET Seq(D)
  OBVIOUS
<1> HIDE DEF S
<1>4. S = Seq(D)
  BY <1>1, <1>2, <1>3, TextInduction
<1>5. x \in Seq(D)
  BY DEF Piece
<1> QED
  BY <1>4, <1>5 DEF S

-----------------------------------------------------------------------------
(* Flattening *)

FlatTo(pieces, k, f) ==
    f = [i \in 1 .. k |-> IF i = 1 THEN pieces[1] ELSE f[i - 1] \o pieces[i]]

LEMMA FlatsExist ==
    ASSUME NEW pieces, NEW k \in Nat
    PROVE  \E f : FlatTo(pieces, k, f)
<1> DEFINE S == {n \in Nat : \E f : FlatTo(pieces, n, f)}
<1>1. 0 \in S
  <2> DEFINE f == [n \in 1 .. 0 |-> << >>]
  <2>1. FlatTo(pieces, 0, f)
    BY DEF FlatTo
  <2> QED
    BY <2>1
<1>2. ASSUME NEW n \in S PROVE n + 1 \in S
  <2>1. PICK f : FlatTo(pieces, n, f)
    BY <1>2
  <2> DEFINE g == [m \in 1 .. n + 1 |->
                       IF m = n + 1
                       THEN IF m = 1 THEN pieces[1] ELSE f[n] \o pieces[m]
                       ELSE f[m]]
  <2>2. n \in Nat /\ g = [m \in 1 .. n + 1 |-> g[m]]
    OBVIOUS
  <2>3. ASSUME NEW m \in 1 .. n + 1
        PROVE  g[m] = IF m = 1 THEN pieces[1] ELSE g[m - 1] \o pieces[m]
    <3>1. CASE m # n + 1 /\ m = 1
      <4>1. m \in 1 .. n /\ g[m] = f[m]
        BY <2>2, <3>1
      <4> QED
        BY <2>1, <3>1, <4>1 DEF FlatTo
    <3>2. CASE m # n + 1 /\ m # 1
      <4>1. m \in 1 .. n /\ m - 1 \in 1 .. n + 1 /\ m - 1 # n + 1
        BY <2>2, <3>2
      <4>2. g[m] = f[m] /\ g[m - 1] = f[m - 1]
        BY <3>2, <4>1
      <4>3. f[m] = f[m - 1] \o pieces[m]
        BY <2>1, <3>2, <4>1 DEF FlatTo
      <4> QED
        BY <3>2, <4>2, <4>3
    <3>3. CASE m = n + 1
      <4>1. g[m] = IF m = 1 THEN pieces[1] ELSE f[n] \o pieces[m]
        BY <3>3
      <4>2. m # 1 => g[m - 1] = f[n]
        <5> SUFFICES ASSUME m # 1 PROVE g[m - 1] = f[n]
          OBVIOUS
        <5>1. m - 1 = n /\ n \in 1 .. n + 1 /\ n # n + 1
          BY <2>2, <3>3
        <5> QED
          BY <5>1
      <4> QED
        BY <4>1, <4>2
    <3> QED
      BY <3>1, <3>2, <3>3
  <2>4. FlatTo(pieces, n + 1, g)
    <3> HIDE DEF g
    <3> QED
      BY <2>2, <2>3 DEF FlatTo
  <2> QED
    BY <2>2, <2>4
<1> HIDE DEF S
<1>3. S \in SUBSET Nat
  BY DEF S
<1>4. S = Nat
  BY <1>1, <1>2, <1>3, SetInduction
<1> QED
  BY <1>4 DEF S

LEMMA FlatStep ==
    ASSUME NEW pieces, NEW k \in Nat, NEW f, FlatTo(pieces, k, f),
           NEW i \in 1 .. k, i # 1
    PROVE  f[i] = f[i - 1] \o pieces[i]
  BY DEF FlatTo

LEMMA FlatsAgree ==
    ASSUME NEW a, NEW b, NEW k \in Nat, NEW j \in Nat, NEW f, NEW g,
           FlatTo(a, k, f), FlatTo(b, j, g), 1 <= k, k <= j,
           \A i \in 1 .. k : a[i] = b[i]
    PROVE  f[k] = g[k]
<1> DEFINE S == {n \in Nat : n + 1 <= k => f[n + 1] = g[n + 1]}
<1>1. f[1] = a[1] /\ g[1] = b[1] /\ a[1] = b[1]
  BY DEF FlatTo
<1>2. ASSUME NEW n \in S PROVE n + 1 \in S
  <2> SUFFICES ASSUME n + 1 + 1 <= k PROVE f[n + 1 + 1] = g[n + 1 + 1]
    OBVIOUS
  <2> DEFINE m == n + 1 + 1
  <2>1. /\ n \in Nat /\ m \in 1 .. k /\ m \in 1 .. j /\ m # 1
        /\ m - 1 = n + 1 /\ n + 1 <= k
    OBVIOUS
  <2>2. f[n + 1] = g[n + 1] /\ a[m] = b[m]
    BY <2>1
  <2> HIDE DEF S, m
  <2>3. f[m] = f[m - 1] \o a[m]
    BY <2>1 DEF FlatTo
  <2>4. g[m] = g[m - 1] \o b[m]
    BY <2>1 DEF FlatTo
  <2>5. f[m] = g[m]
    BY <2>1, <2>2, <2>3, <2>4
  <2> QED
    BY <2>5 DEF m
<1>3. 0 \in S /\ S \in SUBSET Nat
  BY <1>1
<1> HIDE DEF S
<1>4. S = Nat
  BY <1>2, <1>3, SetInduction
<1> DEFINE m == k - 1
<1>5. m \in Nat /\ m + 1 = k
  OBVIOUS
<1> HIDE DEF m
<1>6. m + 1 <= k => f[m + 1] = g[m + 1]
  BY <1>4, <1>5 DEF S
<1> QED
  BY <1>5, <1>6

LEMMA FlattenIsScan ==
    ASSUME NEW pieces, Len(pieces) \in Nat, Len(pieces) # 0
    PROVE  \E f : FlatTo(pieces, Len(pieces), f) /\ FlattenSeq(pieces) = f[Len(pieces)]
<1> DEFINE f == CHOOSE h : FlatTo(pieces, Len(pieces), h)
<1>1. FlattenSeq(pieces) = f[Len(pieces)]
  BY DEF FlattenSeq, FlatTo
<1>2. FlatTo(pieces, Len(pieces), f)
  BY FlatsExist
<1> QED
  BY <1>1, <1>2

LEMMA FlattenOnto ==
    ASSUME NEW P, NEW pieces \in Seq(P), pieces # << >>, NEW x \in P
    PROVE  FlattenSeq(Append(pieces, x)) = FlattenSeq(pieces) \o x
<1> DEFINE a == Append(pieces, x)
           n == Len(pieces)
<1>1. /\ n \in Nat /\ n >= 1 /\ Len(a) = n + 1 /\ n + 1 \in Nat
      /\ \A i \in 1 .. n : pieces[i] = a[i]
      /\ a[n + 1] = x
  BY AppendProperties, LenProperties, EmptySeq
<1> HIDE DEF a, n
<1>2. PICK m \in Nat : m = n + 1
  BY <1>1
<1>3. m - 1 = n /\ n <= m /\ m \in 1 .. m /\ m # 1 /\ Len(a) = m /\ a[m] = x
  BY <1>1, <1>2
<1>4. PICK f : FlatTo(pieces, n, f) /\ FlattenSeq(pieces) = f[n]
  BY <1>1, FlattenIsScan DEF n
<1>5. PICK g : FlatTo(a, m, g) /\ FlattenSeq(a) = g[m]
  BY <1>3, FlattenIsScan
<1>6. f[n] = g[n]
  BY <1>1, <1>3, <1>4, <1>5, FlatsAgree
<1>7. g[m] = g[m - 1] \o a[m]
  BY <1>3, <1>5, FlatStep
<1> QED
  BY <1>3, <1>4, <1>5, <1>6, <1>7 DEF a

LEMMA FlattenOfNothing == FlattenSeq(<< >>) = << >>
  BY DEF FlattenSeq

LEMMA FlattenOfOne ==
    ASSUME NEW x
    PROVE  FlattenSeq(<<x>>) = x
<1> DEFINE a == <<x>>
<1>1. Len(a) = 1 /\ a[1] = x
  OBVIOUS
<1> HIDE DEF a
<1>2. Len(a) \in Nat /\ Len(a) # 0
  BY <1>1
<1>4. PICK f : FlatTo(a, Len(a), f) /\ FlattenSeq(a) = f[Len(a)]
  BY <1>2, FlattenIsScan
<1>3. f[1] = a[1]
  BY <1>1, <1>4 DEF FlatTo
<1> QED
  BY <1>1, <1>3, <1>4 DEF a

LEMMA FlattenOfMore ==
    ASSUME NEW T, NEW pieces \in Seq(Seq(T)), NEW x \in Seq(T)
    PROVE  FlattenSeq(Append(pieces, x)) = FlattenSeq(pieces) \o x
<1>1. CASE pieces = << >>
  <2>1. Append(pieces, x) = <<x>> /\ << >> \o x = x
    BY <1>1
  <2> QED
    BY <1>1, <2>1, FlattenOfNothing, FlattenOfOne
<1>2. CASE pieces # << >>
  BY <1>2, FlattenOnto
<1> QED
  BY <1>1, <1>2

LEMMA FlattenIsText ==
    ASSUME NEW T, NEW pieces \in Seq(Seq(T))
    PROVE  FlattenSeq(pieces) \in Seq(T)
<1> DEFINE P == Seq(T)
           S == {l \in Seq(P) : FlattenSeq(l) \in Seq(T)}
<1>1. << >> \in S
  <2>1. << >> \in Seq(T) /\ << >> \in Seq(P)
    OBVIOUS
  <2> QED
    BY <2>1, FlattenOfNothing
<1>2. ASSUME NEW l \in S, NEW x \in P PROVE Append(l, x) \in S
  <2>1. l \in Seq(P) /\ FlattenSeq(l) \in Seq(T) /\ x \in Seq(T)
    OBVIOUS
  <2>2. FlattenSeq(Append(l, x)) = FlattenSeq(l) \o x
    BY <2>1, FlattenOfMore
  <2>3. FlattenSeq(l) \o x \in Seq(T)
    BY <2>1, ConcatProperties
  <2> HIDE DEF P
  <2>4. Append(l, x) \in Seq(P)
    BY <2>1
  <2> QED
    BY <2>2, <2>3, <2>4
<1>3. S \in SUBSET Seq(P)
  OBVIOUS
<1> HIDE DEF S, P
<1>4. S = Seq(P)
  BY <1>1, <1>2, <1>3, TextInduction
<1> QED
  BY <1>4 DEF S, P

-----------------------------------------------------------------------------
(* Dropping what is not wanted *)

Chunks(s, x) == [i \in DOMAIN s |-> IF s[i] = x THEN << >> ELSE <<s[i]>>]

LEMMA ChunksOfMore ==
    ASSUME NEW T, NEW x, NEW s \in Seq(T), NEW c \in T
    PROVE  /\ Chunks(s, x) \in Seq(Seq(T))
           /\ Chunks(Append(s, c), x)
                 = Append(Chunks(s, x), IF c = x THEN << >> ELSE <<c>>)
<1> DEFINE a == Append(s, c)
           n == Len(s)
           k == IF c = x THEN << >> ELSE <<c>>
           l == Chunks(s, x)
           m == Chunks(a, x)
<1>1. /\ n \in Nat /\ DOMAIN s = 1 .. n /\ DOMAIN a = 1 .. n + 1
      /\ \A i \in 1 .. n : a[i] = s[i] /\ s[i] \in T
      /\ a[n + 1] = c
  BY AppendProperties, LenProperties
<1>2. k \in Seq(T)
  OBVIOUS
<1> HIDE DEF n, a
<1>3. l \in Seq(Seq(T)) /\ Len(l) = n /\ \A i \in 1 .. n : l[i] = IF s[i] = x THEN << >> ELSE <<s[i]>>
  <2> DEFINE D == 1 .. n
  <2>1. l = [i \in D |-> IF s[i] = x THEN << >> ELSE <<s[i]>>]
    BY <1>1 DEF Chunks
  <2>2. \A i \in D : (IF s[i] = x THEN << >> ELSE <<s[i]>>) \in Seq(T)
    BY <1>1
  <2> DEFINE U == Seq(T)
  <2>3. l \in [D -> U] /\ n \in Nat
    BY <1>1, <2>1, <2>2
  <2>4. l \in Seq(U) /\ Len(l) = n
    <3> HIDE DEF U, l
    <3> QED
      BY <2>3
  <2> QED
    BY <2>1, <2>4
<1>4. /\ DOMAIN m = 1 .. n + 1
      /\ \A i \in 1 .. n + 1 : m[i] = IF a[i] = x THEN << >> ELSE <<a[i]>>
      /\ m = [i \in 1 .. n + 1 |-> m[i]]
  BY <1>1 DEF Chunks
<1> DEFINE b == Append(l, k)
<1>5. /\ DOMAIN b = 1 .. n + 1 /\ b = [i \in 1 .. n + 1 |-> b[i]]
      /\ \A i \in 1 .. n : b[i] = l[i]
      /\ b[n + 1] = k
  <2> HIDE DEF l, k
  <2>1. b \in Seq(Seq(T)) /\ Len(b) = n + 1
    BY <1>2, <1>3, AppendProperties
  <2>2. /\ \A i \in 1 .. n : b[i] = l[i]
        /\ b[n + 1] = k
    BY <1>2, <1>3, AppendProperties
  <2> HIDE DEF b
  <2> QED
    BY <2>1, <2>2
<1>8. k = IF c = x THEN << >> ELSE <<c>>
  OBVIOUS
<1>6. \A i \in 1 .. n + 1 : m[i] = b[i]
  <2> HIDE DEF m, b, l, k
  <2> TAKE i \in 1 .. n + 1
  <2>1. CASE i = n + 1
    <3>1. m[i] = IF a[i] = x THEN << >> ELSE <<a[i]>>
      BY <1>4
    <3>2. a[i] = c /\ b[i] = k
      BY <1>1, <1>5, <2>1
    <3> QED
      BY <1>8, <3>1, <3>2
  <2>2. CASE i # n + 1
    <3>1. i \in 1 .. n
      BY <1>1, <2>2
    <3>2. m[i] = IF a[i] = x THEN << >> ELSE <<a[i]>>
      BY <1>4
    <3>3. a[i] = s[i] /\ b[i] = l[i]
      BY <1>1, <1>5, <3>1
    <3>4. l[i] = IF s[i] = x THEN << >> ELSE <<s[i]>>
      BY <1>3, <3>1
    <3> QED
      BY <3>2, <3>3, <3>4
  <2> QED
    BY <2>1, <2>2
<1>7. m = b
  <2> HIDE DEF m, b
  <2> QED
    BY <1>4, <1>5, <1>6
<1> QED
  BY <1>3, <1>7 DEF a

LEMMA WithoutOfNothing ==
    ASSUME NEW x
    PROVE  Without(<< >>, x) = << >>
<1>1. [i \in DOMAIN << >> |-> IF << >>[i] = x THEN << >> ELSE <<(<< >>)[i]>>] = << >>
  OBVIOUS
<1> QED
  BY <1>1, FlattenOfNothing DEF Without

LEMMA WithoutOfMore ==
    ASSUME NEW T, NEW x, NEW s \in Seq(T), NEW c \in T
    PROVE  /\ Without(s, x) \in Seq(T)
           /\ Without(Append(s, c), x) = IF c = x THEN Without(s, x)
                                         ELSE Append(Without(s, x), c)
<1> DEFINE k == IF c = x THEN << >> ELSE <<c>>
           l == Chunks(s, x)
           w == Without(s, x)
<1>1. l \in Seq(Seq(T)) /\ Chunks(Append(s, c), x) = Append(l, k)
  BY ChunksOfMore
<1>2. w = FlattenSeq(l) /\ Without(Append(s, c), x) = FlattenSeq(Chunks(Append(s, c), x))
  BY DEF Without, Chunks
<1>3. k \in Seq(T)
  OBVIOUS
<1> HIDE DEF l
<1>4. w \in Seq(T)
  BY <1>1, <1>2, FlattenIsText
<1> HIDE DEF w
<1>5. Without(Append(s, c), x) = w \o k
  <2> HIDE DEF k
  <2>1. FlattenSeq(Append(l, k)) = FlattenSeq(l) \o k
    BY <1>1, <1>3, FlattenOfMore
  <2> QED
    BY <1>1, <1>2, <2>1
<1>6. w \o << >> = w /\ Append(w, c) = w \o <<c>>
  BY <1>4, AppendIsConcat, ConcatEmptySeq
<1>7. Without(Append(s, c), x) = IF c = x THEN w ELSE Append(w, c)
  BY <1>5, <1>6
<1> QED
  BY <1>4, <1>7 DEF w

LEMMA WithoutIsText ==
    ASSUME NEW T, NEW x, NEW s \in Seq(T)
    PROVE  Without(s, x) \in Seq(T \ {x})
<1> DEFINE D == T \ {x}
           S == {t \in Seq(T) : Without(t, x) \in Seq(D)}
<1>1. << >> \in S
  <2>1. << >> \in Seq(T) /\ << >> \in Seq(D)
    OBVIOUS
  <2>2. Without(<< >>, x) = << >>
    BY WithoutOfNothing
  <2> QED
    BY <2>1, <2>2
<1>2. ASSUME NEW t \in S, NEW c \in T PROVE Append(t, c) \in S
  <2>1. Without(t, x) \in Seq(D) /\ t \in Seq(T) /\ Append(t, c) \in Seq(T)
    OBVIOUS
  <2>2. Without(Append(t, c), x) = IF c = x THEN Without(t, x)
                                   ELSE Append(Without(t, x), c)
    BY <2>1, WithoutOfMore
  <2>3. c # x => c \in D
    OBVIOUS
  <2> HIDE DEF D, S
  <2>4. CASE c = x
    BY <2>1, <2>2, <2>4 DEF S
  <2>5. CASE c # x
    <3>1. Append(Without(t, x), c) \in Seq(D)
      BY <2>1, <2>3, <2>5, AppendProperties
    <3> QED
      BY <2>1, <2>2, <2>5, <3>1 DEF S
  <2> QED
    BY <2>4, <2>5
<1>3. S \in SUBSET Seq(T)
  OBVIOUS
<1> HIDE DEF S
<1>4. S = Seq(T)
  BY <1>1, <1>2, <1>3, TextInduction
<1> QED
  BY <1>4 DEF S

LEMMA NothingToDrop ==
    ASSUME NEW T, NEW x, x \notin T, NEW s \in Seq(T)
    PROVE  Without(s, x) = s
<1> DEFINE S == {t \in Seq(T) : Without(t, x) = t}
<1>1. << >> \in S
  BY WithoutOfNothing
<1>2. ASSUME NEW t \in S, NEW c \in T PROVE Append(t, c) \in S
  <2>1. Without(t, x) = t /\ t \in Seq(T) /\ Append(t, c) \in Seq(T) /\ c # x
    OBVIOUS
  <2>2. Without(Append(t, c), x) = Append(t, c)
    BY <2>1, WithoutOfMore
  <2> QED
    BY <2>1, <2>2
<1>3. S \in SUBSET Seq(T)
  OBVIOUS
<1> HIDE DEF S
<1>4. S = Seq(T)
  BY <1>1, <1>2, <1>3, TextInduction
<1> QED
  BY <1>4 DEF S

Has(s, y) == \E i \in DOMAIN s : s[i] = y

\* What is kept is still there.
LEMMA WithoutKeeps ==
    ASSUME NEW T, NEW x, NEW y, y # x, NEW s \in Seq(T), Has(s, y)
    PROVE  Has(Without(s, x), y)
<1> DEFINE H(t) == \E j \in DOMAIN t : t[j] = y
           S == {t \in Seq(T) : H(t) => H(Without(t, x))}
<1>1. << >> \in S
  OBVIOUS
<1>2. ASSUME NEW t \in S, NEW c \in T PROVE Append(t, c) \in S
  <2> DEFINE a == Append(t, c)
             w == Without(t, x)
             u == Append(w, c)
  <2>1. t \in Seq(T) /\ (H(t) => H(w)) /\ w \in Seq(T)
    BY WithoutOfMore
  <2>2. Without(a, x) = IF c = x THEN w ELSE u
    BY <2>1, WithoutOfMore
  <2> HIDE DEF S, w
  <2>3. H(a) => H(t) \/ c = y
    <3>1. /\ Len(t) \in Nat /\ DOMAIN t = 1 .. Len(t)
          /\ DOMAIN a = 1 .. Len(t) + 1
          /\ \A j \in 1 .. Len(t) : a[j] = t[j]
          /\ a[Len(t) + 1] = c
      BY <2>1, AppendProperties, LenProperties
    <3> HIDE DEF a
    <3> QED
      BY <3>1
  <2>4. H(u) <=> H(w) \/ c = y
    <3>1. /\ Len(w) \in Nat /\ DOMAIN w = 1 .. Len(w)
          /\ DOMAIN u = 1 .. Len(w) + 1
          /\ \A j \in 1 .. Len(w) : u[j] = w[j]
          /\ u[Len(w) + 1] = c
      BY <2>1, AppendProperties, LenProperties
    <3> HIDE DEF u
    <3> QED
      BY <3>1
  <2>5. a \in Seq(T)
    BY <2>1
  <2> HIDE DEF a, u, H
  <2>6. H(a) => H(Without(a, x))
    BY <2>1, <2>2, <2>3, <2>4
  <2> QED
    BY <2>5, <2>6 DEF S, a
<1>3. S \in SUBSET Seq(T)
  OBVIOUS
<1> HIDE DEF S
<1>4. S = Seq(T)
  BY <1>1, <1>2, <1>3, TextInduction
<1>5. H(s) => H(Without(s, x))
  BY <1>4 DEF S
<1> QED
  BY <1>5 DEF Has

LEMMA WithoutFirst ==
    ASSUME NEW T, NEW x \in T, NEW s \in Seq(T)
    PROVE  Without(<<x>> \o s, x) = Without(s, x)
<1> DEFINE q == <<x>>
           S == {t \in Seq(T) : Without(q \o t, x) = Without(t, x)}
<1>0. q \in Seq(T)
  OBVIOUS
<1>1. << >> \in S
  <2>1. q \o << >> = q /\ q = Append(<< >>, x) /\ << >> \in Seq(T)
    BY <1>0, ConcatEmptySeq
  <2> DEFINE e == << >>
  <2> HIDE DEF e, q
  <2>2. Without(Append(e, x), x) = Without(e, x)
    BY <2>1, WithoutOfMore DEF e
  <2> QED
    BY <2>1, <2>2 DEF e
<1>2. ASSUME NEW t \in S, NEW c \in T PROVE Append(t, c) \in S
  <2>1. t \in Seq(T) /\ Without(q \o t, x) = Without(t, x)
    OBVIOUS
  <2> HIDE DEF S, q
  <2>2. /\ q \o Append(t, c) = Append(q \o t, c) /\ q \o t \in Seq(T)
        /\ Append(t, c) \in Seq(T)
    BY <1>0, <2>1, ConcatAppend, ConcatProperties
  <2>3. Without(Append(q \o t, c), x) = IF c = x THEN Without(q \o t, x)
                                        ELSE Append(Without(q \o t, x), c)
    <3> DEFINE p == q \o t
    <3>1. p \in Seq(T)
      BY <2>2
    <3> HIDE DEF p
    <3>2. Without(Append(p, c), x) = IF c = x THEN Without(p, x)
                                     ELSE Append(Without(p, x), c)
      BY <3>1, WithoutOfMore
    <3> QED
      BY <3>2 DEF p
  <2>4. Without(Append(t, c), x) = IF c = x THEN Without(t, x)
                                   ELSE Append(Without(t, x), c)
    BY <2>1, WithoutOfMore
  <2>5. Without(q \o Append(t, c), x) = Without(Append(t, c), x)
    BY <2>1, <2>2, <2>3, <2>4
  <2> QED
    BY <2>2, <2>5 DEF S
<1>3. S \in SUBSET Seq(T)
  OBVIOUS
<1> HIDE DEF S
<1>4. S = Seq(T)
  BY <1>1, <1>2, <1>3, TextInduction
<1> QED
  BY <1>4 DEF S
=============================================================================
