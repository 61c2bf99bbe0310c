---------------------------- MODULE MediaProofs ----------------------------
(***************************************************************************)
(* Proofs about MediaRedirect: what startup and the rules of media_target  *)
(* accept is read alike by the url crate and by a reader of RFC 3986, so   *)
(* that whoever follows a Location lands where the code meant it to.       *)
(***************************************************************************)
EXTENDS MediaRedirect, CutLemmas

-----------------------------------------------------------------------------
(* Texts that hold none of some tokens, and texts that begin with one *)

Free(s, tokens) == \A i \in DOMAIN s : s[i] \notin tokens
Begins(s, tokens) == s = << >> \/ s[1] \in tokens

LEMMA FreeOfBoth ==
    ASSUME NEW T, NEW a \in Seq(T), NEW b \in Seq(T), NEW X
    PROVE  Free(a \o b, X) <=> Free(a, X) /\ Free(b, X)
<1>1. /\ a \o b \in Seq(T) /\ Len(a \o b) = Len(a) + Len(b)
      /\ \A i \in 1 .. Len(a) + Len(b) :
            (a \o b)[i] = IF i <= Len(a) THEN a[i] ELSE b[i - Len(a)]
  BY ConcatProperties
<1>2. /\ DOMAIN a = 1 .. Len(a) /\ DOMAIN b = 1 .. Len(b)
      /\ DOMAIN (a \o b) = 1 .. Len(a) + Len(b)
      /\ Len(a) \in Nat /\ Len(b) \in Nat
  BY <1>1, LenProperties
<1>3. ASSUME Free(a \o b, X) PROVE Free(a, X) /\ Free(b, X)
  <2>1. ASSUME NEW i \in 1 .. Len(a) PROVE a[i] \notin X
    <3>1. i \in 1 .. Len(a) + Len(b) /\ i <= Len(a)
      BY <1>2
    <3>2. QED
      BY <1>1, <1>2, <1>3, <3>1 DEF Free
  <2>2. ASSUME NEW i \in 1 .. Len(b) PROVE b[i] \notin X
    <3>1. i + Len(a) \in 1 .. Len(a) + Len(b) /\ ~(i + Len(a) <= Len(a))
          /\ (i + Len(a)) - Len(a) = i
      BY <1>2
    <3>2. QED
      BY <1>1, <1>2, <1>3, <3>1 DEF Free
  <2>3. QED
    BY <1>2, <2>1, <2>2 DEF Free
<1>4. ASSUME Free(a, X), Free(b, X) PROVE Free(a \o b, X)
  <2>1. ASSUME NEW i \in 1 .. Len(a) + Len(b) PROVE (a \o b)[i] \notin X
    <3>1. CASE i <= Len(a)
      BY <1>1, <1>2, <1>4, <3>1 DEF Free
    <3>2. CASE ~(i <= Len(a))
      <4>1. i - Len(a) \in 1 .. Len(b)
        BY <1>2, <3>2
      <4>2. QED
        BY <1>1, <1>2, <1>4, <3>2, <4>1 DEF Free
    <3>3. QED
      BY <3>1, <3>2
  <2>2. QED
    BY <1>2, <2>1 DEF Free
<1>5. QED
  BY <1>3, <1>4

LEMMA FreeOfOne ==
    ASSUME NEW c, NEW X, c \notin X
    PROVE  Free(<<c>>, X)
  BY DEF Free

LEMMA FreeOfTail ==
    ASSUME NEW T, NEW s \in Seq(T), s # << >>, NEW X, Free(s, X)
    PROVE  Free(Tail(s), X)
  BY HeadTailProperties, LenProperties DEF Free

-----------------------------------------------------------------------------
(* Where a text is cut *)

LEMMA MinOf ==
    ASSUME NEW S \in SUBSET Nat, S # {}
    PROVE  Min(S) \in S /\ \A m \in S : Min(S) <= m
  BY LeastElement, Zenon DEF Min

LEMMA MaxOf ==
    ASSUME NEW n \in Nat, NEW S \in SUBSET (1 .. n), S # {}
    PROVE  Max(S) \in S /\ \A m \in S : Max(S) >= m
<1>1. PICK k \in S : \A m \in S : m <= k
  BY GreatestElement
<1>2. \A m \in S : k >= m
  BY <1>1
<1>3. QED
  BY <1>2, Zenon DEF Max

\* A text is what comes before the first stop and what begins with it.
LEMMA Cut ==
    ASSUME NEW T, NEW s \in Seq(T), NEW stops
    PROVE  /\ Upto(s, stops) \in Seq(T) /\ From(s, stops) \in Seq(T)
           /\ s = Upto(s, stops) \o From(s, stops)
           /\ Free(Upto(s, stops), stops)
           /\ Begins(From(s, stops), stops)
<1> DEFINE hits == {i \in DOMAIN s : s[i] \in stops}
<1>1. Len(s) \in Nat /\ DOMAIN s = 1 .. Len(s)
  BY LenProperties
<1>2. CASE hits = {}
  <2>1. Upto(s, stops) = s
    BY <1>2 DEF Upto
  <2>2. From(s, stops) = << >>
    BY <1>1, <2>1, SubSeqEmpty DEF From
  <2>3. Free(s, stops)
    BY <1>2 DEF Free
  <2>4. s = s \o << >> /\ << >> \in Seq(T)
    BY ConcatEmptySeq, EmptySeq
  <2>5. QED
    BY <2>1, <2>2, <2>3, <2>4 DEF Begins
<1>3. CASE hits # {}
  <2>1. hits \in SUBSET Nat
    BY <1>1
  <2>2. Min(hits) \in hits /\ \A m \in hits : Min(hits) <= m
    BY <1>3, <2>1, MinOf
  <2> DEFINE k == Min(hits)
  <2>3. k \in 1 .. Len(s) /\ s[k] \in stops /\ \A i \in 1 .. k - 1 : s[i] \notin stops
    <3>1. k \in 1 .. Len(s) /\ s[k] \in stops
      BY <1>1, <2>2
    <3>2. ASSUME NEW i \in 1 .. k - 1, s[i] \in stops PROVE FALSE
      <4>1. i \in hits /\ ~(k <= i)
        BY <1>1, <3>1, <3>2
      <4>2. QED
        BY <2>2, <4>1
    <3>3. QED
      BY <3>1, <3>2
  <2>4. Upto(s, stops) = SubSeq(s, 1, k - 1)
    BY <1>3 DEF Upto
  <2> HIDE DEF k, hits
  <2>5. /\ SubSeq(s, 1, k - 1) \in Seq(T) /\ Len(SubSeq(s, 1, k - 1)) = k - 1
        /\ \A i \in 1 .. k - 1 : SubSeq(s, 1, k - 1)[i] = s[i]
    BY <1>1, <2>3
  <2>6. From(s, stops) = SubSeq(s, k, Len(s))
    BY <1>1, <2>3, <2>4, <2>5 DEF From
  <2>7. SubSeq(s, k, Len(s)) \in Seq(T) /\ SubSeq(s, k, Len(s))[1] = s[k]
    BY <1>1, <2>3
  <2>8. s = SubSeq(s, 1, k - 1) \o SubSeq(s, k, Len(s))
    <3>1. 1 \in 1 .. Len(s) + 1 /\ k - 1 \in 1 - 1 .. Len(s) /\ Len(s) \in k - 1 .. Len(s)
      BY <1>1, <2>3
    <3>2. SubSeq(s, 1, k - 1) \o SubSeq(s, (k - 1) + 1, Len(s)) = SubSeq(s, 1, Len(s))
      BY <3>1, ConcatAdjacentSubSeq
    <3>3. (k - 1) + 1 = k
      BY <2>3
    <3>4. QED
      BY <3>2, <3>3, SubSeqFull
  <2>9. Free(SubSeq(s, 1, k - 1), stops)
    <3>1. DOMAIN SubSeq(s, 1, k - 1) = 1 .. k - 1
      BY <2>5, LenProperties
    <3>2. QED
      BY <2>3, <2>5, <3>1 DEF Free
  <2>10. QED
    BY <2>3, <2>4, <2>5, <2>6, <2>7, <2>8, <2>9 DEF Begins
<1>4. QED
  BY <1>2, <1>3

\* And that is the only way to cut it there.
LEMMA CutAt ==
    ASSUME NEW T, NEW a \in Seq(T), NEW b \in Seq(T), NEW stops,
           Free(a, stops), Begins(b, stops)
    PROVE  Upto(a \o b, stops) = a /\ From(a \o b, stops) = b
<1> DEFINE s == a \o b
           hits == {i \in DOMAIN s : s[i] \in stops}
<1>1. /\ s \in Seq(T) /\ Len(s) = Len(a) + Len(b)
      /\ \A i \in 1 .. Len(a) + Len(b) :
            s[i] = IF i <= Len(a) THEN a[i] ELSE b[i - Len(a)]
  BY ConcatProperties
<1>2. /\ DOMAIN a = 1 .. Len(a) /\ DOMAIN b = 1 .. Len(b)
      /\ DOMAIN s = 1 .. Len(a) + Len(b)
      /\ Len(a) \in Nat /\ Len(b) \in Nat
  BY <1>1, LenProperties
<1>3. \A i \in 1 .. Len(a) : s[i] \notin stops
  <2>1. SUFFICES ASSUME NEW i \in 1 .. Len(a) PROVE s[i] \notin stops
    OBVIOUS
  <2>2. i \in 1 .. Len(a) + Len(b) /\ i <= Len(a)
    BY <1>2
  <2>3. s[i] = a[i]
    BY <1>1, <2>2
  <2>4. QED
    BY <1>2, <2>3 DEF Free
<1>4. Upto(s, stops) = a
  <2>1. CASE b = << >>
    <3>1. s = a
      BY <2>1, ConcatEmptySeq
    <3>2. hits = {}
      BY <1>2, <1>3, <3>1
    <3>3. QED
      BY <3>1, <3>2 DEF Upto
  <2>2. CASE b # << >>
    <3>1. Len(b) \in Nat \ {0}
      BY <2>2, EmptySeq
    <3> DEFINE k == Len(a) + 1
    <3>2. k \in 1 .. Len(a) + Len(b) /\ ~(k <= Len(a)) /\ k - Len(a) = 1 /\ k \in Nat
      BY <1>2, <3>1
    <3>3. s[k] = b[1]
      BY <1>1, <3>2
    <3>4. k \in hits
      BY <1>2, <2>2, <3>2, <3>3 DEF Begins
    <3>5. \A m \in hits : k <= m
      BY <1>2, <1>3
    <3>6. hits \in SUBSET Nat /\ hits # {}
      BY <1>2, <3>4
    <3>7. Min(hits) \in hits /\ \A m \in hits : Min(hits) <= m
      BY <3>6, MinOf
    <3>8. Min(hits) = k
      <4> HIDE DEF hits, k
      <4>1. Min(hits) \in Nat
        BY <3>6, <3>7
      <4>2. Min(hits) <= k /\ k <= Min(hits)
        BY <3>4, <3>5, <3>7
      <4>3. QED
        BY <3>2, <4>1, <4>2
    <3>9. Upto(s, stops) = SubSeq(s, 1, Len(a))
      <4>1. Upto(s, stops) = SubSeq(s, 1, Min(hits) - 1)
        BY <3>6 DEF Upto
      <4>2. k - 1 = Len(a)
        BY <1>2
      <4>3. QED
        BY <3>8, <4>1, <4>2
    <3>10. SubSeq(s, 1, Len(a)) = a
      <4> HIDE DEF s
      <4>1. /\ SubSeq(s, 1, Len(a)) \in Seq(T) /\ Len(SubSeq(s, 1, Len(a))) = Len(a)
            /\ \A i \in 1 .. Len(a) : SubSeq(s, 1, Len(a))[i] = s[i]
        BY <1>1, <1>2
      <4>2. \A i \in 1 .. Len(a) : SubSeq(s, 1, Len(a))[i] = a[i]
        <5>1. SUFFICES ASSUME NEW i \in 1 .. Len(a) PROVE SubSeq(s, 1, Len(a))[i] = a[i]
          OBVIOUS
        <5>2. i \in 1 .. Len(a) + Len(b) /\ i <= Len(a)
          BY <1>2
        <5>3. QED
          BY <1>1, <4>1, <5>2
      <4>3. QED
        BY <4>1, <4>2, SeqEqual
    <3>11. QED
      BY <3>9, <3>10
  <2>3. QED
    BY <2>1, <2>2
<1>5. From(s, stops) = b
  <2>1. From(s, stops) = SubSeq(s, Len(a) + 1, Len(s))
    BY <1>4 DEF From
  <2> HIDE DEF s
  <2> DEFINE c == SubSeq(s, Len(a) + 1, Len(s))
  <2>2. c \in Seq(T) /\ Len(c) = Len(b)
    BY <1>1, <1>2
  <2>3. \A i \in 1 .. Len(b) : c[i] = s[Len(a) + i]
    BY <1>1, <1>2
  <2>4. \A i \in 1 .. Len(b) : c[i] = b[i]
    <3>1. SUFFICES ASSUME NEW i \in 1 .. Len(b) PROVE c[i] = b[i]
      OBVIOUS
    <3>2. /\ Len(a) + i \in 1 .. Len(a) + Len(b) /\ ~(Len(a) + i <= Len(a))
          /\ (Len(a) + i) - Len(a) = i
      BY <1>2
    <3>3. QED
      BY <1>1, <2>3, <3>2
  <2> HIDE DEF c
  <2>5. c = b
    BY <2>2, <2>4, SeqEqual
  <2>6. QED
    BY <2>1, <2>5 DEF c
<1>6. QED
  BY <1>4, <1>5

\* Stops that are not in the text make no difference.
LEMMA SameStops ==
    ASSUME NEW s, NEW X, NEW Y, \A i \in DOMAIN s : s[i] \in X <=> s[i] \in Y
    PROVE  Upto(s, X) = Upto(s, Y) /\ From(s, X) = From(s, Y)
<1>1. {i \in DOMAIN s : s[i] \in X} = {i \in DOMAIN s : s[i] \in Y}
  OBVIOUS
<1>2. Upto(s, X) = Upto(s, Y)
  BY <1>1 DEF Upto
<1>3. QED
  BY <1>2 DEF From

\* A text without the stop is not cut.
LEMMA NotCut ==
    ASSUME NEW T, NEW s \in Seq(T), NEW X, Free(s, X)
    PROVE  Upto(s, X) = s /\ From(s, X) = << >>
<1>1. << >> \in Seq(T) /\ Begins(<< >>, X) /\ s \o << >> = s
  BY EmptySeq, ConcatEmptySeq DEF Begins
<1>2. Upto(s \o << >>, X) = s /\ From(s \o << >>, X) = << >>
  BY <1>1, CutAt
<1>3. QED
  BY <1>1, <1>2

LEMMA AfterNone ==
    ASSUME NEW s, NEW stop, Free(s, {stop})
    PROVE  AfterLast(s, stop) = s
<1>1. {i \in DOMAIN s : s[i] = stop} = {}
  BY DEF Free
<1>2. QED
  BY <1>1 DEF AfterLast

LEMMA AfterLastIsFree ==
    ASSUME NEW T, NEW s \in Seq(T), NEW stop
    PROVE  /\ AfterLast(s, stop) \in Seq(T)
           /\ Free(AfterLast(s, stop), {stop})
           /\ \A i \in DOMAIN AfterLast(s, stop) :
                \E j \in DOMAIN s : AfterLast(s, stop)[i] = s[j]
<1> DEFINE hits == {i \in DOMAIN s : s[i] = stop}
<1>1. Len(s) \in Nat /\ DOMAIN s = 1 .. Len(s)
  BY LenProperties
<1>2. CASE hits = {}
  <2>1. AfterLast(s, stop) = s
    BY <1>2 DEF AfterLast
  <2>2. QED
    BY <1>2, <2>1 DEF Free
<1>3. CASE hits # {}
  <2>1. hits \in SUBSET (1 .. Len(s))
    BY <1>1
  <2>2. Max(hits) \in hits /\ \A m \in hits : Max(hits) >= m
    BY <1>1, <1>3, <2>1, MaxOf
  <2> DEFINE k == Max(hits)
  <2>3. k \in 1 .. Len(s)
    BY <2>1, <2>2
  <2>4. ASSUME NEW i \in k + 1 .. Len(s) PROVE s[i] # stop
    <3>1. i \in DOMAIN s /\ ~(k >= i)
      BY <1>1, <2>3, <2>4
    <3>2. i \notin hits
      BY <2>2, <3>1
    <3>3. QED
      BY <3>1, <3>2
  <2>5. AfterLast(s, stop) = SubSeq(s, k + 1, Len(s))
    BY <1>3 DEF AfterLast
  <2> HIDE DEF k, hits
  <2> DEFINE c == SubSeq(s, k + 1, Len(s))
  <2>6. c \in Seq(T) /\ Len(c) = Len(s) - k
    <3>1. \A i \in k + 1 .. Len(s) : s[i] \in T
      BY <1>1, <2>3, ElementOfSeq
    <3>2. k + 1 \in Int /\ Len(s) \in Int
      BY <1>1, <2>3
    <3>3. c \in Seq(T) /\ Len(c) = IF k + 1 <= Len(s) THEN Len(s) - (k + 1) + 1 ELSE 0
      BY <3>1, <3>2, SubSeqProperties
    <3> DEFINE n == Len(s)
    <3>4. n \in Nat /\ k \in 1 .. n
      BY <1>1, <2>3
    <3> HIDE DEF n
    <3>5. (IF k + 1 <= n THEN n - (k + 1) + 1 ELSE 0) = n - k
      BY <3>4
    <3> HIDE DEF c
    <3>6. QED
      BY <3>3, <3>5 DEF n
  <2>7. \A i \in 1 .. Len(s) - k : c[i] = s[k + i]
    BY <1>1, <2>3
  <2>8. \A i \in 1 .. Len(s) - k : k + i \in 1 .. Len(s) /\ k + i \in k + 1 .. Len(s)
    BY <1>1, <2>3
  <2>9. DOMAIN c = 1 .. Len(s) - k
    BY <2>6, LenProperties
  <2> HIDE DEF c
  <2>10. Free(c, {stop})
    BY <2>4, <2>7, <2>8, <2>9 DEF Free
  <2>11. \A i \in DOMAIN c : \E j \in DOMAIN s : c[i] = s[j]
    BY <1>1, <2>7, <2>8, <2>9
  <2>12. QED
    BY <2>5, <2>6, <2>10, <2>11 DEF c
<1>4. QED
  BY <1>2, <1>3

LEMMA NoSlashesFirst ==
    ASSUME NEW T, NEW s \in Seq(T), s # << >>, s[1] \notin {"/", "\\"}
    PROVE  AfterSlashes(s) = s
<1> DEFINE others == {i \in DOMAIN s : s[i] \notin {"/", "\\"}}
<1>1. Len(s) \in Nat \ {0} /\ DOMAIN s = 1 .. Len(s)
  BY LenProperties, EmptySeq
<1>2. 1 \in others /\ others \in SUBSET Nat /\ others # {}
  BY <1>1
<1>3. Min(others) \in others /\ \A m \in others : Min(others) <= m
  BY <1>2, MinOf
<1>4. Min(others) = 1
  <2>1. Min(others) \in 1 .. Len(s) /\ Min(others) <= 1
    BY <1>1, <1>2, <1>3
  <2> HIDE DEF others
  <2>2. QED
    BY <1>1, <2>1
<1>5. AfterSlashes(s) = SubSeq(s, 1, Len(s))
  BY <1>2, <1>4 DEF AfterSlashes
<1>6. QED
  BY <1>5, SubSeqFull

\* Skipping slashes loses nothing else.
LEMMA SlashesHide ==
    ASSUME NEW T, NEW s \in Seq(T), NEW i \in DOMAIN s, s[i] \notin {"/", "\\"}
    PROVE  /\ AfterSlashes(s) \in Seq(T)
           /\ \E j \in DOMAIN AfterSlashes(s) : AfterSlashes(s)[j] = s[i]
<1> DEFINE others == {k \in DOMAIN s : s[k] \notin {"/", "\\"}}
<1>1. Len(s) \in Nat /\ DOMAIN s = 1 .. Len(s)
  BY LenProperties
<1>2. i \in others /\ others \in SUBSET Nat /\ others # {}
  BY <1>1
<1>3. Min(others) \in others /\ Min(others) <= i
  BY <1>2, MinOf
<1> DEFINE k == Min(others)
<1>4. k \in 1 .. Len(s) /\ k <= i /\ i <= Len(s) /\ i \in Nat
  BY <1>1, <1>3
<1>5. AfterSlashes(s) = SubSeq(s, k, Len(s))
  BY <1>2 DEF AfterSlashes
<1> HIDE DEF others, k
<1> DEFINE c == SubSeq(s, k, Len(s))
<1>6. c \in Seq(T) /\ Len(c) = Len(s) - k + 1
  BY <1>1, <1>4
<1>7. i - k + 1 \in 1 .. Len(s) - k + 1
  BY <1>1, <1>4
<1>8. c[i - k + 1] = s[i]
  BY <1>1, <1>4, <1>7
<1>9. DOMAIN c = 1 .. Len(s) - k + 1
  BY <1>6, LenProperties
<1>10. QED
  BY <1>5, <1>6, <1>7, <1>8, <1>9

LEMMA NoSlashesLast ==
    ASSUME NEW T, NEW s \in Seq(T)
    PROVE  /\ TrimSlashes(s) \in Seq(T)
           /\ TrimSlashes(s) # << >> => Last(TrimSlashes(s)) # "/"
           /\ (s = << >> \/ Last(s) # "/") => TrimSlashes(s) = s
<1> DEFINE others == {0} \cup {i \in DOMAIN s : s[i] # "/"}
           k == Max(others)
           c == SubSeq(s, 1, k)
<1>1. Len(s) \in Nat /\ DOMAIN s = 1 .. Len(s) /\ Last(s) = s[Len(s)]
  BY LenProperties DEF Last
<1>2. k \in others /\ \A m \in others : k >= m
  <2> DEFINE n == Len(s) + 1
  <2>1. 0 \in others /\ others \in SUBSET Nat /\ \A m \in others : m <= Len(s)
    BY <1>1
  <2>2. CASE others = {0}
    <3>1. 0 \in {0} /\ \A m \in {0} : 0 >= m
      OBVIOUS
    <3>2. Max({0}) \in {0} /\ \A m \in {0} : Max({0}) >= m
      BY <3>1, Zenon DEF Max
    <3>3. QED
      BY <2>2, <3>2
  <2>3. CASE others # {0}
    <3> DEFINE rest == {i \in DOMAIN s : s[i] # "/"}
    <3>1. rest \in SUBSET (1 .. Len(s)) /\ rest # {} /\ others = {0} \cup rest
      BY <1>1, <2>3
    <3>2. PICK g \in rest : \A m \in rest : m <= g
      <4> HIDE DEF rest
      <4>1. QED
        BY <1>1, <3>1, GreatestElement
    <3>3. g \in others /\ \A m \in others : g >= m
      <4>1. g \in 1 .. Len(s)
        BY <1>1
      <4>2. QED
        BY <1>1, <3>1, <3>2, <4>1
    <3> HIDE DEF others
    <3>4. QED
      BY <3>3, Zenon DEF Max
  <2>4. QED
    BY <2>2, <2>3
<1>3. TrimSlashes(s) = c
  BY DEF TrimSlashes
<1>4. k \in 0 .. Len(s) /\ (k # 0 => s[k] # "/")
  BY <1>1, <1>2
<1>5. (s = << >> \/ Last(s) # "/") => k = Len(s)
  <2>1. CASE s = << >>
    BY <1>1, <1>4, <2>1, EmptySeq
  <2>2. CASE s # << >> /\ Last(s) # "/"
    <3>1. Len(s) \in others
      BY <1>1, <2>2, EmptySeq
    <3>2. k >= Len(s)
      BY <1>2, <3>1
    <3>3. k \in 0 .. Len(s)
      BY <1>4
    <3> DEFINE n == Len(s)
    <3>4. n \in Nat
      BY <1>1
    <3> HIDE DEF k, n
    <3>5. k \in 0 .. n /\ k >= n
      BY <3>2, <3>3 DEF n
    <3>6. k = n
      BY <3>4, <3>5
    <3>7. QED
      BY <3>6 DEF n
  <2>3. QED
    BY <2>1, <2>2
<1> HIDE DEF k, others
<1>6. c \in Seq(T) /\ Len(c) = k /\ \A i \in 1 .. k : c[i] = s[i]
  BY <1>1, <1>4
<1>7. c # << >> => Last(c) # "/"
  <2>1. SUFFICES ASSUME c # << >> PROVE Last(c) # "/"
    OBVIOUS
  <2>2. k \in 1 .. Len(s) /\ Last(c) = c[k]
    BY <1>4, <1>6, <2>1, EmptySeq DEF Last
  <2>3. k \in 1 .. k
    BY <2>2
  <2>4. QED
    BY <1>4, <1>6, <2>2, <2>3
<1>8. QED
  BY <1>3, <1>5, <1>6, <1>7, SubSeqFull

-----------------------------------------------------------------------------
(* How a plain URL is read: one without tabs and backslashes, with an       *)
(* authority that begins at once and names no user                          *)

\* Strings, and the literals of the code: that these are strings as well is
\* something the provers do not know.
Tokens == STRING \cup {"/", "?", "#", ":", "cdn", "int", "%7B", "%27", "https://", "http://",
                       "files", "proxy", "a", "bucket", "x"} \cup DOMAIN NUMBERS

Stops == {"/", "?", "#"}
Authority(text) == Upto(Tail(text), Stops)
After(text) == From(Tail(text), Stops)
HostPart(text) == Upto(Authority(text), {":"})
PortPart(text) == From(Authority(text), {":"})

Plain(text) ==
    /\ text \in Seq(Tokens) /\ text # << >> /\ text[1] \in DOMAIN SCHEMES
    /\ Free(text, {"TAB", "\\"})
    /\ Authority(text) # << >> /\ Free(Authority(text), {"@"})

Hosts(s) == Mapped(s, HostToken)
Paths(s) == Mapped(s, PathToken)
Queries(s) == Mapped(s, QueryToken)

PortIn(scheme, part) ==
    IF Len(part) = 2 THEN NUMBERS[part[2]] ELSE DefaultPort(scheme)
IsGoodPort(part) ==
    part \in {<< >>, <<":">>} \/ (IsPort(Tail(part)) /\ ~(NUMBERS[part[2]] > 65535))
IsGood(text) ==
    /\ Hosts(HostPart(text)) # << >> /\ ~IsBroken(Hosts(HostPart(text)))
    /\ IsGoodPort(PortPart(text))

Reading(text) ==
    [scheme   |-> SCHEMES[text[1]],
     userinfo |-> << >>,
     host     |-> Hosts(HostPart(text)),
     domain   |-> ~IsNumeric(Hosts(HostPart(text))),
     port     |-> PortIn(SCHEMES[text[1]], PortPart(text)),
     path     |-> Resolved(Paths(Upto(After(text), {"?", "#"}))),
     query    |-> Queries(From(Upto(After(text), {"#"}), {"?"})),
     fragment |-> From(After(text), {"#"})]

LEMMA FreeIsText ==
    ASSUME NEW T, NEW s \in Seq(T), NEW X, Free(s, X)
    PROVE  s \in Seq(T \ X)
<1>1. s \in [1 .. Len(s) -> T] /\ Len(s) \in Nat /\ DOMAIN s = 1 .. Len(s)
  BY LenProperties
<1>2. s \in [1 .. Len(s) -> T \ X]
  BY <1>1 DEF Free
<1>3. QED
  BY <1>1, <1>2, SeqDef

LEMMA TailOfPlain ==
    ASSUME NEW text, Plain(text)
    PROVE  /\ Tail(text) \in Seq(Tokens)
           /\ Tail(text) = Authority(text) \o After(text)
           /\ Authority(text) \in Seq(Tokens) /\ After(text) \in Seq(Tokens)
           /\ Free(Authority(text), Stops) /\ Begins(After(text), Stops)
<1>1. text \in Seq(Tokens) /\ text # << >>
  BY DEF Plain
<1>2. Tail(text) \in Seq(Tokens)
  BY <1>1, HeadTailProperties
<1>3. QED
  BY <1>2, Cut DEF Authority, After

LEMMA UrlReading ==
    ASSUME NEW text, Plain(text)
    PROVE  Parse(text) = IF IsGood(text) THEN Reading(text) ELSE NoUrl
<1> DEFINE A == Authority(text)
           R == Tail(text)
           Four == {"/", "\\", "?", "#"}
<1>1. /\ text \in Seq(Tokens) /\ text # << >> /\ text[1] \in DOMAIN SCHEMES
      /\ Free(text, {"TAB", "\\"}) /\ A # << >> /\ Free(A, {"@"})
  BY DEF Plain
<1>2. /\ R \in Seq(Tokens) /\ R = A \o After(text)
      /\ A \in Seq(Tokens) /\ After(text) \in Seq(Tokens)
      /\ Free(A, Stops)
  BY TailOfPlain
<1> HIDE DEF A, R
<1>3. Without(text, "TAB") = text
  <2>1. Free(text, {"TAB"})
    BY <1>1 DEF Free
  <2>2. text \in Seq(Tokens \ {"TAB"}) /\ "TAB" \notin Tokens \ {"TAB"}
    BY <1>1, <2>1, FreeIsText
  <2>3. QED
    BY <2>2, NothingToDrop
<1>4. Free(R, {"TAB", "\\"})
  BY <1>1, FreeOfTail DEF R
<1>5. AfterSlashes(R) = R
  <2>1. Len(A) \in Nat \ {0} /\ DOMAIN A = 1 .. Len(A)
    BY <1>1, <1>2, EmptySeq, LenProperties
  <2>2. R # << >>
    BY <1>1, <1>2, ConcatEqualIffEmpty
  <2>3. Len(R) \in Nat \ {0} /\ DOMAIN R = 1 .. Len(R)
    BY <1>2, <2>2, EmptySeq, LenProperties
  <2>4. R[1] = A[1]
    BY <1>2, <2>1
  <2>5. A[1] \notin Stops /\ R[1] # "\\"
    BY <1>2, <1>4, <2>1, <2>3 DEF Free
  <2>6. R[1] \notin {"/", "\\"}
    BY <2>4, <2>5 DEF Stops
  <2>7. QED
    BY <1>2, <2>2, <2>6, NoSlashesFirst
<1>6. Upto(R, Four) = A /\ From(R, Four) = After(text)
  <2>1. \A i \in DOMAIN R : R[i] \in Four <=> R[i] \in Stops
    BY <1>4 DEF Free, Stops
  <2>2. QED
    BY <2>1, SameStops DEF Authority, After, A, R
<1>7. AfterLast(A, "@") = A
  BY <1>1, AfterNone
<1>8. SubSeq(A, 1, Len(A) - Len(A)) = << >> /\ << >> # <<"@">>
  <2>1. Len(A) \in Nat
    BY <1>2, LenProperties
  <2>2. Len(A) - Len(A) = 0
    BY <2>1
  <2>3. QED
    BY <2>2, SubSeqEmpty
<1> DEFINE host == Hosts(Upto(A, {":"}))
           port == From(A, {":"})
<1>9. Parse(text) =
    IF \/ text[1] \notin DOMAIN SCHEMES
       \/ host = <<>> \/ IsBroken(host)
       \/ /\ port \notin {<<>>, <<":">>}
          /\ IsPort(Tail(port)) => NUMBERS[port[2]] > 65535
    THEN NoUrl
    ELSE [scheme   |-> SCHEMES[text[1]],
          userinfo |-> <<>>,
          host     |-> host,
          domain   |-> ~IsNumeric(host),
          port     |-> IF Len(port) = 2 THEN NUMBERS[port[2]]
                       ELSE DefaultPort(SCHEMES[text[1]]),
          path     |-> Resolved(Paths(Upto(After(text), {"?", "#"}))),
          query    |-> Queries(From(Upto(After(text), {"#"}), {"?"})),
          fragment |-> From(After(text), {"#"})]
  <2> DEFINE plain     == Without(text, "TAB")
             rest      == IF plain = <<>> THEN <<>> ELSE AfterSlashes(Tail(plain))
             authority == Upto(rest, {"/", "\\", "?", "#"})
             tail      == From(rest, {"/", "\\", "?", "#"})
             userinfo  == SubSeq(authority, 1, Len(authority) - Len(AfterLast(authority, "@")))
             hostport  == AfterLast(authority, "@")
             heard     == Hosts(Upto(hostport, {":"}))
             gate      == From(hostport, {":"})
             query     == From(Upto(tail, {"#"}), {"?"})
  <2>1. Parse(text) =
    IF \/ plain = <<>> \/ plain[1] \notin DOMAIN SCHEMES
       \/ heard = <<>> \/ IsBroken(heard)
       \/ /\ gate \notin {<<>>, <<":">>}
          /\ IsPort(Tail(gate)) => NUMBERS[gate[2]] > 65535
    THEN NoUrl
    ELSE [scheme   |-> SCHEMES[plain[1]],
          userinfo |-> IF userinfo = <<"@">> THEN <<>> ELSE userinfo,
          host     |-> heard,
          domain   |-> ~IsNumeric(heard),
          port     |-> IF Len(gate) = 2 THEN NUMBERS[gate[2]]
                       ELSE DefaultPort(SCHEMES[plain[1]]),
          path     |-> Resolved(Paths(Upto(tail, {"?", "#"}))),
          query    |-> Queries(query),
          fragment |-> From(tail, {"#"})]
    BY DEF Parse, Hosts, Paths, Queries
  <2>2. plain = text
    BY <1>3
  <2>3. rest = R
    BY <1>1, <1>5, <2>2 DEF R
  <2>4. authority = A /\ tail = After(text)
    BY <1>6, <2>3
  <2> HIDE DEF plain, rest, authority, tail
  <2>5. hostport = A
    BY <1>7, <2>4
  <2>6. userinfo = << >>
    BY <1>7, <1>8, <2>4
  <2>7. heard = host /\ gate = port
    BY <2>5
  <2>8. query = From(Upto(After(text), {"#"}), {"?"})
    BY <2>4
  <2> HIDE DEF hostport, userinfo, heard, gate, query, host, port
  <2>9. (IF userinfo = <<"@">> THEN <<>> ELSE userinfo) = << >>
    BY <1>8, <2>6
  <2>10. QED
    BY <1>1, <2>1, <2>2, <2>4, <2>7, <2>8, <2>9
<1>10. QED
  BY <1>1, <1>9
  DEF Reading, IsGood, IsGoodPort, PortIn, HostPart, PortPart, A

LEMMA ReadingIsSome ==
    ASSUME NEW text
    PROVE  Reading(text) # NoUrl
<1>1. "scheme" \in DOMAIN Reading(text)
  BY DEF Reading
<1>2. "scheme" \notin DOMAIN NoUrl
  BY DEF NoUrl
<1>3. QED
  BY <1>1, <1>2

LEMMA SomeReading ==
    ASSUME NEW text, Plain(text), Parse(text) # NoUrl
    PROVE  IsGood(text) /\ Parse(text) = Reading(text)
  BY UrlReading

LEMMA PartsOfAuthority ==
    ASSUME NEW text, Plain(text)
    PROVE  /\ HostPart(text) \in Seq(Tokens) /\ PortPart(text) \in Seq(Tokens)
           /\ Authority(text) = HostPart(text) \o PortPart(text)
           /\ Free(HostPart(text), {":"}) /\ Begins(PortPart(text), {":"})
  BY TailOfPlain, Cut DEF HostPart, PortPart

\* A port that the url crate takes is read alike by both.
LEMMA GoodPort ==
    ASSUME NEW part \in Seq(Tokens), IsGoodPort(part), NEW scheme
    PROVE  PortIn(scheme, part) = IF Len(part) = 2 /\ IsPort(Tail(part))
                                  THEN NUMBERS[part[2]] ELSE DefaultPort(scheme)
<1>1. CASE part \in {<< >>, <<":">>}
  <2>1. Len(part) # 2
    BY <1>1
  <2>2. QED
    BY <2>1 DEF PortIn
<1>2. CASE IsPort(Tail(part))
  BY <1>2 DEF PortIn
<1>3. QED
  BY <1>1, <1>2 DEF IsGoodPort

LEMMA RfcReading ==
    ASSUME NEW text, Plain(text), IsGood(text)
    PROVE  /\ RfcPort(text) = PortIn(SCHEMES[text[1]], PortPart(text))
           /\ RfcPath(text) = Upto(After(text), {"?", "#"})
           /\ Free(HostPart(text), {"%63dn"}) => RfcHost(text) = Hosts(HostPart(text))
<1>1. RfcAuthority(text) = Authority(text)
  <2>1. Free(Authority(text), {"@"})
    BY DEF Plain
  <2>2. AfterLast(Authority(text), "@") = Authority(text)
    BY <2>1, AfterNone
  <2>3. QED
    BY <2>2 DEF RfcAuthority, Authority, Stops
<1>2. RfcPort(text) = PortIn(SCHEMES[text[1]], PortPart(text))
  <2>1. IsGoodPort(PortPart(text)) /\ PortPart(text) \in Seq(Tokens)
    BY PartsOfAuthority DEF IsGood
  <2>2. From(RfcAuthority(text), {":"}) = PortPart(text)
    BY <1>1 DEF PortPart
  <2>3. QED
    BY <2>1, <2>2, GoodPort DEF RfcPort
<1>3. RfcPath(text) = Upto(After(text), {"?", "#"})
  BY DEF RfcPath, After, Stops
<1>4. ASSUME Free(HostPart(text), {"%63dn"})
      PROVE  RfcHost(text) = Hosts(HostPart(text))
  <2> DEFINE h == HostPart(text)
             A == Authority(text)
             told(t) == CASE t = "CDN" -> "cdn" [] t = "INT" -> "int" [] OTHER -> t
  <2>1. RfcHost(text) = [i \in DOMAIN h |-> told(A[i])]
    BY <1>1 DEF RfcHost, HostPart
  <2>2. Hosts(h) = [i \in DOMAIN h |-> HostToken(h[i])]
    BY DEF Hosts, Mapped
  <2>3. ASSUME NEW i \in DOMAIN h PROVE told(A[i]) = HostToken(h[i])
    <3>1. A = h \o PortPart(text) /\ h \in Seq(Tokens) /\ PortPart(text) \in Seq(Tokens)
      BY PartsOfAuthority
    <3>2. i \in 1 .. Len(h) /\ Len(h) \in Nat
      BY <3>1, LenProperties
    <3> HIDE DEF h, A
    <3>3. A[i] = h[i]
      BY <3>1, <3>2
    <3>4. h[i] # "%63dn"
      BY <1>4 DEF Free, h
    <3>5. QED
      BY <3>3, <3>4 DEF HostToken
  <2>4. QED
    BY <2>1, <2>2, <2>3
<1>5. QED
  BY <1>2, <1>3, <1>4

\* To every reader, a plain URL that the url crate takes names one host and port.
LEMMA ReadersAgree ==
    ASSUME NEW text, Plain(text), Parse(text) # NoUrl, Free(HostPart(text), {"%63dn"})
    PROVE  /\ Parse(text).host = Hosts(HostPart(text)) /\ RfcHost(text) = Parse(text).host
           /\ Parse(text).port = PortIn(SCHEMES[text[1]], PortPart(text))
           /\ RfcPort(text) = Parse(text).port
  BY SomeReading, RfcReading DEF Reading

-----------------------------------------------------------------------------
(* Tokens as a host's, a path's and a query's *)

LEMMA HostsAre ==
    ASSUME NEW s \in Seq(Tokens)
    PROVE  /\ Hosts(s) \in Seq(Tokens) /\ Len(Hosts(s)) = Len(s)
           /\ \A i \in 1 .. Len(s) : Hosts(s)[i] = HostToken(s[i])
<1>1. s \in [1 .. Len(s) -> Tokens] /\ Len(s) \in Nat /\ DOMAIN s = 1 .. Len(s)
  BY LenProperties
<1>2. Hosts(s) = [i \in 1 .. Len(s) |-> HostToken(s[i])]
  BY <1>1 DEF Hosts, Mapped
<1>3. \A t \in Tokens : HostToken(t) \in Tokens
  BY DEF HostToken, Tokens
<1>4. Hosts(s) \in [1 .. Len(s) -> Tokens]
  BY <1>1, <1>2, <1>3
<1>5. Hosts(s) \in Seq(Tokens)
  BY <1>1, <1>4, SeqDef
<1>6. Len(Hosts(s)) = Len(s)
  BY <1>1, <1>4, <1>5, LenProperties
<1>7. QED
  BY <1>2, <1>5, <1>6

LEMMA PathsAre ==
    ASSUME NEW s \in Seq(Tokens)
    PROVE  /\ Paths(s) \in Seq(Tokens) /\ Len(Paths(s)) = Len(s)
           /\ \A i \in 1 .. Len(s) : Paths(s)[i] = PathToken(s[i])
<1>1. s \in [1 .. Len(s) -> Tokens] /\ Len(s) \in Nat /\ DOMAIN s = 1 .. Len(s)
  BY LenProperties
<1>2. Paths(s) = [i \in 1 .. Len(s) |-> PathToken(s[i])]
  BY <1>1 DEF Paths, Mapped
<1>3. \A t \in Tokens : PathToken(t) \in Tokens
  BY DEF PathToken, Tokens
<1>4. Paths(s) \in [1 .. Len(s) -> Tokens]
  BY <1>1, <1>2, <1>3
<1>5. Paths(s) \in Seq(Tokens)
  BY <1>1, <1>4, SeqDef
<1>6. Len(Paths(s)) = Len(s)
  BY <1>1, <1>4, <1>5, LenProperties
<1>7. QED
  BY <1>2, <1>5, <1>6

LEMMA QueriesAre ==
    ASSUME NEW s \in Seq(Tokens)
    PROVE  /\ Queries(s) \in Seq(Tokens) /\ Len(Queries(s)) = Len(s)
           /\ \A i \in 1 .. Len(s) : Queries(s)[i] = QueryToken(s[i])
<1>1. s \in [1 .. Len(s) -> Tokens] /\ Len(s) \in Nat /\ DOMAIN s = 1 .. Len(s)
  BY LenProperties
<1>2. Queries(s) = [i \in 1 .. Len(s) |-> QueryToken(s[i])]
  BY <1>1 DEF Queries, Mapped
<1>3. \A t \in Tokens : QueryToken(t) \in Tokens
  BY DEF QueryToken, Tokens
<1>4. Queries(s) \in [1 .. Len(s) -> Tokens]
  BY <1>1, <1>2, <1>3
<1>5. Queries(s) \in Seq(Tokens)
  BY <1>1, <1>4, SeqDef
<1>6. Len(Queries(s)) = Len(s)
  BY <1>1, <1>4, <1>5, LenProperties
<1>7. QED
  BY <1>2, <1>5, <1>6

\* A host is lowercased once and for all.
LEMMA HostsOfHosts ==
    ASSUME NEW s \in Seq(Tokens)
    PROVE  /\ Hosts(Hosts(s)) = Hosts(s)
           /\ Free(Hosts(s), {"CDN", "INT", "%63dn"})
           /\ \A X : Free(s, X) => Free(Hosts(s), X \ {"cdn", "int"})
<1> DEFINE h == Hosts(s)
           hh == Hosts(h)
<1>1. /\ h \in Seq(Tokens) /\ Len(h) = Len(s)
      /\ \A i \in 1 .. Len(s) : h[i] = HostToken(s[i])
  BY HostsAre
<1>2. Len(s) \in Nat /\ DOMAIN s = 1 .. Len(s) /\ DOMAIN h = 1 .. Len(s)
  BY <1>1, LenProperties
<1> HIDE DEF h
<1>3. hh \in Seq(Tokens) /\ Len(hh) = Len(h) /\ \A i \in 1 .. Len(h) : hh[i] = HostToken(h[i])
  BY <1>1, HostsAre
<1>4. \A t : HostToken(HostToken(t)) = HostToken(t)
             /\ HostToken(t) \notin {"CDN", "INT", "%63dn"}
             /\ (HostToken(t) = t \/ HostToken(t) \in {"cdn", "int"})
  BY DEF HostToken
<1> HIDE DEF hh
<1>5. \A i \in 1 .. Len(h) : hh[i] = h[i]
  BY <1>1, <1>3, <1>4
<1>6. hh = h
  BY <1>1, <1>3, <1>5, SeqEqual
<1>7. Free(h, {"CDN", "INT", "%63dn"})
  BY <1>1, <1>2, <1>4 DEF Free
<1>8. \A X : Free(s, X) => Free(h, X \ {"cdn", "int"})
  BY <1>1, <1>2, <1>4 DEF Free
<1>9. QED
  BY <1>6, <1>7, <1>8 DEF h, hh

-----------------------------------------------------------------------------
(* What the url crate reads is clean: its host has no delimiter left in it  *)

Delimiters == {"/", "?", "#", ":", "@", "TAB", "\\"}

Clean(u) ==
    /\ u.scheme \in {"https", "http"}
    /\ u.host \in Seq(Tokens) /\ u.host # << >> /\ Free(u.host, Delimiters)
    /\ Free(u.host, {"%63dn"}) /\ Hosts(u.host) = u.host /\ ~IsBroken(u.host)
    /\ \E part \in Seq(Tokens) : IsGoodPort(part) /\ u.port = PortIn(u.scheme, part)

LEMMA TextIsFree ==
    ASSUME NEW T, NEW s \in Seq(T), NEW X, T \cap X = {}
    PROVE  Free(s, X)
<1>1. s \in [1 .. Len(s) -> T] /\ DOMAIN s = 1 .. Len(s)
  BY LenProperties
<1>2. QED
  BY <1>1 DEF Free

LEMMA AfterSlashesIsText ==
    ASSUME NEW T, NEW s \in Seq(T)
    PROVE  AfterSlashes(s) \in Seq(T)
<1>1. CASE \E i \in DOMAIN s : s[i] \notin {"/", "\\"}
  BY <1>1, SlashesHide
<1>2. CASE ~ \E i \in DOMAIN s : s[i] \notin {"/", "\\"}
  <2>1. {i \in DOMAIN s : s[i] \notin {"/", "\\"}} = {}
    BY <1>2
  <2>2. AfterSlashes(s) = << >>
    BY <2>1 DEF AfterSlashes
  <2>3. QED
    BY <2>2, EmptySeq
<1>3. QED
  BY <1>1, <1>2

LEMMA ParsedIsClean ==
    ASSUME NEW text \in Seq(Tokens), Parse(text) # NoUrl
    PROVE  Clean(Parse(text))
<1> DEFINE Four      == {"/", "\\", "?", "#"}
           plain     == Without(text, "TAB")
           rest      == IF plain = <<>> THEN <<>> ELSE AfterSlashes(Tail(plain))
           authority == Upto(rest, {"/", "\\", "?", "#"})
           tail      == From(rest, {"/", "\\", "?", "#"})
           userinfo  == SubSeq(authority, 1, Len(authority) - Len(AfterLast(authority, "@")))
           hostport  == AfterLast(authority, "@")
           part      == Upto(hostport, {":"})
           host      == Hosts(Upto(hostport, {":"}))
           port      == From(hostport, {":"})
           query     == From(Upto(tail, {"#"}), {"?"})
           T1 == Tokens \ {"TAB"}
           T2 == T1 \ Four
           T3 == T2 \ {"@"}
<1>1. Parse(text) =
    IF \/ plain = <<>> \/ plain[1] \notin DOMAIN SCHEMES
       \/ host = <<>> \/ IsBroken(host)
       \/ /\ port \notin {<<>>, <<":">>}
          /\ IsPort(Tail(port)) => NUMBERS[port[2]] > 65535
    THEN NoUrl
    ELSE [scheme   |-> SCHEMES[plain[1]],
          userinfo |-> IF userinfo = <<"@">> THEN <<>> ELSE userinfo,
          host     |-> host,
          domain   |-> ~IsNumeric(host),
          port     |-> IF Len(port) = 2 THEN NUMBERS[port[2]]
                       ELSE DefaultPort(SCHEMES[plain[1]]),
          path     |-> Resolved(Paths(Upto(tail, {"?", "#"}))),
          query    |-> Queries(query),
          fragment |-> From(tail, {"#"})]
  BY DEF Parse, Hosts, Paths, Queries
<1>2. plain \in Seq(T1)
  BY WithoutIsText
<1>3. rest \in Seq(T1)
  <2>1. CASE plain = << >>
    BY <2>1, EmptySeq
  <2>2. CASE plain # << >>
    <3> HIDE DEF plain, T1
    <3>1. Tail(plain) \in Seq(T1)
      BY <1>2, <2>2, HeadTailProperties
    <3>2. QED
      BY <2>2, <3>1, AfterSlashesIsText
  <2>3. QED
    BY <2>1, <2>2
<1>4. authority \in Seq(T2)
  <2> HIDE DEF rest, T1
  <2>1. Upto(rest, Four) \in Seq(T1) /\ Free(Upto(rest, Four), Four)
    BY <1>3, Cut
  <2>2. QED
    BY <2>1, FreeIsText
<1>5. hostport \in Seq(T3)
  <2> HIDE DEF authority, T2
  <2>1. AfterLast(authority, "@") \in Seq(T2) /\ Free(AfterLast(authority, "@"), {"@"})
    BY <1>4, AfterLastIsFree
  <2>2. QED
    BY <2>1, FreeIsText
<1>6. part \in Seq(T3 \ {":"}) /\ port \in Seq(T3)
  <2> HIDE DEF hostport, T3
  <2>1. part \in Seq(T3) /\ Free(part, {":"}) /\ port \in Seq(T3)
    BY <1>5, Cut
  <2>2. QED
    BY <2>1, FreeIsText
<1>7. part \in Seq(Tokens) /\ port \in Seq(Tokens) /\ Free(part, Delimiters)
  <2>1. T3 \subseteq Tokens /\ T3 \ {":"} \subseteq Tokens
    OBVIOUS
  <2>2. (T3 \ {":"}) \cap Delimiters = {}
    BY DEF Delimiters
  <2> HIDE DEF part, port, T3
  <2>3. part \in Seq(Tokens) /\ port \in Seq(Tokens)
    BY <1>6, <2>1, SeqMonotonic
  <2>4. Free(part, Delimiters)
    BY <1>6, <2>2, TextIsFree
  <2>5. QED
    BY <2>3, <2>4
<1> HIDE DEF part, port, rest, authority, tail, userinfo, hostport, query, plain
<1>8. host = Hosts(part)
  BY DEF part
<1> HIDE DEF host
<1>9. /\ plain[1] \in DOMAIN SCHEMES /\ host # << >> /\ ~IsBroken(host)
      /\ port \in {<<>>, <<":">>} \/ (IsPort(Tail(port)) /\ ~(NUMBERS[port[2]] > 65535))
  BY <1>1, SMT
<1>10. /\ Parse(text).scheme = SCHEMES[plain[1]] /\ Parse(text).host = host
       /\ Parse(text).port = IF Len(port) = 2 THEN NUMBERS[port[2]]
                             ELSE DefaultPort(SCHEMES[plain[1]])
  BY <1>1, <1>9, SMT
<1>11. SCHEMES[plain[1]] \in {"https", "http"}
  BY <1>9 DEF SCHEMES
<1>12. host \in Seq(Tokens) /\ Free(host, Delimiters) /\ Free(host, {"%63dn"}) /\ Hosts(host) = host
  <2>1. Hosts(part) \in Seq(Tokens)
    BY <1>7, HostsAre
  <2>2. /\ Hosts(Hosts(part)) = Hosts(part)
        /\ Free(Hosts(part), {"CDN", "INT", "%63dn"})
        /\ \A X : Free(part, X) => Free(Hosts(part), X \ {"cdn", "int"})
    BY <1>7, HostsOfHosts
  <2>3. Free(Hosts(part), Delimiters \ {"cdn", "int"})
    BY <1>7, <2>2
  <2>4. Delimiters \ {"cdn", "int"} = Delimiters
    BY DEF Delimiters
  <2>5. Free(Hosts(part), {"%63dn"})
    BY <2>2 DEF Free
  <2>6. QED
    BY <1>8, <2>1, <2>2, <2>3, <2>4, <2>5
<1>13. IsGoodPort(port)
  BY <1>9 DEF IsGoodPort
<1>14. Parse(text).port = PortIn(Parse(text).scheme, port)
  BY <1>10 DEF PortIn
<1>15. QED
  BY <1>7, <1>9, <1>10, <1>11, <1>12, <1>13, <1>14 DEF Clean

-----------------------------------------------------------------------------
(* A location made of a clean URL's origin is read back as that origin      *)

\* A port is written so that it is read back.
LEMMA PortIsWritten ==
    ASSUME NEW u, Clean(u)
    PROVE  /\ PortText(u) = << >> \/ \E n \in DOMAIN NUMBERS : PortText(u) = <<":", n>>
           /\ IsGoodPort(PortText(u)) /\ PortIn(u.scheme, PortText(u)) = u.port
<1>1. PICK part \in Seq(Tokens) : IsGoodPort(part) /\ u.port = PortIn(u.scheme, part)
  BY DEF Clean
<1>2. CASE u.port = DefaultPort(u.scheme)
  <2>1. PortText(u) = << >>
    BY <1>2 DEF PortText
  <2>2. Len(<< >>) # 2
    OBVIOUS
  <2>3. QED
    BY <1>2, <2>1, <2>2 DEF IsGoodPort, PortIn
<1>3. CASE u.port # DefaultPort(u.scheme)
  <2>1. Len(part) = 2 /\ u.port = NUMBERS[part[2]]
    BY <1>1, <1>3 DEF PortIn
  <2>2. part \notin {<< >>, <<":">>}
    <3>1. Len(<< >>) # 2 /\ Len(<<":">>) # 2
      OBVIOUS
    <3>2. QED
      BY <2>1, <3>1
  <2>3. IsPort(Tail(part)) /\ ~(NUMBERS[part[2]] > 65535)
    BY <1>1, <2>2 DEF IsGoodPort
  <2>4. part[2] \in DOMAIN NUMBERS
    <3>1. Tail(part)[1] = part[2]
      BY <2>1, <2>2, HeadTailProperties
    <3>2. QED
      BY <2>3, <3>1 DEF IsPort
  <2>5. \E t \in DOMAIN NUMBERS \ {"00443"} : NUMBERS[t] = u.port
    <3>1. CASE part[2] = "00443"
      <4>1. "443" \in DOMAIN NUMBERS \ {"00443"} /\ NUMBERS["443"] = NUMBERS["00443"]
        BY DEF NUMBERS
      <4>2. QED
        BY <2>1, <3>1, <4>1
    <3>2. CASE part[2] # "00443"
      BY <2>1, <2>4, <3>2
    <3>3. QED
      BY <3>1, <3>2
  <2> DEFINE n == CHOOSE t \in DOMAIN NUMBERS \ {"00443"} : NUMBERS[t] = u.port
  <2>6. n \in DOMAIN NUMBERS /\ NUMBERS[n] = u.port
    BY <2>5
  <2>7. PortText(u) = <<":", n>>
    BY <1>3 DEF PortText
  <2> HIDE DEF n
  <2>8. Len(<<":", n>>) = 2 /\ <<":", n>>[2] = n /\ Tail(<<":", n>>) = <<n>>
    OBVIOUS
  <2>9. IsPort(Tail(PortText(u)))
    BY <2>6, <2>7, <2>8 DEF IsPort
  <2>10. ~(NUMBERS[PortText(u)[2]] > 65535)
    BY <2>1, <2>3, <2>6, <2>7, <2>8
  <2>11. QED
    BY <2>6, <2>7, <2>8, <2>9, <2>10 DEF IsGoodPort, PortIn
<1>4. QED
  BY <1>2, <1>3

LEMMA OneAndRest ==
    ASSUME NEW T, NEW c \in T, NEW s \in Seq(T)
    PROVE  /\ <<c>> \o s \in Seq(T) /\ <<c>> \o s # << >>
           /\ (<<c>> \o s)[1] = c /\ Tail(<<c>> \o s) = s
<1>1. <<c>> \in Seq(T) /\ Len(<<c>>) = 1 /\ <<c>>[1] = c
  OBVIOUS
<1> DEFINE a == <<c>>
           w == a \o s
<1>2. a \in Seq(T) /\ Len(a) = 1 /\ a[1] = c
  BY <1>1
<1> HIDE DEF a
<1>3. /\ w \in Seq(T) /\ Len(w) = 1 + Len(s)
      /\ \A i \in 1 .. 1 + Len(s) : w[i] = IF i <= 1 THEN a[i] ELSE s[i - 1]
  <2>1. /\ a \o s \in Seq(T) /\ Len(a \o s) = Len(a) + Len(s)
        /\ \A i \in 1 .. Len(a) + Len(s) : (a \o s)[i] =
              IF i <= Len(a) THEN a[i] ELSE s[i - Len(a)]
    BY <1>2, ConcatProperties
  <2>2. QED
    BY <1>2, <2>1
<1>4. Len(s) \in Nat
  BY LenProperties
<1> HIDE DEF w
<1>5. w # << >> /\ 1 \in 1 .. 1 + Len(s)
  BY <1>3, <1>4, EmptySeq
<1>6. w[1] = c
  BY <1>2, <1>3, <1>5
<1>7. Tail(w) = s
  <2>1. Tail(w) \in Seq(T) /\ Len(Tail(w)) = Len(s)
        /\ \A i \in 1 .. Len(s) : Tail(w)[i] = w[i + 1]
    BY <1>3, <1>4, <1>5, HeadTailProperties
  <2>2. \A i \in 1 .. Len(s) : Tail(w)[i] = s[i]
    <3>1. SUFFICES ASSUME NEW i \in 1 .. Len(s) PROVE Tail(w)[i] = s[i]
      OBVIOUS
    <3>2. i + 1 \in 1 .. 1 + Len(s) /\ ~(i + 1 <= 1) /\ (i + 1) - 1 = i
      BY <1>4
    <3>3. QED
      BY <1>3, <2>1, <3>2
  <2>3. QED
    BY <2>1, <2>2, SeqEqual
<1>8. QED
  BY <1>3, <1>5, <1>6, <1>7 DEF a, w

LEMMA PortTextIs ==
    ASSUME NEW u, Clean(u)
    PROVE  /\ PortText(u) \in Seq(Tokens) /\ Begins(PortText(u), {":"})
           /\ Free(PortText(u), Delimiters \ {":"})
<1>1. PortText(u) = << >> \/ \E n \in DOMAIN NUMBERS : PortText(u) = <<":", n>>
  BY PortIsWritten
<1>2. CASE PortText(u) = << >>
  <2>1. << >> \in Seq(Tokens) /\ DOMAIN << >> = {}
    BY EmptySeq
  <2>2. QED
    BY <1>2, <2>1 DEF Begins, Free
<1>3. ASSUME NEW n \in DOMAIN NUMBERS, PortText(u) = <<":", n>>
      PROVE  /\ PortText(u) \in Seq(Tokens) /\ Begins(PortText(u), {":"})
             /\ Free(PortText(u), Delimiters \ {":"})
  <2>1. n \in Tokens /\ ":" \in Tokens
    BY DEF Tokens
  <2>2. n \notin Delimiters
    BY DEF Delimiters, NUMBERS
  <2>3. <<":", n>> \in Seq(Tokens) /\ <<":", n>>[1] = ":" /\ <<":", n>>[2] = n
        /\ DOMAIN <<":", n>> = 1 .. 2
    BY <2>1
  <2>4. Free(<<":", n>>, Delimiters \ {":"})
    BY <2>2, <2>3 DEF Free
  <2>5. QED
    BY <1>3, <2>3, <2>4 DEF Begins
<1>4. QED
  BY <1>1, <1>2, <1>3

Opening(u) == IF u.scheme = "https" THEN "https://" ELSE "http://"

LEMMA OriginIsRead ==
    ASSUME NEW u, Clean(u), NEW rest \in Seq(Tokens),
           Begins(rest, Stops), Free(rest, {"TAB", "\\"})
    PROVE  LET text == Origin(u) \o rest
           IN  /\ Plain(text) /\ After(text) = rest /\ IsGood(text)
               /\ HostPart(text) = u.host /\ PortPart(text) = PortText(u)
               /\ text[1] = Opening(u) /\ SCHEMES[text[1]] = u.scheme
               /\ Tail(text) = (u.host \o PortText(u)) \o rest
               /\ Origin(u) \in Seq(Tokens) /\ Tail(Origin(u)) = u.host \o PortText(u)
<1> DEFINE o == Opening(u)
           h == u.host
           p == PortText(u)
           A == h \o p
           B == A \o rest
           text == Origin(u) \o rest
<1>1. /\ h \in Seq(Tokens) /\ h # << >> /\ Free(h, Delimiters) /\ Hosts(h) = h /\ ~IsBroken(h)
      /\ u.scheme \in {"https", "http"}
  BY DEF Clean
<1>2. p \in Seq(Tokens) /\ Begins(p, {":"}) /\ Free(p, Delimiters \ {":"}) /\ IsGoodPort(p)
  BY PortTextIs, PortIsWritten
<1>3. o \in Tokens /\ o \in DOMAIN SCHEMES /\ SCHEMES[o] = u.scheme /\ o \notin {"TAB", "\\"}
  BY <1>1 DEF Opening, Tokens, SCHEMES
<1>4. Origin(u) = (<<o>> \o h) \o p
  BY DEF Origin, Opening
<1> HIDE DEF o, h, p
<1>5. A \in Seq(Tokens) /\ A # << >>
  BY <1>1, <1>2, ConcatProperties, ConcatEqualIffEmpty
<1>6. B \in Seq(Tokens)
  <2> HIDE DEF A
  <2>1. QED
    BY <1>5, ConcatProperties
<1>7. <<o>> \in Seq(Tokens)
  BY <1>3
<1>8. Origin(u) = <<o>> \o A
  BY <1>1, <1>2, <1>4, <1>7, ConcatAssociative, SMT
<1>9. text = <<o>> \o B
  <2> HIDE DEF A
  <2>1. text = (<<o>> \o A) \o rest
    BY <1>8
  <2>2. (<<o>> \o A) \o rest = <<o>> \o (A \o rest)
    BY <1>5, <1>7, ConcatAssociative, SMT
  <2>3. QED
    BY <2>1, <2>2
<1> HIDE DEF text
<1>10. /\ text \in Seq(Tokens) /\ text # << >> /\ text[1] = o /\ Tail(text) = B
  <2> HIDE DEF B
  <2>1. QED
    BY <1>3, <1>6, <1>9, OneAndRest
<1>11. Free(A, Delimiters \ {":"})
  <2>1. Free(h, Delimiters \ {":"})
    BY <1>1 DEF Free
  <2>2. QED
    BY <1>1, <1>2, <2>1, FreeOfBoth
<1>12. Free(A, Stops) /\ Free(A, {"@"}) /\ Free(A, {"TAB", "\\"})
  BY <1>11 DEF Free, Stops, Delimiters
<1>13. Upto(B, Stops) = A /\ From(B, Stops) = rest
  <2> HIDE DEF A
  <2>1. QED
    BY <1>5, <1>12, CutAt
<1>14. Authority(text) = A /\ After(text) = rest
  BY <1>10, <1>13 DEF Authority, After
<1>15. Upto(A, {":"}) = h /\ From(A, {":"}) = p
  <2>1. Free(h, {":"})
    BY <1>1 DEF Free, Delimiters
  <2>2. QED
    BY <1>1, <1>2, <2>1, CutAt
<1>16. HostPart(text) = h /\ PortPart(text) = p
  BY <1>14, <1>15 DEF HostPart, PortPart
<1>17. Free(text, {"TAB", "\\"})
  <2>1. Free(B, {"TAB", "\\"})
    <3> HIDE DEF A
    <3>1. QED
      BY <1>5, <1>12, FreeOfBoth
  <2>2. Free(<<o>>, {"TAB", "\\"})
    BY <1>3, FreeOfOne
  <2> HIDE DEF B
  <2>3. QED
    BY <1>6, <1>7, <1>9, <2>1, <2>2, FreeOfBoth
<1>18. Plain(text)
  BY <1>3, <1>5, <1>10, <1>12, <1>14, <1>17 DEF Plain
<1>19. IsGood(text)
  BY <1>1, <1>2, <1>16 DEF IsGood
<1>20. Origin(u) \in Seq(Tokens) /\ Tail(Origin(u)) = A
  <2> HIDE DEF A
  <2>1. QED
    BY <1>3, <1>5, <1>8, OneAndRest
<1>21. QED
  BY <1>3, <1>10, <1>14, <1>16, <1>18, <1>19, <1>20 DEF o, h, p, text

\* Both readers of such a text see the URL's own host and port.
LEMMA OriginReadings ==
    ASSUME NEW u, Clean(u), NEW rest \in Seq(Tokens),
           Begins(rest, Stops), Free(rest, {"TAB", "\\"})
    PROVE  LET text == Origin(u) \o rest
               path == Upto(rest, {"?", "#"})
           IN  /\ Parse(text) # NoUrl
               /\ Parse(text).scheme = u.scheme /\ Parse(text).userinfo = << >>
               /\ Parse(text).host = u.host /\ Parse(text).port = u.port
               /\ Parse(text).path = Resolved(Paths(path))
               /\ Parse(text).fragment = From(rest, {"#"})
               /\ RfcHost(text) = u.host /\ RfcPort(text) = u.port /\ RfcPath(text) = path
<1> DEFINE text == Origin(u) \o rest
<1>1. /\ Plain(text) /\ After(text) = rest /\ IsGood(text)
      /\ HostPart(text) = u.host /\ PortPart(text) = PortText(u)
      /\ SCHEMES[text[1]] = u.scheme
  BY OriginIsRead
<1> HIDE DEF text
<1>2. Hosts(u.host) = u.host /\ Free(u.host, {"%63dn"})
  BY DEF Clean
<1>3. PortIn(u.scheme, PortText(u)) = u.port
  BY PortIsWritten
<1>4. Parse(text) = Reading(text) /\ Parse(text) # NoUrl
  BY <1>1, UrlReading, ReadingIsSome
<1>5. /\ RfcPort(text) = u.port /\ RfcHost(text) = u.host
      /\ RfcPath(text) = Upto(rest, {"?", "#"})
  <2>1. /\ RfcPort(text) = PortIn(SCHEMES[text[1]], PortPart(text))
        /\ RfcPath(text) = Upto(After(text), {"?", "#"})
        /\ Free(HostPart(text), {"%63dn"}) => RfcHost(text) = Hosts(HostPart(text))
    BY <1>1, RfcReading
  <2>2. QED
    BY <1>1, <1>2, <1>3, <2>1
<1>6. QED
  BY <1>1, <1>2, <1>3, <1>4, <1>5 DEF Reading, text

-----------------------------------------------------------------------------
(* The value of a url parameter                                             *)

LEMMA CutIsFree ==
    ASSUME NEW T, NEW s \in Seq(T), NEW stops, NEW X, Free(s, X)
    PROVE  Free(Upto(s, stops), X) /\ Free(From(s, stops), X)
<1> DEFINE a == Upto(s, stops)
           b == From(s, stops)
<1>1. a \in Seq(T) /\ b \in Seq(T) /\ s = a \o b
  BY Cut
<1> HIDE DEF a, b
<1>2. Free(a, X) /\ Free(b, X)
  BY <1>1, FreeOfBoth
<1>3. QED
  BY <1>2 DEF a, b

PathOf(value) == Upto(From(Tail(value), {"/", "?"}), {"?"})
QueryOf(value) == From(Upto(After(value), {"#"}), {"?"})

LEMMA ValueIsPlain ==
    ASSUME NEW list, NEW v \in Seq(Tokens), MayBeSentTo(list, v)
    PROVE  /\ Plain(v) /\ Free(HostPart(v), {"%63dn"}) /\ Free(v, {"TAB", "\\", "#"})
           /\ Upto(After(v), {"?", "#"}) = PathOf(v)
<1>1. /\ v # << >> /\ is_printable_ascii(v) /\ NamesHttps(v) /\ ~Holds(v, {"\\", "#"})
      /\ authority_is_plain(Upto(Tail(v), {"/", "?"}))
  BY DEF MayBeSentTo
<1>2. v[1] \in DOMAIN SCHEMES
  BY <1>1 DEF NamesHttps, SCHEMES
<1>3. Free(v, {"TAB", "\\", "#"})
  BY <1>1 DEF is_printable_ascii, Holds, Free
<1>4. Tail(v) \in Seq(Tokens) /\ Free(Tail(v), {"TAB", "\\", "#"})
  BY <1>1, <1>3, HeadTailProperties, FreeOfTail
<1>5. Upto(Tail(v), {"/", "?"}) = Authority(v) /\ From(Tail(v), {"/", "?"}) = After(v)
  <2>1. \A i \in DOMAIN Tail(v) : Tail(v)[i] \in {"/", "?"} <=> Tail(v)[i] \in Stops
    BY <1>4 DEF Free, Stops
  <2>2. QED
    BY <2>1, SameStops DEF Authority, After
<1>6. After(v) \in Seq(Tokens) /\ Free(After(v), {"TAB", "\\", "#"}) /\ Authority(v) \in Seq(Tokens)
  BY <1>4, Cut, CutIsFree DEF After, Authority
<1>7. Upto(After(v), {"?", "#"}) = PathOf(v)
  <2>1. \A i \in DOMAIN After(v) : After(v)[i] \in {"?", "#"} <=> After(v)[i] \in {"?"}
    BY <1>6 DEF Free
  <2>2. Upto(After(v), {"?", "#"}) = Upto(After(v), {"?"})
    BY <2>1, SameStops
  <2>3. QED
    BY <1>5, <2>2 DEF PathOf
<1> DEFINE A == Authority(v)
           h == HostPart(v)
           p == PortPart(v)
<1>8. /\ h \in Seq(Tokens) /\ p \in Seq(Tokens) /\ A = h \o p
      /\ Free(h, {":"}) /\ Begins(p, {":"})
  BY <1>6, Cut DEF HostPart, PortPart
<1>9. /\ h # << >> /\ \A i \in DOMAIN h : h[i] \in HOST_TOKENS
      /\ p # << >> => IsPort(Tail(p))
  BY <1>1, <1>5 DEF authority_is_plain, HostPart, PortPart
<1> HIDE DEF A, h, p
<1>10. Free(h, {"%63dn"}) /\ Free(h, {"@"})
  BY <1>9 DEF Free, HOST_TOKENS, NUMBERS
<1>11. Free(p, {"@"})
  <2>1. CASE p = << >>
    BY <2>1 DEF Free
  <2>2. CASE p # << >>
    <3>1. p[1] = ":" /\ Len(Tail(p)) = 1 /\ Tail(p)[1] \in DOMAIN NUMBERS
      BY <1>8, <1>9, <2>2 DEF Begins, IsPort
    <3>2. Len(p) \in Nat /\ Len(Tail(p)) = Len(p) - 1
          /\ \A i \in 1 .. Len(Tail(p)) : Tail(p)[i] = p[i + 1]
      BY <1>8, <2>2, HeadTailProperties, LenProperties
    <3>3. Len(p) = 2 /\ DOMAIN p = 1 .. 2
      BY <1>8, <3>1, <3>2, LenProperties
    <3>4. p[2] \in DOMAIN NUMBERS
      BY <3>1, <3>2
    <3>5. p[1] # "@" /\ p[2] # "@"
      BY <3>1, <3>4 DEF NUMBERS
    <3>6. QED
      BY <3>3, <3>5 DEF Free
  <2>3. QED
    BY <2>1, <2>2
<1>12. A # << >> /\ Free(A, {"@"})
  BY <1>8, <1>9, <1>10, <1>11, ConcatEqualIffEmpty, FreeOfBoth
<1>13. Free(v, {"TAB", "\\"})
  BY <1>3 DEF Free
<1>14. Plain(v)
  BY <1>1, <1>2, <1>12, <1>13 DEF Plain, A
<1>15. QED
  BY <1>3, <1>7, <1>10, <1>14 DEF h

\* The query of such a value, encoded, still begins with its question mark.
LEMMA QueryIsKept ==
    ASSUME NEW q \in Seq(Tokens), Begins(q, {"?"}), Free(q, {"TAB", "\\"})
    PROVE  /\ Queries(q) \in Seq(Tokens) /\ Begins(Queries(q), {"?"})
           /\ Free(Queries(q), {"TAB", "\\"})
<1>1. /\ Queries(q) \in Seq(Tokens) /\ Len(Queries(q)) = Len(q)
      /\ \A i \in 1 .. Len(q) : Queries(q)[i] = QueryToken(q[i])
  BY QueriesAre
<1>2. DOMAIN q = 1 .. Len(q) /\ DOMAIN Queries(q) = 1 .. Len(q) /\ Len(q) \in Nat
  BY <1>1, LenProperties
<1>3. Free(Queries(q), {"TAB", "\\"})
  BY <1>1, <1>2 DEF Free, QueryToken
<1>4. Begins(Queries(q), {"?"})
  <2>1. CASE q = << >>
    <3>1. Len(Queries(q)) = 0
      BY <1>1, <2>1
    <3>2. QED
      BY <1>1, <3>1, EmptySeq DEF Begins
  <2>2. CASE q # << >>
    <3>1. q[1] = "?" /\ 1 \in 1 .. Len(q)
      BY <1>2, <2>2, EmptySeq DEF Begins
    <3>2. Queries(q)[1] = "?"
      BY <1>1, <3>1 DEF QueryToken
    <3>3. QED
      BY <3>2 DEF Begins
  <2>3. QED
    BY <2>1, <2>2
<1>5. QED
  BY <1>1, <1>3, <1>4

\* Where a value may be sent, every reader sees the value's host, port and path.
LEMMA OriginalIsRead ==
    ASSUME NEW list, NEW v \in Seq(Tokens), MayBeSentTo(list, v)
    PROVE  LET text == Serialised(Parse(v))
           IN  /\ text # NoTarget
               /\ Parse(text).host = RfcHost(v) /\ Parse(text).port = RfcPort(v)
               /\ Parse(text).path = PathOf(v)
               /\ RfcHost(text) = RfcHost(v) /\ RfcPort(text) = RfcPort(v)
               /\ RfcPath(text) = PathOf(v)
               /\ Parse(v).host = RfcHost(v) /\ Parse(v).port = RfcPort(v)
               /\ PathOf(v) \in Seq(Tokens) /\ Free(PathOf(v), Stops \ {"/"})
<1> DEFINE u == Parse(v)
           path == PathOf(v)
           q == QueryOf(v)
           rest == path \o Queries(q)
           text == Serialised(u)
<1>1. u # NoUrl /\ u.fragment = << >> /\ u.path = path /\ path_is_safe(path)
  BY DEF MayBeSentTo, PathOf
<1>2. /\ Plain(v) /\ Free(HostPart(v), {"%63dn"}) /\ Free(v, {"TAB", "\\", "#"})
      /\ Upto(After(v), {"?", "#"}) = path
  BY ValueIsPlain
<1>3. After(v) \in Seq(Tokens) /\ Free(After(v), {"TAB", "\\", "#"})
  <2>1. Tail(v) \in Seq(Tokens) /\ Free(Tail(v), {"TAB", "\\", "#"})
    BY <1>2, TailOfPlain, FreeOfTail DEF Plain
  <2>2. QED
    BY <2>1, Cut, CutIsFree DEF After
<1>4. u = Reading(v)
  BY <1>1, <1>2, SomeReading
<1>5. u.host = RfcHost(v) /\ u.port = RfcPort(v)
  BY <1>1, <1>2, ReadersAgree
<1>6. u.path = Resolved(Paths(path)) /\ u.query = Queries(q)
  BY <1>2, <1>4 DEF Reading, QueryOf
<1>7. path \in Seq(Tokens) /\ Free(path, {"?", "#"}) /\ Free(path, {"TAB", "\\", "#"})
  BY <1>2, <1>3, Cut, CutIsFree
<1>8. q \in Seq(Tokens) /\ Begins(q, {"?"}) /\ Free(q, {"TAB", "\\", "#"})
  <2>1. /\ Upto(After(v), {"#"}) \in Seq(Tokens)
        /\ Free(Upto(After(v), {"#"}), {"TAB", "\\", "#"})
    BY <1>3, Cut, CutIsFree
  <2>2. QED
    BY <2>1, Cut, CutIsFree DEF QueryOf
<1>9. Queries(q) \in Seq(Tokens) /\ Begins(Queries(q), {"?"}) /\ Free(Queries(q), {"TAB", "\\"})
  <2>1. Free(q, {"TAB", "\\"})
    BY <1>8 DEF Free
  <2> HIDE DEF q
  <2>2. QED
    BY <1>8, <2>1, QueryIsKept
<1>10. path # << >> /\ path[1] = "/"
  BY <1>1 DEF path_is_safe
<1> HIDE DEF path, q
<1>11. /\ rest \in Seq(Tokens) /\ Free(rest, {"TAB", "\\"})
       /\ Upto(rest, {"?", "#"}) = path
  <2>1. Free(path, {"TAB", "\\"}) /\ Begins(Queries(q), {"?", "#"})
    BY <1>7, <1>9 DEF Free, Begins
  <2>2. QED
    BY <1>7, <1>9, <2>1, ConcatProperties, FreeOfBoth, CutAt
<1>12. Begins(rest, Stops)
  <2>1. rest[1] = path[1]
    <3>1. Len(path) \in Nat \ {0}
      BY <1>7, <1>10, EmptySeq
    <3>2. QED
      BY <1>7, <1>9, <3>1
  <2>2. QED
    BY <1>10, <2>1 DEF Begins, Stops
<1>13. Clean(u)
  BY <1>1, ParsedIsClean
<1>14. << >> \in Seq(Tokens) /\ Begins(<< >>, Stops) /\ Free(<< >>, {"TAB", "\\"})
  BY EmptySeq DEF Begins, Free
<1> HIDE DEF u
<1>15. Origin(u) \in Seq(Tokens)
  BY <1>13, <1>14, OriginIsRead
<1>16. text = Origin(u) \o rest
  <2>1. text = ((Origin(u) \o path) \o Queries(q)) \o << >>
    <3>1. u.path = path /\ u.query = Queries(q) /\ u.fragment = << >>
      BY <1>1, <1>6
    <3>2. text = ((Origin(u) \o u.path) \o u.query) \o u.fragment
      BY DEF Serialised
    <3> HIDE DEF text, rest
    <3>3. QED
      BY <3>1, <3>2, Zenon
  <2>2. (Origin(u) \o path) \o Queries(q) = Origin(u) \o rest
    <3> DEFINE o == Origin(u)
               r == Queries(q)
    <3>1. o \in Seq(Tokens) /\ r \in Seq(Tokens)
      BY <1>9, <1>15
    <3> HIDE DEF o, r
    <3>2. (o \o path) \o r = o \o (path \o r)
      BY <1>7, <3>1, ConcatAssociative, SMT
    <3>3. QED
      BY <3>2 DEF o, r
  <2> HIDE DEF rest
  <2>3. Origin(u) \o rest \in Seq(Tokens)
    BY <1>11, <1>15, ConcatProperties
  <2>4. QED
    BY <2>1, <2>2, <2>3, ConcatEmptySeq
<1> HIDE DEF rest, text
<1>17. /\ Parse(text) # NoUrl
       /\ Parse(text).host = u.host /\ Parse(text).port = u.port
       /\ Parse(text).path = Resolved(Paths(Upto(rest, {"?", "#"})))
       /\ RfcHost(text) = u.host /\ RfcPort(text) = u.port
       /\ RfcPath(text) = Upto(rest, {"?", "#"})
  BY <1>11, <1>12, <1>13, <1>16, OriginReadings
<1>18. Parse(text).path = path /\ RfcPath(text) = path
  BY <1>1, <1>6, <1>11, <1>17
<1>19. text # NoTarget
  <2>1. Plain(Origin(u) \o rest)
    BY <1>11, <1>12, <1>13, OriginIsRead
  <2>2. QED
    BY <1>16, <2>1 DEF Plain, NoTarget
<1>20. Free(path, Stops \ {"/"})
  BY <1>7 DEF Free, Stops
<1>21. QED
  BY <1>5, <1>7, <1>17, <1>18, <1>19, <1>20 DEF path, u, text

-----------------------------------------------------------------------------
(* The inductive invariant: what was accepted at startup is what requests   *)
(* are answered from, and an answer is the outcome of its rule              *)

UrlLanding(text) ==
    [host |-> Parse(text).host, port |-> Parse(text).port, path |-> Parse(text).path]
RfcLanding(text) == [host |-> RfcHost(text), port |-> RfcPort(text), path |-> RfcPath(text)]

Outcome(location) ==
    [status |-> IF location # NoTarget THEN 302 ELSE 404, location |-> location]

SetUp ==
    /\ base \in Seq(Tokens) /\ (base # << >> => Last(base) # "/")
    /\ entries \in SUBSET Seq(Tokens)

Served ==
    phase \in {"serving", "answered", "followed"} =>
        /\ Usable
        /\ mode = "redirect" => allowed = {parse_prefix_entry(e) : e \in entries}

Answered ==
    phase \in {"answered", "followed"} =>
        /\ target \in Targets
        /\ referer => answer = Outcome(internal_location(base, target))
        /\ ~referer /\ answer.status = 302 =>
             /\ mode = "redirect"
             /\ answer.location = original_location(allowed, target)
             /\ answer.location # NoTarget

Followed ==
    phase = "followed" =>
        /\ answer.status = 302
        /\ landing \in {UrlLanding(answer.location), RfcLanding(answer.location)}

MediaInv == SetUp /\ Served /\ Answered /\ Followed

LEMMA StringsAreTokens == Seq(STRING) \subseteq Seq(Tokens)
<1>1. STRING \subseteq Tokens
  BY DEF Tokens
<1>2. SUFFICES ASSUME NEW s \in Seq(STRING) PROVE s \in Seq(Tokens)
  OBVIOUS
<1>3. QED
  BY <1>1, SeqMonotonic

LEMMA InitIsSetUp == Init => MediaInv
<1>1. SUFFICES ASSUME Init PROVE MediaInv
  OBVIOUS
<1>2. phase = "starting"
  BY <1>1 DEF Init
<1>3. PICK s \in Settings : base = TrimSlashes(s.base) /\ entries = s.entries
  BY <1>1 DEF Init
<1>4. s.base \in Seq(STRING) /\ s.entries \in SUBSET Seq(STRING)
  BY SettingsAssumption
<1>5. s.base \in Seq(Tokens) /\ s.entries \in SUBSET Seq(Tokens)
  BY <1>4, StringsAreTokens
<1>6. base \in Seq(Tokens) /\ (base # << >> => Last(base) # "/")
  BY <1>3, <1>5, NoSlashesLast
<1>7. SetUp
  BY <1>3, <1>5, <1>6 DEF SetUp
<1>8. QED
  BY <1>2, <1>7 DEF MediaInv, Served, Answered, Followed

LEMMA SentOnIsOutcome ==
    ASSUME NEW location, SentOn(location)
    PROVE  /\ answer' = Outcome(location) /\ phase' = "answered"
           /\ UNCHANGED <<mode, base, entries, allowed, landing>>
<1>1. CASE location # NoTarget
  BY <1>1 DEF SentOn, Settled, Outcome
<1>2. CASE location = NoTarget
  BY <1>2 DEF SentOn, Settled, Outcome
<1>3. QED
  BY <1>1, <1>2

LEMMA MediaInvIsKept == MediaInv /\ [Next]_vars => MediaInv'
<1>1. SUFFICES ASSUME MediaInv, [Next]_vars PROVE MediaInv'
  OBVIOUS
<1> USE <1>1
<1>2. ASSUME from_env PROVE MediaInv'
  <2>1. /\ Usable /\ phase' = "serving"
        /\ mode = "redirect" => allowed' = {parse_prefix_entry(e) : e \in entries}
        /\ UNCHANGED <<mode, base, entries>>
    BY <1>2 DEF from_env
  <2>2. Usable'
    BY <2>1 DEF Usable, validate_internal_base_url, IsCanonical
  <2>3. QED
    BY <2>1, <2>2 DEF MediaInv, SetUp, Served, Answered, Followed
<1>3. ASSUME RefuseToStart PROVE MediaInv'
  <2>1. phase' = "stopped" /\ UNCHANGED <<mode, base, entries>>
    BY <1>3 DEF RefuseToStart
  <2>2. QED
    BY <2>1 DEF MediaInv, SetUp, Served, Answered, Followed
<1>4. ASSUME phase = "serving", phase' = "answered", UNCHANGED <<mode, base, entries, allowed>>
      PROVE  SetUp' /\ Served' /\ Followed'
  <2>1. Usable'
    BY <1>4 DEF MediaInv, Served, Usable, validate_internal_base_url, IsCanonical
  <2>2. QED
    BY <1>4, <2>1 DEF MediaInv, SetUp, Served, Followed
<1>5. ASSUME RedirectInternally PROVE MediaInv'
  <2>1. PICK t \in Targets : target' = t /\ SentOn(internal_location(base, t))
    BY <1>5 DEF RedirectInternally
  <2>2. phase = "serving" /\ referer' = TRUE
    BY <1>5 DEF RedirectInternally
  <2>3. /\ answer' = Outcome(internal_location(base, t)) /\ phase' = "answered"
        /\ UNCHANGED <<mode, base, entries, allowed, landing>>
    BY <2>1, SentOnIsOutcome
  <2>4. Answered'
    BY <2>1, <2>2, <2>3 DEF Answered
  <2>5. QED
    BY <1>4, <2>2, <2>3, <2>4 DEF MediaInv
<1>6. ASSUME Relay PROVE MediaInv'
  <2>1. PICK t \in Targets : target' = t /\ Settled(200, NoTarget)
    BY <1>6 DEF Relay
  <2>2. phase = "serving" /\ referer' = FALSE
    BY <1>6 DEF Relay
  <2>3. /\ answer'.status = 200 /\ phase' = "answered"
        /\ UNCHANGED <<mode, base, entries, allowed, landing>>
    BY <2>1 DEF Settled
  <2>4. Answered'
    BY <2>1, <2>2, <2>3 DEF Answered
  <2>5. QED
    BY <1>4, <2>2, <2>3, <2>4 DEF MediaInv
<1>7. ASSUME RefuseFile PROVE MediaInv'
  <2>1. PICK t \in Targets : target' = t /\ Settled(404, NoTarget)
    BY <1>7 DEF RefuseFile
  <2>2. phase = "serving" /\ referer' = FALSE
    BY <1>7 DEF RefuseFile
  <2>3. /\ answer'.status = 404 /\ phase' = "answered"
        /\ UNCHANGED <<mode, base, entries, allowed, landing>>
    BY <2>1 DEF Settled
  <2>4. Answered'
    BY <2>1, <2>2, <2>3 DEF Answered
  <2>5. QED
    BY <1>4, <2>2, <2>3, <2>4 DEF MediaInv
<1>8. ASSUME RedirectToOriginal PROVE MediaInv'
  <2>1. PICK t \in Targets : target' = t /\ SentOn(original_location(allowed, t))
    BY <1>8 DEF RedirectToOriginal
  <2>2. phase = "serving" /\ mode = "redirect" /\ referer' = FALSE
    BY <1>8 DEF RedirectToOriginal
  <2>3. /\ answer' = Outcome(original_location(allowed, t)) /\ phase' = "answered"
        /\ UNCHANGED <<mode, base, entries, allowed, landing>>
    BY <2>1, SentOnIsOutcome
  <2>4. /\ answer'.location = original_location(allowed, t)
        /\ answer'.status = 302 => answer'.location # NoTarget
    BY <2>3 DEF Outcome
  <2>5. Answered'
    BY <2>1, <2>2, <2>3, <2>4 DEF Answered
  <2>6. QED
    BY <1>4, <2>2, <2>3, <2>5 DEF MediaInv
<1>9. ASSUME Follow PROVE MediaInv'
  <2>1. /\ phase = "answered" /\ answer.status = 302 /\ phase' = "followed"
        /\ UNCHANGED <<mode, base, entries, allowed, referer, target, answer>>
    BY <1>9 DEF Follow
  <2>2. landing' \in {UrlLanding(answer.location), RfcLanding(answer.location)}
    BY <1>9 DEF Follow, UrlLanding, RfcLanding
  <2>3. Usable'
    BY <2>1 DEF MediaInv, Served, Usable, validate_internal_base_url, IsCanonical
  <2>4. SetUp' /\ Served'
    BY <2>1, <2>3 DEF MediaInv, SetUp, Served
  <2>5. Answered'
    BY <2>1 DEF MediaInv, Answered
  <2>6. Followed'
    BY <2>1, <2>2 DEF Followed
  <2>7. QED
    BY <2>4, <2>5, <2>6 DEF MediaInv
<1>10. ASSUME UNCHANGED vars PROVE MediaInv'
  <2>1. UNCHANGED <<mode, base, entries, allowed, phase, referer, target, answer, landing>>
    BY <1>10 DEF vars
  <2>2. Usable' = Usable
    BY <2>1 DEF Usable, validate_internal_base_url, IsCanonical
  <2>3. SetUp' /\ Served'
    BY <2>1, <2>2 DEF MediaInv, SetUp, Served
  <2>4. Answered' /\ Followed'
    BY <2>1 DEF MediaInv, Answered, Followed
  <2>5. QED
    BY <2>3, <2>4 DEF MediaInv
<1>11. QED
  BY <1>2, <1>3, <1>5, <1>6, <1>7, <1>8, <1>9, <1>10 DEF Next

\* The invariant holds of every reachable state: a request is answered from
\* the settings that startup accepted.
THEOREM MediaInvHolds == Spec => []MediaInv
<1>1. Init => MediaInv
  BY InitIsSetUp
<1>2. MediaInv /\ [Next]_vars => MediaInv'
  BY MediaInvIsKept
<1>3. QED
  BY <1>1, <1>2, PTL DEF Spec

-----------------------------------------------------------------------------
(* No reader is misled                                                      *)

\* What a caller from outside was sent to, once it has gone there.
LEMMA OutsiderIsSent ==
    ASSUME MediaInv, phase = "followed", ~referer
    PROVE  LET v == target.params[1]
           IN  /\ v \in Seq(Tokens) /\ MayBeSentTo(allowed, v)
               /\ answer.location = Serialised(Parse(v))
               /\ landing \in {UrlLanding(answer.location), RfcLanding(answer.location)}
               /\ mode = "redirect" /\ Usable
               /\ allowed = {parse_prefix_entry(e) : e \in entries}
               /\ entries \in SUBSET Seq(Tokens)
<1>1. /\ answer.status = 302
      /\ landing \in {UrlLanding(answer.location), RfcLanding(answer.location)}
  BY DEF MediaInv, Followed
<1>2. /\ target \in Targets /\ mode = "redirect"
      /\ answer.location = original_location(allowed, target)
      /\ answer.location # NoTarget
  BY <1>1 DEF MediaInv, Answered
<1>3. /\ Len(target.params) = 1 /\ MayBeSentTo(allowed, target.params[1])
      /\ answer.location = Serialised(Parse(target.params[1]))
  BY <1>2 DEF original_location
<1>4. target.params[1] \in Seq(Tokens)
  <2>1. target.params \in Seq(Seq(STRING))
    BY <1>2, TargetsAssumption
  <2>2. target.params[1] \in Seq(STRING)
    BY <1>3, <2>1, ElementOfSeq
  <2>3. QED
    BY <2>2, StringsAreTokens
<1>5. QED
  BY <1>1, <1>2, <1>3, <1>4 DEF MediaInv, SetUp, Served

\* The host and the port such a caller asks are those that its url parameter
\* names to a reader of RFC 3986, whichever way it reads the Location.
THEOREM NoReaderIsMisledHolds == Spec => []NoReaderIsMisled
<1>1. MediaInv => NoReaderIsMisled
  <2>1. SUFFICES ASSUME MediaInv, phase = "followed", ~referer
                 PROVE  /\ landing.host = RfcHost(target.params[1])
                        /\ landing.port = RfcPort(target.params[1])
    BY DEF NoReaderIsMisled
  <2> DEFINE v == target.params[1]
             text == Serialised(Parse(v))
  <2>2. /\ v \in Seq(Tokens) /\ MayBeSentTo(allowed, v)
        /\ landing \in {UrlLanding(text), RfcLanding(text)}
    BY <2>1, OutsiderIsSent
  <2> HIDE DEF v, text
  <2>3. /\ Parse(text).host = RfcHost(v) /\ Parse(text).port = RfcPort(v)
        /\ RfcHost(text) = RfcHost(v) /\ RfcPort(text) = RfcPort(v)
    BY <2>2, OriginalIsRead DEF text
  <2>4. landing.host = RfcHost(v) /\ landing.port = RfcPort(v)
    BY <2>2, <2>3 DEF UrlLanding, RfcLanding
  <2>5. QED
    BY <2>4 DEF v
<1>2. QED
  BY <1>1, MediaInvHolds, PTL

-----------------------------------------------------------------------------
(* An entry of MEDIA_ALLOWED_PREFIXES and what lies under it                *)

LEMMA TailOfBoth ==
    ASSUME NEW T, NEW a \in Seq(T), NEW b \in Seq(T), a # << >>
    PROVE  Tail(a \o b) = Tail(a) \o b
<1>1. Len(a) \in Nat \ {0} /\ a[1] \in T /\ Tail(a) \in Seq(T)
  BY EmptySeq, HeadTailProperties, ElementOfSeq
<1> DEFINE c == a[1]
           t == Tail(a)
<1>2. c \in T /\ t \in Seq(T)
  BY <1>1
<1>3. a = <<c>> \o t
  <2>1. SubSeq(a, 1, Len(a)) = <<a[1]>> \o SubSeq(a, 2, Len(a))
    <3>1. 1 \in 1 .. Len(a) /\ Len(a) \in 1 .. Len(a) /\ 1 + 1 = 2
      BY <1>1
    <3>2. QED
      BY <3>1, SubSeqRecursiveFirst
  <2>2. SubSeq(a, 1, Len(a)) = a /\ Tail(a) = SubSeq(a, 2, Len(a))
    BY SubSeqFull, TailIsSubSeq
  <2>3. QED
    BY <2>1, <2>2
<1> HIDE DEF c, t
<1>4. <<c>> \in Seq(T)
  BY <1>2
<1>5. (<<c>> \o t) \o b = <<c>> \o (t \o b)
  BY <1>2, <1>4, ConcatAssociative, SMT
<1> DEFINE tb == t \o b
<1>6. tb \in Seq(T)
  BY <1>2, ConcatProperties
<1> HIDE DEF tb
<1>7. Tail(<<c>> \o tb) = tb
  BY <1>2, <1>6, OneAndRest
<1>8. a \o b = <<c>> \o tb
  BY <1>3, <1>5 DEF tb
<1>9. QED
  BY <1>7, <1>8 DEF t, tb

LEMMA PrefixAndRest ==
    ASSUME NEW T, NEW a \in Seq(T), NEW s \in Seq(T), IsPrefix(a, s)
    PROVE  \E r \in Seq(T) : s = a \o r
<1> DEFINE n == Len(a)
           r == SubSeq(s, n + 1, Len(s))
<1>1. n \in Nat /\ Len(s) \in Nat /\ n <= Len(s)
  BY LenProperties DEF IsPrefix
<1>2. SubSeq(s, 1, n) = a
  BY SubSeqFull DEF IsPrefix
<1>3. SubSeq(s, 1, n) \o SubSeq(s, n + 1, Len(s)) = SubSeq(s, 1, Len(s))
  <2>1. 1 \in 1 .. Len(s) + 1 /\ n \in 1 - 1 .. Len(s) /\ Len(s) \in n .. Len(s)
    BY <1>1
  <2> HIDE DEF n
  <2>2. QED
    BY <2>1, ConcatAdjacentSubSeq
<1>4. r \in Seq(T)
  <2>1. \A i \in n + 1 .. Len(s) : s[i] \in T
    BY <1>1, ElementOfSeq
  <2>2. n + 1 \in Int /\ Len(s) \in Int
    BY <1>1
  <2> HIDE DEF n
  <2>3. QED
    BY <2>1, <2>2, SubSeqProperties
<1>5. s = a \o r
  BY <1>2, <1>3, SubSeqFull
<1>6. QED
  BY <1>4, <1>5

LEMMA PrefixOfBoth ==
    ASSUME NEW T, NEW a \in Seq(T), NEW b \in Seq(T)
    PROVE  IsPrefix(a, a \o b)
<1> DEFINE s == a \o b
           c == SubSeq(s, 1, Len(a))
<1>1. /\ s \in Seq(T) /\ Len(s) = Len(a) + Len(b)
      /\ \A i \in 1 .. Len(a) + Len(b) :
            s[i] = IF i <= Len(a) THEN a[i] ELSE b[i - Len(a)]
  BY ConcatProperties
<1>2. Len(a) \in Nat /\ Len(b) \in Nat
  BY LenProperties
<1> HIDE DEF s
<1>3. c \in Seq(T) /\ Len(c) = Len(a) /\ \A i \in 1 .. Len(a) : c[i] = s[i]
  BY <1>1, <1>2
<1>4. \A i \in 1 .. Len(a) : c[i] = a[i]
  <2>1. SUFFICES ASSUME NEW i \in 1 .. Len(a) PROVE c[i] = a[i]
    OBVIOUS
  <2>2. i \in 1 .. Len(a) + Len(b) /\ i <= Len(a)
    BY <1>2
  <2>3. QED
    BY <1>1, <1>3, <2>2
<1> HIDE DEF c
<1>5. c = a
  BY <1>3, <1>4, SeqEqual
<1>6. Len(a) <= Len(s)
  BY <1>1, <1>2
<1>7. QED
  BY <1>5, <1>6, SubSeqFull DEF IsPrefix, c, s

Segment == Piece(Tokens, "/")

LEMMA SegmentIs == << >> \in Segment /\ Segment = Seq(Tokens \ {"/"})
  BY EmptySeq DEF Segment, Piece

LEMMA SplitOfSlash ==
    ASSUME NEW r \in Seq(Tokens), NEW t \in Seq(Tokens)
    PROVE  Split(Append(r, "/") \o t, "/") = Split(r, "/") \o Split(t, "/")
<1>1. "/" \in Tokens
  BY DEF Tokens
<1>2. QED
  BY <1>1, SplitOfTwo

\* The segments of a path that begins with a slash are all but the first of the
\* texts between its slashes, and that one is empty.
LEMMA SegmentsOf ==
    ASSUME NEW p \in Seq(Tokens), p # << >>, p[1] = "/"
    PROVE  /\ Segments(p) \in Seq(Segment)
           /\ Split(p, "/") = << << >> >> \o Segments(p)
           /\ Segments(p) = Split(Tail(p), "/")
<1> DEFINE t == Tail(p)
           S == Split(t, "/")
           none == << >>
<1>1. "/" \in Tokens /\ none \in Seq(Tokens) /\ t \in Seq(Tokens)
  BY EmptySeq, HeadTailProperties DEF Tokens
<1>2. p = Append(none, "/") \o t
  <2>1. Append(none, "/") = <<"/">>
    OBVIOUS
  <2>2. Len(p) \in Nat \ {0}
    BY EmptySeq
  <2>3. SubSeq(p, 1, Len(p)) = <<p[1]>> \o SubSeq(p, 2, Len(p))
    <3>1. 1 \in 1 .. Len(p) /\ Len(p) \in 1 .. Len(p) /\ 1 + 1 = 2
      BY <2>2
    <3>2. QED
      BY <3>1, SubSeqRecursiveFirst
  <2>4. SubSeq(p, 1, Len(p)) = p /\ t = SubSeq(p, 2, Len(p))
    BY SubSeqFull, TailIsSubSeq
  <2>5. QED
    BY <2>1, <2>3, <2>4
<1> HIDE DEF t, none
<1>3. Split(p, "/") = Split(none, "/") \o S
  BY <1>1, <1>2, SplitOfSlash
<1>4. Split(none, "/") = <<none>>
  BY SplitOfNothing DEF none
<1>5. S \in Seq(Segment) /\ none \in Segment
  <2>1. S \in Seq(Segment)
    BY <1>1, PiecesOf DEF Segment
  <2>2. QED
    BY <2>1, SegmentIs DEF none
<1> HIDE DEF S
<1>6. Tail(<<none>> \o S) = S
  BY <1>5, OneAndRest
<1>7. Segments(p) = S
  BY <1>3, <1>4, <1>6 DEF Segments
<1>8. Split(p, "/") = <<none>> \o S
  BY <1>3, <1>4
<1>9. QED
  BY <1>5, <1>7, <1>8 DEF none, S, t

\* The segments an operator means by a path are those before its last slash.
LEMMA MeantSegments ==
    ASSUME NEW p \in Seq(Tokens),
           WithoutSlash(p) = << >> \/ path_is_safe(WithoutSlash(p))
    PROVE  Without(Split(p, "/"), << >>) = Tail(Split(WithoutSlash(p), "/"))
<1> DEFINE w == WithoutSlash(p)
           none == << >>
           W == Split(w, "/")
           P == Split(p, "/")
<1>1. none \in Segment /\ none \in Seq(Tokens)
  BY SegmentIs, EmptySeq
<1>2. w \in Seq(Tokens) /\ (p = w \/ p = Append(w, "/"))
  <2>1. CASE p # << >> /\ Last(p) = "/"
    <3>1. w = Front(p)
      BY <2>1 DEF WithoutSlash
    <3>2. Front(p) \in Seq(Tokens) /\ p = Append(Front(p), Last(p))
      BY <2>1, LastAndFront
    <3>3. QED
      BY <2>1, <3>1, <3>2
  <2>2. CASE ~(p # << >> /\ Last(p) = "/")
    BY <2>2 DEF WithoutSlash
  <2>3. QED
    BY <2>1, <2>2
<1>3. w = none \/ path_is_safe(w)
  OBVIOUS
<1> HIDE DEF w, none
<1>4. Split(none, "/") = <<none>>
  BY SplitOfNothing DEF none
<1>5. W \in Seq(Segment) /\ W # << >>
  BY <1>2, PiecesOf DEF Segment
<1>6. Without(P, none) = Without(W, none)
  <2>1. CASE p = w
    BY <2>1
  <2>2. CASE p = Append(w, "/")
    <3>1. Append(w, "/") \in Seq(Tokens)
      BY <2>2
    <3>2. Append(w, "/") \o none = Append(w, "/")
      BY <3>1, ConcatEmptySeq DEF none
    <3>3. P = W \o <<none>>
      BY <1>1, <1>2, <1>4, <2>2, <3>2, SplitOfSlash
    <3> HIDE DEF W, P
    <3>4. P = Append(W, none)
      BY <1>1, <1>5, <3>3, AppendIsConcat
    <3>5. Without(Append(W, none), none) = IF none = none THEN Without(W, none)
                                           ELSE Append(Without(W, none), none)
      BY <1>1, <1>5, WithoutOfMore
    <3>6. QED
      BY <3>4, <3>5
  <2>3. QED
    BY <1>2, <2>1, <2>2
<1>7. Without(W, none) = Tail(W)
  <2>1. CASE w = none
    <3>1. W = <<none>>
      BY <1>4, <2>1
    <3> HIDE DEF W
    <3>2. W = <<none>> \o << >> /\ << >> \in Seq(Segment)
      <4>1. <<none>> \in Seq(Segment) /\ << >> \in Seq(Segment)
        BY <1>1, EmptySeq
      <4>2. <<none>> \o << >> = <<none>>
        BY <4>1, ConcatEmptySeq
      <4>3. QED
        BY <3>1, <4>1, <4>2
    <3> DEFINE e == << >>
    <3>3. W = <<none>> \o e /\ e \in Seq(Segment)
      BY <3>2
    <3>4. Without(e, none) = e
      BY WithoutOfNothing
    <3> HIDE DEF e
    <3>5. Without(<<none>> \o e, none) = Without(e, none)
      BY <1>1, <3>3, WithoutFirst
    <3>6. Tail(<<none>> \o e) = e
      BY <1>1, <3>3, OneAndRest
    <3>7. QED
      BY <3>3, <3>4, <3>5, <3>6
  <2>2. CASE path_is_safe(w)
    <3> DEFINE S == Segments(w)
    <3>1. w # << >> /\ w[1] = "/" /\ \A i \in DOMAIN S : segment_is_safe(S[i])
      BY <2>2 DEF path_is_safe
    <3>2. S \in Seq(Segment) /\ W = <<none>> \o S
      BY <1>2, <3>1, SegmentsOf DEF none
    <3>3. Free(S, {none})
      BY <3>1 DEF Free, segment_is_safe, none
    <3> HIDE DEF S, W
    <3>4. S \in Seq(Segment \ {none}) /\ none \notin Segment \ {none}
      BY <3>2, <3>3, FreeIsText
    <3>5. Without(S, none) = S
      BY <3>4, NothingToDrop
    <3>6. Without(<<none>> \o S, none) = Without(S, none)
      BY <1>1, <3>2, WithoutFirst
    <3>7. Tail(<<none>> \o S) = S
      BY <1>1, <3>2, OneAndRest
    <3>8. QED
      BY <3>2, <3>5, <3>6, <3>7
  <2>3. QED
    BY <1>3, <2>1, <2>2
<1>8. QED
  BY <1>6, <1>7 DEF w, none, W, P

\* An entry that startup accepts is read alike by both readers.
LEMMA EntryIsRead ==
    ASSUME NEW e \in Seq(Tokens), IsPrefixEntry(e)
    PROVE  LET p == RfcPath(e)
           IN  /\ p \in Seq(Tokens)
               /\ WithoutSlash(p) = << >> \/ path_is_safe(WithoutSlash(p))
               /\ parse_prefix_entry(e).host = RfcHost(e)
               /\ parse_prefix_entry(e).port = RfcPort(e)
               /\ parse_prefix_entry(e).path = PrefixPath(WithoutSlash(p))
<1>1. /\ e # << >> /\ e[1] \in {"https://", "HTTPS://"}
      /\ is_printable_ascii(e) /\ ~Holds(e, {"\\"})
      /\ ~Holds(Authority(e), {"@"}) /\ ~Holds(After(e), {"?", "#"})
      /\ Authority(e) # << >> /\ ~Holds(Authority(e), {"%63dn"})
      /\ Parse(e) # NoUrl
      /\ WithoutSlash(After(e)) = << >> \/ path_is_safe(WithoutSlash(After(e)))
  BY DEF IsPrefixEntry, NamesHttps, Authority, After, Stops
<1>2. e[1] \in DOMAIN SCHEMES
  BY <1>1 DEF SCHEMES
<1>3. Free(e, {"TAB", "\\"}) /\ Free(Authority(e), {"@"})
  BY <1>1 DEF is_printable_ascii, Holds, Free
<1>4. Plain(e)
  BY <1>1, <1>2, <1>3 DEF Plain
<1>5. Authority(e) \in Seq(Tokens) /\ After(e) \in Seq(Tokens)
  BY <1>4, TailOfPlain
<1>6. Free(HostPart(e), {"%63dn"})
  <2>1. Free(Authority(e), {"%63dn"})
    BY <1>1 DEF Holds, Free
  <2>2. QED
    BY <1>5, <2>1, CutIsFree DEF HostPart
<1>7. IsGood(e)
  BY <1>1, <1>4, SomeReading
<1>8. Parse(e).host = RfcHost(e) /\ Parse(e).port = RfcPort(e)
  BY <1>1, <1>4, <1>6, ReadersAgree
<1>9. RfcPath(e) = After(e)
  <2>1. RfcPath(e) = Upto(After(e), {"?", "#"})
    BY <1>4, <1>7, RfcReading
  <2>2. Free(After(e), {"?", "#"})
    BY <1>1 DEF Holds, Free
  <2>3. QED
    BY <1>5, <2>1, <2>2, NotCut
<1>10. parse_prefix_entry(e) = [host |-> Parse(e).host, port |-> Parse(e).port,
                                path |-> PrefixPath(WithoutSlash(After(e)))]
  BY DEF parse_prefix_entry, After, Stops
<1>11. QED
  BY <1>1, <1>5, <1>8, <1>9, <1>10

LEMMA WithoutSlashIsText ==
    ASSUME NEW p \in Seq(Tokens)
    PROVE  WithoutSlash(p) \in Seq(Tokens)
  BY LastAndFront DEF WithoutSlash

\* A path that begins with an entry's and goes on has the entry's segments, and
\* more.
LEMMA SegmentsUnder ==
    ASSUME NEW w \in Seq(Tokens), w = << >> \/ path_is_safe(w),
           NEW path \in Seq(Tokens), IsPrefix(PrefixPath(w), path)
    PROVE  LET meant == Tail(Split(w, "/"))
               there == Segments(path)
           IN  Len(there) > Len(meant) /\ IsPrefix(meant, there)
<1> DEFINE pre == Append(w, "/")
           W == Split(w, "/")
<1>1. PrefixPath(w) = pre
  <2>1. CASE w = << >>
    <3>1. pre = <<"/">>
      BY <2>1
    <3>2. QED
      BY <2>1, <3>1 DEF PrefixPath
  <2>2. CASE w # << >>
    BY <2>2 DEF PrefixPath
  <2>3. QED
    BY <2>1, <2>2
<1>2. pre \in Seq(Tokens)
  BY DEF Tokens
<1> HIDE DEF pre
<1>3. \E r \in Seq(Tokens) : path = pre \o r
  BY <1>1, <1>2, PrefixAndRest
<1>4. PICK r \in Seq(Tokens) : path = pre \o r
  BY <1>3
<1> DEFINE R == Split(r, "/")
<1>5. Split(path, "/") = W \o R
  BY <1>4, SplitOfSlash DEF pre
<1>6. W \in Seq(Segment) /\ W # << >> /\ R \in Seq(Segment) /\ R # << >>
  BY PiecesOf DEF Segment
<1> HIDE DEF W, R
<1>7. Segments(path) = Tail(W) \o R
  BY <1>5, <1>6, TailOfBoth DEF Segments
<1> DEFINE m == Tail(W)
<1>8. m \in Seq(Segment)
  BY <1>6, HeadTailProperties
<1> HIDE DEF m
<1>9. IsPrefix(m, m \o R)
  BY <1>6, <1>8, PrefixOfBoth
<1>10. Len(m \o R) > Len(m)
  <2>1. Len(m \o R) = Len(m) + Len(R)
    BY <1>6, <1>8, ConcatProperties
  <2>2. Len(m) \in Nat /\ Len(R) \in Nat \ {0}
    BY <1>6, <1>8, LenProperties, EmptySeq
  <2> DEFINE a == Len(m)
             b == Len(R)
  <2>3. a \in Nat /\ b \in Nat \ {0}
    BY <2>2
  <2> HIDE DEF a, b
  <2>4. a + b > a
    BY <2>3
  <2>5. QED
    BY <2>1, <2>4 DEF a, b
<1>11. QED
  BY <1>7, <1>9, <1>10 DEF m, W

\* Whoever follows a Location given to a caller from outside asks an allowed
\* host and port for an object below the path of an entry, as the operator wrote
\* that entry: startup's checks and the rules of a request leave no other
\* reading.
THEOREM OutsidersStayUnderAPrefixHolds == Spec => []OutsidersStayUnderAPrefix
<1>1. MediaInv => OutsidersStayUnderAPrefix
  <2>1. SUFFICES ASSUME MediaInv, phase = "followed", ~referer
                 PROVE  \E e \in entries :
                          LET there == Segments(landing.path)
                          IN  /\ landing.host = Meant(e).host /\ landing.port = Meant(e).port
                              /\ Len(there) > Len(Meant(e).segments)
                              /\ IsPrefix(Meant(e).segments, there)
                              /\ \A i \in DOMAIN there : there[i] # <<>> /\ ~IsDotDot(there[i])
    BY DEF OutsidersStayUnderAPrefix
  <2> DEFINE v == target.params[1]
             text == Serialised(Parse(v))
             path == PathOf(v)
  <2>2. /\ v \in Seq(Tokens) /\ MayBeSentTo(allowed, v)
        /\ landing \in {UrlLanding(text), RfcLanding(text)}
        /\ mode = "redirect" /\ Usable
        /\ allowed = {parse_prefix_entry(e) : e \in entries}
        /\ entries \in SUBSET Seq(Tokens)
    BY <2>1, OutsiderIsSent
  <2> HIDE DEF v, text
  <2>3. /\ Parse(text).host = RfcHost(v) /\ Parse(text).port = RfcPort(v)
        /\ Parse(text).path = path
        /\ RfcHost(text) = RfcHost(v) /\ RfcPort(text) = RfcPort(v)
        /\ RfcPath(text) = path
        /\ Parse(v).host = RfcHost(v) /\ Parse(v).port = RfcPort(v)
        /\ path \in Seq(Tokens)
    BY <2>2, OriginalIsRead DEF text
  <2>4. landing.host = Parse(v).host /\ landing.port = Parse(v).port /\ landing.path = path
    BY <2>2, <2>3 DEF UrlLanding, RfcLanding
  <2>5. path_is_safe(path) /\ \E entry \in allowed : IsUnder(entry, Parse(v), path)
    BY <2>2 DEF MayBeSentTo, PathOf
  <2>6. PICK e \in entries : IsUnder(parse_prefix_entry(e), Parse(v), path)
    BY <2>2, <2>5
  <2>7. e \in Seq(Tokens) /\ IsPrefixEntry(e)
    BY <2>2 DEF Usable
  <2> DEFINE p == RfcPath(e)
             w == WithoutSlash(p)
             there == Segments(path)
  <2>8. /\ p \in Seq(Tokens) /\ (w = << >> \/ path_is_safe(w))
        /\ parse_prefix_entry(e).host = RfcHost(e)
        /\ parse_prefix_entry(e).port = RfcPort(e)
        /\ parse_prefix_entry(e).path = PrefixPath(w)
    BY <2>7, EntryIsRead
  <2>9. /\ RfcHost(e) = Parse(v).host /\ RfcPort(e) = Parse(v).port
        /\ IsPrefix(PrefixPath(w), path)
    BY <2>6, <2>8 DEF IsUnder
  <2>10. w \in Seq(Tokens)
    BY <2>8, WithoutSlashIsText
  <2>11. Meant(e).host = RfcHost(e) /\ Meant(e).port = RfcPort(e)
         /\ Meant(e).segments = Tail(Split(w, "/"))
    <3>1. Without(Split(p, "/"), << >>) = Tail(Split(w, "/"))
      BY <2>8, MeantSegments
    <3>2. QED
      BY <3>1 DEF Meant
  <2>12. \A i \in DOMAIN there : there[i] # << >> /\ ~IsDotDot(there[i])
    BY <2>5 DEF path_is_safe, segment_is_safe
  <2> HIDE DEF w, path
  <2>13. Len(there) > Len(Tail(Split(w, "/"))) /\ IsPrefix(Tail(Split(w, "/")), there)
    BY <2>3, <2>8, <2>9, <2>10, SegmentsUnder
  <2> HIDE DEF there
  <2>14. Segments(landing.path) = there
    BY <2>4 DEF there
  <2>15. /\ landing.host = Meant(e).host /\ landing.port = Meant(e).port
         /\ Len(there) > Len(Meant(e).segments) /\ IsPrefix(Meant(e).segments, there)
    BY <2>4, <2>9, <2>11, <2>13
  <2>16. QED
    BY <2>12, <2>14, <2>15
<1>2. QED
  BY <1>1, MediaInvHolds, PTL

-----------------------------------------------------------------------------
(* Resolving dot segments                                                   *)

\* One step of Resolved: the segment n comes after those of sofar.
Taken(all, n, sofar) ==
    LET kept == CASE IsDotDot(all[n]) /\ sofar # <<>> -> Front(sofar)
                  [] OTHER -> sofar
    IN  CASE ~IsDot(all[n]) /\ ~IsDotDot(all[n]) -> Append(sofar, all[n])
          [] OTHER -> IF n = Len(all) THEN Append(kept, <<>>) ELSE kept

TakenTo(all, k, f) ==
    f = [n \in 0 .. k |-> IF n = 0 THEN <<>> ELSE Taken(all, n, f[n - 1])]

LEMMA TakenExist ==
    ASSUME NEW all, NEW k \in Nat
    PROVE  \E f : TakenTo(all, k, f)
<1> DEFINE S == {n \in Nat : \E f : TakenTo(all, n, f)}
<1>1. 0 \in S
  <2> DEFINE f == [n \in 0 .. 0 |-> << >>]
  <2>1. TakenTo(all, 0, f)
    BY DEF TakenTo
  <2> QED
    BY <2>1
<1>2. ASSUME NEW n \in S PROVE n + 1 \in S
  <2>1. PICK f : TakenTo(all, n, f)
    BY <1>2
  <2> DEFINE g == [m \in 0 .. n + 1 |-> IF m = n + 1 THEN Taken(all, m, f[n]) ELSE f[m]]
  <2>2. n \in Nat /\ g = [m \in 0 .. n + 1 |-> g[m]]
    OBVIOUS
  <2>3. ASSUME NEW m \in 0 .. n + 1
        PROVE  g[m] = IF m = 0 THEN << >> ELSE Taken(all, m, g[m - 1])
    <3>1. CASE m = 0
      BY <2>1, <2>2, <3>1 DEF TakenTo
    <3>2. CASE m # 0 /\ m # n + 1
      <4>1. m \in 0 .. n /\ m - 1 \in 0 .. n + 1 /\ m - 1 # n + 1
        BY <2>2, <3>2
      <4>2. g[m] = f[m] /\ g[m - 1] = f[m - 1]
        BY <3>2, <4>1
      <4>3. f[m] = Taken(all, m, f[m - 1])
        BY <2>1, <3>2, <4>1 DEF TakenTo
      <4> QED
        BY <3>2, <4>2, <4>3
    <3>3. CASE m = n + 1
      <4>1. m # 0 /\ m - 1 = n /\ n \in 0 .. n + 1 /\ n # n + 1
        BY <2>2, <3>3
      <4>2. g[m] = Taken(all, m, f[n]) /\ g[m - 1] = f[n]
        BY <3>3, <4>1
      <4> QED
        BY <4>1, <4>2
    <3> QED
      BY <3>1, <3>2, <3>3
  <2>4. TakenTo(all, n + 1, g)
    <3> HIDE DEF g
    <3> QED
      BY <2>2, <2>3 DEF TakenTo
  <2> QED
    BY <2>2, <2>4
<1> HIDE DEF S
<1>3. S \in SUBSET Nat
  BY DEF S
<1>4. S = Nat
  BY <1>1, <1>2, <1>3, SetInduction
<1> QED
  BY <1>4 DEF S

LEMMA ResolvedIsScan ==
    ASSUME NEW path, NEW all, Len(all) \in Nat,
           all = Segments(IF path = << >> THEN <<"/">> ELSE path)
    PROVE  \E f : TakenTo(all, Len(all), f) /\ Resolved(path) = Joined(f[Len(all)])
<1> DEFINE f == CHOOSE h : TakenTo(all, Len(all), h)
<1>1. Resolved(path) = Joined(f[Len(all)])
  BY DEF Resolved, TakenTo, Taken
<1>2. TakenTo(all, Len(all), f)
  BY TakenExist
<1> QED
  BY <1>1, <1>2

LEMMA JoinedIsText ==
    ASSUME NEW T, "/" \in T, NEW segments \in Seq(Seq(T))
    PROVE  Joined(segments) \in Seq(T)
<1> DEFINE l == [i \in DOMAIN segments |-> <<"/">> \o segments[i]]
<1>1. segments \in [1 .. Len(segments) -> Seq(T)] /\ Len(segments) \in Nat
      /\ DOMAIN segments = 1 .. Len(segments)
  BY LenProperties
<1>2. ASSUME NEW x \in Seq(T) PROVE <<"/">> \o x \in Seq(T)
  BY OneAndRest
<1>3. l \in [1 .. Len(segments) -> Seq(T)]
  BY <1>1, <1>2
<1>4. l \in Seq(Seq(T))
  BY <1>1, <1>3, SeqDef
<1> HIDE DEF l
<1>5. FlattenSeq(l) \in Seq(T)
  BY <1>4, FlattenIsText
<1>6. QED
  BY <1>5 DEF Joined, l

\* Resolving brings in no token but a slash.
LEMMA ResolvedIsText ==
    ASSUME NEW T, "/" \in T, NEW path \in Seq(T)
    PROVE  Resolved(path) \in Seq(T)
<1> DEFINE start == IF path = << >> THEN <<"/">> ELSE path
           all == Segments(start)
           n == Len(all)
           Texts == Seq(Seq(T))
<1>1. start \in Seq(T)
  OBVIOUS
<1>2. all \in Texts
  <2> HIDE DEF start
  <2> DEFINE W == Split(start, "/")
  <2>1. W \in Seq(Piece(T, "/")) /\ W # << >>
    BY <1>1, PiecesOf
  <2> HIDE DEF W
  <2>2. Tail(W) \in Seq(Piece(T, "/"))
    BY <2>1, HeadTailProperties
  <2>3. Piece(T, "/") \subseteq Seq(T)
    <3>1. SUFFICES ASSUME NEW x \in Seq(T \ {"/"}) PROVE x \in Seq(T)
      BY DEF Piece
    <3>2. T \ {"/"} \subseteq T
      OBVIOUS
    <3>3. QED
      BY <3>1, <3>2, SeqMonotonic
  <2>4. Tail(W) \in Seq(Seq(T))
    BY <2>2, <2>3, SeqMonotonic
  <2>5. QED
    BY <2>4 DEF Segments, W
<1> HIDE DEF start, all, Texts
<1>3. /\ n \in Nat /\ DOMAIN all = 1 .. n
      /\ \A i \in 1 .. n : all[i] \in Seq(T)
  BY <1>2, LenProperties, ElementOfSeq DEF Texts
<1>4. PICK f : TakenTo(all, n, f) /\ Resolved(path) = Joined(f[n])
  <2>1. all = Segments(IF path = << >> THEN <<"/">> ELSE path)
    BY DEF all, start
  <2>2. QED
    BY <1>3, <2>1, ResolvedIsScan
<1> DEFINE S == {k \in Nat : k <= n => f[k] \in Texts}
<1>5. 0 \in S
  <2>1. f[0] = << >>
    BY <1>3, <1>4 DEF TakenTo
  <2>2. << >> \in Texts
    BY EmptySeq DEF Texts
  <2>3. QED
    BY <2>1, <2>2
<1>6. ASSUME NEW k \in S PROVE k + 1 \in S
  <2>1. SUFFICES ASSUME k + 1 <= n PROVE f[k + 1] \in Texts
    OBVIOUS
  <2>2. k \in Nat /\ f[k] \in Texts /\ k + 1 \in 1 .. n /\ k + 1 \in 0 .. n
        /\ k + 1 # 0 /\ (k + 1) - 1 = k
    BY <1>3, <2>1
  <2> HIDE DEF S
  <2> DEFINE m == k + 1
             sofar == f[k]
             one == all[m]
             none == << >>
  <2>3. f[m] = Taken(all, m, sofar)
    BY <1>4, <2>2 DEF TakenTo
  <2>4. sofar \in Texts /\ one \in Seq(T) /\ none \in Seq(T)
    BY <1>3, <2>2, EmptySeq
  <2> HIDE DEF m, sofar, one
  <2> DEFINE kept == IF IsDotDot(one) /\ sofar # none THEN Front(sofar) ELSE sofar
  <2>5. kept \in Texts
    BY <2>4, LastAndFront DEF Texts
  <2>6. Taken(all, m, sofar) \in {Append(sofar, one), Append(kept, none), kept}
    BY DEF Taken, one
  <2> HIDE DEF kept, none
  <2>7. Append(sofar, one) \in Texts /\ Append(kept, none) \in Texts
    BY <2>4, <2>5, AppendProperties DEF Texts
  <2>8. QED
    BY <2>3, <2>5, <2>6, <2>7 DEF m
<1>7. S \in SUBSET Nat
  OBVIOUS
<1> HIDE DEF S
<1>8. S = Nat
  BY <1>5, <1>6, <1>7, SetInduction
<1>9. f[n] \in Texts
  BY <1>3, <1>8 DEF S
<1>10. Joined(f[n]) \in Seq(T)
  BY <1>9, JoinedIsText DEF Texts
<1>11. QED
  BY <1>4, <1>10

-----------------------------------------------------------------------------
(* What the url crate keeps of any text                                     *)

Four == {"/", "\\", "?", "#"}
Remains(text) == Without(text, "TAB")
Rest(text) == IF Remains(text) = <<>> THEN <<>> ELSE AfterSlashes(Tail(Remains(text)))

LEMMA ParsedParts ==
    ASSUME NEW text, Parse(text) # NoUrl
    PROVE  /\ Remains(text) # << >> /\ Remains(text)[1] \in DOMAIN SCHEMES
           /\ Parse(text).path = Resolved(Paths(Upto(From(Rest(text), Four), {"?", "#"})))
           /\ Parse(text).fragment = From(From(Rest(text), Four), {"#"})
<1> DEFINE authority == Upto(Rest(text), Four)
           tail      == From(Rest(text), Four)
           userinfo  == SubSeq(authority, 1, Len(authority) - Len(AfterLast(authority, "@")))
           hostport  == AfterLast(authority, "@")
           host      == Hosts(Upto(hostport, {":"}))
           port      == From(hostport, {":"})
           query     == From(Upto(tail, {"#"}), {"?"})
<1>1. Parse(text) =
    IF \/ Remains(text) = <<>> \/ Remains(text)[1] \notin DOMAIN SCHEMES
       \/ host = <<>> \/ IsBroken(host)
       \/ /\ port \notin {<<>>, <<":">>}
          /\ IsPort(Tail(port)) => NUMBERS[port[2]] > 65535
    THEN NoUrl
    ELSE [scheme   |-> SCHEMES[Remains(text)[1]],
          userinfo |-> IF userinfo = <<"@">> THEN <<>> ELSE userinfo,
          host     |-> host,
          domain   |-> ~IsNumeric(host),
          port     |-> IF Len(port) = 2 THEN NUMBERS[port[2]]
                       ELSE DefaultPort(SCHEMES[Remains(text)[1]]),
          path     |-> Resolved(Paths(Upto(tail, {"?", "#"}))),
          query    |-> Queries(query),
          fragment |-> From(tail, {"#"})]
  BY DEF Parse, Hosts, Paths, Queries, Rest, Remains, Four
<1> HIDE DEF authority, userinfo, hostport, host, port, query, tail
<1>2. /\ Remains(text) # << >> /\ Remains(text)[1] \in DOMAIN SCHEMES
      /\ Parse(text).path = Resolved(Paths(Upto(tail, {"?", "#"})))
      /\ Parse(text).fragment = From(tail, {"#"})
  BY <1>1, SMT
<1>3. QED
  BY <1>2 DEF tail

LEMMA RestIsText ==
    ASSUME NEW text \in Seq(Tokens)
    PROVE  /\ Remains(text) \in Seq(Tokens) /\ Rest(text) \in Seq(Tokens)
           /\ From(Rest(text), Four) \in Seq(Tokens)
<1>1. Remains(text) \in Seq(Tokens)
  <2>1. Without(text, "TAB") \in Seq(Tokens \ {"TAB"})
    BY WithoutIsText
  <2>2. Tokens \ {"TAB"} \subseteq Tokens
    OBVIOUS
  <2>3. QED
    BY <2>1, <2>2, SeqMonotonic DEF Remains
<1>2. Rest(text) \in Seq(Tokens)
  <2>1. CASE Remains(text) = << >>
    BY <2>1, EmptySeq DEF Rest
  <2>2. CASE Remains(text) # << >>
    <3>1. Tail(Remains(text)) \in Seq(Tokens)
      BY <1>1, <2>2, HeadTailProperties
    <3>2. AfterSlashes(Tail(Remains(text))) \in Seq(Tokens)
      BY <3>1, AfterSlashesIsText
    <3>3. QED
      BY <2>2, <3>2 DEF Rest
  <2>3. QED
    BY <2>1, <2>2
<1>3. QED
  BY <1>1, <1>2, Cut

\* A URL without a fragment has no number sign in its text.
LEMMA NoFragment ==
    ASSUME NEW text \in Seq(Tokens), Parse(text) # NoUrl, Parse(text).fragment = << >>
    PROVE  Free(text, {"#"})
<1>1. SUFFICES ASSUME NEW i \in DOMAIN text, text[i] = "#" PROVE FALSE
  BY DEF Free
<1> DEFINE plain == Remains(text)
           rest == Rest(text)
           tail == From(rest, Four)
<1>2. /\ plain \in Seq(Tokens) /\ rest \in Seq(Tokens) /\ tail \in Seq(Tokens)
      /\ plain # << >> /\ plain[1] \in DOMAIN SCHEMES
      /\ From(tail, {"#"}) = << >>
  BY RestIsText, ParsedParts
<1>3. rest = AfterSlashes(Tail(plain))
  BY <1>2 DEF Rest
<1>4. PICK j \in DOMAIN plain : plain[j] = "#"
  <2> DEFINE mark == "TAB"
             sign == "#"
  <2>1. sign # mark /\ Has(text, sign)
    BY <1>1 DEF Has
  <2> HIDE DEF mark, sign
  <2>2. Has(Without(text, mark), sign)
    BY <2>1, WithoutKeeps
  <2>3. QED
    BY <2>2 DEF mark, sign, Remains, Has
<1> HIDE DEF plain, rest
<1> DEFINE T == Tail(plain)
<1>5. T \in Seq(Tokens) /\ \E k \in DOMAIN T : T[k] = "#"
  <2>1. /\ Len(plain) \in Nat /\ DOMAIN plain = 1 .. Len(plain)
        /\ T \in Seq(Tokens) /\ Len(T) = Len(plain) - 1
        /\ \A k \in 1 .. Len(T) : T[k] = plain[k + 1]
    BY <1>2, LenProperties, HeadTailProperties
  <2>2. DOMAIN T = 1 .. Len(T)
    BY <2>1, LenProperties
  <2>3. j # 1
    BY <1>2, <1>4 DEF SCHEMES
  <2>4. j - 1 \in 1 .. Len(T) /\ (j - 1) + 1 = j
    BY <1>4, <2>1, <2>3
  <2>5. T[j - 1] = "#"
    BY <1>4, <2>1, <2>4
  <2>6. QED
    BY <2>1, <2>2, <2>4, <2>5
<1>6. PICK k \in DOMAIN T : T[k] = "#"
  BY <1>5
<1> HIDE DEF T
<1>7. T[k] \notin {"/", "\\"}
  BY <1>6
<1>8. \E l \in DOMAIN AfterSlashes(T) : AfterSlashes(T)[l] = T[k]
  BY <1>5, <1>6, <1>7, SlashesHide
<1>9. ~Free(rest, {"#"})
  BY <1>3, <1>6, <1>8 DEF Free, T
<1> DEFINE authority == Upto(rest, Four)
<1>10. authority \in Seq(Tokens) /\ rest = authority \o tail /\ Free(authority, Four)
  BY <1>2, Cut
<1>11. Free(authority, {"#"})
  BY <1>10 DEF Free, Four
<1>12. Free(tail, {"#"})
  <2> HIDE DEF tail
  <2> DEFINE a == Upto(tail, {"#"})
             b == From(tail, {"#"})
  <2>1. a \in Seq(Tokens) /\ tail = a \o b /\ Free(a, {"#"}) /\ b = << >>
    BY <1>2, Cut
  <2> HIDE DEF a, b
  <2>2. tail = a
    BY <2>1, ConcatEmptySeq
  <2>3. QED
    BY <2>1, <2>2
<1> HIDE DEF authority, tail
<1>13. Free(rest, {"#"})
  BY <1>2, <1>10, <1>11, <1>12, FreeOfBoth
<1>14. QED
  BY <1>9, <1>13

\* A URL's path has neither a question mark nor a number sign in it.
LEMMA PathIsFree ==
    ASSUME NEW text \in Seq(Tokens), Parse(text) # NoUrl
    PROVE  Parse(text).path \in Seq(Tokens) /\ Free(Parse(text).path, {"?", "#"})
<1> DEFINE tail == From(Rest(text), Four)
           raw == Upto(tail, {"?", "#"})
           X == {"?", "#"}
           T == Tokens \ X
<1>1. tail \in Seq(Tokens)
  BY RestIsText
<1> HIDE DEF tail
<1>2. raw \in Seq(Tokens) /\ Free(raw, X)
  BY <1>1, Cut
<1> HIDE DEF raw
<1>3. Paths(raw) \in Seq(Tokens) /\ Len(Paths(raw)) = Len(raw)
      /\ \A i \in 1 .. Len(raw) : Paths(raw)[i] = PathToken(raw[i])
  BY <1>2, PathsAre
<1>4. DOMAIN raw = 1 .. Len(raw) /\ DOMAIN Paths(raw) = 1 .. Len(raw)
  BY <1>2, <1>3, LenProperties
<1>5. \A t : t \notin X => PathToken(t) \notin X
  BY DEF PathToken
<1>6. Free(Paths(raw), X)
  BY <1>2, <1>3, <1>4, <1>5 DEF Free
<1> HIDE DEF X
<1>7. Paths(raw) \in Seq(T)
  BY <1>3, <1>6, FreeIsText
<1>8. "/" \in T /\ T \cap X = {} /\ T \subseteq Tokens
  BY DEF Tokens, X
<1> HIDE DEF T
<1>9. Resolved(Paths(raw)) \in Seq(T)
  BY <1>7, <1>8, ResolvedIsText
<1>10. Resolved(Paths(raw)) \in Seq(Tokens)
  BY <1>8, <1>9, SeqMonotonic
<1>11. Free(Resolved(Paths(raw)), X)
  BY <1>8, <1>9, TextIsFree
<1>12. Parse(text).path = Resolved(Paths(raw))
  BY ParsedParts DEF tail, raw
<1>13. QED
  BY <1>10, <1>11, <1>12 DEF X

-----------------------------------------------------------------------------
(* An internal caller                                                       *)

LEMMA LastOfBoth ==
    ASSUME NEW T, NEW a \in Seq(T), NEW b \in Seq(T), b # << >>
    PROVE  a \o b # << >> /\ Last(a \o b) = Last(b)
<1>1. /\ a \o b \in Seq(T) /\ Len(a \o b) = Len(a) + Len(b)
      /\ \A i \in 1 .. Len(a) + Len(b) :
            (a \o b)[i] = IF i <= Len(a) THEN a[i] ELSE b[i - Len(a)]
  BY ConcatProperties
<1>2. Len(a) \in Nat /\ Len(b) \in Nat \ {0}
  BY LenProperties, EmptySeq
<1> DEFINE k == Len(a) + Len(b)
<1>3. k \in 1 .. Len(a) + Len(b) /\ ~(k <= Len(a)) /\ k - Len(a) = Len(b)
  BY <1>2
<1>4. (a \o b)[k] = b[Len(b)]
  BY <1>1, <1>3
<1>5. a \o b # << >>
  BY ConcatEqualIffEmpty
<1>6. QED
  BY <1>1, <1>4, <1>5 DEF Last

LEMMA TargetIs ==
    ASSUME NEW t \in Targets
    PROVE  /\ t.path \in Seq(Tokens) /\ t.query \in Seq(Tokens) /\ Begins(t.query, {"?"})
<1>1. t.path \in Seq(STRING) /\ t.query \in Seq(STRING)
  BY TargetsAssumption
<1>2. t.path \in Seq(Tokens) /\ t.query \in Seq(Tokens)
  BY <1>1, StringsAreTokens
<1>3. t.query = << >> \/ Head(t.query) = "?"
  BY TargetsAssumption
<1>4. t.query # << >> => Head(t.query) = t.query[1]
  BY <1>2
<1>5. QED
  BY <1>2, <1>3, <1>4 DEF Begins

\* What reading the outgoing text back tells of the base and of the target.
LEMMA ReadBack ==
    ASSUME NEW b \in Seq(Tokens), b # << >> => Last(b) # "/",
           NEW t \in Targets, ParsesBack(b, t)
    PROVE  LET text == b \o t.path \o t.query
           IN  /\ Parse(text).host = Parse(b).host /\ Parse(text).port = Parse(b).port
               /\ Parse(text).path = RfcPath(b) \o t.path
               /\ Free(t.path, {"?", "#"}) /\ Parse(b) # NoUrl
<1> DEFINE p == t.path
           q == t.query
           bp == b \o p
           text == bp \o q
           raw == raw_path_of(b)
           trim == TrimSlashes(raw)
<1>1. /\ Parse(b) # NoUrl /\ Parse(text) # NoUrl
      /\ Parse(text).host = Parse(b).host /\ Parse(text).port = Parse(b).port
      /\ Parse(text).fragment = << >>
      /\ Parse(text).path = trim \o p
  BY DEF ParsesBack, KeepsPath
<1>2. p \in Seq(Tokens) /\ q \in Seq(Tokens)
  BY TargetIs
<1> HIDE DEF p, q
<1>3. bp \in Seq(Tokens)
  BY <1>2, ConcatProperties
<1> HIDE DEF bp
<1>4. text \in Seq(Tokens)
  BY <1>2, <1>3, ConcatProperties
<1>5. Free(b, {"#"})
  <2>1. Free(text, {"#"})
    <3> HIDE DEF text
    <3>1. QED
      BY <1>1, <1>4, NoFragment
  <2>2. Free(bp, {"#"})
    BY <1>2, <1>3, <2>1, FreeOfBoth
  <2>3. QED
    BY <1>2, <2>2, FreeOfBoth DEF bp
<1>6. b # << >>
  <2>1. SUFFICES ASSUME b = << >> PROVE FALSE
    OBVIOUS
  <2>2. Remains(<< >>) = << >>
    BY WithoutOfNothing DEF Remains
  <2>3. QED
    BY <1>1, <2>1, <2>2, ParsedParts
<1>7. Tail(b) \in Seq(Tokens) /\ raw \in Seq(Tokens) /\ Free(raw, {"#"})
      /\ Tail(b) = Upto(Tail(b), Stops) \o raw /\ Upto(Tail(b), Stops) \in Seq(Tokens)
  <2>1. raw = From(Tail(b), Stops)
    BY DEF raw_path_of, Stops
  <2>2. Tail(b) \in Seq(Tokens) /\ Free(Tail(b), {"#"})
    BY <1>5, <1>6, HeadTailProperties, FreeOfTail
  <2> HIDE DEF raw
  <2>3. QED
    BY <2>1, <2>2, Cut, CutIsFree
<1>8. trim = raw
  <2>1. CASE raw = << >>
    <3> HIDE DEF raw
    <3>1. QED
      BY <1>7, <2>1, NoSlashesLast
  <2>2. CASE raw # << >>
    <3> DEFINE u == Upto(Tail(b), Stops)
               s == Tail(b)
               c == b[1]
    <3>1. u \in Seq(Tokens) /\ s \in Seq(Tokens) /\ s = u \o raw
      BY <1>7
    <3>2. b = <<c>> \o s /\ <<c>> \in Seq(Tokens)
      <4>1. Len(b) \in Nat \ {0} /\ c \in Tokens
        BY <1>6, EmptySeq, ElementOfSeq
      <4>2. 1 \in 1 .. Len(b) /\ Len(b) \in 1 .. Len(b) /\ 1 + 1 = 2
        BY <4>1
      <4>3. SubSeq(b, 1, Len(b)) = <<b[1]>> \o SubSeq(b, 2, Len(b))
        BY <4>2, SubSeqRecursiveFirst
      <4>4. SubSeq(b, 1, Len(b)) = b /\ s = SubSeq(b, 2, Len(b))
        BY <1>6, SubSeqFull, TailIsSubSeq
      <4>5. QED
        BY <4>1, <4>3, <4>4
    <3> HIDE DEF raw, u, s, c
    <3>3. s # << >> /\ Last(s) = Last(raw)
      BY <1>7, <2>2, <3>1, LastOfBoth
    <3>4. Last(b) = Last(s)
      <4> DEFINE one == <<c>>
      <4>1. one \in Seq(Tokens) /\ b = one \o s
        BY <3>2
      <4> HIDE DEF one
      <4>2. QED
        BY <3>1, <3>3, <4>1, LastOfBoth
    <3>5. Last(raw) # "/"
      BY <1>6, <3>3, <3>4
    <3>6. QED
      BY <1>7, <3>5, NoSlashesLast
  <2>3. QED
    BY <2>1, <2>2
<1> HIDE DEF raw, text, trim
<1>9. Free(raw, {"?", "#"}) /\ Free(p, {"?", "#"})
  <2>1. Free(Parse(text).path, {"?", "#"})
    BY <1>1, <1>4, PathIsFree
  <2>2. Free(raw \o p, {"?", "#"})
    BY <1>1, <1>8, <2>1
  <2>3. QED
    BY <1>2, <1>7, <2>2, FreeOfBoth
<1>10. RfcPath(b) = raw
  <2>1. RfcPath(b) = Upto(raw, {"?", "#"})
    BY DEF RfcPath, raw, raw_path_of
  <2>2. QED
    BY <1>7, <1>9, <2>1, NotCut
<1>11. QED
  BY <1>1, <1>8, <1>9, <1>10 DEF text, bp, p, q

\* A base that startup accepted is its URL's origin, with no path.
LEMMA AcceptedBase ==
    ASSUME NEW b \in Seq(Tokens), validate_internal_base_url(b)
    PROVE  /\ Clean(Parse(b)) /\ b = Origin(Parse(b)) /\ Parse(b) # NoUrl
           /\ RfcPath(b) = << >> /\ raw_path_of(b) = << >> /\ b[1] # "https:/"
<1> DEFINE u == Parse(b)
           none == << >>
<1>1. u # NoUrl /\ b = Origin(u)
  BY DEF validate_internal_base_url, IsCanonical
<1>2. Clean(u)
  BY <1>1, ParsedIsClean
<1>3. none \in Seq(Tokens) /\ Begins(none, Stops) /\ Free(none, {"TAB", "\\"})
      /\ Upto(none, {"?", "#"}) = none
  <2>1. none \in Seq(Tokens) /\ Free(none, {"TAB", "\\"}) /\ Free(none, {"?", "#"})
    BY EmptySeq DEF Free
  <2>2. Upto(none, {"?", "#"}) = none
    BY <2>1, NotCut
  <2>3. QED
    BY <2>1, <2>2 DEF Begins
<1>4. b \o none = b
  BY ConcatEmptySeq
<1> HIDE DEF u, none
<1>5. After(Origin(u) \o none) = none
  BY <1>2, <1>3, OriginIsRead
<1>6. RfcPath(Origin(u) \o none) = Upto(none, {"?", "#"})
  BY <1>2, <1>3, OriginReadings
<1>7. After(b) = none /\ RfcPath(b) = none
  BY <1>1, <1>3, <1>4, <1>5, <1>6
<1>8. raw_path_of(b) = After(b)
  BY DEF raw_path_of, After, Stops
<1>9. b[1] # "https:/"
  <2>1. (Origin(u) \o none)[1] = Opening(u)
    BY <1>2, <1>3, OriginIsRead
  <2>2. Opening(u) # "https:/"
    BY DEF Opening
  <2>3. QED
    BY <1>1, <1>4, <2>1, <2>2
<1>10. QED
  BY <1>1, <1>2, <1>7, <1>8, <1>9 DEF u, none

\* A target that is plain goes on where the base ends.
LEMMA PlainTargetIs ==
    ASSUME NEW t \in Targets, IsPlainTarget(t)
    PROVE  LET rest == t.path \o t.query
           IN  /\ rest \in Seq(Tokens) /\ Begins(rest, Stops) /\ Free(rest, {"TAB", "\\"})
<1> DEFINE p == t.path
           q == t.query
           rest == p \o q
<1>1. p \in Seq(Tokens) /\ q \in Seq(Tokens)
  BY TargetIs
<1>2. p # << >> /\ p[1] = "/"
  BY DEF IsPlainTarget, path_is_safe
<1>3. Free(rest, {"TAB", "\\"})
  BY DEF IsPlainTarget, is_printable_ascii, Holds, Free
<1> HIDE DEF p, q
<1>4. rest \in Seq(Tokens)
  BY <1>1, ConcatProperties
<1>5. rest[1] = p[1]
  <2>1. Len(p) \in Nat \ {0}
    BY <1>1, <1>2, EmptySeq
  <2>2. QED
    BY <1>1, <2>1
<1>6. Begins(rest, Stops)
  BY <1>2, <1>5 DEF Begins, Stops
<1>7. QED
  BY <1>3, <1>4, <1>6 DEF p, q

\* An internal caller that follows its Location asks the base's host and port
\* for the base's path, as it is written, and below it what it asked for. In
\* redirect mode the base has no path and every reader lands there.
THEOREM InsidersLandAtTheBaseHolds == Spec => []InsidersLandAtTheBase
<1>1. MediaInv => InsidersLandAtTheBase
  <2>1. SUFFICES ASSUME MediaInv, phase = "followed", referer
                 PROVE  LET home    == Parse(base)
                            browser == Parse(answer.location)
                        IN  /\ browser.host = home.host /\ browser.port = home.port
                            /\ browser.path = RfcPath(base) \o target.path
                            /\ mode = "redirect" =>
                                 /\ landing.host = home.host /\ landing.port = home.port
                                 /\ landing.path = target.path
    BY DEF InsidersLandAtTheBase
  <2> DEFINE t == target
             rest == t.path \o t.query
             text == base \o t.path \o t.query
             loc == answer.location
  <2>2. /\ base \in Seq(Tokens) /\ (base # << >> => Last(base) # "/") /\ t \in Targets
        /\ answer = Outcome(internal_location(base, t)) /\ answer.status = 302
        /\ landing \in {UrlLanding(loc), RfcLanding(loc)}
    BY <2>1 DEF MediaInv, SetUp, Answered, Followed
  <2>3. internal_location(base, t) # NoTarget /\ loc = internal_location(base, t)
    BY <2>2 DEF Outcome
  <2>4. IsPlainTarget(t) /\ ParsesBack(base, t) /\ loc = text
    BY <2>3 DEF internal_location
  <2> HIDE DEF t, loc
  <2>5. /\ Parse(text).host = Parse(base).host /\ Parse(text).port = Parse(base).port
        /\ Parse(text).path = RfcPath(base) \o t.path
        /\ Free(t.path, {"?", "#"})
    BY <2>2, <2>4, ReadBack
  <2>6. ASSUME mode = "redirect"
        PROVE  /\ landing.host = Parse(base).host /\ landing.port = Parse(base).port
               /\ landing.path = t.path
    <3>1. validate_internal_base_url(base)
      BY <2>1, <2>6 DEF MediaInv, Served, Usable
    <3> DEFINE u == Parse(base)
    <3>2. Clean(u) /\ base = Origin(u) /\ RfcPath(base) = << >>
      BY <2>2, <3>1, AcceptedBase
    <3>3. rest \in Seq(Tokens) /\ Begins(rest, Stops) /\ Free(rest, {"TAB", "\\"})
      BY <2>2, <2>4, PlainTargetIs
    <3>4. t.path \in Seq(Tokens) /\ t.query \in Seq(Tokens) /\ Begins(t.query, {"?"})
      BY <2>2, TargetIs
    <3>5. Upto(rest, {"?", "#"}) = t.path
      <4>1. Begins(t.query, {"?", "#"})
        BY <3>4 DEF Begins
      <4>2. QED
        BY <2>5, <3>4, <4>1, CutAt
    <3>6. text = base \o rest
      <4> DEFINE p == t.path
                 q == t.query
      <4>1. p \in Seq(Tokens) /\ q \in Seq(Tokens)
        BY <3>4
      <4> HIDE DEF p, q
      <4>2. (base \o p) \o q = base \o (p \o q)
        BY <2>2, <4>1, ConcatAssociative, SMT
      <4>3. QED
        BY <4>2 DEF p, q
    <3> HIDE DEF u, rest
    <3>7. /\ RfcHost(Origin(u) \o rest) = u.host /\ RfcPort(Origin(u) \o rest) = u.port
          /\ RfcPath(Origin(u) \o rest) = Upto(rest, {"?", "#"})
      BY <3>2, <3>3, OriginReadings
    <3>8. Origin(u) \o rest = text
      BY <3>2, <3>6
    <3> HIDE DEF text
    <3>9. /\ RfcHost(text) = u.host /\ RfcPort(text) = u.port /\ RfcPath(text) = t.path
      BY <3>5, <3>7, <3>8
    <3>10. Parse(text).path = t.path
      <4> DEFINE p == t.path
      <4>1. p \in Seq(Tokens)
        BY <3>4
      <4> HIDE DEF p
      <4>2. << >> \o p = p
        BY <4>1, ConcatEmptySeq
      <4>3. QED
        BY <2>5, <3>2, <4>2 DEF p
    <3>11. landing \in {UrlLanding(text), RfcLanding(text)}
      BY <2>2, <2>4
    <3>12. QED
      BY <2>5, <3>9, <3>10, <3>11 DEF UrlLanding, RfcLanding, u
  <2>7. QED
    BY <2>4, <2>5, <2>6 DEF t, loc
<1>2. QED
  BY <1>1, MediaInvHolds, PTL

-----------------------------------------------------------------------------
(* A base that startup accepts serves                                       *)

Names == {"files", "proxy", "a", "bucket"}

\* What is asked for on such a path.
LEMMA SegmentsOfPlain ==
    ASSUME NEW top \in Names, NEW name \in Names
    PROVE  LET path == <<"/", top, "/", name>>
           IN  path \in Seq(Tokens) /\ Segments(path) = << <<top>>, <<name>> >>
<1> DEFINE path == <<"/", top, "/", name>>
           a == <<top>>
           b == <<name>>
<1>1. top \in Tokens \ {"/"} /\ name \in Tokens \ {"/"} /\ "/" \in Tokens
  BY DEF Names, Tokens
<1>2. path \in Seq(Tokens) /\ path # << >> /\ path[1] = "/"
  BY <1>1
<1>3. a \in Segment /\ b \in Segment /\ a \in Seq(Tokens) /\ b \in Seq(Tokens)
  BY <1>1, SegmentIs
<1>4. Tail(path) = Append(a, "/") \o b
  <2>1. Append(a, "/") = <<top, "/">>
    BY <1>1, Pair
  <2>2. <<top, "/">> \o <<name>> = <<top, "/", name>>
    BY <1>1, Triple
  <2>3. Tail(path) = <<top, "/", name>>
    OBVIOUS
  <2>4. QED
    BY <2>1, <2>2, <2>3
<1> HIDE DEF path, a, b
<1>5. Segments(path) = Split(Tail(path), "/")
  BY <1>2, SegmentsOf
<1>6. Split(Append(a, "/") \o b, "/") = Split(a, "/") \o Split(b, "/")
  BY <1>3, SplitOfSlash
<1>7. Split(a, "/") = <<a>> /\ Split(b, "/") = <<b>>
  BY <1>3, PieceIsWhole DEF Segment
<1>8. <<a>> \o <<b>> = <<a, b>>
  BY <1>3, Pair
<1>9. QED
  BY <1>2, <1>4, <1>5, <1>6, <1>7, <1>8 DEF path, a, b

LEMMA ResolvedPlain ==
    ASSUME NEW top \in Names, NEW name \in Names
    PROVE  LET path == <<"/", top, "/", name>>
           IN  Paths(path) = path /\ Resolved(path) = path
<1> DEFINE path == <<"/", top, "/", name>>
           a == <<top>>
           b == <<name>>
           all == <<a, b>>
           none == << >>
<1>1. path \in Seq(Tokens) /\ Segments(path) = all
  BY SegmentsOfPlain
<1>2. Paths(path) = path
  <2>1. /\ Paths(path) \in Seq(Tokens) /\ Len(Paths(path)) = Len(path)
        /\ \A i \in 1 .. Len(path) : Paths(path)[i] = PathToken(path[i])
    BY <1>1, PathsAre
  <2>2. Len(path) = 4 /\ path[1] = "/" /\ path[2] = top /\ path[3] = "/" /\ path[4] = name
    OBVIOUS
  <2>3. PathToken("/") = "/" /\ PathToken(top) = top /\ PathToken(name) = name
    BY DEF PathToken, Names
  <2> HIDE DEF path
  <2>4. ASSUME NEW i \in 1 .. Len(path) PROVE Paths(path)[i] = path[i]
    <3>1. i \in {1, 2, 3, 4}
      BY <2>2
    <3>2. QED
      BY <2>1, <2>2, <2>3, <3>1
  <2>5. QED
    BY <1>1, <2>1, <2>4, SeqEqual
<1>3. path # << >> /\ Len(all) = 2 /\ Len(all) \in Nat /\ all[1] = a /\ all[2] = b
  OBVIOUS
<1>4. ~IsDot(a) /\ ~IsDotDot(a) /\ ~IsDot(b) /\ ~IsDotDot(b)
  <2>1. top \notin {"%2e", "..", "%2e%2e"} /\ name \notin {"%2e", "..", "%2e%2e"}
    BY DEF Names
  <2>2. a \notin {<<"%2e">>, <<"..">>, <<"%2e%2e">>} /\ b \notin {<<"%2e">>, <<"..">>, <<"%2e%2e">>}
    BY <2>1
  <2>3. QED
    BY <2>2 DEF IsDot, IsDotDot
<1> HIDE DEF path
<1>5. all = Segments(IF path = << >> THEN <<"/">> ELSE path)
  BY <1>1, <1>3
<1>6. PICK f : TakenTo(all, Len(all), f) /\ Resolved(path) = Joined(f[Len(all)])
  <2> HIDE DEF all
  <2>1. QED
    BY <1>3, <1>5, ResolvedIsScan
<1>7. f[2] = <<a, b>>
  <2> HIDE DEF all, a, b
  <2>1. f = [n \in 0 .. 2 |-> IF n = 0 THEN none ELSE Taken(all, n, f[n - 1])]
    BY <1>3, <1>6 DEF TakenTo
  <2>2. f[0] = none
    BY <2>1
  <2>3. f[1] = Taken(all, 1, f[0])
    BY <2>1
  <2>4. f[2] = Taken(all, 2, f[1])
    BY <2>1
  <2>5. Taken(all, 1, f[0]) = Append(none, a)
    BY <1>3, <1>4, <2>2 DEF Taken
  <2>6. Taken(all, 2, f[1]) = Append(f[1], b)
    BY <1>3, <1>4 DEF Taken
  <2>7. Append(none, a) = <<a>> /\ Append(<<a>>, b) = <<a, b>>
    <3>1. a \in {a, b} /\ b \in {a, b}
      OBVIOUS
    <3>2. QED
      BY <3>1, Single, Pair
  <2>8. QED
    BY <2>3, <2>4, <2>5, <2>6, <2>7
<1>8. Joined(<<a, b>>) = path
  <2> DEFINE x == <<"/">> \o a
             y == <<"/">> \o b
  <2>1. x \in Seq(Tokens) /\ y \in Seq(Tokens)
    <3>1. top \in Tokens /\ name \in Tokens /\ "/" \in Tokens
      BY DEF Names, Tokens
    <3>2. a \in Seq(Tokens) /\ b \in Seq(Tokens)
      BY <3>1
    <3> HIDE DEF a, b
    <3>3. QED
      BY <3>1, <3>2, OneAndRest
  <2>2. x \o y = path
    <3>1. top \in Tokens /\ name \in Tokens /\ "/" \in Tokens
      BY DEF Names, Tokens
    <3>2. x = <<"/", top>> /\ y = <<"/", name>>
      BY <3>1, Pair
    <3>3. <<"/", top>> \o <<"/", name>> = <<"/", top, "/", name>>
      BY <3>1, TwoPairs
    <3>4. QED
      BY <3>2, <3>3 DEF path
  <2>3. [i \in DOMAIN all |-> <<"/">> \o all[i]] = <<x, y>>
    <3> DEFINE g == [i \in DOMAIN all |-> <<"/">> \o all[i]]
               d == <<x, y>>
               S == Seq(Tokens)
    <3>1. DOMAIN all = 1 .. 2 /\ all[1] = a /\ all[2] = b
      OBVIOUS
    <3>2. g = [i \in 1 .. 2 |-> <<"/">> \o all[i]] /\ g[1] = x /\ g[2] = y
      <4> HIDE DEF all, a, b
      <4>1. QED
        BY <3>1
    <3>3. x \in S /\ y \in S
      BY <2>1
    <3> HIDE DEF g, x, y, S, all
    <3>4. d \in Seq(S) /\ Len(d) = 2 /\ d[1] = x /\ d[2] = y
      BY <3>3
    <3> HIDE DEF d
    <3>5. \A i \in 1 .. 2 : i = 1 \/ i = 2
      OBVIOUS
    <3>6. \A i \in 1 .. 2 : g[i] = d[i]
      BY <3>2, <3>4, <3>5
    <3>7. g \in [1 .. 2 -> S]
      <4>1. DOMAIN g = 1 .. 2 /\ \A i \in 1 .. 2 : g[i] \in S
        BY <3>2, <3>3, <3>5
      <4>2. g = [i \in 1 .. 2 |-> g[i]]
        BY <3>2, <4>1
      <4>3. QED
        BY <4>1, <4>2
    <3>8. g \in Seq(S) /\ Len(g) = 2
      <4>1. 2 \in Nat
        OBVIOUS
      <4>2. g \in Seq(S)
        BY <3>7, <4>1, SeqDef
      <4>3. DOMAIN g = 1 .. Len(g) /\ Len(g) \in Nat
        BY <4>2, LenProperties
      <4>4. QED
        BY <3>7, <4>2, <4>3
    <3>9. g = d
      BY <3>4, <3>6, <3>8, SeqEqual
    <3>10. QED
      BY <3>9 DEF g, d
  <2>4. Joined(all) = FlattenSeq(<<x, y>>)
    BY <2>3 DEF Joined
  <2> HIDE DEF x, y
  <2> DEFINE one == <<x>>
  <2>5. one \in Seq(Seq(Tokens)) /\ <<x, y>> = Append(one, y)
    BY <2>1, Pair
  <2>6. FlattenSeq(one) = x
    BY FlattenOfOne
  <2> HIDE DEF one
  <2>7. FlattenSeq(Append(one, y)) = FlattenSeq(one) \o y
    BY <2>1, <2>5, FlattenOfMore
  <2>8. QED
    BY <2>2, <2>4, <2>5, <2>6, <2>7
<1>9. Resolved(path) = path
  BY <1>3, <1>6, <1>7, <1>8
<1>10. QED
  BY <1>2, <1>9 DEF path

\* The rules for a request's own text pass a plain path with a short query.
LEMMA PlainTargetPasses ==
    ASSUME NEW t, NEW top \in {"files", "proxy"}, NEW name \in {"a", "bucket"},
           t.path = <<"/", top, "/", name>>, t.query \in {<< >>, <<"?", "x">>}
    PROVE  /\ IsPlainTarget(t) /\ t.path \in Seq(Tokens) /\ t.query \in Seq(Tokens)
           /\ Free(t.path, Stops \ {"/"}) /\ Begins(t.query, {"?"}) /\ Free(t.query, {"#"})
           /\ t.path # << >> /\ t.path[1] = "/"
<1> DEFINE p == <<"/", top, "/", name>>
           q == t.query
           whole == p \o q
           begin == <<"/", top, "/">>
<1>1. top \in Tokens /\ name \in Tokens /\ "/" \in Tokens /\ top \in Names /\ name \in Names
  BY DEF Names, Tokens
<1>2. /\ p \in Seq(Tokens) /\ Len(p) = 4 /\ p # << >> /\ p[1] = "/"
      /\ \A i \in DOMAIN p : p[i] \in {"/"} \cup Names
  <2>1. p \in Seq(Tokens) /\ Len(p) = 4 /\ DOMAIN p = 1 .. 4 /\ p # << >>
    BY <1>1
  <2>2. p[1] = "/" /\ p[2] = top /\ p[3] = "/" /\ p[4] = name
    OBVIOUS
  <2> HIDE DEF p
  <2>3. \A i \in DOMAIN p : i \in {1, 2, 3, 4}
    BY <2>1
  <2>4. \A i \in DOMAIN p : p[i] \in {"/"} \cup Names
    BY <1>1, <2>2, <2>3
  <2>5. QED
    BY <2>1, <2>2, <2>4
<1>3. /\ q \in Seq(Tokens) /\ Len(q) \in 0 .. 2
      /\ \A i \in DOMAIN q : q[i] \in {"?", "x"}
      /\ Begins(q, {"?"})
  <2>1. "?" \in Tokens /\ "x" \in Tokens
    BY DEF Tokens
  <2>2. CASE q = << >>
    BY <2>2 DEF Begins
  <2>3. CASE q = <<"?", "x">>
    <3> DEFINE d == <<"?", "x">>
    <3>1. d \in Seq(Tokens) /\ Len(d) = 2 /\ DOMAIN d = 1 .. 2 /\ d[1] = "?" /\ d[2] = "x"
      BY <2>1
    <3> HIDE DEF d
    <3>2. \A i \in DOMAIN d : d[i] \in {"?", "x"}
      <4>1. \A i \in DOMAIN d : i = 1 \/ i = 2
        BY <3>1
      <4>2. QED
        BY <3>1, <4>1
    <3>3. q = d
      BY <2>3 DEF d
    <3> HIDE DEF q
    <3>4. QED
      BY <3>1, <3>2, <3>3 DEF Begins
  <2>4. QED
    BY <2>2, <2>3
<1>4. Segments(p) = << <<top>>, <<name>> >>
  BY <1>1, SegmentsOfPlain
<1>5. begin \o <<name>> = p /\ begin \in Seq(Tokens)
  BY <1>1, Quadruple
<1>6. t.path = p
  OBVIOUS
<1> HIDE DEF p, q, begin
<1>7. Free(p, Stops \ {"/"}) /\ Free(q, {"#"})
  BY <1>2, <1>3 DEF Free, Names, Stops
<1>8. is_printable_ascii(whole) /\ ~Holds(whole, {"\\"})
  <2> DEFINE X == {"TAB", "SPACE", "\\"}
  <2>1. Free(p, X) /\ Free(q, X)
    BY <1>2, <1>3 DEF Free, Names
  <2> HIDE DEF X
  <2>2. Free(whole, X)
    BY <1>2, <1>3, <2>1, FreeOfBoth
  <2> HIDE DEF whole
  <2>3. QED
    BY <2>2 DEF is_printable_ascii, Holds, Free, X
<1>9. Len(whole) <= MAX_TARGET_LEN
  <2>1. Len(whole) = Len(p) + Len(q)
    BY <1>2, <1>3, ConcatProperties
  <2> HIDE DEF whole
  <2> DEFINE n == Len(whole)
             m == Len(q)
  <2>2. n = 4 + m /\ m \in 0 .. 2
    BY <1>2, <1>3, <2>1
  <2> HIDE DEF n, m
  <2>3. n <= MAX_TARGET_LEN
    BY <2>2, LengthsAssumption
  <2>4. QED
    BY <2>3 DEF n
<1>10. IsPrefix(begin, p)
  <2>1. <<name>> \in Seq(Tokens)
    BY <1>1
  <2>2. IsPrefix(begin, begin \o <<name>>)
    BY <1>5, <2>1, PrefixOfBoth
  <2>3. QED
    BY <1>5, <2>2
<1>11. path_is_safe(p)
  <2> DEFINE a == <<top>>
             b == <<name>>
             all == <<a, b>>
  <2>1. segment_is_safe(a) /\ segment_is_safe(b)
    <3>1. top \notin {"%2e", "..", "%2e%2e", "\\", "%2f", ";", "%zz"}
      OBVIOUS
    <3>2. name \notin {"%2e", "..", "%2e%2e", "\\", "%2f", ";", "%zz"}
      OBVIOUS
    <3>3. \A i \in DOMAIN a : a[i] = top
      OBVIOUS
    <3>4. \A i \in DOMAIN b : b[i] = name
      OBVIOUS
    <3>5. /\ a # << >> /\ a \notin {<<"%2e">>, <<"..">>, <<"%2e%2e">>}
          /\ b # << >> /\ b \notin {<<"%2e">>, <<"..">>, <<"%2e%2e">>}
      BY <3>1, <3>2
    <3> HIDE DEF a, b
    <3>6. QED
      BY <3>1, <3>2, <3>3, <3>4, <3>5 DEF segment_is_safe, IsDot, IsDotDot
  <2>2. DOMAIN all = 1 .. 2 /\ all[1] = a /\ all[2] = b
    OBVIOUS
  <2> HIDE DEF a, b
  <2>3. \A i \in DOMAIN all : segment_is_safe(all[i])
    <3> HIDE DEF all
    <3>1. \A i \in DOMAIN all : i = 1 \/ i = 2
      BY <2>2
    <3>2. QED
      BY <2>1, <2>2, <3>1
  <2>4. Segments(p) = all
    BY <1>4 DEF a, b
  <2> HIDE DEF all
  <2>5. QED
    BY <1>2, <2>3, <2>4 DEF path_is_safe
<1>12. IsPlainTarget(t)
  BY <1>6, <1>8, <1>9, <1>10, <1>11 DEF IsPlainTarget, q, begin
<1>13. QED
  BY <1>2, <1>3, <1>6, <1>7, <1>12 DEF q

\* Below the origin of a base that startup accepted, such a request is read back
\* as that base and its own path.
LEMMA AcceptedBaseReadsBack ==
    ASSUME NEW b \in Seq(Tokens), validate_internal_base_url(b), NEW t,
           NEW top \in {"files", "proxy"}, NEW name \in {"a", "bucket"},
           t.path = <<"/", top, "/", name>>, t.query \in {<< >>, <<"?", "x">>}
    PROVE  /\ ParsesBack(b, t) /\ IsPlainTarget(t)
           /\ b \o t.path \o t.query # NoTarget
<1> DEFINE u == Parse(b)
           p == t.path
           q == t.query
           rest == p \o q
           text == b \o p \o q
<1>1. /\ Clean(u) /\ b = Origin(u) /\ u # NoUrl
      /\ raw_path_of(b) = << >> /\ b[1] # "https:/"
  BY AcceptedBase
<1>2. /\ IsPlainTarget(t) /\ p \in Seq(Tokens) /\ q \in Seq(Tokens)
      /\ Free(p, Stops \ {"/"}) /\ Begins(q, {"?"}) /\ Free(q, {"#"})
      /\ p # << >> /\ p[1] = "/"
  BY PlainTargetPasses
<1>3. Paths(p) = p /\ Resolved(p) = p
  <2>1. top \in Names /\ name \in Names
    BY DEF Names
  <2>2. QED
    BY <2>1, ResolvedPlain
<1> HIDE DEF u, p, q
<1>4. rest \in Seq(Tokens) /\ rest # << >> /\ rest[1] = "/"
  <2>1. rest \in Seq(Tokens) /\ Len(rest) = Len(p) + Len(q)
        /\ \A i \in 1 .. Len(p) + Len(q) :
             rest[i] = IF i <= Len(p) THEN p[i] ELSE q[i - Len(p)]
    BY <1>2, ConcatProperties
  <2>2. Len(p) \in Nat /\ Len(q) \in Nat /\ Len(p) # 0
    BY <1>2, EmptySeq, LenProperties
  <2> HIDE DEF rest
  <2>3. rest[1] = p[1] /\ Len(rest) # 0
    BY <2>1, <2>2
  <2>4. QED
    BY <1>2, <2>1, <2>3
<1>5. Begins(rest, Stops) /\ Free(rest, {"TAB", "\\"})
  <2>1. Begins(rest, Stops)
    BY <1>4 DEF Begins, Stops
  <2>2. is_printable_ascii(rest) /\ ~Holds(rest, {"\\"})
    BY <1>2 DEF IsPlainTarget, p, q
  <2> HIDE DEF rest
  <2>3. Free(rest, {"TAB", "\\"})
    BY <2>2 DEF is_printable_ascii, Holds, Free
  <2>4. QED
    BY <2>1, <2>3
<1>6. Upto(rest, {"?", "#"}) = p /\ From(rest, {"#"}) = << >>
  <2>1. Free(p, {"?", "#"}) /\ Free(p, {"#"}) /\ Begins(q, {"?", "#"})
    BY <1>2 DEF Free, Begins, Stops
  <2>2. Free(rest, {"#"})
    BY <1>2, <2>1, FreeOfBoth
  <2>3. Upto(rest, {"?", "#"}) = p
    BY <1>2, <2>1, CutAt
  <2> HIDE DEF rest
  <2>4. QED
    BY <1>4, <2>2, <2>3, NotCut
<1>7. text = b \o rest
  <2>1. b \in Seq(Tokens) /\ p \in Seq(Tokens) /\ q \in Seq(Tokens)
    BY <1>2
  <2>2. (b \o p) \o q = b \o (p \o q)
    BY <2>1, ConcatAssociative, SMT
  <2>3. QED
    BY <2>2
<1> HIDE DEF rest
<1>8. /\ Parse(b \o rest) # NoUrl
      /\ Parse(b \o rest).scheme = u.scheme /\ Parse(b \o rest).userinfo = << >>
      /\ Parse(b \o rest).host = u.host /\ Parse(b \o rest).port = u.port
      /\ Parse(b \o rest).path = Resolved(Paths(Upto(rest, {"?", "#"})))
      /\ Parse(b \o rest).fragment = From(rest, {"#"})
  BY <1>1, <1>4, <1>5, OriginReadings
<1>9. text # << >>
  <2>1. Len(b \o rest) = Len(b) + Len(rest)
    BY <1>4, ConcatProperties
  <2>2. Len(b) \in Nat /\ Len(rest) \in Nat /\ Len(rest) # 0
    BY <1>4, EmptySeq, LenProperties
  <2>3. QED
    BY <1>7, <2>1, <2>2
<1> HIDE DEF text
<1>10. Parse(text).path = p /\ Parse(text).fragment = << >>
  BY <1>3, <1>6, <1>7, <1>8
<1>11. KeepsPath(Parse(text), b, t)
  <2>1. TrimSlashes(<< >>) = << >>
    <3>1. << >> \in Seq(Tokens)
      OBVIOUS
    <3>2. QED
      BY <3>1, NoSlashesLast
  <2>2. << >> \o p = p
    BY <1>2, ConcatEmptySeq
  <2>3. Parse(text).path = TrimSlashes(raw_path_of(b)) \o p
    BY <1>1, <1>10, <2>1, <2>2
  <2>4. QED
    BY <2>3 DEF KeepsPath, p
<1>12. ParsesBack(b, t)
  <2>1. /\ u # NoUrl /\ Parse(text) # NoUrl /\ b[1] # "https:/"
        /\ Parse(text).scheme = u.scheme /\ Parse(text).host = u.host
        /\ Parse(text).port = u.port
        /\ Parse(text).userinfo = << >> /\ Parse(text).fragment = << >>
    BY <1>1, <1>7, <1>8, <1>10
  <2>2. QED
    BY <1>11, <2>1 DEF ParsesBack, text, u, p, q
<1>13. QED
  BY <1>2, <1>9, <1>12 DEF NoTarget, text, p, q

\* In redirect mode an internal caller that asks for a plain path under /files/
\* or /proxy/ gets its redirect, whatever base startup let through: the checks
\* of config.rs and those of media_target.rs do not contradict each other.
THEOREM AcceptedBaseServesHolds == Spec => []AcceptedBaseServes
<1>1. MediaInv => AcceptedBaseServes
  <2>1. SUFFICES ASSUME MediaInv, phase = "answered", referer, mode = "redirect",
                        NEW top \in {"files", "proxy"}, NEW name \in {"a", "bucket"},
                        target.path = <<"/", top, "/", name>>,
                        target.query \in {<< >>, <<"?", "x">>}
                 PROVE  answer.status = 302
    BY DEF AcceptedBaseServes
  <2>2. base \in Seq(Tokens) /\ answer = Outcome(internal_location(base, target))
    BY <2>1 DEF MediaInv, SetUp, Answered
  <2>3. validate_internal_base_url(base)
    BY <2>1 DEF MediaInv, Served, Usable
  <2>4. /\ ParsesBack(base, target) /\ IsPlainTarget(target)
        /\ base \o target.path \o target.query # NoTarget
    BY <2>1, <2>2, <2>3, AcceptedBaseReadsBack
  <2>5. internal_location(base, target) # NoTarget
    BY <2>4 DEF internal_location
  <2>6. QED
    BY <2>2, <2>5 DEF Outcome
<1>2. QED
  BY <1>1, MediaInvHolds, PTL

=============================================================================
