--------------------------- MODULE LandingProofs ---------------------------
(***************************************************************************)
(* Proofs about Landing, for any number of requests, versions and days.    *)
(***************************************************************************)
EXTENDS Landing, TLAPS

\* What an operator who never overwrites leaves behind: every file that was
\* ever under the name is one version, and stays it.
FilesAreWhole ==
    /\ content \in Seq(Nat \X Nat) /\ Len(content) <= MaxVersion
    /\ \A i \in 1 .. Len(content) : content[i] = Whole(i)
    /\ path \in 0 .. Len(content)

\* A handler that reads has a file open and the first part of it.
ReadsOneFile(r) ==
    /\ phase[r] \in {"idle", "asked", "reading", "read"}
    /\ phase[r] = "asked" => body[r] = << >>
    /\ phase[r] = "idle" => body[r] = << >>
    /\ phase[r] = "reading" =>
          /\ handle[r] \in 1 .. Len(content)
          /\ body[r] \in {<< >>, <<handle[r]>>, Whole(handle[r])}
    /\ phase[r] = "read" => \E v \in Versions : body[r] = Whole(v)

Tables ==
    /\ phase = [r \in Readers |-> phase[r]]
    /\ handle = [r \in Readers |-> handle[r]]
    /\ body = [r \in Readers |-> body[r]]
    /\ given = [r \in Readers |-> given[r]]

StoreIsWhole ==
    store # Nobody => \E v \in Versions : store.body = Whole(v)

Inv ==
    ~inplace =>
        /\ Tables
        /\ FilesAreWhole
        /\ \A r \in Readers : ReadsOneFile(r)
        /\ StoreIsWhole
        /\ OneVersionPerAnswer

-----------------------------------------------------------------------------

LEMMA BundledIsWhole == 0 \in Versions /\ Bundled = Whole(0)
  BY LandingAssumption DEF Versions, Bundled

LEMMA InitInv == LandingInit => Inv
  BY LandingAssumption
  DEF LandingInit, Inv, Tables, FilesAreWhole, ReadsOneFile, StoreIsWhole,
      OneVersionPerAnswer, Got, Versions

\* What one more read makes of what has been read.
LEMMA PairOfElements ==
    ASSUME NEW S, NEW s \in Seq(S), Len(s) = 2 PROVE s = <<s[1], s[2]>>
  OBVIOUS

LEMMA NextHalf ==
    ASSUME NEW h \in Nat
    PROVE  /\ Append(<< >>, h) = <<h>>
           /\ Append(<<h>>, h) = Whole(h)
           /\ Len(<< >>) = 0 /\ Len(<<h>>) = 1 /\ Len(Whole(h)) = 2
<1> DEFINE s == Append(<<h>>, h)
<1>1. <<h>> \in Seq(Nat) /\ Len(<<h>>) = 1 /\ <<h>>[1] = h
  OBVIOUS
<1>2. s \in Seq(Nat) /\ Len(s) = 2 /\ s[1] = h /\ s[2] = h
  BY <1>1
<1>3. s = Whole(h)
  <2> HIDE DEF s
  <2> QED
    BY <1>2, PairOfElements DEF Whole
<1> QED
  BY <1>1, <1>3 DEF Whole

\* The operator.
LEMMA PutInPlaceOfInv == ASSUME Inv, PutInPlaceOf PROVE Inv'
<1> SUFFICES ASSUME ~inplace PROVE Inv'
  BY DEF Inv, PutInPlaceOf, Disk
<1> DEFINE n == Len(content) + 1
<1> USE LandingAssumption DEF PutInPlaceOf, Disk, Inv
<1>1. content' = Append(content, Whole(n)) /\ path' = n /\ n <= MaxVersion
  BY DEF FilesAreWhole
<1>2. FilesAreWhole'
  <2>1. content' \in Seq(Nat \X Nat) /\ Len(content') = n
    BY <1>1 DEF FilesAreWhole, Whole
  <2>2. \A i \in 1 .. n : content'[i] = Whole(i)
    BY <1>1 DEF FilesAreWhole, Whole
  <2> QED
    BY <1>1, <2>1, <2>2 DEF FilesAreWhole
<1>3. Len(content') = Len(content) + 1
  BY <1>1 DEF FilesAreWhole, Whole
<1>4. \A r \in Readers : ReadsOneFile(r)'
  BY <1>3 DEF ReadsOneFile, FilesAreWhole
<1> QED
  BY <1>2, <1>4 DEF Tables, StoreIsWhole, OneVersionPerAnswer, Got

LEMMA RemoveFileInv == ASSUME Inv, RemoveFile PROVE Inv'
<1> SUFFICES ASSUME ~inplace PROVE Inv'
  BY DEF Inv, RemoveFile, Disk
<1> QED
  BY DEF RemoveFile, Disk, Inv, Tables, FilesAreWhole, ReadsOneFile,
         StoreIsWhole, OneVersionPerAnswer, Got

LEMMA InplaceOnly == ASSUME Inv, Truncate \/ WriteOn PROVE Inv'
  BY DEF Truncate, WriteOn, Disk, Inv

LEMMA NextDayInv == ASSUME Inv, NextDay PROVE Inv'
  BY DEF NextDay, Inv, Tables, FilesAreWhole, ReadsOneFile, StoreIsWhole,
         OneVersionPerAnswer, Got

-----------------------------------------------------------------------------

LEMMA AskCacheInv == ASSUME Inv, NEW r \in Readers, AskCache(r) PROVE Inv'
<1> SUFFICES ASSUME ~inplace PROVE Inv'
  BY DEF Inv, AskCache
<1> USE DEF AskCache, Inv, disk
<1>1. \E v \in Versions : store.body = Whole(v)
  BY DEF Fresh, StoreIsWhole
<1>2. FilesAreWhole' /\ StoreIsWhole'
  BY DEF FilesAreWhole, StoreIsWhole
<1>3. Tables' /\ \A x \in Readers : ReadsOneFile(x)'
  BY DEF Tables, ReadsOneFile
<1>4. OneVersionPerAnswer'
  BY <1>1 DEF OneVersionPerAnswer, Got, Tables
<1> QED
  BY <1>2, <1>3, <1>4

LEMMA AskProxyInv == ASSUME Inv, NEW r \in Readers, AskProxy(r) PROVE Inv'
<1> SUFFICES ASSUME ~inplace PROVE Inv'
  BY DEF Inv, AskProxy
<1> QED
  BY DEF AskProxy, Inv, disk, Tables, FilesAreWhole, ReadsOneFile,
         StoreIsWhole, OneVersionPerAnswer, Got

LEMMA OpenInv == ASSUME Inv, NEW r \in Readers, Open(r) PROVE Inv'
<1> SUFFICES ASSUME ~inplace PROVE Inv'
  BY DEF Inv, Open
<1> USE DEF Open, HasRead, Inv, disk
<1>1. FilesAreWhole' /\ StoreIsWhole' /\ OneVersionPerAnswer'
  BY DEF FilesAreWhole, StoreIsWhole, OneVersionPerAnswer, Got
<1>2. Tables'
  BY DEF Tables
<1>3. \A x \in Readers : ReadsOneFile(x)'
  BY BundledIsWhole DEF Tables, ReadsOneFile, FilesAreWhole
<1> QED
  BY <1>1, <1>2, <1>3

LEMMA ReadInv == ASSUME Inv, NEW r \in Readers, Read(r) PROVE Inv'
<1> SUFFICES ASSUME ~inplace PROVE Inv'
  BY DEF Inv, Read
<1> DEFINE h == handle[r]
<1>0. ReadsOneFile(r) /\ FilesAreWhole /\ phase[r] = "reading"
  BY DEF Read, Inv
<1>1. /\ h \in 1 .. Len(content) /\ content[h] = Whole(h)
      /\ body[r] \in {<< >>, <<h>>, Whole(h)} /\ h \in Versions
  <2>1. /\ h \in 1 .. Len(content) /\ content[h] = Whole(h)
        /\ body[r] \in {<< >>, <<h>>, Whole(h)}
    BY <1>0 DEF ReadsOneFile, FilesAreWhole
  <2>2. Len(content) \in Nat /\ Len(content) <= MaxVersion
    BY <1>0 DEF FilesAreWhole
  <2>3. h \in Versions
    BY <2>1, <2>2, LandingAssumption DEF Versions
  <2> QED
    BY <2>1, <2>3
<1> USE DEF Read, Inv, disk
<1>2. FilesAreWhole' /\ StoreIsWhole' /\ OneVersionPerAnswer'
  BY DEF FilesAreWhole, StoreIsWhole, OneVersionPerAnswer, Got, HasRead
<1>3. Tables'
  BY DEF Tables, HasRead
<1>4. ReadsOneFile(r)'
  <2>1. CASE Len(body[r]) < Len(Source(r))
    <3>1. body[r] \in {<< >>, <<h>>} /\ h \in Nat
      BY <1>1, <2>1, NextHalf DEF Source
    <3>2. body'[r] = Append(body[r], content[h][Len(body[r]) + 1])
      BY <2>1 DEF Source, Tables
    <3>3. content[h][1] = h /\ content[h][2] = h
      BY <1>1 DEF Whole
    <3>4. body'[r] \in {<<h>>, Whole(h)}
      <4>1. CASE body[r] = << >>
        BY <4>1, <3>1, <3>2, <3>3, NextHalf
      <4>2. CASE body[r] = <<h>>
        BY <4>2, <3>1, <3>2, <3>3, NextHalf
      <4> QED
        BY <3>1, <4>1, <4>2
    <3> QED
      BY <1>1, <2>1, <3>4 DEF ReadsOneFile
  <2>2. CASE ~(Len(body[r]) < Len(Source(r)))
    <3>1. body[r] = Whole(h)
      BY <1>1, <2>2, NextHalf DEF Source
    <3> QED
      BY <1>1, <2>2, <3>1 DEF ReadsOneFile, HasRead, Tables
  <2> QED
    BY <2>1, <2>2
<1>5. \A x \in Readers \ {r} : ReadsOneFile(x)'
  BY DEF Tables, ReadsOneFile, HasRead
<1> QED
  BY <1>2, <1>3, <1>4, <1>5

LEMMA ReadFailsInv == ASSUME Inv, NEW r \in Readers, ReadFails(r) PROVE Inv'
<1> SUFFICES ASSUME ~inplace PROVE Inv'
  BY DEF Inv, ReadFails
<1> USE DEF ReadFails, HasRead, Inv
<1>1. FilesAreWhole' /\ StoreIsWhole' /\ OneVersionPerAnswer'
  BY DEF FilesAreWhole, StoreIsWhole, OneVersionPerAnswer, Got
<1>2. Tables' /\ \A x \in Readers : ReadsOneFile(x)'
  BY BundledIsWhole DEF Tables, ReadsOneFile
<1> QED
  BY <1>1, <1>2

LEMMA ServeInv == ASSUME Inv, NEW r \in Readers, Serve(r) PROVE Inv'
<1> SUFFICES ASSUME ~inplace PROVE Inv'
  BY DEF Inv, Serve
<1> USE DEF Serve, Inv, disk
<1>1. \E v \in Versions : body[r] = Whole(v)
  BY DEF ReadsOneFile
<1>2. FilesAreWhole'
  BY DEF FilesAreWhole
<1>3. Tables' /\ \A x \in Readers : ReadsOneFile(x)'
  BY DEF Tables, ReadsOneFile
<1>4. StoreIsWhole' /\ OneVersionPerAnswer'
  BY <1>1 DEF StoreIsWhole, OneVersionPerAnswer, Got, Tables
<1> QED
  BY <1>2, <1>3, <1>4

-----------------------------------------------------------------------------

LEMMA NextInv == ASSUME Inv, [LandingNext]_landingVars PROVE Inv'
<1>1. CASE Operator
  BY <1>1, PutInPlaceOfInv, RemoveFileInv, InplaceOnly DEF Operator
<1>2. CASE NextDay
  BY <1>2, NextDayInv
<1>3. CASE \E r \in Readers : AskCache(r) \/ AskProxy(r) \/ Handler(r)
  BY <1>3, AskCacheInv, AskProxyInv, OpenInv, ReadInv, ReadFailsInv, ServeInv
     DEF Handler
<1>4. CASE UNCHANGED landingVars
  BY <1>4 DEF landingVars, disk, Inv, Tables, FilesAreWhole, ReadsOneFile,
              StoreIsWhole, OneVersionPerAnswer, Got
<1> QED
  BY <1>1, <1>2, <1>3, <1>4 DEF LandingNext

\* An answer is one version, however many requests and replacements
\* interleave, as long as the operator never writes into a file in place
\* (read_override reads what it has opened, or takes the bundled copy).
THEOREM WholeFilesAreServed == LandingSpec => []OneVersionPerAnswer
<1>1. Inv => OneVersionPerAnswer
  BY DEF Inv, OneVersionPerAnswer
<1> QED
  BY <1>1, InitInv, NextInv, PTL DEF LandingSpec

-----------------------------------------------------------------------------
(* When what was read was there: for any operator, overwriting or not *)

Halves == {1, 2} \X Versions
Texts == {t \in Seq(Versions) : Len(t) <= 2}

\* A half that a read could yield on that day or later.
Since(h, day) == found[h] \in Nat /\ day <= found[h]

DiskTypes ==
    /\ content \in Seq(Texts) /\ Len(content) <= MaxVersion
    /\ path \in 0 .. Len(content)
    /\ today \in Nat
    /\ found = [h \in Halves |-> found[h]]
    /\ \A h \in Halves : found[h] = Nobody \/ found[h] \in 0 .. today

RequestTables ==
    /\ Tables
    /\ asked = [r \in Readers |-> asked[r]]
    /\ since = [r \in Readers |-> since[r]]

\* What is there now is noted as of today.
NotedNow == \A h \in Current : found[h] = today

\* A request knows all it can come to read, and when that was there.
Dated(r) ==
    /\ phase[r] \in {"idle", "asked", "reading", "read"}
    /\ asked[r] \in 0 .. today
    /\ since[r] \subseteq Halves /\ \A h \in since[r] : Since(h, asked[r])
    /\ body[r] \in Seq(Versions) /\ HalvesOf(body[r]) \subseteq since[r]
    /\ phase[r] \in {"idle", "asked"} => body[r] = << >>
    /\ phase[r] = "asked" => Current \subseteq since[r]
    /\ phase[r] = "reading" =>
          /\ handle[r] \in 1 .. Len(content)
          /\ HalvesOf(content[handle[r]]) \subseteq since[r]
    /\ Got(r) => \A h \in HalvesOf(given[r]) :
          h \in Halves /\ found[h] \in Nat /\ asked[r] < found[h] + Week
    /\ Got(r) /\ file = "index.html" => HalvesOf(given[r]) \subseteq since[r]

StoreDated ==
    store # Nobody =>
        /\ store.day \in 0 .. today
        /\ \A h \in HalvesOf(store.body) : h \in Halves /\ Since(h, store.day)

Dating ==
    /\ DiskTypes /\ RequestTables /\ NotedNow
    /\ \A r \in Readers : Dated(r)
    /\ StoreDated

-----------------------------------------------------------------------------
(* Texts and their halves *)

LEMMA HalvesOfText ==
    ASSUME NEW t \in Texts
    PROVE  HalvesOf(t) \subseteq Halves
<1> SUFFICES ASSUME NEW i \in DOMAIN t PROVE <<i, t[i]>> \in Halves
  BY DEF HalvesOf
<1>1. t \in Seq(Versions) /\ Len(t) \in Nat /\ Len(t) <= 2 /\ i \in 1 .. Len(t)
  BY DEF Texts
<1>2. i \in {1, 2} /\ t[i] \in Versions
  BY <1>1
<1> QED
  BY <1>2 DEF Halves

LEMMA HalvesOfNothing == HalvesOf(<< >>) = {}
  BY DEF HalvesOf

LEMMA HalvesOfMore ==
    ASSUME NEW t \in Seq(Versions), NEW v \in Versions
    PROVE  /\ HalvesOf(Append(t, v)) = HalvesOf(t) \cup {<<Len(t) + 1, v>>}
           /\ Append(t, v) \in Seq(Versions)
           /\ Len(Append(t, v)) = Len(t) + 1
<1> DEFINE s == Append(t, v)
<1>1. /\ s \in Seq(Versions) /\ Len(s) = Len(t) + 1 /\ s[Len(t) + 1] = v
      /\ \A i \in 1 .. Len(t) : s[i] = t[i]
      /\ DOMAIN t = 1 .. Len(t) /\ DOMAIN s = 1 .. Len(t) + 1 /\ Len(t) \in Nat
  OBVIOUS
<1> HIDE DEF s
<1>2. DOMAIN s = DOMAIN t \cup {Len(t) + 1}
  BY <1>1
<1>3. HalvesOf(s) = HalvesOf(t) \cup {<<Len(t) + 1, v>>}
  BY <1>1, <1>2 DEF HalvesOf
<1> QED
  BY <1>1, <1>3 DEF s

LEMMA WholeIsText ==
    ASSUME NEW v \in Versions
    PROVE  Whole(v) \in Texts
  BY DEF Whole, Texts

LEMMA BundledText == Bundled \in Texts /\ << >> \in Texts
  BY BundledIsWhole, WholeIsText DEF Texts

LEMMA CurrentIsHalves ==
    ASSUME DiskTypes
    PROVE  Current \subseteq Halves
<1>1. CASE path = 0
  BY <1>1, BundledText, HalvesOfText DEF Current
<1>2. CASE path # 0
  <2>1. content[path] \in Texts
    BY <1>2 DEF DiskTypes
  <2> QED
    BY <1>2, <2>1, HalvesOfText DEF Current
<1> QED
  BY <1>1, <1>2

-----------------------------------------------------------------------------
(* What noting does *)

LEMMA NotedGrows ==
    ASSUME DiskTypes, RequestTables, NEW halves \in SUBSET Halves,
           NEW day \in {today, today + 1}, Noted(halves, day)
    PROVE  /\ found' = [h \in Halves |-> found'[h]]
           /\ \A h \in halves : found'[h] = day
           /\ \A h \in Halves : found'[h] = Nobody \/ found'[h] \in 0 .. day
           /\ \A h \in Halves : found[h] \in Nat =>
                 found'[h] \in Nat /\ found[h] <= found'[h]
           /\ since' = [r \in Readers |-> since'[r]]
           /\ \A r \in Readers : since'[r] =
                 IF phase[r] = "idle" THEN since[r] ELSE since[r] \cup halves
<1>1. DOMAIN found = Halves
  BY DEF DiskTypes
<1>2. found' = [h \in Halves |-> IF h \in halves THEN day ELSE found[h]]
  BY <1>1 DEF Noted
<1>3. \A h \in Halves : found'[h] = IF h \in halves THEN day ELSE found[h]
  BY <1>2
<1>4. day \in Nat /\ today \in Nat /\ today <= day
  BY DEF DiskTypes
<1>5. \A h \in Halves : found[h] = Nobody \/ found[h] \in 0 .. today
  BY DEF DiskTypes
<1>6. \A h \in Halves : found'[h] = Nobody \/ found'[h] \in 0 .. day
  BY <1>3, <1>4, <1>5
<1>7. \A h \in Halves : found[h] \in Nat =>
         found'[h] \in Nat /\ found[h] <= found'[h]
  BY <1>3, <1>4, <1>5, LandingAssumption
<1>8. \A r \in Readers : since'[r] =
         IF phase[r] = "idle" THEN since[r] ELSE since[r] \cup halves
  BY DEF Noted
<1>9. since' = [r \in Readers |-> since'[r]]
  BY DEF Noted
<1> QED
  BY <1>2, <1>3, <1>6, <1>7, <1>8, <1>9

\* A request that only waits while something is noted stays dated.
LEMMA WaitingStaysDated ==
    ASSUME DiskTypes, RequestTables, NEW r \in Readers, Dated(r),
           NEW halves \in SUBSET Halves, NEW day \in {today, today + 1},
           Noted(halves, day), today' = day,
           phase'[r] = phase[r], handle'[r] = handle[r], body'[r] = body[r],
           asked'[r] = asked[r], given'[r] = given[r], file' = file,
           Current' \subseteq halves \/ Current' = Current,
           Len(content) <= Len(content'), Len(content') \in Nat,
           \A i \in 1 .. Len(content) :
               \/ content'[i] = content[i]
               \/ HalvesOf(content'[i]) \subseteq halves
    PROVE  Dated(r)'
<1>1. /\ \A h \in halves : found'[h] = day
      /\ \A h \in Halves : found[h] \in Nat =>
            found'[h] \in Nat /\ found[h] <= found'[h]
      /\ since'[r] =
            IF phase[r] = "idle" THEN since[r] ELSE since[r] \cup halves
  BY NotedGrows
<1>2. /\ day \in Nat /\ today \in Nat /\ today <= day
      /\ asked[r] \in 0 .. today /\ asked'[r] \in 0 .. today'
      /\ Len(content) \in Nat
  BY DEF DiskTypes, Dated
<1>3. since'[r] \subseteq Halves /\ since[r] \subseteq since'[r]
  BY <1>1 DEF Dated
<1>4. \A h \in since'[r] : Since(h, asked[r])'
  <2> TAKE h \in since'[r]
  <2>1. CASE h \in halves
    <3>1. found'[h] = day
      BY <1>1, <2>1
    <3> QED
      BY <1>2, <3>1 DEF Since
  <2>2. CASE h \in since[r]
    <3>1. h \in Halves /\ found[h] \in Nat /\ asked[r] <= found[h]
      BY <2>2 DEF Dated, Since
    <3>2. found'[h] \in Nat /\ found[h] <= found'[h]
      BY <1>1, <3>1
    <3> QED
      BY <1>2, <3>1, <3>2 DEF Since
  <2> QED
    BY <1>1, <2>1, <2>2
<1>5. phase[r] = "asked" => Current' \subseteq since'[r]
  BY <1>1, <1>3 DEF Dated
<1>6. phase[r] = "reading" =>
         /\ handle[r] \in 1 .. Len(content')
         /\ HalvesOf(content'[handle[r]]) \subseteq since'[r]
  BY <1>1, <1>2, <1>3 DEF Dated
<1>7. Got(r) => \A h \in HalvesOf(given[r]) :
         h \in Halves /\ found'[h] \in Nat /\ asked[r] < found'[h] + Week
  <2> SUFFICES ASSUME Got(r), NEW h \in HalvesOf(given[r])
               PROVE  /\ h \in Halves /\ found'[h] \in Nat
                      /\ asked[r] < found'[h] + Week
    OBVIOUS
  <2>1. h \in Halves /\ found[h] \in Nat /\ asked[r] < found[h] + Week
    BY DEF Dated
  <2>2. found'[h] \in Nat /\ found[h] <= found'[h]
    BY <1>1, <2>1
  <2> QED
    BY <1>2, <2>1, <2>2, LandingAssumption
<1>8. body'[r] \in Seq(Versions) /\ HalvesOf(body'[r]) \subseteq since'[r]
  BY <1>3 DEF Dated
<1>9. Got(r)' <=> Got(r)
  BY DEF Got
<1>10. Got(r) /\ file = "index.html" => HalvesOf(given[r]) \subseteq since'[r]
  BY <1>3 DEF Dated
<1>11. phase[r] \in {"idle", "asked", "reading", "read"}
       /\ (phase[r] \in {"idle", "asked"} => body[r] = << >>)
  BY DEF Dated
<1> QED
  BY <1>2, <1>3, <1>4, <1>5, <1>6, <1>7, <1>8, <1>9, <1>10, <1>11 DEF Dated

LEMMA StoreStaysDated ==
    ASSUME DiskTypes, RequestTables, StoreDated,
           NEW halves \in SUBSET Halves, NEW day \in {today, today + 1},
           Noted(halves, day), today' = day, store' = store
    PROVE  StoreDated'
<1> SUFFICES ASSUME store # Nobody
             PROVE  /\ store.day \in 0 .. day
                    /\ \A h \in HalvesOf(store.body) :
                          h \in Halves /\ Since(h, store.day)'
  BY DEF StoreDated, Since
<1>1. \A h \in Halves : found[h] \in Nat =>
         found'[h] \in Nat /\ found[h] <= found'[h]
  BY NotedGrows
<1>2. today \in Nat /\ day \in Nat /\ today <= day
  BY DEF DiskTypes
<1>3. store.day \in 0 .. today
  BY DEF StoreDated
<1>4. ASSUME NEW h \in HalvesOf(store.body)
      PROVE  h \in Halves /\ Since(h, store.day)'
  <2>1. h \in Halves /\ found[h] \in Nat /\ store.day <= found[h]
    BY <1>4 DEF StoreDated, Since
  <2>2. found'[h] \in Nat /\ found[h] <= found'[h]
    BY <1>1, <2>1
  <2> QED
    BY <1>3, <2>1, <2>2 DEF Since
<1> QED
  BY <1>2, <1>3, <1>4

-----------------------------------------------------------------------------
(* The operator, and the days *)

LEMMA DiskDating ==
    ASSUME Dating, NEW nc \in Seq(Texts), NEW np \in 0 .. Len(nc),
           Len(nc) <= MaxVersion, Len(content) <= Len(nc),
           \A i \in 1 .. Len(content) : nc[i] = content[i] \/ i = np,
           Disk(nc, np)
    PROVE  Dating'
<1>1. /\ content' = nc /\ path' = np /\ Noted(Current', today)
      /\ file' = file /\ today' = today /\ phase' = phase /\ handle' = handle
      /\ body' = body /\ asked' = asked /\ given' = given /\ store' = store
  BY DEF Disk
<1>2. PICK halves : halves = Current'
  OBVIOUS
<1>3. halves = HalvesOf(IF np = 0 THEN Bundled ELSE nc[np])
  BY <1>1, <1>2 DEF Current
<1>4. halves \in SUBSET Halves
  <2>1. (IF np = 0 THEN Bundled ELSE nc[np]) \in Texts
    BY BundledText
  <2> QED
    BY <1>3, <2>1, HalvesOfText
<1>5. Noted(halves, today) /\ today \in {today, today + 1}
  BY <1>1, <1>2
<1>6. DiskTypes /\ RequestTables
  BY DEF Dating
<1>7. /\ found' = [h \in Halves |-> found'[h]]
      /\ \A h \in halves : found'[h] = today
      /\ \A h \in Halves : found'[h] = Nobody \/ found'[h] \in 0 .. today
      /\ since' = [r \in Readers |-> since'[r]]
  BY <1>4, <1>5, <1>6, NotedGrows
<1>8. DiskTypes'
  BY <1>1, <1>6, <1>7 DEF DiskTypes
<1>9. RequestTables'
  BY <1>1, <1>6, <1>7 DEF RequestTables, Tables
<1>10. NotedNow'
  BY <1>1, <1>2, <1>7 DEF NotedNow
<1>11. StoreDated'
  BY <1>1, <1>4, <1>5, <1>6, StoreStaysDated DEF Dating
<1>12. \A i \in 1 .. Len(content) :
          content'[i] = content[i] \/ HalvesOf(content'[i]) \subseteq halves
  <2> TAKE i \in 1 .. Len(content)
  <2>1. CASE i = np
    <3>1. np # 0
      BY <2>1
    <3> QED
      BY <1>1, <1>3, <2>1, <3>1
  <2>2. CASE i # np
    BY <1>1, <2>2
  <2> QED
    BY <2>1, <2>2
<1>13. Len(content) <= Len(content') /\ Len(content') \in Nat
  BY <1>1
<1>14. ASSUME NEW r \in Readers PROVE Dated(r)'
  <2>1. Dated(r)
    BY DEF Dating
  <2>2. Current' \subseteq halves
    BY <1>2
  <2> QED
    BY <1>1, <1>4, <1>5, <1>6, <1>12, <1>13, <2>1, <2>2, WaitingStaysDated
<1> QED
  BY <1>8, <1>9, <1>10, <1>11, <1>14 DEF Dating

LEMMA PutInPlaceOfDating == ASSUME Dating, PutInPlaceOf PROVE Dating'
<1> DEFINE n == Len(content) + 1
           nc == Append(content, Whole(n))
<1>1. /\ content \in Seq(Texts) /\ Len(content) \in Nat
      /\ Len(content) < MaxVersion /\ Disk(nc, n)
  BY DEF Dating, DiskTypes, PutInPlaceOf
<1>2. Whole(n) \in Texts
  BY <1>1, WholeIsText, LandingAssumption DEF Versions
<1>3. /\ nc \in Seq(Texts) /\ Len(nc) = n
      /\ \A i \in 1 .. Len(content) : nc[i] = content[i]
  BY <1>1, <1>2
<1> HIDE DEF nc
<1>4. n \in 0 .. Len(nc) /\ Len(nc) <= MaxVersion /\ Len(content) <= Len(nc)
  BY <1>1, <1>3, LandingAssumption
<1> QED
  BY <1>1, <1>3, <1>4, DiskDating

LEMMA TruncateDating == ASSUME Dating, Truncate PROVE Dating'
<1> DEFINE more == Append(content, << >>)
           nc == [more EXCEPT ![path] = << >>]
<1>1. /\ content \in Seq(Texts) /\ Len(content) \in Nat
      /\ Len(content) < MaxVersion /\ path \in 1 .. Len(content)
      /\ Disk(nc, path)
  BY DEF Dating, DiskTypes, Truncate
<1>2. /\ more \in Seq(Texts) /\ Len(more) = Len(content) + 1
      /\ \A i \in 1 .. Len(content) : more[i] = content[i]
  BY <1>1, BundledText
<1> HIDE DEF more
<1>3. /\ nc \in Seq(Texts) /\ Len(nc) = Len(content) + 1
      /\ \A i \in 1 .. Len(content) : nc[i] = content[i] \/ i = path
  BY <1>1, <1>2, BundledText
<1> HIDE DEF nc
<1>4. path \in 0 .. Len(nc) /\ Len(nc) <= MaxVersion /\ Len(content) <= Len(nc)
  BY <1>1, <1>3, LandingAssumption
<1> QED
  BY <1>1, <1>3, <1>4, DiskDating

LEMMA WriteOnDating == ASSUME Dating, WriteOn PROVE Dating'
<1> DEFINE text == Append(content[path], Len(content))
           nc == [content EXCEPT ![path] = text]
<1>1. /\ content \in Seq(Texts) /\ Len(content) \in Nat
      /\ Len(content) <= MaxVersion /\ path \in 1 .. Len(content)
      /\ Len(content[path]) < 2 /\ Disk(nc, path)
  BY DEF Dating, DiskTypes, WriteOn
<1>2. content[path] \in Seq(Versions) /\ Len(content) \in Versions
  BY <1>1, LandingAssumption DEF Texts, Versions
<1>3. text \in Seq(Versions) /\ Len(text) = Len(content[path]) + 1
  BY <1>2, HalvesOfMore
<1>4. text \in Texts
  <2>1. Len(content[path]) \in Nat
    BY <1>2
  <2> HIDE DEF text
  <2> QED
    BY <1>1, <1>3, <2>1 DEF Texts
<1> HIDE DEF text
<1>5. /\ nc \in Seq(Texts) /\ Len(nc) = Len(content)
      /\ \A i \in 1 .. Len(content) : nc[i] = content[i] \/ i = path
  BY <1>1, <1>4
<1> HIDE DEF nc
<1>6. path \in 0 .. Len(nc) /\ Len(nc) <= MaxVersion /\ Len(content) <= Len(nc)
  BY <1>1, <1>5, LandingAssumption
<1> QED
  BY <1>1, <1>5, <1>6, DiskDating

LEMMA RemoveFileDating == ASSUME Dating, RemoveFile PROVE Dating'
<1>1. /\ content \in Seq(Texts) /\ Len(content) \in Nat
      /\ Len(content) <= MaxVersion /\ Disk(content, 0)
  BY DEF Dating, DiskTypes, RemoveFile
<1>2. 0 \in 0 .. Len(content) /\ Len(content) <= Len(content)
  BY <1>1
<1> QED
  BY <1>1, <1>2, DiskDating

LEMMA NextDayDating == ASSUME Dating, NextDay PROVE Dating'
<1>1. /\ today' = today + 1 /\ Noted(Current, today + 1)
      /\ content' = content /\ path' = path
      /\ file' = file /\ phase' = phase /\ handle' = handle
      /\ body' = body /\ asked' = asked /\ given' = given /\ store' = store
  BY DEF NextDay
<1>2. DiskTypes /\ RequestTables /\ Current' = Current
  BY <1>1 DEF Dating, Current
<1>3. PICK day : day = today + 1
  OBVIOUS
<1>4. /\ Current \in SUBSET Halves /\ day \in {today, today + 1}
      /\ Noted(Current, day) /\ today' = day
  BY <1>1, <1>2, <1>3, CurrentIsHalves
<1>5. /\ found' = [h \in Halves |-> found'[h]]
      /\ \A h \in Current : found'[h] = day
      /\ \A h \in Halves : found'[h] = Nobody \/ found'[h] \in 0 .. day
      /\ since' = [r \in Readers |-> since'[r]]
  BY <1>2, <1>4, NotedGrows
<1>6. DiskTypes'
  BY <1>1, <1>2, <1>4, <1>5 DEF DiskTypes
<1>7. RequestTables'
  BY <1>1, <1>2, <1>5 DEF RequestTables, Tables
<1>8. NotedNow'
  BY <1>2, <1>4, <1>5 DEF NotedNow
<1>9. StoreDated'
  BY <1>1, <1>2, <1>4, StoreStaysDated DEF Dating
<1>10. ASSUME NEW r \in Readers PROVE Dated(r)'
  <2>1. Dated(r)
    BY DEF Dating
  <2>2. Len(content) \in Nat /\ Len(content) <= Len(content')
    BY <1>1, <1>2 DEF DiskTypes
  <2> QED
    BY <1>1, <1>2, <1>4, <2>1, <2>2, WaitingStaysDated
<1> QED
  BY <1>6, <1>7, <1>8, <1>9, <1>10 DEF Dating

-----------------------------------------------------------------------------
(* The requests *)

LEMMA UntouchedStaysDated ==
    ASSUME NEW r, Dated(r), UNCHANGED <<file, content, path, today, found>>,
           phase'[r] = phase[r], handle'[r] = handle[r], body'[r] = body[r],
           asked'[r] = asked[r], given'[r] = given[r], since'[r] = since[r]
    PROVE  Dated(r)'
<1>1. Current' = Current /\ (Got(r)' <=> Got(r))
      /\ \A h, d : Since(h, d)' <=> Since(h, d)
  BY DEF Current, Got, Since
<1> QED
  BY <1>1 DEF Dated

LEMMA DiskUntouched ==
    ASSUME DiskTypes, NotedNow, UNCHANGED <<content, path, today, found>>
    PROVE  DiskTypes' /\ NotedNow'
<1>1. Current' = Current
  BY DEF Current
<1> QED
  BY <1>1 DEF DiskTypes, NotedNow

LEMMA StoreUntouched ==
    ASSUME StoreDated, UNCHANGED <<today, found, store>>
    PROVE  StoreDated'
  BY DEF StoreDated, Since

LEMMA AskCacheDating ==
    ASSUME Dating, NEW r \in Readers, AskCache(r)
    PROVE  Dating'
<1>1. /\ phase[r] = "idle" /\ Fresh /\ phase' = phase /\ handle' = handle
      /\ body' = body /\ store' = store /\ file' = file
      /\ content' = content /\ path' = path /\ today' = today /\ found' = found
      /\ given' = [given EXCEPT ![r] = store.body]
      /\ asked' = [asked EXCEPT ![r] = today]
      /\ since' = [since EXCEPT ![r] = Current]
  BY DEF AskCache, disk
<1>2. DiskTypes' /\ NotedNow' /\ StoreDated'
  BY <1>1, DiskUntouched, StoreUntouched DEF Dating
<1>3. /\ given'[r] = store.body /\ asked'[r] = today /\ since'[r] = Current
      /\ RequestTables'
      /\ \A x \in Readers \ {r} : /\ given'[x] = given[x]
                                  /\ asked'[x] = asked[x]
                                  /\ since'[x] = since[x]
  BY <1>1 DEF Dating, RequestTables, Tables
<1>4. \A x \in Readers \ {r} : Dated(x)'
  BY <1>1, <1>3, UntouchedStaysDated DEF Dating
<1>5. Dated(r)'
  <2>1. /\ today \in Nat /\ Current \subseteq Halves
        /\ \A h \in Current : found[h] = today
    BY CurrentIsHalves DEF Dating, DiskTypes, NotedNow
  <2>2. \A h \in Current : found[h] \in Nat /\ today <= found[h]
    BY <2>1
  <2>3. store # Nobody /\ today < store.day + Lifetime(file)
    BY <1>1 DEF Fresh
  <2>4. /\ store.day \in 0 .. today
        /\ \A h \in HalvesOf(store.body) : h \in Halves /\ Since(h, store.day)
    BY <2>3 DEF Dating, StoreDated
  <2>5. file # "index.html" /\ today < store.day + Week
    BY <2>1, <2>3, <2>4 DEF Lifetime
  <2>6. \A h \in HalvesOf(store.body) :
           h \in Halves /\ found[h] \in Nat /\ today < found[h] + Week
    <3> TAKE h \in HalvesOf(store.body)
    <3>1. h \in Halves /\ found[h] \in Nat /\ store.day <= found[h]
      BY <2>4 DEF Since
    <3> QED
      BY <2>1, <2>4, <2>5, <3>1, LandingAssumption
  <2>7. body[r] = << >> /\ << >> \in Seq(Versions)
    BY <1>1 DEF Dating, Dated
  <2> QED
    BY <1>1, <1>3, <2>1, <2>2, <2>5, <2>6, <2>7, HalvesOfNothing
       DEF Dated, Since
<1> QED
  BY <1>2, <1>3, <1>4, <1>5 DEF Dating

LEMMA AskProxyDating ==
    ASSUME Dating, NEW r \in Readers, AskProxy(r)
    PROVE  Dating'
<1>1. /\ phase[r] = "idle" /\ handle' = handle
      /\ body' = body /\ store' = store /\ file' = file
      /\ content' = content /\ path' = path /\ today' = today /\ found' = found
      /\ phase' = [phase EXCEPT ![r] = "asked"]
      /\ given' = [given EXCEPT ![r] = Nobody]
      /\ asked' = [asked EXCEPT ![r] = today]
      /\ since' = [since EXCEPT ![r] = Current]
  BY DEF AskProxy, disk
<1>2. DiskTypes' /\ NotedNow' /\ StoreDated' /\ Current' = Current
  BY <1>1, DiskUntouched, StoreUntouched DEF Dating, Current
<1>3. /\ given'[r] = Nobody /\ asked'[r] = today /\ since'[r] = Current
      /\ phase'[r] = "asked" /\ RequestTables'
      /\ \A x \in Readers \ {r} : /\ given'[x] = given[x]
                                  /\ asked'[x] = asked[x]
                                  /\ since'[x] = since[x]
                                  /\ phase'[x] = phase[x]
  BY <1>1 DEF Dating, RequestTables, Tables
<1>4. \A x \in Readers \ {r} : Dated(x)'
  BY <1>1, <1>3, UntouchedStaysDated DEF Dating
<1>5. Dated(r)'
  <2>1. /\ today \in Nat /\ Current \subseteq Halves
        /\ \A h \in Current : found[h] = today
    BY CurrentIsHalves DEF Dating, DiskTypes, NotedNow
  <2>2. \A h \in Current : found[h] \in Nat /\ today <= found[h]
    BY <2>1
  <2>3. body[r] = << >> /\ << >> \in Seq(Versions)
    BY <1>1 DEF Dating, Dated
  <2>4. ~Got(r)'
    BY <1>3 DEF Got
  <2> QED
    BY <1>1, <1>2, <1>3, <2>1, <2>2, <2>3, <2>4, HalvesOfNothing
       DEF Dated, Since
<1> QED
  BY <1>2, <1>3, <1>4, <1>5 DEF Dating

\* A handler that goes on with what its request may read.
LEMMA HandlerStaysDated ==
    ASSUME Dating, NEW r \in Readers, phase[r] \in {"asked", "reading"},
           UNCHANGED <<file, content, path, today, found, asked, given, store,
                       since>>,
           phase' = [phase EXCEPT ![r] = phase'[r]],
           handle' = [handle EXCEPT ![r] = handle'[r]],
           body' = [body EXCEPT ![r] = body'[r]],
           phase'[r] \in {"reading", "read"},
           phase'[r] = "reading" =>
               /\ handle'[r] \in 1 .. Len(content)
               /\ HalvesOf(content[handle'[r]]) \subseteq since[r],
           body'[r] \in Seq(Versions), HalvesOf(body'[r]) \subseteq since[r]
    PROVE  Dating'
<1>1. DiskTypes' /\ NotedNow' /\ StoreDated' /\ Current' = Current
  BY DiskUntouched, StoreUntouched DEF Dating, Current
<1>2. /\ RequestTables'
      /\ \A x \in Readers \ {r} : /\ phase'[x] = phase[x]
                                  /\ handle'[x] = handle[x]
                                  /\ body'[x] = body[x]
  BY DEF Dating, RequestTables, Tables
<1>3. \A x \in Readers \ {r} : Dated(x)'
  BY <1>2, UntouchedStaysDated DEF Dating
<1>4. Dated(r)'
  <2>1. /\ Got(r)' <=> Got(r)
        /\ \A h, d : Since(h, d)' <=> Since(h, d)
        /\ Dated(r)
    BY DEF Got, Since, Dating
  <2> QED
    BY <2>1 DEF Dated
<1> QED
  BY <1>1, <1>2, <1>3, <1>4 DEF Dating

LEMMA OpenDating ==
    ASSUME Dating, NEW r \in Readers, Open(r)
    PROVE  Dating'
<1>1. /\ phase[r] = "asked"
      /\ UNCHANGED <<file, content, path, today, found, asked, given, store,
                     since>>
  BY DEF Open, disk
<1>2. Dated(r) /\ DiskTypes /\ Tables
  BY DEF Dating, RequestTables
<1>3. Current \subseteq since[r] /\ body[r] = << >>
  BY <1>1, <1>2 DEF Dated
<1>4. CASE path = 0
  <2>1. /\ body' = [body EXCEPT ![r] = Bundled]
        /\ phase' = [phase EXCEPT ![r] = "read"]
        /\ handle' = [handle EXCEPT ![r] = 0]
    BY <1>4 DEF Open, HasRead
  <2>2. body'[r] = Bundled /\ phase'[r] = "read" /\ handle'[r] = 0
    BY <1>2, <2>1 DEF Tables
  <2>3. Bundled \in Seq(Versions) /\ HalvesOf(Bundled) \subseteq since[r]
    BY <1>3, <1>4, BundledText DEF Current, Texts
  <2> QED
    BY <1>1, <2>1, <2>2, <2>3, HandlerStaysDated
<1>5. CASE path # 0
  <2>1. /\ body' = body
        /\ phase' = [phase EXCEPT ![r] = "reading"]
        /\ handle' = [handle EXCEPT ![r] = path]
    BY <1>5 DEF Open
  <2>2. body'[r] = << >> /\ phase'[r] = "reading" /\ handle'[r] = path
        /\ body' = [body EXCEPT ![r] = body'[r]]
    BY <1>2, <1>3, <2>1 DEF Tables
  <2>3. /\ path \in 1 .. Len(content)
        /\ HalvesOf(content[path]) \subseteq since[r]
    BY <1>2, <1>3, <1>5 DEF DiskTypes, Current
  <2>4. << >> \in Seq(Versions) /\ HalvesOf(<< >>) \subseteq since[r]
    BY HalvesOfNothing
  <2> QED
    BY <1>1, <2>1, <2>2, <2>3, <2>4, HandlerStaysDated
<1> QED
  BY <1>4, <1>5

LEMMA ReadDating ==
    ASSUME Dating, NEW r \in Readers, Read(r)
    PROVE  Dating'
<1> DEFINE text == content[handle[r]]
<1>1. /\ phase[r] = "reading"
      /\ UNCHANGED <<file, content, path, today, found, asked, given, store,
                     since>>
  BY DEF Read, disk
<1>2. Dated(r) /\ DiskTypes /\ Tables
  BY DEF Dating, RequestTables
<1>3. /\ handle[r] \in 1 .. Len(content) /\ HalvesOf(text) \subseteq since[r]
      /\ body[r] \in Seq(Versions) /\ HalvesOf(body[r]) \subseteq since[r]
  BY <1>1, <1>2 DEF Dated
<1>4. text \in Seq(Versions)
  BY <1>2, <1>3 DEF DiskTypes, Texts
<1>5. CASE Len(body[r]) < Len(text)
  <2>1. PICK k \in Nat : k = Len(body[r]) + 1
    BY <1>3
  <2>2. k \in 1 .. Len(text) /\ k \in DOMAIN text /\ text[k] \in Versions
    BY <1>3, <1>4, <1>5, <2>1
  <2>3. <<k, text[k]>> \in HalvesOf(text)
    BY <2>2 DEF HalvesOf
  <2>4. /\ body' = [body EXCEPT ![r] = Append(body[r], text[k])]
        /\ phase' = phase /\ handle' = handle
    BY <1>5, <2>1 DEF Read, Source
  <2>5. /\ body'[r] = Append(body[r], text[k])
        /\ phase'[r] = "reading" /\ handle'[r] = handle[r]
        /\ phase' = [phase EXCEPT ![r] = phase'[r]]
        /\ handle' = [handle EXCEPT ![r] = handle'[r]]
        /\ body' = [body EXCEPT ![r] = body'[r]]
    BY <1>1, <1>2, <2>4 DEF Tables
  <2>6. PICK v \in Versions : v = text[k]
    BY <2>2
  <2>7. /\ HalvesOf(Append(body[r], v))
              = HalvesOf(body[r]) \cup {<<Len(body[r]) + 1, v>>}
        /\ Append(body[r], v) \in Seq(Versions)
    BY <1>3, HalvesOfMore
  <2>8. body'[r] = Append(body[r], v) /\ <<k, v>> \in since[r]
    BY <1>3, <2>3, <2>5, <2>6
  <2>9. body'[r] \in Seq(Versions) /\ HalvesOf(body'[r]) \subseteq since[r]
    <3> HIDE DEF text
    <3> QED
      BY <1>3, <2>1, <2>7, <2>8
  <2> QED
    BY <1>1, <1>3, <2>5, <2>9, HandlerStaysDated
<1>6. CASE ~(Len(body[r]) < Len(text))
  <2>1. /\ body' = [body EXCEPT ![r] = body[r]]
        /\ phase' = [phase EXCEPT ![r] = "read"]
        /\ handle' = [handle EXCEPT ![r] = 0]
    BY <1>6 DEF Read, Source, HasRead
  <2>2. body'[r] = body[r] /\ phase'[r] = "read" /\ handle'[r] = 0
    BY <1>2, <2>1 DEF Tables
  <2> QED
    BY <1>1, <1>3, <2>1, <2>2, HandlerStaysDated
<1> QED
  BY <1>5, <1>6

LEMMA ReadFailsDating ==
    ASSUME Dating, NEW r \in Readers, ReadFails(r)
    PROVE  Dating'
<1> DEFINE halves == HalvesOf(Bundled)
<1>1. /\ phase[r] \in {"asked", "reading"} /\ Noted(halves, today)
      /\ UNCHANGED <<file, content, path, today, asked, given, store>>
      /\ body' = [body EXCEPT ![r] = Bundled]
      /\ phase' = [phase EXCEPT ![r] = "read"]
      /\ handle' = [handle EXCEPT ![r] = 0]
  BY DEF ReadFails, HasRead
<1>2. DiskTypes /\ RequestTables /\ Dated(r) /\ Current' = Current
  BY <1>1 DEF Dating, Current
<1>3. halves \in SUBSET Halves /\ today \in {today, today + 1}
  BY BundledText, HalvesOfText
<1> HIDE DEF halves
<1>4. /\ found' = [h \in Halves |-> found'[h]]
      /\ \A h \in halves : found'[h] = today
      /\ \A h \in Halves : found'[h] = Nobody \/ found'[h] \in 0 .. today
      /\ \A h \in Halves : found[h] \in Nat =>
            found'[h] \in Nat /\ found[h] <= found'[h]
      /\ since' = [x \in Readers |-> since'[x]]
      /\ since'[r] = since[r] \cup halves
  BY <1>1, <1>2, <1>3, NotedGrows
<1>5. /\ RequestTables' /\ body'[r] = Bundled /\ phase'[r] = "read"
      /\ \A x \in Readers \ {r} : /\ phase'[x] = phase[x]
                                  /\ handle'[x] = handle[x]
                                  /\ body'[x] = body[x]
  BY <1>1, <1>2, <1>4 DEF RequestTables, Tables
<1>6. DiskTypes'
  BY <1>1, <1>2, <1>4 DEF DiskTypes
<1>7. NotedNow'
  <2>1. Current \subseteq Halves /\ today \in Nat
    BY <1>2, CurrentIsHalves DEF DiskTypes
  <2>2. ASSUME NEW h \in Current PROVE found'[h] = today
    <3>1. found[h] = today /\ h \in Halves
      BY <2>1, <2>2 DEF Dating, NotedNow
    <3>2. found'[h] \in 0 .. today /\ today <= found'[h]
      BY <1>4, <2>1, <3>1, LandingAssumption
    <3> QED
      BY <2>1, <3>2
  <2> QED
    BY <1>1, <1>2, <2>2 DEF NotedNow
<1>8. StoreDated'
  BY <1>1, <1>2, <1>3, StoreStaysDated DEF Dating
<1>9. ASSUME NEW x \in Readers \ {r} PROVE Dated(x)'
  <2>1. Dated(x) /\ Len(content) \in Nat /\ Len(content) <= Len(content')
    BY <1>1, <1>2 DEF Dating, DiskTypes
  <2> QED
    BY <1>1, <1>2, <1>3, <1>5, <2>1, WaitingStaysDated
<1>10. Dated(r)'
  <2>1. since'[r] \subseteq Halves /\ today \in Nat /\ asked[r] \in 0 .. today
    BY <1>2, <1>3, <1>4 DEF Dated, DiskTypes
  <2>2. \A h \in since'[r] : Since(h, asked[r])'
    <3> TAKE h \in since'[r]
    <3>1. CASE h \in halves
      BY <1>1, <1>4, <2>1, <3>1 DEF Since
    <3>2. CASE h \in since[r]
      <4>1. h \in Halves /\ found[h] \in Nat /\ asked[r] <= found[h]
        BY <1>2, <3>2 DEF Dated, Since
      <4>2. found'[h] \in Nat /\ found[h] <= found'[h]
        BY <1>4, <4>1
      <4> QED
        BY <1>1, <2>1, <4>1, <4>2 DEF Since
    <3> QED
      BY <1>4, <3>1, <3>2
  <2>3. Got(r) => \A h \in HalvesOf(given[r]) :
           h \in Halves /\ found'[h] \in Nat /\ asked[r] < found'[h] + Week
    <3> SUFFICES ASSUME Got(r), NEW h \in HalvesOf(given[r])
                 PROVE  /\ h \in Halves /\ found'[h] \in Nat
                        /\ asked[r] < found'[h] + Week
      OBVIOUS
    <3>1. h \in Halves /\ found[h] \in Nat /\ asked[r] < found[h] + Week
      BY <1>2 DEF Dated
    <3>2. found'[h] \in Nat /\ found[h] <= found'[h]
      BY <1>4, <3>1
    <3> QED
      BY <2>1, <3>1, <3>2, LandingAssumption
  <2>4. body'[r] \in Seq(Versions) /\ HalvesOf(body'[r]) \subseteq since'[r]
    BY <1>4, <1>5, BundledText DEF Texts, halves
  <2>5. Got(r) /\ file = "index.html" => HalvesOf(given[r]) \subseteq since'[r]
    BY <1>2, <1>4 DEF Dated
  <2>6. Got(r)' <=> Got(r)
    BY <1>1 DEF Got
  <2> QED
    BY <1>1, <1>5, <2>1, <2>2, <2>3, <2>4, <2>5, <2>6 DEF Dated
<1> QED
  BY <1>5, <1>6, <1>7, <1>8, <1>9, <1>10 DEF Dating

LEMMA ServeDating ==
    ASSUME Dating, NEW r \in Readers, Serve(r)
    PROVE  Dating'
<1>1. /\ phase[r] = "read"
      /\ UNCHANGED <<file, content, path, today, found, handle, asked, since>>
      /\ given' = [given EXCEPT ![r] = body[r]]
      /\ store' = [body |-> body[r], day |-> asked[r]]
      /\ phase' = [phase EXCEPT ![r] = "idle"]
      /\ body' = [body EXCEPT ![r] = << >>]
  BY DEF Serve, disk
<1>2. Dated(r) /\ DiskTypes
  BY DEF Dating
<1>3. DiskTypes' /\ NotedNow'
  BY <1>1, DiskUntouched DEF Dating
<1>4. /\ RequestTables'
      /\ given'[r] = body[r] /\ phase'[r] = "idle" /\ body'[r] = << >>
      /\ \A x \in Readers \ {r} : /\ phase'[x] = phase[x]
                                  /\ given'[x] = given[x]
                                  /\ body'[x] = body[x]
  BY <1>1 DEF Dating, RequestTables, Tables
<1>5. \A x \in Readers \ {r} : Dated(x)'
  BY <1>1, <1>4, UntouchedStaysDated DEF Dating
<1>6. /\ asked[r] \in 0 .. today /\ today \in Nat
      /\ HalvesOf(body[r]) \subseteq since[r] /\ since[r] \subseteq Halves
      /\ \A h \in since[r] : found[h] \in Nat /\ asked[r] <= found[h]
  BY <1>2 DEF Dated, DiskTypes, Since
<1>7. StoreDated'
  <2>1. store'.day = asked[r] /\ store'.body = body[r]
    BY <1>1
  <2> QED
    BY <1>1, <1>6, <2>1 DEF StoreDated, Since
<1>8. Dated(r)'
  <2>1. \A h \in HalvesOf(body[r]) :
           h \in Halves /\ found[h] \in Nat /\ asked[r] < found[h] + Week
    <3> TAKE h \in HalvesOf(body[r])
    <3>1. h \in Halves /\ found[h] \in Nat /\ asked[r] <= found[h]
      BY <1>6
    <3> QED
      BY <1>6, <3>1, LandingAssumption
  <2>2. << >> \in Seq(Versions)
    OBVIOUS
  <2> QED
    BY <1>1, <1>4, <1>6, <2>1, <2>2, HalvesOfNothing DEF Dated, Since
<1> QED
  BY <1>3, <1>4, <1>5, <1>7, <1>8 DEF Dating

-----------------------------------------------------------------------------

LEMMA InitDating == LandingInit => Dating
<1> SUFFICES ASSUME LandingInit PROVE Dating
  OBVIOUS
<1>1. /\ content = << >> /\ path = 0 /\ today = 0 /\ store = Nobody
      /\ found = [h \in Halves |-> IF h[2] = 0 THEN 0 ELSE Nobody]
  BY DEF LandingInit, Halves
<1>2. DiskTypes
  <2>1. << >> \in Seq(Texts) /\ Len(<< >>) = 0
    OBVIOUS
  <2>2. \A h \in Halves : found[h] = Nobody \/ found[h] \in 0 .. today
    BY <1>1
  <2> QED
    BY <1>1, <2>1, <2>2, LandingAssumption DEF DiskTypes
<1>3. RequestTables
  BY DEF LandingInit, RequestTables, Tables
<1>4. NotedNow
  <2>1. Bundled \in Texts /\ \A i \in DOMAIN Bundled : Bundled[i] = 0
    BY BundledText DEF Bundled, Whole
  <2>2. HalvesOf(Bundled) \subseteq Halves
    BY <2>1, HalvesOfText
  <2>3. \A h \in HalvesOf(Bundled) : h \in Halves /\ h[2] = 0
    BY <2>1, <2>2 DEF HalvesOf
  <2> QED
    BY <1>1, <2>3 DEF NotedNow, Current
<1>5. ASSUME NEW r \in Readers PROVE Dated(r)
  <2>1. /\ phase[r] = "idle" /\ body[r] = << >> /\ asked[r] = 0
        /\ given[r] = Nobody /\ since[r] = {}
    BY DEF LandingInit
  <2>2. << >> \in Seq(Versions) /\ ~Got(r)
    BY <2>1 DEF Got
  <2> QED
    BY <1>1, <2>1, <2>2, HalvesOfNothing DEF Dated
<1>6. StoreDated
  BY <1>1 DEF StoreDated
<1> QED
  BY <1>2, <1>3, <1>4, <1>5, <1>6 DEF Dating

LEMMA NextDating == Dating /\ [LandingNext]_landingVars => Dating'
<1> SUFFICES ASSUME Dating, [LandingNext]_landingVars PROVE Dating'
  OBVIOUS
<1>1. CASE Operator
  BY <1>1, PutInPlaceOfDating, TruncateDating, WriteOnDating, RemoveFileDating
     DEF Operator
<1>2. CASE NextDay
  BY <1>2, NextDayDating
<1>3. CASE \E r \in Readers : AskCache(r) \/ AskProxy(r) \/ Handler(r)
  BY <1>3, AskCacheDating, AskProxyDating, OpenDating, ReadDating,
     ReadFailsDating, ServeDating DEF Handler
<1>4. CASE UNCHANGED landingVars
  <2>1. DiskTypes' /\ NotedNow' /\ StoreDated'
    BY <1>4, DiskUntouched, StoreUntouched DEF landingVars, disk, Dating
  <2>2. \A r \in Readers : Dated(r)'
    BY <1>4, UntouchedStaysDated DEF landingVars, disk, Dating
  <2>3. RequestTables'
    BY <1>4 DEF landingVars, disk, Dating, RequestTables, Tables
  <2> QED
    BY <2>1, <2>2, <2>3 DEF Dating
<1> QED
  BY <1>1, <1>2, <1>3, <1>4 DEF LandingNext

LEMMA DatingHolds == LandingSpec => []Dating
  BY InitDating, NextDating, PTL DEF LandingSpec

\* However the page is replaced, overwritten or removed while it is asked
\* for, each half of it that a caller gets was there after it was asked for:
\* no cache and no handler gives out an older one (home.rs, no-cache).
THEOREM NewPageIsSeenAtOnce == LandingSpec => []PageIsCurrent
<1>1. Dating => PageIsCurrent
  BY DEF Dating, Dated, PageIsCurrent
<1> QED
  BY <1>1, DatingHolds, PTL

\* An asset that a caller gets, whole or amiss, was there to be read less
\* than a week before it was asked for, whatever the cache keeps.
THEOREM MistakesAreForgotten == LandingSpec => []MistakesAgeOut
<1>1. Dating => MistakesAgeOut
  <2> SUFFICES ASSUME Dating, NEW r \in Readers, Got(r),
                      NEW h \in HalvesOf(given[r])
               PROVE  found[h] # Nobody /\ asked[r] < found[h] + Week
    BY DEF MistakesAgeOut
  <2>1. found[h] \in Nat /\ asked[r] < found[h] + Week
    BY DEF Dating, Dated
  <2> QED
    BY <2>1, LandingAssumption
<1> QED
  BY <1>1, DatingHolds, PTL
=============================================================================
