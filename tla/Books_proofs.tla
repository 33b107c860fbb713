---------------------------- MODULE Books_proofs ----------------------------
(***************************************************************************)
(* That what readers are shown of a book is whole, and that a conversion   *)
(* leaves what its rows say, for every number of requests, rows, pages and *)
(* workers.  Contents is the invariant of the tables and of what a request *)
(* carries between its steps, Converting that of the runs and their        *)
(* workers, Settled that of what a request relies on while no other write  *)
(* comes between; StepKeeps, ConvKeeps and StepSettles are what one step   *)
(* of one request owes to each.  Numbering is counting: the first part is  *)
(* about places.                                                           *)
(***************************************************************************)
EXTENDS Books, FiniteSetTheorems, TLAPS

-----------------------------------------------------------------------------
(* Places in an order *)

\* R puts S in a line.
LinesUp(R, S) ==
    /\ \A x \in S : <<x, x>> \notin R
    /\ \A x, y, z \in S : <<x, y>> \in R /\ <<y, z>> \in R => <<x, z>> \in R
    /\ \A x, y \in S : x # y => <<x, y>> \in R \/ <<y, x>> \in R
\* The place of each element, from 1.
Places(R, S) == [x \in S |-> 1 + Cardinality({y \in S : <<y, x>> \in R})]

\* Places are numbers up to the size of the set.
LEMMA PlacesType ==
  ASSUME NEW S, IsFiniteSet(S), NEW R, LinesUp(R, S)
  PROVE  Cardinality(S) \in Nat /\ Places(R, S) \in [S -> 1 .. Cardinality(S)]
<1>1. Cardinality(S) \in Nat
  BY FS_CardinalityType
<1>2. ASSUME NEW x \in S
      PROVE  1 + Cardinality({y \in S : <<y, x>> \in R}) \in 1 .. Cardinality(S)
  <2> DEFINE B == {y \in S : <<y, x>> \in R}
  <2>1. x \notin B
    BY <1>2 DEF LinesUp
  <2>2. B \in SUBSET S /\ B # S
    BY <2>1, <1>2
  <2>3. IsFiniteSet(B) /\ Cardinality(B) <= Cardinality(S) /\ Cardinality(B) # Cardinality(S)
    BY <2>2, FS_Subset
  <2>4. Cardinality(B) \in Nat
    BY <2>3, FS_CardinalityType
  <2> QED
    BY <1>1, <2>3, <2>4
<1> QED
  BY <1>1, <1>2 DEF Places

\* A step in the order is a step up in the places, and the other way round.
LEMMA PlacesRise ==
  ASSUME NEW S, IsFiniteSet(S), NEW R, LinesUp(R, S), NEW x \in S, NEW y \in S
  PROVE  <<x, y>> \in R <=> Places(R, S)[x] < Places(R, S)[y]
<1> DEFINE B(z) == {w \in S : <<w, z>> \in R}
<1>1. ASSUME NEW a \in S, NEW b \in S, <<a, b>> \in R
      PROVE  Places(R, S)[a] < Places(R, S)[b]
  <2>1. B(a) \in SUBSET B(b) /\ a \in B(b) /\ a \notin B(a)
    BY <1>1 DEF LinesUp
  <2>2. IsFiniteSet(B(b))
    <3>1. B(b) \in SUBSET S
      OBVIOUS
    <3> QED
      BY <3>1, FS_Subset
  <2>3. IsFiniteSet(B(a)) /\ Cardinality(B(a)) <= Cardinality(B(b)) /\ Cardinality(B(a)) # Cardinality(B(b))
    <3>1. B(a) # B(b)
      BY <2>1
    <3> HIDE DEF B
    <3> QED
      BY <2>1, <2>2, <3>1, FS_Subset
  <2>4. Cardinality(B(a)) \in Nat /\ Cardinality(B(b)) \in Nat
    BY <2>2, <2>3, FS_CardinalityType
  <2>5. Places(R, S)[a] = 1 + Cardinality(B(a)) /\ Places(R, S)[b] = 1 + Cardinality(B(b))
    BY DEF Places
  <2> QED
    BY <2>3, <2>4, <2>5
<1>2. Places(R, S)[x] \in Nat /\ Places(R, S)[y] \in Nat
  BY PlacesType
<1>3. CASE x = y
  BY <1>2, <1>3 DEF LinesUp
<1>4. CASE x # y
  <2>1. <<x, y>> \in R \/ <<y, x>> \in R
    BY <1>4 DEF LinesUp
  <2>2. ~(<<x, y>> \in R /\ <<y, x>> \in R)
    BY DEF LinesUp
  <2> QED
    BY <1>1, <1>2, <2>1, <2>2
<1> QED
  BY <1>3, <1>4

\* Every place up to the size of the set is taken, by one element.
LEMMA PlacesFilled ==
  ASSUME NEW S, IsFiniteSet(S), NEW R, LinesUp(R, S)
  PROVE  /\ \A x, y \in S : Places(R, S)[x] = Places(R, S)[y] => x = y
         /\ \A n \in 1 .. Cardinality(S) : \E x \in S : Places(R, S)[x] = n
<1> DEFINE f == Places(R, S)
           T == 1 .. Cardinality(S)
<1>1. Cardinality(S) \in Nat /\ f \in [S -> T]
  BY PlacesType
<1>2. ASSUME NEW x \in S, NEW y \in S, f[x] = f[y]
      PROVE  x = y
  <2>1. SUFFICES ASSUME x # y PROVE FALSE
    OBVIOUS
  <2>2. f[x] \in Nat /\ f[y] \in Nat
    BY <1>1
  <2>3. <<x, y>> \in R \/ <<y, x>> \in R
    BY <2>1 DEF LinesUp
  <2>4. f[x] < f[y] \/ f[y] < f[x]
    BY <2>3, PlacesRise
  <2> QED
    BY <1>2, <2>2, <2>4
<1>3. f \in Injection(S, T)
  <2>1. DOMAIN f = S
    BY <1>1
  <2>2. IsInjective(f)
    BY <1>2, <2>1 DEF IsInjective
  <2> QED
    BY <1>1, <2>2 DEF Injection
<1>4. IsFiniteSet(T) /\ Cardinality(T) = Cardinality(S)
  BY <1>1, FS_Interval
<1>5. f \in Surjection(S, T)
  <2> HIDE DEF f, T
  <2> QED
    BY <1>3, <1>4, FS_Injection
<1>6. \A n \in T : \E x \in S : f[x] = n
  <2> HIDE DEF f, T
  <2> QED
    BY <1>5 DEF Surjection
<1> QED
  BY <1>2, <1>6

-----------------------------------------------------------------------------
(* Numbering *)

\* What was read of a table: finitely many rows, by id.
ReadOf(rows, Row) == IsFiniteSet(DOMAIN rows) /\ DOMAIN rows \subseteq Nat /\ \A i \in DOMAIN rows : rows[i] \in Row
PagedSection == [chapter : Nat, order : Nat, page : (1 .. MaxPages) \cup {None}]

ByPosition(rows) == {r \in (DOMAIN rows) \X (DOMAIN rows) : byPosition(rows[r[1]], r[1], rows[r[2]], r[2])}
InReading(parts, rows) ==
    {r \in (DOMAIN rows) \X (DOMAIN rows) :
        \/ GroupOf(parts, rows, r[1]) < GroupOf(parts, rows, r[2])
        \/ /\ GroupOf(parts, rows, r[1]) = GroupOf(parts, rows, r[2])
           /\ byPosition(rows[r[1]], r[1], rows[r[2]], r[2])}
InPages(S) == {r \in (DOMAIN S) \X (DOMAIN S) : SectionBefore(S[r[1]], r[1], S[r[2]], r[2])}

\* The parts are in a line, and PartNumber is the place of a part in it.
LEMMA PartsLineUp ==
  ASSUME NEW parts, ReadOf(parts, Part)
  PROVE  /\ LinesUp(ByPosition(parts), DOMAIN parts)
         /\ \A x \in DOMAIN parts : PartNumber(parts, x) = Places(ByPosition(parts), DOMAIN parts)[x]
<1>1. \A x \in DOMAIN parts : x \in Nat /\ parts[x].order \in Nat
  BY DEF ReadOf, Part
<1>2. \A y, x \in DOMAIN parts : <<y, x>> \in ByPosition(parts) <=> byPosition(parts[y], y, parts[x], x)
  BY DEF ByPosition
<1>3. LinesUp(ByPosition(parts), DOMAIN parts)
  BY <1>1, <1>2 DEF LinesUp, byPosition
<1>4. ASSUME NEW x \in DOMAIN parts
      PROVE  PartNumber(parts, x) = Places(ByPosition(parts), DOMAIN parts)[x]
  <2>1. {y \in DOMAIN parts : byPosition(parts[y], y, parts[x], x)} = {y \in DOMAIN parts : <<y, x>> \in ByPosition(parts)}
    BY <1>2
  <2> QED
    BY <2>1 DEF PartNumber, Places
<1> QED
  BY <1>3, <1>4

\* The chapters are in a line, and Number is the place of a chapter in it; all are listed.
LEMMA ChaptersLineUp ==
  ASSUME NEW parts, ReadOf(parts, Part), NEW rows, ReadOf(rows, Chapter)
  PROVE  /\ LinesUp(InReading(parts, rows), DOMAIN rows)
         /\ Listed(parts, rows) = DOMAIN rows
         /\ \A c \in DOMAIN rows : /\ Number(parts, rows, c) = Places(InReading(parts, rows), DOMAIN rows)[c]
                                   /\ GroupOf(parts, rows, c) \in Nat
<1>1. \A c \in DOMAIN rows : c \in Nat /\ rows[c].order \in Nat
  BY DEF ReadOf, Chapter
<1>2. Listed(parts, rows) = DOMAIN rows
  BY DEF Listed, Unparted
<1>3. ASSUME NEW c \in DOMAIN rows
      PROVE  GroupOf(parts, rows, c) \in Nat
  <2>1. ASSUME NEW x \in DOMAIN parts PROVE PartNumber(parts, x) \in Nat
    <3>1. IsFiniteSet(DOMAIN parts)
      BY DEF ReadOf
    <3>2. Places(ByPosition(parts), DOMAIN parts)[x] \in Nat
      BY <3>1, PartsLineUp, PlacesType
    <3> QED
      BY <3>2, PartsLineUp
  <2> QED
    BY <2>1 DEF GroupOf, Unparted
<1> DEFINE G(c) == GroupOf(parts, rows, c)
<1>4. \A d, c \in DOMAIN rows : <<d, c>> \in InReading(parts, rows) <=>
         (G(d) < G(c) \/ (G(d) = G(c) /\ byPosition(rows[d], d, rows[c], c)))
  BY DEF InReading
<1>5. LinesUp(InReading(parts, rows), DOMAIN rows)
  <2> HIDE DEF G
  <2>1. \A c \in DOMAIN rows : G(c) \in Nat
    BY <1>3 DEF G
  <2> QED
    BY <1>1, <2>1, <1>4 DEF LinesUp, byPosition
<1>6. ASSUME NEW c \in DOMAIN rows
      PROVE  Number(parts, rows, c) = Places(InReading(parts, rows), DOMAIN rows)[c]
  <2>1. {d \in Listed(parts, rows) : G(d) < G(c) \/ (G(d) = G(c) /\ byPosition(rows[d], d, rows[c], c))}
        = {d \in DOMAIN rows : <<d, c>> \in InReading(parts, rows)}
    BY <1>2, <1>4
  <2> QED
    BY <2>1 DEF Number, Places
<1> QED
  BY <1>2, <1>3, <1>5, <1>6

\* The sections of a chapter are in a line, and SectionNumber is the place of a section in it.
LEMMA SectionsLineUp ==
  ASSUME NEW S, ReadOf(S, PagedSection)
  PROVE  /\ LinesUp(InPages(S), DOMAIN S)
         /\ \A s \in DOMAIN S : SectionNumber(S, s) = Places(InPages(S), DOMAIN S)[s]
<1>1. \A s \in DOMAIN S : s \in Nat /\ S[s].order \in Nat /\ PageOrZero(S[s]) \in Nat
  BY PagesAreCounted DEF ReadOf, PagedSection, PageOrZero
<1>2. \A r, s \in DOMAIN S : <<r, s>> \in InPages(S) <=> SectionBefore(S[r], r, S[s], s)
  BY DEF InPages
<1>3. LinesUp(InPages(S), DOMAIN S)
  BY <1>1, <1>2 DEF LinesUp, SectionBefore, byPosition
<1>4. ASSUME NEW s \in DOMAIN S
      PROVE  SectionNumber(S, s) = Places(InPages(S), DOMAIN S)[s]
  <2>1. {r \in DOMAIN S : SectionBefore(S[r], r, S[s], s)} = {r \in DOMAIN S : <<r, s>> \in InPages(S)}
    BY <1>2
  <2> QED
    BY <2>1 DEF SectionNumber, Places
<1> QED
  BY <1>3, <1>4

\* What TreeIsWhole says of an answer.
TreeOf(parts, rows) ==
    LET N(c) == Number(parts, rows, c)
        G(c) == IF rows[c].part \in DOMAIN parts THEN PartNumber(parts, rows[c].part) ELSE 0
    IN  /\ Listed(parts, rows) = DOMAIN rows
        /\ {N(c) : c \in DOMAIN rows} = 1 .. Cardinality(DOMAIN rows)
        /\ \A c, d \in DOMAIN rows : N(c) < N(d) => G(c) <= G(d)

\* The tree of any parts and chapters, read at any moment, is whole.
LEMMA TreeHolds ==
  ASSUME NEW parts, ReadOf(parts, Part), NEW rows, ReadOf(rows, Chapter)
  PROVE  TreeOf(parts, rows)
<1> DEFINE N(c) == Number(parts, rows, c)
           G(c) == IF rows[c].part \in DOMAIN parts THEN PartNumber(parts, rows[c].part) ELSE 0
           f == Places(InReading(parts, rows), DOMAIN rows)
<1>1. IsFiniteSet(DOMAIN rows) /\ LinesUp(InReading(parts, rows), DOMAIN rows)
  BY ChaptersLineUp DEF ReadOf
<1>2. f \in [DOMAIN rows -> 1 .. Cardinality(DOMAIN rows)]
  BY <1>1, PlacesType
<1>3. \A c \in DOMAIN rows : N(c) = f[c]
  BY ChaptersLineUp
<1>4. {N(c) : c \in DOMAIN rows} = 1 .. Cardinality(DOMAIN rows)
  <2>1. \A n \in 1 .. Cardinality(DOMAIN rows) : \E c \in DOMAIN rows : f[c] = n
    BY <1>1, PlacesFilled
  <2> HIDE DEF N, f
  <2> QED
    BY <1>2, <1>3, <2>1
<1>5. ASSUME NEW c \in DOMAIN rows
      PROVE  G(c) = GroupOf(parts, rows, c) /\ G(c) \in Nat
  <2>1. None \notin DOMAIN parts
    BY NoneIsNothing DEF ReadOf
  <2>2. G(c) = GroupOf(parts, rows, c)
    BY <2>1 DEF GroupOf, Unparted
  <2>3. GroupOf(parts, rows, c) \in Nat
    BY ChaptersLineUp
  <2> QED
    BY <2>2, <2>3
<1>6. ASSUME NEW c \in DOMAIN rows, NEW d \in DOMAIN rows, N(c) < N(d)
      PROVE  G(c) <= G(d)
  <2>1. f[c] < f[d]
    BY <1>3, <1>6
  <2>2. <<c, d>> \in InReading(parts, rows)
    BY <1>1, <2>1, PlacesRise
  <2>3. GroupOf(parts, rows, c) <= GroupOf(parts, rows, d)
    <3>1. GroupOf(parts, rows, c) \in Nat /\ GroupOf(parts, rows, d) \in Nat
      BY ChaptersLineUp
    <3> QED
      BY <2>2, <3>1 DEF InReading
  <2> QED
    BY <1>5, <2>3
<1> QED
  BY <1>4, <1>6, ChaptersLineUp DEF TreeOf

\* What RangesForward says of the sections of a chapter of n pages.
RangesOf(S, n) ==
    LET Paged == {s \in DOMAIN S : S[s].page # None}
    IN  \A s \in Paged :
          /\ StartPage(S, s, n) <= EndPage(S, s, n)
          /\ n > 0 => EndPage(S, s, n) <= n
          /\ \A r \in Paged : SectionNumber(S, s) < SectionNumber(S, r) =>
                \/ EndPage(S, s, n) < StartPage(S, r, n)
                \/ StartPage(S, s, n) = StartPage(S, r, n)

\* A later section starts no earlier, once it is paged at all.
LEMMA StartsRise ==
  ASSUME NEW S, ReadOf(S, PagedSection), NEW n \in Nat, NEW s \in DOMAIN S, S[s].page # None,
         NEW r \in DOMAIN S, SectionNumber(S, s) <= SectionNumber(S, r)
  PROVE  /\ S[r].page \in 1 .. MaxPages
         /\ StartPage(S, s, n) \in Nat /\ StartPage(S, r, n) \in Nat
         /\ StartPage(S, s, n) <= StartPage(S, r, n)
         /\ n > 0 => StartPage(S, r, n) <= n
<1>1. IsFiniteSet(DOMAIN S) /\ LinesUp(InPages(S), DOMAIN S)
  BY SectionsLineUp DEF ReadOf
<1> DEFINE f == Places(InPages(S), DOMAIN S)
<1>2. f[s] \in Nat /\ f[r] \in Nat /\ f[s] <= f[r]
  BY <1>1, PlacesType, SectionsLineUp
<1>3. S[s].page \in 1 .. MaxPages
  BY DEF ReadOf, PagedSection
<1>4. PageOrZero(S[s]) <= PageOrZero(S[r])
  <2>1. PageOrZero(S[s]) \in Nat /\ PageOrZero(S[r]) \in Nat
    BY PagesAreCounted DEF ReadOf, PagedSection, PageOrZero
  <2>2. CASE s = r
    BY <2>1, <2>2
  <2>3. CASE s # r
    <3>1. f[s] # f[r]
      BY <1>1, <2>3, PlacesFilled
    <3>2. <<s, r>> \in InPages(S)
      BY <1>1, <1>2, <3>1, PlacesRise
    <3> QED
      BY <2>1, <3>2 DEF InPages, SectionBefore
  <2> QED
    BY <2>2, <2>3
<1>5. S[r].page \in 1 .. MaxPages
  BY <1>3, <1>4, PagesAreCounted DEF ReadOf, PagedSection, PageOrZero
<1>6. S[s].page <= S[r].page
  BY <1>3, <1>4, <1>5, NoneIsNothing DEF PageOrZero
<1> QED
  BY <1>3, <1>5, <1>6, PagesAreCounted DEF StartPage, Clamp

\* The ranges of any sections are in order, whatever the length of the chapter is now.
LEMMA RangesHold ==
  ASSUME NEW S, ReadOf(S, PagedSection), NEW n \in Nat
  PROVE  RangesOf(S, n)
<1> DEFINE f == Places(InPages(S), DOMAIN S)
<1>1. IsFiniteSet(DOMAIN S) /\ LinesUp(InPages(S), DOMAIN S)
  BY SectionsLineUp DEF ReadOf
<1>2. Cardinality(DOMAIN S) \in Nat /\ f \in [DOMAIN S -> 1 .. Cardinality(DOMAIN S)]
  BY <1>1, PlacesType
<1>3. \A s \in DOMAIN S : SectionNumber(S, s) = f[s]
  BY SectionsLineUp
<1> SUFFICES ASSUME NEW s \in DOMAIN S, S[s].page # None
             PROVE  /\ StartPage(S, s, n) <= EndPage(S, s, n)
                    /\ n > 0 => EndPage(S, s, n) <= n
                    /\ \A r \in DOMAIN S : S[r].page # None /\ SectionNumber(S, s) < SectionNumber(S, r) =>
                          \/ EndPage(S, s, n) < StartPage(S, r, n)
                          \/ StartPage(S, s, n) = StartPage(S, r, n)
  BY DEF RangesOf
<1> DEFINE next == {r \in DOMAIN S : SectionNumber(S, r) = SectionNumber(S, s) + 1}
           first == StartPage(S, s, n)
<1>4. first \in Nat /\ (n > 0 => first <= n)
  <2>1. SectionNumber(S, s) <= SectionNumber(S, s)
    BY <1>2, <1>3
  <2> QED
    BY <2>1, StartsRise
<1>5. CASE next = {}
  <2>1. EndPage(S, s, n) = AtLeast(n, first)
    BY <1>5 DEF EndPage
  <2>2. ASSUME NEW r \in DOMAIN S, SectionNumber(S, s) < SectionNumber(S, r)
        PROVE  FALSE
    <3>1. f[s] + 1 \in 1 .. Cardinality(DOMAIN S)
      BY <1>2, <1>3, <2>2
    <3>2. PICK q \in DOMAIN S : f[q] = f[s] + 1
      BY <1>1, <3>1, PlacesFilled
    <3> QED
      BY <1>3, <1>5, <3>2
  <2> QED
    BY <1>4, <2>1, <2>2 DEF AtLeast
<1>6. CASE next # {}
  <2> DEFINE q == CHOOSE r \in next : TRUE
  <2>1. q \in next
    BY <1>6
  <2> HIDE DEF q
  <2>2. q \in DOMAIN S /\ SectionNumber(S, q) = SectionNumber(S, s) + 1
    BY <2>1
  <2>3. SectionNumber(S, s) <= SectionNumber(S, q)
    BY <1>2, <1>3, <2>2
  <2>4. /\ StartPage(S, q, n) \in Nat /\ first <= StartPage(S, q, n) /\ (n > 0 => StartPage(S, q, n) <= n)
        /\ S[q].page \in 1 .. MaxPages
    BY <2>2, <2>3, StartsRise
  <2>5. EndPage(S, s, n) = AtLeast(StartPage(S, q, n) - 1, first)
    BY <1>6 DEF EndPage, q
  <2>6. ASSUME NEW r \in DOMAIN S, S[r].page # None, SectionNumber(S, s) < SectionNumber(S, r)
        PROVE  StartPage(S, q, n) <= StartPage(S, r, n) /\ StartPage(S, r, n) \in Nat
    <3>1. SectionNumber(S, q) <= SectionNumber(S, r)
      BY <1>2, <1>3, <2>2, <2>6
    <3>2. S[q].page # None
      BY <2>4, NoneIsNothing, PagesAreCounted
    <3> QED
      BY <2>2, <3>1, <3>2, StartsRise
  <2> QED
    BY <1>4, <2>4, <2>5, <2>6 DEF AtLeast
<1> QED
  BY <1>5, <1>6

-----------------------------------------------------------------------------
(* Small sets and tables *)

Rising(S) == {r \in S \X S : r[1] < r[2]}
InTable(rows, ids) == {r \in ids \X ids : byPosition(rows[r[1]], r[1], rows[r[2]], r[2])}

\* Numbers are in a line.
LEMMA NumbersLineUp ==
  ASSUME NEW S, S \subseteq Nat
  PROVE  LinesUp(Rising(S), S) /\ \A x, y \in S : <<x, y>> \in Rising(S) <=> x < y
<1>1. \A x, y \in S : <<x, y>> \in Rising(S) <=> x < y
  BY DEF Rising
<1> QED
  BY <1>1 DEF LinesUp

\* The places of numbers are all taken, by one number each.
LEMMA NumbersFill ==
  ASSUME NEW S, S \subseteq Nat, IsFiniteSet(S)
  PROVE  /\ \A x, y \in S : Places(Rising(S), S)[x] = Places(Rising(S), S)[y] => x = y
         /\ \A n \in 1 .. Cardinality(S) : \E x \in S : Places(Rising(S), S)[x] = n
<1>1. \A R : LinesUp(R, S) => /\ \A x, y \in S : Places(R, S)[x] = Places(R, S)[y] => x = y
                             /\ \A n \in 1 .. Cardinality(S) : \E x \in S : Places(R, S)[x] = n
  BY PlacesFilled
<1>2. LinesUp(Rising(S), S)
  BY NumbersLineUp
<1> QED
  BY <1>1, <1>2, Zenon

\* Rows are in a line.
LEMMA RowsLineUp ==
  ASSUME NEW rows, NEW ids, ids \subseteq Nat, \A i \in ids : rows[i].order \in Nat
  PROVE  /\ LinesUp(InTable(rows, ids), ids)
         /\ \A x, y \in ids : <<x, y>> \in InTable(rows, ids) <=> byPosition(rows[x], x, rows[y], y)
<1>1. \A x, y \in ids : <<x, y>> \in InTable(rows, ids) <=> byPosition(rows[x], x, rows[y], y)
  BY DEF InTable
<1>2. \A i \in ids : i \in Nat /\ rows[i].order \in Nat
  OBVIOUS
<1>3. \A x, y \in ids : \/ byPosition(rows[x], x, rows[y], y)
                       \/ byPosition(rows[y], y, rows[x], x)
                       \/ x = y
  BY <1>2 DEF byPosition
<1>4. \A x, y \in ids : ~(byPosition(rows[x], x, rows[y], y) /\ byPosition(rows[y], y, rows[x], x))
  BY <1>2 DEF byPosition
<1>5. ASSUME NEW x \in ids, NEW y \in ids, NEW z \in ids,
             byPosition(rows[x], x, rows[y], y), byPosition(rows[y], y, rows[z], z)
      PROVE  byPosition(rows[x], x, rows[z], z)
  BY <1>2, <1>5 DEF byPosition
<1> QED
  BY <1>1, <1>3, <1>4, <1>5 DEF LinesUp

\* A finite set of numbers that is not empty has a smallest one, and CHOOSE finds it.
LEMMA SmallestIsThere ==
  ASSUME NEW S, S \subseteq Nat, IsFiniteSet(S), S # {}
  PROVE  (CHOOSE n \in S : \A k \in S : n <= k) \in S
<1> DEFINE R == Rising(S)
<1>1. \A x, y \in S : <<x, y>> \in R <=> x < y
  BY NumbersLineUp
<1>2. LinesUp(R, S)
  BY NumbersLineUp
<1>3. Cardinality(S) \in Nat /\ Places(R, S) \in [S -> 1 .. Cardinality(S)]
  BY <1>2, PlacesType
<1>4. 1 \in 1 .. Cardinality(S)
  BY <1>3, FS_EmptySet
<1>f. \A m \in 1 .. Cardinality(S) : \E x \in S : Places(R, S)[x] = m
  BY NumbersFill
<1>5. PICK n \in S : Places(R, S)[n] = 1
  BY <1>4, <1>f
<1>6. ASSUME NEW k \in S PROVE n <= k
  <2>1. Places(R, S)[k] \in 1 .. Cardinality(S)
    BY <1>3
  <2>2. ~(Places(R, S)[k] < Places(R, S)[n])
    BY <1>3, <1>5, <2>1
  <2>3. ~(k < n)
    BY <1>1, <1>2, <2>2, PlacesRise
  <2> QED
    BY <2>3
<1> QED
  BY <1>6

\* The order after the last is a number.
LEMMA AfterLastType ==
  ASSUME NEW rows, NEW ids, ids \subseteq Nat, IsFiniteSet(ids), \A i \in ids : rows[i].order \in Nat
  PROVE  AfterLast(rows, ids) \in Nat
<1>1. CASE ids = {}
  BY <1>1 DEF AfterLast
<1>2. CASE ids # {}
  <2> DEFINE R == InTable(rows, ids)
  <2>1. \A x, y \in ids : <<x, y>> \in R <=> byPosition(rows[x], x, rows[y], y)
    BY RowsLineUp
  <2>2. LinesUp(R, ids)
    BY RowsLineUp
  <2>3. Cardinality(ids) \in Nat /\ Places(R, ids) \in [ids -> 1 .. Cardinality(ids)]
    BY <2>2, PlacesType
  <2>4. Cardinality(ids) \in 1 .. Cardinality(ids)
    BY <1>2, <2>3, FS_EmptySet
  <2>f. \A m \in 1 .. Cardinality(ids) : \E x \in ids : Places(R, ids)[x] = m
    BY <2>2, PlacesFilled
  <2>5. PICK n \in ids : Places(R, ids)[n] = Cardinality(ids)
    BY <2>4, <2>f
  <2>6. ASSUME NEW k \in ids PROVE rows[k].order <= rows[n].order
    <3>1. Places(R, ids)[k] \in 1 .. Cardinality(ids)
      BY <2>3
    <3>2. ~(Places(R, ids)[n] < Places(R, ids)[k])
      BY <2>3, <2>5, <3>1
    <3>3. ~byPosition(rows[n], n, rows[k], k)
      BY <2>1, <2>2, <3>2, PlacesRise
    <3> QED
      BY <3>3 DEF byPosition
  <2> DEFINE last == CHOOSE i \in ids : \A j \in ids : rows[j].order <= rows[i].order
  <2>7. last \in ids
    BY <2>6
  <2> HIDE DEF last
  <2>8. rows[last].order \in Nat
    BY <2>7
  <2>9. AfterLast(rows, ids) = 1 + rows[last].order
    BY <1>2 DEF AfterLast, last
  <2> QED
    BY <2>8, <2>9
<1> QED
  BY <1>1, <1>2

\* The workers that start and the queue they leave hold every pending page.
LEMMA FirstPagesCover ==
  ASSUME NEW pending, pending \subseteq Nat, IsFiniteSet(pending)
  PROVE  /\ \A h \in Hands : FirstPages(pending)[h] = None
                             \/ \E n \in pending : FirstPages(pending)[h] = [at |-> "render", page |-> n]
         /\ \A n \in pending : Cardinality({k \in pending : k <= n}) > Cardinality(Hands)
                               \/ \E h \in Hands : FirstPages(pending)[h] = [at |-> "render", page |-> n]
<1> DEFINE R == Rising(pending)
           Upto(n) == Cardinality({k \in pending : k <= n})
           First(h) == CHOOSE n \in pending : Upto(n) = h
<1>1. \A x, y \in pending : <<x, y>> \in R <=> x < y
  BY NumbersLineUp
<1>2. LinesUp(R, pending)
  BY NumbersLineUp
<1>3. Cardinality(pending) \in Nat /\ Places(R, pending) \in [pending -> 1 .. Cardinality(pending)]
  BY <1>2, PlacesType
<1>f. /\ \A m \in 1 .. Cardinality(pending) : \E x \in pending : Places(R, pending)[x] = m
      /\ \A x, y \in pending : Places(R, pending)[x] = Places(R, pending)[y] => x = y
  BY NumbersFill
<1>4. ASSUME NEW n \in pending PROVE Upto(n) = Places(R, pending)[n]
  <2> DEFINE B == {k \in pending : <<k, n>> \in R}
  <2>0. \A k \in pending : k <= n <=> k < n \/ k = n
    OBVIOUS
  <2>b. \A k \in pending : <<k, n>> \in R <=> k < n
    BY <1>1
  <2>c. ~(n < n)
    OBVIOUS
  <2>a. (\A k : k \in B <=> k \in pending /\ k < n) /\ ~(n < n)
    <3> HIDE DEF R
    <3> QED
      BY <2>b, <2>c
  <2>1. {k \in pending : k <= n} = B \cup {n} /\ n \notin B
    <3> HIDE DEF B
    <3> QED
      BY <2>0, <2>a
  <2>2. B \in SUBSET pending
    OBVIOUS
  <2>3. IsFiniteSet(B)
    BY <2>2, FS_Subset
  <2>4. Cardinality(B \cup {n}) = Cardinality(B) + 1 /\ Cardinality(B) \in Nat
    <3> HIDE DEF B
    <3> QED
      BY <2>1, <2>3, FS_AddElement, FS_CardinalityType
  <2>5. Places(R, pending)[n] = 1 + Cardinality(B)
    BY DEF Places
  <2>6. Upto(n) = Cardinality(B \cup {n})
    BY <2>1
  <2> HIDE DEF B, Upto
  <2> QED
    BY <2>4, <2>5, <2>6
<1>5. Cardinality(Hands) \in Nat
  BY HandsNumbered, FS_CardinalityType
<1> HIDE DEF Upto
<1>6. ASSUME NEW h \in Hands
      PROVE  FirstPages(pending)[h] = None
             \/ (First(h) \in pending /\ Upto(First(h)) = h /\ FirstPages(pending)[h] = [at |-> "render", page |-> First(h)])
  <2>1. FirstPages(pending)[h] = IF h > Cardinality(pending) THEN None ELSE [at |-> "render", page |-> First(h)]
    BY DEF FirstPages, Upto
  <2>2. CASE h > Cardinality(pending)
    BY <2>1, <2>2
  <2>3. CASE ~(h > Cardinality(pending))
    <3>1. h \in 1 .. Cardinality(pending)
      BY <1>3, <1>5, <2>3, HandsNumbered
    <3>2. PICK n \in pending : Places(R, pending)[n] = h
      BY <1>f, <3>1
    <3>3. Upto(n) = h
      BY <1>4, <3>2
    <3>4. First(h) \in pending /\ Upto(First(h)) = h
      BY <3>3
    <3> QED
      BY <2>1, <2>3, <3>4
  <2> QED
    BY <2>2, <2>3
<1>7. ASSUME NEW n \in pending, ~(Upto(n) > Cardinality(Hands))
      PROVE  \E h \in Hands : FirstPages(pending)[h] = [at |-> "render", page |-> n]
  <2>1. Upto(n) \in 1 .. Cardinality(pending) /\ Upto(n) \in Hands
    BY <1>3, <1>4, <1>5, <1>7, HandsNumbered
  <2>2. First(Upto(n)) \in pending /\ Upto(First(Upto(n))) = Upto(n)
    BY <1>7
  <2>3. First(Upto(n)) = n
    <3> HIDE DEF First
    <3> QED
      BY <1>f, <1>4, <2>2
  <2>4. FirstPages(pending)[Upto(n)] = [at |-> "render", page |-> First(Upto(n))]
    <3>1. ~(Upto(n) > Cardinality(pending))
      BY <1>3, <2>1
    <3> QED
      BY <2>1, <3>1 DEF FirstPages, Upto
  <2> QED
    BY <2>1, <2>3, <2>4
<1>8. ASSUME NEW n \in pending
      PROVE  Cardinality({k \in pending : k <= n}) > Cardinality(Hands)
             \/ \E h \in Hands : FirstPages(pending)[h] = [at |-> "render", page |-> n]
  BY <1>7 DEF Upto
<1> HIDE DEF First
<1> QED
  BY <1>6, <1>8

\* A table has finitely many ids, and so has any part of it.
LEMMA TableIds ==
  ASSUME NEW S, NEW table \in Seq(S)
  PROVE  /\ Len(table) \in Nat /\ DOMAIN table = 1 .. Len(table) /\ DOMAIN table \subseteq Nat
         /\ \A T \in SUBSET (DOMAIN table) : IsFiniteSet(T) /\ T \subseteq Nat
<1>1. Len(table) \in Nat /\ DOMAIN table = 1 .. Len(table)
  OBVIOUS
<1>2. IsFiniteSet(DOMAIN table)
  BY <1>1, FS_Interval
<1> QED
  BY <1>1, <1>2, FS_Subset

\* A table written row by row is a table with the same ids.
LEMMA TableWritten ==
  ASSUME NEW S, NEW T, NEW table \in Seq(S), NEW f \in [DOMAIN table -> T]
  PROVE  f \in Seq(T) /\ Len(f) = Len(table)
BY DEF Seq

\* A table with one row written.
LEMMA RowWritten ==
  ASSUME NEW S, NEW table \in Seq(S), NEW i, NEW r \in S
  PROVE  /\ [table EXCEPT ![i] = r] \in Seq(S) /\ Len([table EXCEPT ![i] = r]) = Len(table)
         /\ DOMAIN [table EXCEPT ![i] = r] = DOMAIN table
<1> DEFINE f == [table EXCEPT ![i] = r]
<1>1. \A j \in DOMAIN table : table[j] \in S
  OBVIOUS
<1>2. f \in [DOMAIN table -> S]
  BY <1>1
<1> HIDE DEF f
<1>3. f \in Seq(S) /\ Len(f) = Len(table) /\ DOMAIN f = DOMAIN table
  BY <1>2, TableWritten
<1> QED
  BY <1>3 DEF f

\* A row added.
LEMMA RowAdded ==
  ASSUME NEW S, NEW table \in Seq(S), NEW r \in S
  PROVE  /\ Append(table, r) \in Seq(S) /\ Len(Append(table, r)) = Len(table) + 1
         /\ DOMAIN Append(table, r) = (DOMAIN table) \cup {Len(table) + 1}
         /\ \A i \in DOMAIN table : Append(table, r)[i] = table[i]
         /\ Append(table, r)[Len(table) + 1] = r
OBVIOUS

-----------------------------------------------------------------------------
(* The invariant *)

Page == 1 .. MaxPages
Paging == Page \cup {None}
Bookmark == [chapter : Nat \cup {None}, section : Nat \cup {None}]

\* The tables and what a reader of one relies on in another.
TablesOK(ed, pt, ch, sc, mk, pg, pd) ==
    /\ ed \in Seq(Edition \cup {None}) /\ pt \in Seq(Part \cup {None})
    /\ ch \in Seq(Chapter \cup {None}) /\ sc \in Seq(PagedSection \cup {None})
    /\ mk \in Seq(Bookmark \cup {None}) /\ Len(mk) = Len(ed)
    /\ pd \in Seq(0 .. MaxPages) /\ Len(pd) = Len(ch)
    /\ Linked(ed, pt, ch, sc)
    /\ Agrees(ed, ch, sc, mk)
    /\ pg \subseteq Rows(ch) \X Page

Fields == {"op", "at", "edition", "id", "arg", "word", "was", "list", "alone", "hands", "todo", "done",
           "parts", "rows", "sections", "seen"}

\* A row that was of edition e when it was looked up; it may be gone by now.
Of(table, i, e) == i \in DOMAIN table /\ (table[i] # None => table[i].edition = e)

\* What a request was let in with, still true of the tables or about rows that are gone.
AskedOK(t, ed, pt, ch, sc) ==
    /\ t.op = "addEdition" => t.word \in Languages
    /\ t.op = "status" => t.edition \in DOMAIN ed /\ t.word \in {"DRAFT", "PUBLISHED"}
    /\ t.op \in {"create", "createPart"} => t.edition \in DOMAIN ed /\ t.seen \in Nat
    /\ t.op = "create" => t.arg = None \/ Of(pt, t.arg, t.edition)
    /\ t.op = "move" => Of(ch, t.id, t.edition) /\ (t.arg = None \/ Of(pt, t.arg, t.edition))
    /\ t.op \in {"reorder", "reorderParts", "reorderSections"} => DOMAIN t.list \subseteq Nat
    /\ t.op = "createSection" => t.id \in DOMAIN ch /\ t.seen \in Nat /\ t.arg \in Paging
    /\ t.op = "moveSection" => t.arg \in Page
    /\ t.op = "mark" => /\ t.edition \in DOMAIN ed
                        /\ t.id = None \/ Of(ch, t.id, t.edition)
                        /\ t.seen # None => /\ t.seen \in DOMAIN sc /\ Of(ch, t.arg, t.edition) /\ t.id \in {None, t.arg}
                                            /\ t.arg # None
                                            /\ sc[t.seen] # None => sc[t.seen].chapter = t.arg
                        /\ t.seen = None => t.arg = None
    /\ t.op \in {"deleteChapter", "removeEdition"} => \A c \in t.todo : c \in DOMAIN ch /\ ch[c] = None
    /\ t.op \in {"start", "run", "deleteChapter"} => t.id \in DOMAIN ch
    /\ t.op = "deletePart" => t.id \in DOMAIN pt
    /\ t.op = "deleteSection" => t.id \in DOMAIN sc
    /\ t.op = "removeEdition" => t.edition \in DOMAIN ed

\* What a request has read.
ReadOK(t) ==
    /\ t.op \in Planned \cup {"contents"} => /\ t.parts = None \/ ReadOf(t.parts, Part)
                                             /\ t.rows = None \/ ReadOf(t.rows, Chapter)
    /\ t.op \in {"createSection", "moveSection"} /\ t.at = "resort" => ReadOf(t.sections, PagedSection)
    /\ t.op = "contents" /\ t.sections # None =>
          t.rows # None /\ \A c \in DOMAIN t.rows : ReadOf(t.sections[c], PagedSection)

TaskOK(t, ed, pt, ch, sc) == DOMAIN t = Fields /\ AskedOK(t, ed, pt, ch, sc) /\ ReadOK(t)

Contents ==
    /\ TablesOK(edition, part, chapter, section, mark, page, pdf)
    /\ DOMAIN task = Procs
    /\ \A p \in Procs : task[p] # None => TaskOK(task[p], edition, part, chapter, section)

-----------------------------------------------------------------------------
(* What a step of one request does to the tables and to the others *)

\* Rows come and go for good, and a row keeps the row it hangs on.
Ages(ed, pt, ch, sc, ed1, pt1, ch1, sc1) ==
    /\ \A e \in DOMAIN ed : e \in DOMAIN ed1 /\ (ed1[e] # None => ed[e] # None)
    /\ \A x \in DOMAIN pt : x \in DOMAIN pt1 /\ (pt1[x] # None => pt[x] # None /\ pt1[x].edition = pt[x].edition)
    /\ \A c \in DOMAIN ch : c \in DOMAIN ch1 /\ (ch1[c] # None => ch[c] # None /\ ch1[c].edition = ch[c].edition)
    /\ \A s \in DOMAIN sc : s \in DOMAIN sc1 /\ (sc1[s] # None => sc[s] # None /\ sc1[s].chapter = sc[s].chapter)

\* The others are left as they were, or are no longer alone.
Others(p, before, after) ==
    /\ DOMAIN after = Procs
    /\ \A q \in Procs \ {p} :
          IF before[q] = None THEN after[q] = None
          ELSE after[q] = before[q] \/ after[q] = [before[q] EXCEPT !.alone = FALSE]

\* A step of p that keeps the contents.
StepKeeps(p) ==
    /\ TablesOK(edition', part', chapter', section', mark', page', pdf')
    /\ Ages(edition, part, chapter, section, edition', part', chapter', section')
    /\ Others(p, task, task')
    /\ task'[p] # None => TaskOK(task'[p], edition', part', chapter', section')

\* A task that is no longer alone carries what it did.
LEMMA NotAlone ==
  ASSUME NEW t, DOMAIN t = Fields, NEW u, u = [t EXCEPT !.alone = FALSE]
  PROVE  /\ DOMAIN u = Fields
         /\ u.op = t.op /\ u.at = t.at /\ u.edition = t.edition /\ u.id = t.id /\ u.arg = t.arg /\ u.word = t.word
         /\ u.was = t.was /\ u.list = t.list /\ u.hands = t.hands /\ u.todo = t.todo /\ u.done = t.done
         /\ u.parts = t.parts /\ u.rows = t.rows /\ u.sections = t.sections /\ u.seen = t.seen
         /\ u.alone = FALSE
BY DEF Fields

\* What a request relies on outlives the steps of the others.
LEMMA TaskAges ==
  ASSUME NEW t, NEW ed, NEW pt, NEW ch, NEW sc, NEW ed1, NEW pt1, NEW ch1, NEW sc1,
         TaskOK(t, ed, pt, ch, sc), Ages(ed, pt, ch, sc, ed1, pt1, ch1, sc1),
         NEW u, u = t \/ u = [t EXCEPT !.alone = FALSE]
  PROVE  TaskOK(u, ed1, pt1, ch1, sc1)
<1>1. /\ DOMAIN u = Fields
      /\ u.op = t.op /\ u.at = t.at /\ u.edition = t.edition /\ u.id = t.id /\ u.arg = t.arg /\ u.word = t.word
      /\ u.list = t.list /\ u.todo = t.todo
      /\ u.parts = t.parts /\ u.rows = t.rows /\ u.sections = t.sections /\ u.seen = t.seen
  <2>1. DOMAIN t = Fields
    BY DEF TaskOK
  <2>2. CASE u = t
    BY <2>1, <2>2
  <2>3. CASE u = [t EXCEPT !.alone = FALSE]
    BY <2>1, <2>3, NotAlone
  <2> QED
    BY <2>2, <2>3
<1>2. ASSUME NEW i, NEW e, Of(pt, i, e) PROVE Of(pt1, i, e)
  BY <1>2 DEF Of, Ages
<1>3. ASSUME NEW i, NEW e, Of(ch, i, e) PROVE Of(ch1, i, e)
  BY <1>3 DEF Of, Ages
<1>4. ReadOK(u)
  BY <1>1 DEF ReadOK, TaskOK
<1>5. AskedOK(u, ed1, pt1, ch1, sc1)
  <2>1. AskedOK(t, ed, pt, ch, sc)
    BY DEF TaskOK
  <2>2. AskedOK(t, ed1, pt1, ch1, sc1)
    BY <1>2, <1>3, <2>1 DEF AskedOK, Ages
  <2> QED
    BY <1>1, <2>2 DEF AskedOK
<1> QED
  BY <1>1, <1>4, <1>5 DEF TaskOK

\* A step of one request that keeps the contents keeps the invariant.
LEMMA ContentsKept ==
  ASSUME Contents, NEW p \in Procs, StepKeeps(p)
  PROVE  Contents'
<1>1. TablesOK(edition', part', chapter', section', mark', page', pdf') /\ DOMAIN task' = Procs
  BY DEF StepKeeps, Others
<1>2. ASSUME NEW q \in Procs, task'[q] # None
      PROVE  TaskOK(task'[q], edition', part', chapter', section')
  <2>1. CASE q = p
    BY <1>2, <2>1 DEF StepKeeps
  <2>2. CASE q # p
    <3>1. task[q] # None /\ (task'[q] = task[q] \/ task'[q] = [task[q] EXCEPT !.alone = FALSE])
      BY <1>2, <2>2 DEF StepKeeps, Others
    <3>2. TaskOK(task[q], edition, part, chapter, section)
      BY <3>1 DEF Contents
    <3> QED
      BY <3>1, <3>2, TaskAges DEF StepKeeps
  <2> QED
    BY <2>1, <2>2
<1> QED
  BY <1>1, <1>2 DEF Contents

\* The ways a step writes the tasks.
LEMMA ProceedOthers ==
  ASSUME DOMAIN task = Procs, NEW p \in Procs, NEW t, Proceed(p, t)
  PROVE  Others(p, task, task') /\ task'[p] = t
BY DEF Proceed, Others
\* The others are no longer alone.
LEMMA DisturbOthers ==
  ASSUME NEW p \in Procs, NEW t, Disturb(p, t)
  PROVE  Others(p, task, task') /\ task'[p] = t
BY DEF Disturb, Others

-----------------------------------------------------------------------------
(* Requests are let in *)

\* What a request that was just let in carries.
LEMMA IdleShape ==
  /\ DOMAIN Idle = Fields
  /\ Idle.edition = None /\ Idle.id = None /\ Idle.arg = None /\ Idle.hands = <<>> /\ Idle.todo = {}
  /\ Idle.parts = None /\ Idle.rows = None /\ Idle.sections = None /\ Idle.seen = None
BY DEF Idle, Fields

\* The tables are what they were.
LEMMA NothingAges ==
  ASSUME UNCHANGED <<contents, page, pdf>>, Contents
  PROVE  /\ TablesOK(edition', part', chapter', section', mark', page', pdf')
         /\ Ages(edition, part, chapter, section, edition', part', chapter', section')
<1>1. edition' = edition /\ part' = part /\ chapter' = chapter /\ section' = section /\ mark' = mark /\ page' = page /\ pdf' = pdf
  BY DEF contents
<1>2. TablesOK(edition, part, chapter, section, mark, page, pdf)
  BY DEF Contents
<1> QED
  BY <1>1, <1>2 DEF Ages

\* A request that is let in carries what it should.
LEMMA AskKeeps ==
  ASSUME Contents, NEW p \in Procs, NEW t, TaskOK(t, edition, part, chapter, section), Ask(p, t)
  PROVE  StepKeeps(p)
<1>1. UNCHANGED <<contents, page, pdf>> /\ Proceed(p, t)
  BY DEF Ask, pages
<1>2. edition' = edition /\ part' = part /\ chapter' = chapter /\ section' = section
  BY <1>1 DEF contents
<1>3. Others(p, task, task') /\ task'[p] = t
  BY <1>1, ProceedOthers DEF Contents
<1> QED
  BY <1>1, <1>2, <1>3, NothingAges DEF StepKeeps

\* So does one that only reads.
LEMMA ReadKeeps ==
  ASSUME Contents, NEW p \in Procs, NEW t, t # None => TaskOK(t, edition, part, chapter, section), Proceed(p, t),
         UNCHANGED <<contents, page, pdf>>
  PROVE  StepKeeps(p)
<1>2. edition' = edition /\ part' = part /\ chapter' = chapter /\ section' = section
  BY DEF contents
<1>3. Others(p, task, task') /\ task'[p] = t
  BY ProceedOthers DEF Contents
<1> QED
  BY <1>2, <1>3, NothingAges DEF StepKeeps

\* The ids of the tables.
LEMMA Ids ==
  ASSUME Contents
  PROVE  /\ DOMAIN edition = 1 .. Len(edition) /\ DOMAIN part = 1 .. Len(part) /\ DOMAIN chapter = 1 .. Len(chapter)
         /\ DOMAIN section = 1 .. Len(section)
         /\ Len(edition) \in Nat /\ Len(part) \in Nat /\ Len(chapter) \in Nat /\ Len(section) \in Nat
         /\ \A T \in SUBSET (DOMAIN part) : IsFiniteSet(T) /\ T \subseteq Nat
         /\ \A T \in SUBSET (DOMAIN chapter) : IsFiniteSet(T) /\ T \subseteq Nat
         /\ \A T \in SUBSET (DOMAIN section) : IsFiniteSet(T) /\ T \subseteq Nat
         /\ None \notin DOMAIN edition /\ None \notin DOMAIN part /\ None \notin DOMAIN chapter /\ None \notin DOMAIN section
<1>1. /\ edition \in Seq(Edition \cup {None}) /\ part \in Seq(Part \cup {None})
      /\ chapter \in Seq(Chapter \cup {None}) /\ section \in Seq(PagedSection \cup {None})
  BY DEF Contents, TablesOK
<1>2. Len(edition) \in Nat /\ DOMAIN edition = 1 .. Len(edition) /\ DOMAIN edition \subseteq Nat
  BY <1>1, TableIds
<1>3. /\ Len(part) \in Nat /\ DOMAIN part = 1 .. Len(part) /\ DOMAIN part \subseteq Nat
      /\ \A T \in SUBSET (DOMAIN part) : IsFiniteSet(T) /\ T \subseteq Nat
  BY <1>1, TableIds
<1>4. /\ Len(chapter) \in Nat /\ DOMAIN chapter = 1 .. Len(chapter) /\ DOMAIN chapter \subseteq Nat
      /\ \A T \in SUBSET (DOMAIN chapter) : IsFiniteSet(T) /\ T \subseteq Nat
  BY <1>1, TableIds
<1>5. /\ Len(section) \in Nat /\ DOMAIN section = 1 .. Len(section) /\ DOMAIN section \subseteq Nat
      /\ \A T \in SUBSET (DOMAIN section) : IsFiniteSet(T) /\ T \subseteq Nat
  BY <1>1, TableIds
<1> QED
  BY <1>2, <1>3, <1>4, <1>5, NoneIsNothing

\* The rows of the tables.
LEMMA RowTypes ==
  ASSUME Contents
  PROVE  /\ \A e \in Rows(edition) : edition[e] \in Edition
         /\ \A x \in Rows(part) : part[x] \in Part /\ part[x].order \in Nat
         /\ \A c \in Rows(chapter) : chapter[c] \in Chapter /\ chapter[c].order \in Nat /\ chapter[c].edition \in Rows(edition)
         /\ \A s \in Rows(section) : /\ section[s] \in PagedSection /\ section[s].order \in Nat
                                     /\ section[s].chapter \in Rows(chapter)
<1>1. Linked(edition, part, chapter, section) /\ section \in Seq(PagedSection \cup {None})
  BY DEF Contents, TablesOK
<1>2. \A s \in Rows(section) : section[s] \in PagedSection
  BY <1>1 DEF Rows
<1> QED
  BY <1>1, <1>2 DEF Linked, Part, Chapter, PagedSection

\* What is read of a table, of an edition or of a chapter.
LEMMA ReadsAreRows ==
  ASSUME Contents, NEW e
  PROVE  /\ ReadOf([x \in Parts(e) |-> part[x]], Part)
         /\ ReadOf([c \in Chapters(e) |-> chapter[c]], Chapter)
         /\ ReadOf([s \in Sections(e) |-> section[s]], PagedSection)
         /\ AfterLast(chapter, Chapters(e)) \in Nat /\ AfterLast(part, Parts(e)) \in Nat
         /\ AfterLast(section, Sections(e)) \in Nat
<1>1. /\ Parts(e) \in SUBSET (DOMAIN part) /\ Chapters(e) \in SUBSET (DOMAIN chapter) /\ Sections(e) \in SUBSET (DOMAIN section)
  BY DEF Parts, Chapters, Sections, Rows
<1>2. /\ IsFiniteSet(Parts(e)) /\ Parts(e) \subseteq Nat /\ IsFiniteSet(Chapters(e)) /\ Chapters(e) \subseteq Nat
      /\ IsFiniteSet(Sections(e)) /\ Sections(e) \subseteq Nat
  BY <1>1, Ids
<1>3. /\ \A x \in Parts(e) : part[x] \in Part /\ part[x].order \in Nat
      /\ \A c \in Chapters(e) : chapter[c] \in Chapter /\ chapter[c].order \in Nat
      /\ \A s \in Sections(e) : section[s] \in PagedSection /\ section[s].order \in Nat
  BY RowTypes DEF Parts, Chapters, Sections
<1>4. AfterLast(chapter, Chapters(e)) \in Nat /\ AfterLast(part, Parts(e)) \in Nat /\ AfterLast(section, Sections(e)) \in Nat
  BY <1>2, <1>3, AfterLastType
<1> QED
  BY <1>2, <1>3, <1>4 DEF ReadOf

\* A list of ids has its places numbered.
LEMMA OrdersNumbered ==
  ASSUME Contents, NEW ids, ids \in SUBSET (DOMAIN part) \/ ids \in SUBSET (DOMAIN chapter) \/ ids \in SUBSET (DOMAIN section),
         NEW list \in Orders(ids)
  PROVE  /\ IsFiniteSet(ids) /\ Cardinality(ids) \in Nat /\ DOMAIN list = 1 .. Cardinality(ids)
         /\ list \in [1 .. Cardinality(ids) -> ids] /\ IsInjective(list)
<1>1. IsFiniteSet(ids)
  BY Ids
<1> QED
  BY <1>1, FS_CardinalityType DEF Orders

\* What each request carries when it is let in.
LEMMA AddEditionAsked ==
  ASSUME Contents, NEW p \in Procs, NEW l \in Languages, AskAddEdition(p, l)
  PROVE  StepKeeps(p)
<1> PICK u : u = [Idle EXCEPT !.op = "addEdition", !.at = "insert", !.word = l]
  OBVIOUS
<1>1. DOMAIN u = Fields /\ u.op = "addEdition" /\ u.word = l /\ u.todo = {} /\ u.parts = None /\ u.rows = None /\ u.sections = None
  BY IdleShape DEF Fields
<1>2. Ask(p, u)
  BY DEF AskAddEdition
<1>3. TaskOK(u, edition, part, chapter, section)
  <2> QED
    BY <1>1, <1>2, RowTypes DEF TaskOK, AskedOK, ReadOK, Of, Rows, Planned, AskAddEdition
<1> QED
  BY <1>2, <1>3, AskKeeps

\* A language is to be removed.
LEMMA RemoveEditionAsked ==
  ASSUME Contents, NEW p \in Procs, NEW e \in Rows(edition), AskRemoveEdition(p, e)
  PROVE  StepKeeps(p)
<1> PICK u : u = [Idle EXCEPT !.op = "removeEdition", !.at = "count", !.edition = e]
  OBVIOUS
<1>1. DOMAIN u = Fields /\ u.op = "removeEdition" /\ u.edition = e /\ u.todo = {} /\ u.parts = None /\ u.rows = None /\ u.sections = None
  BY IdleShape DEF Fields
<1>2. Ask(p, u)
  BY DEF AskRemoveEdition
<1>3. TaskOK(u, edition, part, chapter, section)
  <2> QED
    BY <1>1, <1>2, RowTypes DEF TaskOK, AskedOK, ReadOK, Of, Rows, Planned, AskRemoveEdition
<1> QED
  BY <1>2, <1>3, AskKeeps

\* A part is to be added.
LEMMA CreatePartAsked ==
  ASSUME Contents, NEW p \in Procs, NEW e \in Rows(edition), AskCreatePart(p, e)
  PROVE  StepKeeps(p)
<1> PICK u : u = [Idle EXCEPT !.op = "createPart", !.at = "insert", !.edition = e, !.seen = AfterLast(part, Parts(e))]
  OBVIOUS
<1>1. DOMAIN u = Fields /\ u.op = "createPart" /\ u.edition = e /\ u.seen = AfterLast(part, Parts(e)) /\ u.todo = {} /\ u.parts = None /\ u.rows = None /\ u.sections = None
  BY IdleShape DEF Fields
<1>2. Ask(p, u)
  BY DEF AskCreatePart
<1>3. TaskOK(u, edition, part, chapter, section)
  <2> QED
    BY <1>1, <1>2, RowTypes, ReadsAreRows DEF TaskOK, AskedOK, ReadOK, Of, Rows, Planned, AskCreatePart
<1> QED
  BY <1>2, <1>3, AskKeeps

\* A language is to go live or back.
LEMMA StatusAsked ==
  ASSUME Contents, NEW p \in Procs, NEW e \in Rows(edition), NEW s \in {"DRAFT", "PUBLISHED"}, AskStatus(p, e, s)
  PROVE  StepKeeps(p)
<1> PICK u : u = [Idle EXCEPT !.op = "status", !.at = "count", !.edition = e, !.word = s, !.was = edition[e].status]
  OBVIOUS
<1>1. DOMAIN u = Fields /\ u.op = "status" /\ u.edition = e /\ u.word = s /\ u.todo = {} /\ u.parts = None /\ u.rows = None /\ u.sections = None
  BY IdleShape DEF Fields
<1>2. Ask(p, u)
  BY DEF AskStatus
<1>3. TaskOK(u, edition, part, chapter, section)
  <2> QED
    BY <1>1, <1>2, RowTypes DEF TaskOK, AskedOK, ReadOK, Of, Rows, Planned, AskStatus
<1> QED
  BY <1>2, <1>3, AskKeeps

\* A chapter is to be added.
LEMMA CreateChapterAsked ==
  ASSUME Contents, NEW p \in Procs, NEW e \in Rows(edition), NEW x \in Parts(e) \cup {None}, AskCreateChapter(p, e, x)
  PROVE  StepKeeps(p)
<1> PICK u : u = [Idle EXCEPT !.op = "create", !.at = "insert", !.edition = e, !.arg = x, !.seen = AfterLast(chapter, Chapters(e))]
  OBVIOUS
<1>1. DOMAIN u = Fields /\ u.op = "create" /\ u.edition = e /\ u.arg = x /\ u.seen = AfterLast(chapter, Chapters(e)) /\ u.todo = {} /\ u.parts = None /\ u.rows = None /\ u.sections = None
  BY IdleShape DEF Fields
<1>2. Ask(p, u)
  BY DEF AskCreateChapter
<1>3. TaskOK(u, edition, part, chapter, section)
  <2> QED
    BY <1>1, <1>2, RowTypes, ReadsAreRows DEF TaskOK, AskedOK, ReadOK, Of, Rows, Planned, Parts, AskCreateChapter
<1> QED
  BY <1>2, <1>3, AskKeeps

\* The chapters are to be put in an order, by their ids.
LEMMA ReorderAsked ==
  ASSUME Contents, NEW p \in Procs, NEW e \in Rows(edition), NEW list \in Orders(Chapters(e)), AskReorder(p, e, list)
  PROVE  StepKeeps(p)
<1> PICK u : u = [Idle EXCEPT !.op = "reorder", !.at = "write", !.edition = e, !.list = list]
  OBVIOUS
<1>1. DOMAIN u = Fields /\ u.op = "reorder" /\ u.list = list /\ u.todo = {} /\ u.parts = None /\ u.rows = None /\ u.sections = None
  BY IdleShape DEF Fields
<1>2. Ask(p, u)
  BY DEF AskReorder
<1>3. TaskOK(u, edition, part, chapter, section)
  <2>2. DOMAIN list \subseteq Nat
    <3>1. Chapters(e) \in SUBSET (DOMAIN chapter)
      BY DEF Chapters, Rows
    <3> QED
      BY <3>1, OrdersNumbered
  <2> QED
    BY <1>1, <1>2, <2>2, RowTypes DEF TaskOK, AskedOK, ReadOK, Of, Rows, Planned, AskReorder
<1> QED
  BY <1>2, <1>3, AskKeeps

\* So are the parts.
LEMMA ReorderPartsAsked ==
  ASSUME Contents, NEW p \in Procs, NEW e \in Rows(edition), NEW list \in Orders(Parts(e)), AskReorderParts(p, e, list)
  PROVE  StepKeeps(p)
<1> PICK u : u = [Idle EXCEPT !.op = "reorderParts", !.at = "write", !.edition = e, !.list = list]
  OBVIOUS
<1>1. DOMAIN u = Fields /\ u.op = "reorderParts" /\ u.list = list /\ u.todo = {} /\ u.parts = None /\ u.rows = None /\ u.sections = None
  BY IdleShape DEF Fields
<1>2. Ask(p, u)
  BY DEF AskReorderParts
<1>3. TaskOK(u, edition, part, chapter, section)
  <2>2. DOMAIN list \subseteq Nat
    <3>1. Parts(e) \in SUBSET (DOMAIN part)
      BY DEF Parts, Rows
    <3> QED
      BY <3>1, OrdersNumbered
  <2> QED
    BY <1>1, <1>2, <2>2, RowTypes DEF TaskOK, AskedOK, ReadOK, Of, Rows, Planned, AskReorderParts
<1> QED
  BY <1>2, <1>3, AskKeeps

\* The contents are to be shown.
LEMMA ContentsAsked ==
  ASSUME Contents, NEW p \in Procs, NEW e \in Rows(edition), NEW staff \in BOOLEAN, AskContents(p, e, staff)
  PROVE  StepKeeps(p)
<1> PICK u : u = [Idle EXCEPT !.op = "contents", !.at = "read", !.edition = e]
  OBVIOUS
<1>1. DOMAIN u = Fields /\ u.op = "contents" /\ u.todo = {} /\ u.parts = None /\ u.rows = None /\ u.sections = None
  BY IdleShape DEF Fields
<1>2. Ask(p, u)
  BY DEF AskContents
<1>3. TaskOK(u, edition, part, chapter, section)
  <2> QED
    BY <1>1, <1>2, RowTypes DEF TaskOK, AskedOK, ReadOK, Of, Rows, Planned, AskContents
<1> QED
  BY <1>2, <1>3, AskKeeps

\* A bookmark is to be set.
LEMMA MarkAsked ==
  ASSUME Contents, NEW p \in Procs, NEW e \in Rows(edition), NEW c \in Rows(chapter) \cup {None}, NEW s \in Rows(section) \cup {None}, AskMark(p, e, c, s)
  PROVE  StepKeeps(p)
<1> PICK u : u = [Idle EXCEPT !.op = "mark", !.at = "upsert", !.edition = e, !.id = c, !.seen = s, !.arg = IF s = None THEN None ELSE section[s].chapter]
  OBVIOUS
<1>1. DOMAIN u = Fields /\ u.op = "mark" /\ u.edition = e /\ u.id = c /\ u.seen = s /\ u.arg = (IF s = None THEN None ELSE section[s].chapter) /\ u.todo = {} /\ u.parts = None /\ u.rows = None /\ u.sections = None
  BY IdleShape DEF Fields
<1>2. Ask(p, u)
  BY DEF AskMark
<1>3. TaskOK(u, edition, part, chapter, section)
  <2> QED
    BY <1>1, <1>2, RowTypes, Ids DEF TaskOK, AskedOK, ReadOK, Of, Rows, Planned, HasChapter, AskMark
<1> QED
  BY <1>2, <1>3, AskKeeps

\* A chapter is to go.
LEMMA DeleteChapterAsked ==
  ASSUME Contents, NEW p \in Procs, NEW c \in Rows(chapter), AskDeleteChapter(p, c)
  PROVE  StepKeeps(p)
<1> PICK u : u = [Idle EXCEPT !.op = "deleteChapter", !.at = "delete", !.id = c]
  OBVIOUS
<1>1. DOMAIN u = Fields /\ u.op = "deleteChapter" /\ u.id = c /\ u.todo = {} /\ u.parts = None /\ u.rows = None /\ u.sections = None
  BY IdleShape DEF Fields
<1>2. Ask(p, u)
  BY DEF AskDeleteChapter
<1>3. TaskOK(u, edition, part, chapter, section)
  <2> QED
    BY <1>1, <1>2, RowTypes DEF TaskOK, AskedOK, ReadOK, Of, Rows, Planned, AskDeleteChapter
<1> QED
  BY <1>2, <1>3, AskKeeps

\* A conversion is to start.
LEMMA StartAsked ==
  ASSUME Contents, NEW p \in Procs, NEW c \in Rows(chapter), AskStart(p, c)
  PROVE  StepKeeps(p)
<1> PICK u : u = [Idle EXCEPT !.op = "start", !.at = "claim", !.id = c]
  OBVIOUS
<1>1. DOMAIN u = Fields /\ u.op = "start" /\ u.id = c /\ u.todo = {} /\ u.parts = None /\ u.rows = None /\ u.sections = None
  BY IdleShape DEF Fields
<1>2. Ask(p, u)
  BY DEF AskStart
<1>3. TaskOK(u, edition, part, chapter, section)
  <2> QED
    BY <1>1, <1>2, RowTypes DEF TaskOK, AskedOK, ReadOK, Of, Rows, Planned, AskStart
<1> QED
  BY <1>2, <1>3, AskKeeps

\* A chapter is to move to another part, or out of its part.
LEMMA MoveAsked ==
  ASSUME Contents, NEW p \in Procs, NEW c \in Rows(chapter), NEW x \in Rows(part) \cup {None}, AskMove(p, c, x)
  PROVE  StepKeeps(p)
<1> PICK u : u = [Idle EXCEPT !.op = "move", !.at = "write", !.edition = chapter[c].edition, !.id = c, !.arg = x, !.seen = chapter[c].part]
  OBVIOUS
<1>1. DOMAIN u = Fields /\ u.op = "move" /\ u.edition = chapter[c].edition /\ u.id = c /\ u.arg = x /\ u.todo = {} /\ u.parts = None /\ u.rows = None /\ u.sections = None
  BY IdleShape DEF Fields
<1>2. Ask(p, u)
  BY DEF AskMove
<1>3. TaskOK(u, edition, part, chapter, section)
  <2> QED
    BY <1>1, <1>2, RowTypes DEF TaskOK, AskedOK, ReadOK, Of, Rows, Planned, HasPart, AskMove
<1> QED
  BY <1>2, <1>3, AskKeeps

\* A section is to be added.
LEMMA CreateSectionAsked ==
  ASSUME Contents, NEW p \in Procs, NEW c \in Rows(chapter), NEW n \in (1 .. MaxPages) \cup {None}, AskCreateSection(p, c, n)
  PROVE  StepKeeps(p)
<1> PICK u : u = [Idle EXCEPT !.op = "createSection", !.at = "insert", !.id = c, !.arg = n, !.seen = AfterLast(section, Sections(c))]
  OBVIOUS
<1>1. DOMAIN u = Fields /\ u.op = "createSection" /\ u.at = "insert" /\ u.id = c /\ u.arg = n /\ u.seen = AfterLast(section, Sections(c)) /\ u.todo = {} /\ u.parts = None /\ u.rows = None /\ u.sections = None
  BY IdleShape DEF Fields
<1>2. Ask(p, u)
  BY DEF AskCreateSection
<1>3. TaskOK(u, edition, part, chapter, section)
  <2> QED
    BY <1>1, <1>2, RowTypes, ReadsAreRows DEF TaskOK, AskedOK, ReadOK, Of, Rows, Planned, Paging, Page, AskCreateSection
<1> QED
  BY <1>2, <1>3, AskKeeps

\* The sections are to be put in an order.
LEMMA ReorderSectionsAsked ==
  ASSUME Contents, NEW p \in Procs, NEW c \in Rows(chapter), NEW list \in Orders(Sections(c)), AskReorderSections(p, c, list)
  PROVE  StepKeeps(p)
<1> PICK u : u = [Idle EXCEPT !.op = "reorderSections", !.at = "write", !.id = c, !.list = list]
  OBVIOUS
<1>1. DOMAIN u = Fields /\ u.op = "reorderSections" /\ u.list = list /\ u.todo = {} /\ u.parts = None /\ u.rows = None /\ u.sections = None
  BY IdleShape DEF Fields
<1>2. Ask(p, u)
  BY DEF AskReorderSections
<1>3. TaskOK(u, edition, part, chapter, section)
  <2>2. DOMAIN list \subseteq Nat
    <3>1. Sections(c) \in SUBSET (DOMAIN section)
      BY DEF Sections, Rows
    <3> QED
      BY <3>1, OrdersNumbered
  <2> QED
    BY <1>1, <1>2, <2>2, RowTypes DEF TaskOK, AskedOK, ReadOK, Of, Rows, Planned, AskReorderSections
<1> QED
  BY <1>2, <1>3, AskKeeps

\* A part is to go.
LEMMA DeletePartAsked ==
  ASSUME Contents, NEW p \in Procs, NEW x \in Rows(part), AskDeletePart(p, x)
  PROVE  StepKeeps(p)
<1> PICK u : u = [Idle EXCEPT !.op = "deletePart", !.at = "delete", !.edition = part[x].edition, !.id = x]
  OBVIOUS
<1>1. DOMAIN u = Fields /\ u.op = "deletePart" /\ u.id = x /\ u.todo = {} /\ u.parts = None /\ u.rows = None /\ u.sections = None
  BY IdleShape DEF Fields
<1>2. Ask(p, u)
  BY DEF AskDeletePart
<1>3. TaskOK(u, edition, part, chapter, section)
  <2> QED
    BY <1>1, <1>2, RowTypes DEF TaskOK, AskedOK, ReadOK, Of, Rows, Planned, AskDeletePart
<1> QED
  BY <1>2, <1>3, AskKeeps

\* A section is to go.
LEMMA DeleteSectionAsked ==
  ASSUME Contents, NEW p \in Procs, NEW s \in Rows(section), AskDeleteSection(p, s)
  PROVE  StepKeeps(p)
<1> PICK u : u = [Idle EXCEPT !.op = "deleteSection", !.at = "delete", !.id = s]
  OBVIOUS
<1>1. DOMAIN u = Fields /\ u.op = "deleteSection" /\ u.id = s /\ u.todo = {} /\ u.parts = None /\ u.rows = None /\ u.sections = None
  BY IdleShape DEF Fields
<1>2. Ask(p, u)
  BY DEF AskDeleteSection
<1>3. TaskOK(u, edition, part, chapter, section)
  <2> QED
    BY <1>1, <1>2, RowTypes DEF TaskOK, AskedOK, ReadOK, Of, Rows, Planned, AskDeleteSection
<1> QED
  BY <1>2, <1>3, AskKeeps

\* A section is to start at another page.
LEMMA MoveSectionAsked ==
  ASSUME Contents, NEW p \in Procs, NEW s \in Rows(section), NEW n \in 1 .. MaxPages, AskMoveSection(p, s, n)
  PROVE  StepKeeps(p)
<1> PICK u : u = [Idle EXCEPT !.op = "moveSection", !.at = "write", !.id = section[s].chapter, !.seen = s, !.arg = n]
  OBVIOUS
<1>1. DOMAIN u = Fields /\ u.op = "moveSection" /\ u.at = "write" /\ u.arg = n /\ u.todo = {} /\ u.parts = None /\ u.rows = None /\ u.sections = None
  BY IdleShape DEF Fields
<1>2. Ask(p, u)
  BY DEF AskMoveSection
<1>3. TaskOK(u, edition, part, chapter, section)
  <2> QED
    BY <1>1, <1>2, RowTypes DEF TaskOK, AskedOK, ReadOK, Of, Rows, Planned, Page, AskMoveSection
<1> QED
  BY <1>2, <1>3, AskKeeps

-----------------------------------------------------------------------------
(* Steps that read *)

\* A task that goes on to another place carries what it did.
LEMMA Moved ==
  ASSUME NEW t, DOMAIN t = Fields, NEW at, NEW u, u = [t EXCEPT !.at = at]
  PROVE  /\ DOMAIN u = Fields
         /\ u.op = t.op /\ u.at = at /\ u.edition = t.edition /\ u.id = t.id /\ u.arg = t.arg /\ u.word = t.word
         /\ u.was = t.was /\ u.list = t.list /\ u.alone = t.alone /\ u.hands = t.hands /\ u.todo = t.todo /\ u.done = t.done
         /\ u.parts = t.parts /\ u.rows = t.rows /\ u.sections = t.sections /\ u.seen = t.seen
BY DEF Fields

\* What it relies on does not depend on where it is, but for the sections it has read.
LEMMA MovedOK ==
  ASSUME NEW ed, NEW pt, NEW ch, NEW sc, NEW t, TaskOK(t, ed, pt, ch, sc), NEW at, at # "resort"
  PROVE  TaskOK([t EXCEPT !.at = at], ed, pt, ch, sc)
<1> PICK u : u = [t EXCEPT !.at = at]
  OBVIOUS
<1>1. /\ DOMAIN u = Fields
      /\ u.op = t.op /\ u.at = at /\ u.edition = t.edition /\ u.id = t.id /\ u.arg = t.arg /\ u.word = t.word
      /\ u.list = t.list /\ u.todo = t.todo
      /\ u.parts = t.parts /\ u.rows = t.rows /\ u.sections = t.sections /\ u.seen = t.seen
  BY Moved DEF TaskOK
<1>2. AskedOK(u, ed, pt, ch, sc)
  BY <1>1 DEF AskedOK, TaskOK
<1>3. ReadOK(u)
  BY <1>1 DEF ReadOK, TaskOK
<1> QED
  BY <1>1, <1>2, <1>3 DEF TaskOK

\* A step that only goes on, or ends.
LEMMA GotoKeeps ==
  ASSUME Contents, NEW p \in Procs, task[p] # None, NEW at, at # "resort", Goto(p, at) \/ End(p),
         UNCHANGED <<contents, page, pdf>>
  PROVE  StepKeeps(p)
<1>1. TaskOK([task[p] EXCEPT !.at = at], edition, part, chapter, section)
  BY MovedOK DEF Contents
<1>2. CASE Goto(p, at)
  <2> PICK u : u = [task[p] EXCEPT !.at = at]
    OBVIOUS
  <2>1. Proceed(p, u)
    BY <1>2 DEF Goto
  <2> QED
    BY <1>1, <2>1, ReadKeeps
<1>3. CASE End(p)
  BY <1>3, ReadKeeps DEF End
<1> QED
  BY <1>2, <1>3

\* The checks before a status or a deletion, and the answer.
LEMMA ChecksKeep ==
  ASSUME Contents, NEW p \in Procs, CountEditions(p) \/ AllowStatus(p) \/ Answer(p)
  PROVE  StepKeeps(p)
<1>1. CASE CountEditions(p)
  BY <1>1, GotoKeeps DEF CountEditions, At, Reads, pages
<1>2. CASE AllowStatus(p)
  BY <1>2, GotoKeeps DEF AllowStatus, At, Reads, pages
<1>3. CASE Answer(p)
  <2>1. task[p] # None /\ (Goto(p, "read") \/ End(p)) /\ UNCHANGED <<contents, page, pdf>>
    BY <1>3 DEF Answer, Answered, At, Reads, pages
  <2> QED
    BY <2>1, GotoKeeps
<1> QED
  BY <1>1, <1>2, <1>3

\* normalizeReadingOrder reads rows.
LEMMA PlansRead ==
  ASSUME Contents, NEW p \in Procs, ReadParts(p) \/ ReadChapters(p)
  PROVE  StepKeeps(p)
<1>1. task[p] # None /\ task[p].op \in Planned /\ UNCHANGED <<contents, page, pdf>>
  BY DEF ReadParts, ReadChapters, At, Reads, pages
<1>2. TaskOK(task[p], edition, part, chapter, section)
  BY <1>1 DEF Contents
<1>3. CASE ReadParts(p)
  <2> PICK r : r = [x \in Parts(task[p].edition) |-> part[x]]
    OBVIOUS
  <2> PICK u : u = [task[p] EXCEPT !.parts = r]
    OBVIOUS
  <2>1. Proceed(p, u)
    BY <1>3 DEF ReadParts
  <2>2. ReadOf(r, Part)
    BY ReadsAreRows
  <2>3. /\ DOMAIN u = Fields /\ u.parts = r
        /\ u.op = task[p].op /\ u.at = task[p].at /\ u.edition = task[p].edition /\ u.id = task[p].id /\ u.arg = task[p].arg
        /\ u.word = task[p].word /\ u.list = task[p].list /\ u.todo = task[p].todo
        /\ u.rows = task[p].rows /\ u.sections = task[p].sections /\ u.seen = task[p].seen
    BY <1>2 DEF TaskOK, Fields
  <2>4. AskedOK(u, edition, part, chapter, section)
    BY <1>2, <2>3 DEF AskedOK, TaskOK
  <2>5. ReadOK(u)
    BY <1>1, <1>2, <2>2, <2>3 DEF ReadOK, TaskOK, Planned
  <2> QED
    BY <1>1, <2>1, <2>3, <2>4, <2>5, ReadKeeps DEF TaskOK
<1>4. CASE ReadChapters(p)
  <2> PICK r : r = [c \in Chapters(task[p].edition) |-> chapter[c]]
    OBVIOUS
  <2> PICK u : u = [task[p] EXCEPT !.rows = r]
    OBVIOUS
  <2>1. Proceed(p, u)
    BY <1>4 DEF ReadChapters
  <2>2. ReadOf(r, Chapter)
    BY ReadsAreRows
  <2>3. /\ DOMAIN u = Fields /\ u.rows = r
        /\ u.op = task[p].op /\ u.at = task[p].at /\ u.edition = task[p].edition /\ u.id = task[p].id /\ u.arg = task[p].arg
        /\ u.word = task[p].word /\ u.list = task[p].list /\ u.todo = task[p].todo
        /\ u.parts = task[p].parts /\ u.sections = task[p].sections /\ u.seen = task[p].seen
    BY <1>2 DEF TaskOK, Fields
  <2>4. AskedOK(u, edition, part, chapter, section)
    BY <1>2, <2>3 DEF AskedOK, TaskOK
  <2>5. ReadOK(u)
    BY <1>1, <1>2, <2>2, <2>3 DEF ReadOK, TaskOK, Planned
  <2> QED
    BY <1>1, <2>1, <2>3, <2>4, <2>5, ReadKeeps DEF TaskOK
<1> QED
  BY <1>3, <1>4

\* resortPdfSections reads the sections.
LEMMA SortReads ==
  ASSUME Contents, NEW p \in Procs, ReadSections(p)
  PROVE  StepKeeps(p)
<1>1. task[p] # None /\ task[p].op \in {"createSection", "moveSection"} /\ UNCHANGED <<contents, page, pdf>>
  BY DEF ReadSections, At, Reads, pages
<1>2. TaskOK(task[p], edition, part, chapter, section)
  BY <1>1 DEF Contents
<1> PICK r : r = [s \in Sections(task[p].id) |-> section[s]]
  OBVIOUS
<1> PICK u : u = [task[p] EXCEPT !.at = "resort", !.sections = r]
  OBVIOUS
<1>3. Proceed(p, u)
  BY DEF ReadSections
<1>4. ReadOf(r, PagedSection)
  BY ReadsAreRows
<1>5. /\ DOMAIN u = Fields /\ u.sections = r
      /\ u.op = task[p].op /\ u.edition = task[p].edition /\ u.id = task[p].id /\ u.arg = task[p].arg
      /\ u.word = task[p].word /\ u.list = task[p].list /\ u.todo = task[p].todo
      /\ u.parts = task[p].parts /\ u.rows = task[p].rows /\ u.seen = task[p].seen
  BY <1>2 DEF TaskOK, Fields
<1>6. AskedOK(u, edition, part, chapter, section)
  BY <1>2, <1>5 DEF AskedOK, TaskOK
<1>7. ReadOK(u)
  BY <1>1, <1>2, <1>4, <1>5 DEF ReadOK, TaskOK, Planned
<1> QED
  BY <1>1, <1>3, <1>5, <1>6, <1>7, ReadKeeps DEF TaskOK

\* The contents are read, the chapters first.
LEMMA ContentsRead ==
  ASSUME Contents, NEW p \in Procs, ReadContents(p)
  PROVE  StepKeeps(p)
<1>1. task[p] # None /\ task[p].op = "contents" /\ UNCHANGED <<contents, page, pdf>>
  BY DEF ReadContents, At, Reads, pages
<1>2. TaskOK(task[p], edition, part, chapter, section)
  BY <1>1 DEF Contents
<1> PICK e : e = task[p].edition
  OBVIOUS
<1>3. ASSUME NEW u, Proceed(p, u), NEW x, NEW y, NEW z,
             DOMAIN u = Fields, u.op = "contents", u.parts = x, u.rows = y, u.sections = z,
             x = None \/ ReadOf(x, Part), y = None \/ ReadOf(y, Chapter),
             z # None => y # None /\ \A c \in DOMAIN y : ReadOf(z[c], PagedSection)
      PROVE  StepKeeps(p)
  <2>1. AskedOK(u, edition, part, chapter, section)
    BY <1>3 DEF AskedOK
  <2>2. ReadOK(u)
    BY <1>3 DEF ReadOK
  <2> QED
    BY <1>1, <1>3, <2>1, <2>2, ReadKeeps DEF TaskOK
<1>4. /\ task[p].parts = None \/ ReadOf(task[p].parts, Part)
      /\ task[p].rows = None \/ ReadOf(task[p].rows, Chapter)
      /\ task[p].sections # None =>
            task[p].rows # None /\ \A c \in DOMAIN task[p].rows : ReadOf(task[p].sections[c], PagedSection)
  BY <1>1, <1>2 DEF TaskOK, ReadOK
<1>5. CASE task[p].rows = None /\ Proceed(p, [task[p] EXCEPT !.rows = [c \in Chapters(e) |-> chapter[c]]])
  <2> PICK r : r = [c \in Chapters(e) |-> chapter[c]]
    OBVIOUS
  <2> PICK u : u = [task[p] EXCEPT !.rows = r]
    OBVIOUS
  <2>1. DOMAIN u = Fields /\ u.op = "contents" /\ u.rows = r /\ u.parts = task[p].parts /\ u.sections = task[p].sections
    BY <1>1, <1>2 DEF TaskOK, Fields
  <2>2. ReadOf(r, Chapter)
    BY ReadsAreRows
  <2>3. u.sections = None
    BY <1>4, <1>5, <2>1
  <2>4. Proceed(p, u)
    BY <1>5
  <2> QED
    BY <1>3, <1>4, <2>1, <2>2, <2>3, <2>4
<1>6. CASE task[p].rows # None /\ Proceed(p, [task[p] EXCEPT !.parts = [x \in Parts(e) |-> part[x]]])
  <2> PICK r : r = [x \in Parts(e) |-> part[x]]
    OBVIOUS
  <2> PICK u : u = [task[p] EXCEPT !.parts = r]
    OBVIOUS
  <2>1. DOMAIN u = Fields /\ u.op = "contents" /\ u.parts = r /\ u.rows = task[p].rows /\ u.sections = task[p].sections
    BY <1>1, <1>2 DEF TaskOK, Fields
  <2>2. ReadOf(r, Part)
    BY ReadsAreRows
  <2>4. Proceed(p, u)
    BY <1>6
  <2> QED
    BY <1>3, <1>4, <2>1, <2>2, <2>4
<1>7. CASE /\ task[p].rows # None
           /\ Proceed(p, [task[p] EXCEPT !.sections = [c \in DOMAIN task[p].rows |-> [s \in Sections(c) |-> section[s]]]])
  <2> PICK r : r = [c \in DOMAIN task[p].rows |-> [s \in Sections(c) |-> section[s]]]
    OBVIOUS
  <2> PICK u : u = [task[p] EXCEPT !.sections = r]
    OBVIOUS
  <2>1. DOMAIN u = Fields /\ u.op = "contents" /\ u.sections = r /\ u.rows = task[p].rows /\ u.parts = task[p].parts
    BY <1>1, <1>2 DEF TaskOK, Fields
  <2>2. ASSUME NEW c \in DOMAIN task[p].rows PROVE ReadOf(r[c], PagedSection)
    BY ReadsAreRows
  <2>4. Proceed(p, u)
    BY <1>7
  <2> QED
    BY <1>3, <1>4, <1>7, <2>1, <2>2, <2>4
<1> QED
  BY <1>5, <1>6, <1>7 DEF ReadContents

-----------------------------------------------------------------------------
(* Steps that write one table *)

\* A write to the chapters that leaves every one there, in its edition and in a part that is there.
LEMMA ChaptersWritten ==
  ASSUME Contents, UNCHANGED <<edition, part, section, mark, page, pdf>>,
         NEW S, chapter' \in [DOMAIN chapter -> S],
         \A c \in DOMAIN chapter :
            IF chapter[c] = None THEN chapter'[c] = None
            ELSE /\ chapter'[c] \in Chapter /\ chapter'[c] # None /\ chapter'[c].edition = chapter[c].edition
                 /\ chapter'[c].part = None \/ chapter'[c].part = chapter[c].part
                    \/ (chapter'[c].part \in Rows(part) /\ part[chapter'[c].part].edition = chapter[c].edition)
  PROVE  /\ TablesOK(edition', part', chapter', section', mark', page', pdf')
         /\ Ages(edition, part, chapter, section, edition', part', chapter', section')
<1>1. TablesOK(edition, part, chapter, section, mark, page, pdf)
  BY DEF Contents
<1>2. DOMAIN chapter' = DOMAIN chapter
  OBVIOUS
<1>3. chapter' \in [DOMAIN chapter -> Chapter \cup {None}]
  BY <1>2
<1>4. chapter' \in Seq(Chapter \cup {None}) /\ Len(chapter') = Len(chapter)
  <2>1. chapter \in Seq(Chapter \cup {None})
    BY <1>1 DEF TablesOK
  <2> QED
    BY <1>3, <2>1, TableWritten
<1>5. Rows(chapter') = Rows(chapter)
  BY <1>2 DEF Rows
<1>6. Linked(edition, part, chapter', section)
  <2>1. Linked(edition, part, chapter, section)
    BY <1>1 DEF TablesOK
  <2>2. ASSUME NEW c \in Rows(chapter)
        PROVE  /\ chapter'[c] \in Chapter /\ chapter'[c].edition \in Rows(edition)
               /\ chapter'[c].part = None \/ (chapter'[c].part \in Rows(part) /\ part[chapter'[c].part].edition = chapter'[c].edition)
    <3>1. /\ chapter'[c] \in Chapter /\ chapter'[c].edition = chapter[c].edition
          /\ chapter'[c].part = None \/ chapter'[c].part = chapter[c].part
             \/ (chapter'[c].part \in Rows(part) /\ part[chapter'[c].part].edition = chapter[c].edition)
      BY DEF Rows
    <3>2. /\ chapter[c].edition \in Rows(edition)
          /\ chapter[c].part = None \/ (chapter[c].part \in Rows(part) /\ part[chapter[c].part].edition = chapter[c].edition)
      BY <2>1 DEF Linked
    <3> QED
      BY <3>1, <3>2
  <2> QED
    BY <1>5, <2>1, <2>2 DEF Linked
<1>7. Agrees(edition, chapter', section, mark)
  <2>1. Agrees(edition, chapter, section, mark)
    BY <1>1 DEF TablesOK
  <2>2. \A c \in Rows(chapter) : chapter'[c].edition = chapter[c].edition
    BY DEF Rows
  <2> QED
    BY <1>5, <2>1, <2>2 DEF Agrees
<1>8. Ages(edition, part, chapter, section, edition, part, chapter', section)
  BY <1>2 DEF Ages
<1> QED
  BY <1>1, <1>4, <1>5, <1>6, <1>7, <1>8 DEF TablesOK

\* A write to the sections that leaves every one there, in its chapter.
LEMMA SectionsWritten ==
  ASSUME Contents, UNCHANGED <<edition, part, chapter, mark, page, pdf>>,
         NEW S, section' \in [DOMAIN section -> S],
         \A s \in DOMAIN section :
            IF section[s] = None THEN section'[s] = None
            ELSE section'[s] \in PagedSection /\ section'[s] # None /\ section'[s].chapter = section[s].chapter
  PROVE  /\ TablesOK(edition', part', chapter', section', mark', page', pdf')
         /\ Ages(edition, part, chapter, section, edition', part', chapter', section')
<1>1. TablesOK(edition, part, chapter, section, mark, page, pdf)
  BY DEF Contents
<1>2. DOMAIN section' = DOMAIN section
  OBVIOUS
<1>3. section' \in [DOMAIN section -> PagedSection \cup {None}]
  BY <1>2
<1>4. section' \in Seq(PagedSection \cup {None})
  <2>1. section \in Seq(PagedSection \cup {None})
    BY <1>1 DEF TablesOK
  <2> QED
    BY <1>3, <2>1, TableWritten
<1>5. Rows(section') = Rows(section)
  BY <1>2 DEF Rows
<1>a. \A s \in Rows(section) : section'[s] \in PagedSection /\ section'[s].chapter = section[s].chapter
  BY DEF Rows
<1>6. Linked(edition, part, chapter, section')
  <2>1. Linked(edition, part, chapter, section)
    BY <1>1 DEF TablesOK
  <2>2. \A s \in Rows(section) : section'[s] \in Section
    BY <1>a, PagesAreCounted DEF PagedSection, Section
  <2> QED
    BY <1>5, <1>a, <2>1, <2>2 DEF Linked
<1>7. Agrees(edition, chapter, section', mark)
  <2>1. Agrees(edition, chapter, section, mark)
    BY <1>1 DEF TablesOK
  <2> QED
    BY <1>5, <1>a, <2>1 DEF Agrees
<1>8. Ages(edition, part, chapter, section, edition, part, chapter, section')
  BY <1>2 DEF Ages
<1> QED
  BY <1>1, <1>4, <1>6, <1>7, <1>8 DEF TablesOK

\* A write to the parts that leaves every one there, in its edition.
LEMMA PartsWritten ==
  ASSUME Contents, UNCHANGED <<edition, chapter, section, mark, page, pdf>>,
         NEW S, part' \in [DOMAIN part -> S],
         \A x \in DOMAIN part :
            IF part[x] = None THEN part'[x] = None
            ELSE part'[x] \in Part /\ part'[x] # None /\ part'[x].edition = part[x].edition
  PROVE  /\ TablesOK(edition', part', chapter', section', mark', page', pdf')
         /\ Ages(edition, part, chapter, section, edition', part', chapter', section')
<1>1. TablesOK(edition, part, chapter, section, mark, page, pdf)
  BY DEF Contents
<1>2. DOMAIN part' = DOMAIN part
  OBVIOUS
<1>3. part' \in [DOMAIN part -> Part \cup {None}]
  BY <1>2
<1>4. part' \in Seq(Part \cup {None})
  <2>1. part \in Seq(Part \cup {None})
    BY <1>1 DEF TablesOK
  <2> QED
    BY <1>3, <2>1, TableWritten
<1>5. Rows(part') = Rows(part)
  BY <1>2 DEF Rows
<1>a. \A x \in Rows(part) : part'[x] \in Part /\ part'[x].edition = part[x].edition
  BY DEF Rows
<1>6. Linked(edition, part', chapter, section)
  <2>1. Linked(edition, part, chapter, section)
    BY <1>1 DEF TablesOK
  <2>2. \A x \in Rows(part) : part[x].edition \in Rows(edition)
    BY <2>1 DEF Linked
  <2>3. \A x \in Rows(part') : part'[x] \in Part /\ part'[x].edition \in Rows(edition)
    BY <1>5, <1>a, <2>2
  <2>4. \A c \in Rows(chapter) : chapter[c].part \in Rows(part') => part'[chapter[c].part].edition = part[chapter[c].part].edition
    BY <1>5, <1>a
  <2> QED
    BY <1>5, <2>1, <2>3, <2>4 DEF Linked
<1>7. Agrees(edition, chapter, section, mark)
  BY <1>1 DEF TablesOK
<1>8. Ages(edition, part, chapter, section, edition, part', chapter, section)
  BY <1>2 DEF Ages
<1> QED
  BY <1>1, <1>4, <1>6, <1>7, <1>8 DEF TablesOK

\* Rows with a field written are rows.
LEMMA RowsPatched ==
  /\ None \notin Chapter /\ None \notin Part /\ None \notin PagedSection
  /\ \A r \in Chapter : \A x \in Nat :
        /\ [r EXCEPT !.order = x] \in Chapter /\ [r EXCEPT !.order = x].edition = r.edition
        /\ [r EXCEPT !.order = x].part = r.part
  /\ \A r \in Chapter : \A x \in Nat \cup {None} :
        /\ [r EXCEPT !.part = x] \in Chapter /\ [r EXCEPT !.part = x].edition = r.edition
        /\ [r EXCEPT !.part = x].part = x
  /\ \A r \in Part : \A x \in Nat : [r EXCEPT !.order = x] \in Part /\ [r EXCEPT !.order = x].edition = r.edition
  /\ \A r \in PagedSection : \A x \in Nat :
        [r EXCEPT !.order = x] \in PagedSection /\ [r EXCEPT !.order = x].chapter = r.chapter
  /\ \A r \in PagedSection : \A x \in Paging :
        [r EXCEPT !.page = x] \in PagedSection /\ [r EXCEPT !.page = x].chapter = r.chapter
<1>1. None \notin Chapter /\ None \notin Part
  BY NoneIsNothing
<1>2. None \notin PagedSection
  <2>1. PagedSection \subseteq Section
    BY PagesAreCounted DEF PagedSection, Section
  <2> QED
    BY <2>1, NoneIsNothing
<1>3. \A r \in Chapter : \A x \in Nat :
        /\ [r EXCEPT !.order = x] \in Chapter /\ [r EXCEPT !.order = x].edition = r.edition
        /\ [r EXCEPT !.order = x].part = r.part
  BY DEF Chapter
<1>4. \A r \in Chapter : \A x \in Nat \cup {None} :
        /\ [r EXCEPT !.part = x] \in Chapter /\ [r EXCEPT !.part = x].edition = r.edition
        /\ [r EXCEPT !.part = x].part = x
  BY DEF Chapter
<1>5. \A r \in Part : \A x \in Nat : [r EXCEPT !.order = x] \in Part /\ [r EXCEPT !.order = x].edition = r.edition
  BY DEF Part
<1>6. \A r \in PagedSection : \A x \in Nat :
        [r EXCEPT !.order = x] \in PagedSection /\ [r EXCEPT !.order = x].chapter = r.chapter
  BY DEF PagedSection
<1>7. \A r \in PagedSection : \A x \in Paging :
        [r EXCEPT !.page = x] \in PagedSection /\ [r EXCEPT !.page = x].chapter = r.chapter
  BY DEF PagedSection, Paging, Page
<1> QED
  BY <1>1, <1>2, <1>3, <1>4, <1>5, <1>6, <1>7, Zenon

\* A step that writes the tables, and goes on or ends.
LEMMA WriteKeeps ==
  ASSUME Contents, NEW p \in Procs, task[p] # None, NEW at, at # "resort",
         TablesOK(edition', part', chapter', section', mark', page', pdf'),
         Ages(edition, part, chapter, section, edition', part', chapter', section'),
         End(p) \/ Goto(p, at) \/ Disturb(p, None) \/ Disturb(p, [task[p] EXCEPT !.at = at])
  PROVE  StepKeeps(p)
<1>1. TaskOK(task[p], edition', part', chapter', section')
  <2>1. TaskOK(task[p], edition, part, chapter, section)
    BY DEF Contents
  <2> QED
    BY <2>1, TaskAges
<1>2. TaskOK([task[p] EXCEPT !.at = at], edition', part', chapter', section')
  BY <1>1, MovedOK
<1> PICK u : u = [task[p] EXCEPT !.at = at]
  OBVIOUS
<1>3. ASSUME NEW t, Proceed(p, t) \/ Disturb(p, t), t = None \/ t = u
      PROVE  StepKeeps(p)
  <2>1. Others(p, task, task') /\ task'[p] = t
    BY <1>3, ProceedOthers, DisturbOthers DEF Contents
  <2> QED
    BY <1>2, <1>3, <2>1 DEF StepKeeps
<1>4. Proceed(p, None) \/ Proceed(p, u) \/ Disturb(p, None) \/ Disturb(p, u)
  BY DEF End, Goto
<1> QED
  BY <1>3, <1>4

\* A place in a list of ids.
LEMMA PlacesOfList ==
  ASSUME NEW list, DOMAIN list \subseteq Nat, NEW i, \E n \in DOMAIN list : list[n] = i
  PROVE  Place(list, i) \in Nat
BY DEF Place

\* normalizeReadingOrder writes the order of the rows that moved.
LEMMA RenumberKeeps ==
  ASSUME Contents, NEW p \in Procs, Renumber(p)
  PROVE  StepKeeps(p)
<1>1. /\ task[p] # None /\ task[p].op \in Planned /\ task[p].parts # None /\ task[p].rows # None
      /\ UNCHANGED <<edition, part, section, mark, page, pdf>>
  BY DEF Renumber, At, pages
<1> PICK order : order = ReadingOrder(task[p].parts, task[p].rows)
  OBVIOUS
<1>2. CASE End(p) /\ UNCHANGED chapter
  <2>1. UNCHANGED <<contents, page, pdf>>
    BY <1>1, <1>2 DEF contents
  <2>2. (Goto(p, "x") \/ End(p)) /\ "x" # "resort"
    BY <1>2
  <2> QED
    BY <1>1, <2>1, <2>2, GotoKeeps
<1>3. CASE ~(End(p) /\ UNCHANGED chapter)
  <2>1. /\ chapter' = [c \in DOMAIN chapter |-> IF c \in DOMAIN order THEN [chapter[c] EXCEPT !.order = order[c]] ELSE chapter[c]]
        /\ Disturb(p, None) /\ DOMAIN order \subseteq Rows(chapter)
    BY <1>3 DEF Renumber
  <2>2. ReadOf(task[p].parts, Part) /\ ReadOf(task[p].rows, Chapter)
    BY <1>1 DEF Contents, TaskOK, ReadOK, Planned
  <2>3. ASSUME NEW c \in DOMAIN order PROVE order[c] \in Nat
    <3>1. c \in DOMAIN task[p].rows /\ order[c] = Number(task[p].parts, task[p].rows, c)
      BY <2>2, ChaptersLineUp DEF ReadingOrder
    <3>2. Places(InReading(task[p].parts, task[p].rows), DOMAIN task[p].rows)[c] \in Nat
      <4>1. LinesUp(InReading(task[p].parts, task[p].rows), DOMAIN task[p].rows) /\ IsFiniteSet(DOMAIN task[p].rows)
        BY <2>2, ChaptersLineUp DEF ReadOf
      <4>2. /\ Cardinality(DOMAIN task[p].rows) \in Nat
            /\ Places(InReading(task[p].parts, task[p].rows), DOMAIN task[p].rows) \in [DOMAIN task[p].rows -> 1 .. Cardinality(DOMAIN task[p].rows)]
        BY <4>1, PlacesType
      <4> QED
        BY <3>1, <4>2
    <3> QED
      BY <2>2, <3>1, <3>2, ChaptersLineUp
  <2> DEFINE S == {chapter'[c] : c \in DOMAIN chapter}
  <2>4. chapter' \in [DOMAIN chapter -> S]
    BY <2>1
  <2>5. ASSUME NEW c \in DOMAIN chapter
        PROVE  IF chapter[c] = None THEN chapter'[c] = None
               ELSE /\ chapter'[c] \in Chapter /\ chapter'[c] # None /\ chapter'[c].edition = chapter[c].edition
                    /\ chapter'[c].part = None \/ chapter'[c].part = chapter[c].part
                       \/ (chapter'[c].part \in Rows(part) /\ part[chapter'[c].part].edition = chapter[c].edition)
    <3>1. CASE c \in DOMAIN order
      <4>1. chapter[c] \in Chapter /\ chapter[c] # None
        BY <2>1, <3>1, RowTypes DEF Rows
      <4>2. chapter'[c] = [chapter[c] EXCEPT !.order = order[c]]
        BY <2>1, <3>1
      <4> QED
        BY <2>3, <3>1, <4>1, <4>2, RowsPatched
    <3>2. CASE c \notin DOMAIN order
      <4>1. chapter'[c] = chapter[c]
        BY <2>1, <3>2
      <4> QED
        BY <4>1, RowTypes DEF Rows
    <3> QED
      BY <3>1, <3>2
  <2> HIDE DEF S
  <2>6. /\ TablesOK(edition', part', chapter', section', mark', page', pdf')
        /\ Ages(edition, part, chapter, section, edition', part', chapter', section')
    BY <1>1, <2>4, <2>5, ChaptersWritten
  <2>7. "plan" # "resort"
    OBVIOUS
  <2> QED
    BY <1>1, <2>1, <2>6, <2>7, WriteKeeps
<1> QED
  BY <1>2, <1>3

\* A chapter is moved to a part of its edition, or out of any.
LEMMA MoveChapterKeeps ==
  ASSUME Contents, NEW p \in Procs, MoveChapter(p)
  PROVE  StepKeeps(p)
<1> PICK c : c = task[p].id
  OBVIOUS
<1> PICK x : x = task[p].arg
  OBVIOUS
<1>1. /\ task[p] # None /\ task[p].op = "move" /\ UNCHANGED <<edition, part, section, mark, page, pdf>>
  BY DEF MoveChapter, At, pages
<1>2. CASE End(p) /\ UNCHANGED chapter
  <2>1. UNCHANGED <<contents, page, pdf>>
    BY <1>1, <1>2 DEF contents
  <2>2. (Goto(p, "x") \/ End(p)) /\ "x" # "resort"
    BY <1>2
  <2> QED
    BY <1>1, <2>1, <2>2, GotoKeeps
<1>3. CASE ~(End(p) /\ UNCHANGED chapter)
  <2>1. /\ chapter' = [chapter EXCEPT ![c].part = x] /\ chapter[c] # None /\ (x # None => part[x] # None)
        /\ Disturb(p, None) \/ Disturb(p, [task[p] EXCEPT !.at = "plan"])
    BY <1>3 DEF MoveChapter, Regroup
  <2>2. Of(chapter, c, task[p].edition) /\ (x = None \/ Of(part, x, task[p].edition))
    BY <1>1 DEF Contents, TaskOK, AskedOK
  <2>3. c \in Rows(chapter) /\ (x # None => x \in Rows(part) /\ part[x].edition = chapter[c].edition)
    BY <2>1, <2>2 DEF Of, Rows
  <2>x. x \in Nat \cup {None}
    BY <2>3, Ids DEF Rows
  <2>r. PICK r : r = [chapter[c] EXCEPT !.part = x]
    OBVIOUS
  <2>4. r \in Chapter /\ r # None /\ r.edition = chapter[c].edition /\ r.part = x
    BY <2>3, <2>x, <2>r, RowTypes, RowsPatched
  <2>5. chapter' = [chapter EXCEPT ![c] = r]
    BY <2>1, <2>r
  <2> DEFINE S == {chapter'[d] : d \in DOMAIN chapter}
  <2>6. chapter' \in [DOMAIN chapter -> S]
    BY <2>5
  <2>7. ASSUME NEW d \in DOMAIN chapter
        PROVE  IF chapter[d] = None THEN chapter'[d] = None
               ELSE /\ chapter'[d] \in Chapter /\ chapter'[d] # None /\ chapter'[d].edition = chapter[d].edition
                    /\ chapter'[d].part = None \/ chapter'[d].part = chapter[d].part
                       \/ (chapter'[d].part \in Rows(part) /\ part[chapter'[d].part].edition = chapter[d].edition)
    <3>1. chapter'[d] = IF d = c THEN r ELSE chapter[d]
      BY <2>5
    <3> QED
      BY <2>1, <2>3, <2>4, <3>1, RowTypes DEF Rows
  <2> HIDE DEF S
  <2>8. /\ TablesOK(edition', part', chapter', section', mark', page', pdf')
        /\ Ages(edition, part, chapter, section, edition', part', chapter', section')
    BY <1>1, <2>6, <2>7, ChaptersWritten
  <2> QED
    BY <1>1, <2>1, <2>8, WriteKeeps
<1> QED
  BY <1>2, <1>3

\* The order a client sent is written.
LEMMA WriteOrderKeeps ==
  ASSUME Contents, NEW p \in Procs, WriteOrder(p)
  PROVE  StepKeeps(p)
<1> PICK list : list = task[p].list
  OBVIOUS
<1>1. /\ task[p] # None /\ task[p].op = "reorder" /\ UNCHANGED <<edition, part, section, mark, page, pdf>>
  BY DEF WriteOrder, At, pages
<1>2. CASE End(p) /\ UNCHANGED chapter
  <2>1. UNCHANGED <<contents, page, pdf>>
    BY <1>1, <1>2 DEF contents
  <2>2. (Goto(p, "x") \/ End(p)) /\ "x" # "resort"
    BY <1>2
  <2> QED
    BY <1>1, <2>1, <2>2, GotoKeeps
<1>3. CASE ~(End(p) /\ UNCHANGED chapter)
  <2>1. chapter' = Renumbered(chapter, list) /\ Disturb(p, [task[p] EXCEPT !.at = "plan"]) /\ AllThere(chapter, list)
    BY <1>3 DEF WriteOrder, Regroup
  <2>2. DOMAIN list \subseteq Nat
    BY <1>1 DEF Contents, TaskOK, AskedOK
  <2> DEFINE S == {chapter'[d] : d \in DOMAIN chapter}
  <2>3. chapter' \in [DOMAIN chapter -> S]
    BY <2>1 DEF Renumbered
  <2>4. ASSUME NEW d \in DOMAIN chapter
        PROVE  IF chapter[d] = None THEN chapter'[d] = None
               ELSE /\ chapter'[d] \in Chapter /\ chapter'[d] # None /\ chapter'[d].edition = chapter[d].edition
                    /\ chapter'[d].part = None \/ chapter'[d].part = chapter[d].part
                       \/ (chapter'[d].part \in Rows(part) /\ part[chapter'[d].part].edition = chapter[d].edition)
    <3>1. CASE \E n \in DOMAIN list : list[n] = d
      <4>1. chapter'[d] = [chapter[d] EXCEPT !.order = Place(list, d)]
        BY <2>1, <3>1 DEF Renumbered
      <4>2. Place(list, d) \in Nat
        BY <2>2, <3>1, PlacesOfList
      <4>3. chapter[d] # None
        BY <2>1, <3>1 DEF AllThere
      <4>4. chapter[d] \in Chapter
        BY <4>3, RowTypes DEF Rows
      <4> QED
        BY <4>1, <4>2, <4>3, <4>4, RowsPatched
    <3>2. CASE ~\E n \in DOMAIN list : list[n] = d
      <4>1. chapter'[d] = chapter[d]
        BY <2>1, <3>2 DEF Renumbered
      <4> QED
        BY <4>1, RowTypes DEF Rows
    <3> QED
      BY <3>1, <3>2
  <2> HIDE DEF S
  <2>5. /\ TablesOK(edition', part', chapter', section', mark', page', pdf')
        /\ Ages(edition, part, chapter, section, edition', part', chapter', section')
    BY <1>1, <2>3, <2>4, ChaptersWritten
  <2> QED
    BY <1>1, <2>1, <2>5, WriteKeeps
<1> QED
  BY <1>2, <1>3

\* And that of the parts.
LEMMA WritePartOrderKeeps ==
  ASSUME Contents, NEW p \in Procs, WritePartOrder(p)
  PROVE  StepKeeps(p)
<1> PICK list : list = task[p].list
  OBVIOUS
<1>1. /\ task[p] # None /\ task[p].op = "reorderParts" /\ UNCHANGED <<edition, chapter, section, mark, page, pdf>>
  BY DEF WritePartOrder, At, pages
<1>2. CASE End(p) /\ UNCHANGED part
  <2>1. UNCHANGED <<contents, page, pdf>>
    BY <1>1, <1>2 DEF contents
  <2>2. (Goto(p, "x") \/ End(p)) /\ "x" # "resort"
    BY <1>2
  <2> QED
    BY <1>1, <2>1, <2>2, GotoKeeps
<1>3. CASE ~(End(p) /\ UNCHANGED part)
  <2>1. part' = Renumbered(part, list) /\ Disturb(p, [task[p] EXCEPT !.at = "plan"]) /\ AllThere(part, list)
    BY <1>3 DEF WritePartOrder, Regroup
  <2>2. DOMAIN list \subseteq Nat
    BY <1>1 DEF Contents, TaskOK, AskedOK
  <2> DEFINE S == {part'[d] : d \in DOMAIN part}
  <2>3. part' \in [DOMAIN part -> S]
    BY <2>1 DEF Renumbered
  <2>4. ASSUME NEW d \in DOMAIN part
        PROVE  IF part[d] = None THEN part'[d] = None
               ELSE part'[d] \in Part /\ part'[d] # None /\ part'[d].edition = part[d].edition
    <3>1. CASE \E n \in DOMAIN list : list[n] = d
      <4>1. part'[d] = [part[d] EXCEPT !.order = Place(list, d)]
        BY <2>1, <3>1 DEF Renumbered
      <4>2. Place(list, d) \in Nat
        BY <2>2, <3>1, PlacesOfList
      <4>3. part[d] # None
        BY <2>1, <3>1 DEF AllThere
      <4>4. part[d] \in Part
        BY <4>3, RowTypes DEF Rows
      <4> QED
        BY <4>1, <4>2, <4>3, <4>4, RowsPatched
    <3>2. CASE ~\E n \in DOMAIN list : list[n] = d
      <4>1. part'[d] = part[d]
        BY <2>1, <3>2 DEF Renumbered
      <4> QED
        BY <4>1, RowTypes DEF Rows
    <3> QED
      BY <3>1, <3>2
  <2> HIDE DEF S
  <2>5. /\ TablesOK(edition', part', chapter', section', mark', page', pdf')
        /\ Ages(edition, part, chapter, section, edition', part', chapter', section')
    BY <1>1, <2>3, <2>4, PartsWritten
  <2> QED
    BY <1>1, <2>1, <2>5, WriteKeeps
<1> QED
  BY <1>2, <1>3

\* And that of the sections.
LEMMA WriteSectionOrderKeeps ==
  ASSUME Contents, NEW p \in Procs, WriteSectionOrder(p)
  PROVE  StepKeeps(p)
<1> PICK list : list = task[p].list
  OBVIOUS
<1>1. /\ task[p] # None /\ task[p].op = "reorderSections" /\ UNCHANGED <<edition, part, chapter, mark, page, pdf>>
  BY DEF WriteSectionOrder, At, pages
<1>2. CASE End(p) /\ UNCHANGED section
  <2>1. UNCHANGED <<contents, page, pdf>>
    BY <1>1, <1>2 DEF contents
  <2>2. (Goto(p, "x") \/ End(p)) /\ "x" # "resort"
    BY <1>2
  <2> QED
    BY <1>1, <2>1, <2>2, GotoKeeps
<1>3. CASE ~(End(p) /\ UNCHANGED section)
  <2>1. section' = Renumbered(section, list) /\ Disturb(p, None) /\ AllThere(section, list)
    BY <1>3 DEF WriteSectionOrder
  <2>2. DOMAIN list \subseteq Nat
    BY <1>1 DEF Contents, TaskOK, AskedOK
  <2> DEFINE S == {section'[d] : d \in DOMAIN section}
  <2>3. section' \in [DOMAIN section -> S]
    BY <2>1 DEF Renumbered
  <2>4. ASSUME NEW d \in DOMAIN section
        PROVE  IF section[d] = None THEN section'[d] = None
               ELSE section'[d] \in PagedSection /\ section'[d] # None /\ section'[d].chapter = section[d].chapter
    <3>1. CASE \E n \in DOMAIN list : list[n] = d
      <4>1. section'[d] = [section[d] EXCEPT !.order = Place(list, d)]
        BY <2>1, <3>1 DEF Renumbered
      <4>2. Place(list, d) \in Nat
        BY <2>2, <3>1, PlacesOfList
      <4>3. section[d] # None
        BY <2>1, <3>1 DEF AllThere
      <4>4. section[d] \in PagedSection
        BY <4>3, RowTypes DEF Rows
      <4> QED
        BY <4>1, <4>2, <4>3, <4>4, RowsPatched
    <3>2. CASE ~\E n \in DOMAIN list : list[n] = d
      <4>1. section'[d] = section[d]
        BY <2>1, <3>2 DEF Renumbered
      <4> QED
        BY <4>1, RowTypes DEF Rows
    <3> QED
      BY <3>1, <3>2
  <2> HIDE DEF S
  <2>5. /\ TablesOK(edition', part', chapter', section', mark', page', pdf')
        /\ Ages(edition, part, chapter, section, edition', part', chapter', section')
    BY <1>1, <2>3, <2>4, SectionsWritten
  <2> QED
    BY <1>1, <2>1, <2>5, WriteKeeps
<1> QED
  BY <1>2, <1>3

\* A section is given another page.
LEMMA MoveSectionKeeps ==
  ASSUME Contents, NEW p \in Procs, MoveSection(p)
  PROVE  StepKeeps(p)
<1> PICK s : s = task[p].seen
  OBVIOUS
<1> PICK n : n = task[p].arg
  OBVIOUS
<1>1. /\ task[p] # None /\ task[p].op = "moveSection" /\ UNCHANGED <<edition, part, chapter, mark, page, pdf>>
  BY DEF MoveSection, At, pages
<1>2. CASE End(p) /\ UNCHANGED section
  <2>1. UNCHANGED <<contents, page, pdf>>
    BY <1>1, <1>2 DEF contents
  <2>2. (Goto(p, "x") \/ End(p)) /\ "x" # "resort"
    BY <1>2
  <2> QED
    BY <1>1, <2>1, <2>2, GotoKeeps
<1>3. CASE ~(End(p) /\ UNCHANGED section)
  <2>1. section' = [section EXCEPT ![s].page = n] /\ Disturb(p, [task[p] EXCEPT !.at = "sort"]) /\ section[s] # None
    BY <1>3 DEF MoveSection
  <2>2. n \in Paging
    BY <1>1 DEF Contents, TaskOK, AskedOK, Paging
  <2>r. PICK r : r = [section[s] EXCEPT !.page = n]
    OBVIOUS
  <2>3. section' = [section EXCEPT ![s] = r]
    BY <2>1, <2>r
  <2> DEFINE S == {section'[d] : d \in DOMAIN section}
  <2>4. section' \in [DOMAIN section -> S]
    BY <2>3
  <2>5. ASSUME NEW d \in DOMAIN section
        PROVE  IF section[d] = None THEN section'[d] = None
               ELSE section'[d] \in PagedSection /\ section'[d] # None /\ section'[d].chapter = section[d].chapter
    <3>1. section'[d] = IF d = s THEN r ELSE section[d]
      BY <2>3
    <3>2. CASE d = s
      <4>1. section[s] \in PagedSection
        BY <2>1, <3>2, RowTypes DEF Rows
      <4>2. [section[s] EXCEPT !.page = n] \in PagedSection /\ [section[s] EXCEPT !.page = n].chapter = section[s].chapter
        BY <2>2, <4>1, RowsPatched
      <4>3. r \in PagedSection /\ r.chapter = section[s].chapter /\ r # None
        BY <2>r, <4>2, RowsPatched
      <4> QED
        BY <2>1, <3>1, <3>2, <4>3
    <3>3. CASE d # s
      BY <3>1, <3>3, RowTypes DEF Rows
    <3> QED
      BY <3>2, <3>3
  <2> HIDE DEF S
  <2>6. /\ TablesOK(edition', part', chapter', section', mark', page', pdf')
        /\ Ages(edition, part, chapter, section, edition', part', chapter', section')
    BY <1>1, <2>4, <2>5, SectionsWritten
  <2> QED
    BY <1>1, <2>1, <2>6, WriteKeeps
<1> QED
  BY <1>2, <1>3

\* resortPdfSections writes the order of the sections that moved.
LEMMA ResortKeeps ==
  ASSUME Contents, NEW p \in Procs, ResortSections(p)
  PROVE  StepKeeps(p)
<1> PICK read : read = task[p].sections
  OBVIOUS
<1> DEFINE moved == {s \in DOMAIN read : read[s].order # SectionNumber(read, s)}
<1>1. /\ task[p] # None /\ task[p].op \in {"createSection", "moveSection"} /\ task[p].at = "resort"
      /\ UNCHANGED <<edition, part, chapter, mark, page, pdf>>
  BY DEF ResortSections, At, pages
<1>2. CASE End(p) /\ UNCHANGED section
  <2>1. UNCHANGED <<contents, page, pdf>>
    BY <1>1, <1>2 DEF contents
  <2>2. (Goto(p, "x") \/ End(p)) /\ "x" # "resort"
    BY <1>2
  <2> QED
    BY <1>1, <2>1, <2>2, GotoKeeps
<1>3. CASE ~(End(p) /\ UNCHANGED section)
  <2>1. /\ section' = [s \in DOMAIN section |-> IF s \in moved THEN [section[s] EXCEPT !.order = SectionNumber(read, s)]
                                                ELSE section[s]]
        /\ Disturb(p, None) /\ moved \subseteq Rows(section)
    BY <1>3 DEF ResortSections
  <2>2. ReadOf(read, PagedSection)
    BY <1>1 DEF Contents, TaskOK, ReadOK
  <2>3. ASSUME NEW s \in DOMAIN read PROVE SectionNumber(read, s) \in Nat
    <3>1. LinesUp(InPages(read), DOMAIN read) /\ IsFiniteSet(DOMAIN read)
      BY <2>2, SectionsLineUp DEF ReadOf
    <3>2. /\ Cardinality(DOMAIN read) \in Nat
          /\ Places(InPages(read), DOMAIN read) \in [DOMAIN read -> 1 .. Cardinality(DOMAIN read)]
      BY <3>1, PlacesType
    <3>3. Places(InPages(read), DOMAIN read)[s] \in Nat
      BY <3>2
    <3> QED
      BY <2>2, <3>3, SectionsLineUp
  <2> DEFINE S == {section'[d] : d \in DOMAIN section}
  <2>4. section' \in [DOMAIN section -> S]
    BY <2>1
  <2>5. ASSUME NEW d \in DOMAIN section
        PROVE  IF section[d] = None THEN section'[d] = None
               ELSE section'[d] \in PagedSection /\ section'[d] # None /\ section'[d].chapter = section[d].chapter
    <3>1. CASE d \in moved
      <4>1. section[d] \in PagedSection /\ section[d] # None
        <5> HIDE DEF moved
        <5> QED
          BY <2>1, <3>1, RowTypes DEF Rows
      <4>2. section'[d] = [section[d] EXCEPT !.order = SectionNumber(read, d)]
        BY <2>1, <3>1
      <4>3. SectionNumber(read, d) \in Nat
        BY <2>3, <3>1
      <4> QED
        BY <4>1, <4>2, <4>3, RowsPatched
    <3>2. CASE d \notin moved
      <4>1. section'[d] = section[d]
        BY <2>1, <3>2
      <4> QED
        BY <4>1, RowTypes DEF Rows
    <3> QED
      BY <3>1, <3>2
  <2> HIDE DEF S
  <2>6. /\ TablesOK(edition', part', chapter', section', mark', page', pdf')
        /\ Ages(edition, part, chapter, section, edition', part', chapter', section')
    BY <1>1, <2>4, <2>5, SectionsWritten
  <2>7. "plan" # "resort"
    OBVIOUS
  <2> QED
    BY <1>1, <2>1, <2>6, <2>7, WriteKeeps
<1> QED
  BY <1>2, <1>3

-----------------------------------------------------------------------------
(* Steps that add a row *)

\* A part is added to an edition that is there.
LEMMA InsertPartKeeps ==
  ASSUME Contents, NEW p \in Procs, InsertPart(p)
  PROVE  StepKeeps(p)
<1> PICK e : e = task[p].edition
  OBVIOUS
<1>1. /\ task[p] # None /\ task[p].op = "createPart" /\ UNCHANGED <<edition, chapter, section, mark, page, pdf>>
  BY DEF InsertPart, At, pages
<1>2. CASE End(p) /\ UNCHANGED part
  <2>1. UNCHANGED <<contents, page, pdf>>
    BY <1>1, <1>2 DEF contents
  <2>2. (Goto(p, "x") \/ End(p)) /\ "x" # "resort"
    BY <1>2
  <2> QED
    BY <1>1, <2>1, <2>2, GotoKeeps
<1>3. CASE ~(End(p) /\ UNCHANGED part)
  <2>r. PICK r : r = [edition |-> e, order |-> task[p].seen]
    OBVIOUS
  <2>1. part' = Append(part, r) /\ Disturb(p, None) /\ edition[e] # None
    BY <1>3, <2>r DEF InsertPart
  <2>2. e \in DOMAIN edition /\ task[p].seen \in Nat
    BY <1>1 DEF Contents, TaskOK, AskedOK
  <2>3. e \in Rows(edition) /\ e \in Nat
    BY <2>1, <2>2, Ids DEF Rows
  <2>4. r \in Part /\ r.edition = e /\ r # None
    BY <2>2, <2>3, <2>r, RowsPatched DEF Part
  <2>5. TablesOK(edition, part, chapter, section, mark, page, pdf)
    BY DEF Contents
  <2>6. part \in Seq(Part \cup {None})
    BY <2>5 DEF TablesOK
  <2>7. /\ part' \in Seq(Part \cup {None}) /\ DOMAIN part' = (DOMAIN part) \cup {Len(part) + 1}
        /\ \A i \in DOMAIN part : part'[i] = part[i]
        /\ part'[Len(part) + 1] = r /\ Len(part) + 1 \notin DOMAIN part
    BY <2>1, <2>4, <2>6, RowAdded, Ids
  <2>8. Rows(part') = Rows(part) \cup {Len(part) + 1}
    BY <2>4, <2>7 DEF Rows
  <2>9. Linked(edition, part', chapter, section)
    <3>1. Linked(edition, part, chapter, section)
      BY <2>5 DEF TablesOK
    <3>2. \A x \in Rows(part) : part'[x] = part[x]
      BY <2>7 DEF Rows
    <3> QED
      BY <2>3, <2>4, <2>7, <2>8, <3>1, <3>2 DEF Linked
  <2>10. Ages(edition, part, chapter, section, edition, part', chapter, section)
    BY <2>7 DEF Ages
  <2>11. TablesOK(edition, part', chapter, section, mark, page, pdf)
    BY <2>5, <2>7, <2>9 DEF TablesOK
  <2>12. "plan" # "resort"
    OBVIOUS
  <2> QED
    BY <1>1, <2>1, <2>10, <2>11, <2>12, WriteKeeps
<1> QED
  BY <1>2, <1>3

\* A section is added to a chapter that is there.
LEMMA InsertSectionKeeps ==
  ASSUME Contents, NEW p \in Procs, InsertSection(p)
  PROVE  StepKeeps(p)
<1> PICK c : c = task[p].id
  OBVIOUS
<1>1. /\ task[p] # None /\ task[p].op = "createSection" /\ UNCHANGED <<edition, part, chapter, mark, page, pdf>>
  BY DEF InsertSection, At, pages
<1>2. CASE End(p) /\ UNCHANGED section
  <2>1. UNCHANGED <<contents, page, pdf>>
    BY <1>1, <1>2 DEF contents
  <2>2. (Goto(p, "x") \/ End(p)) /\ "x" # "resort"
    BY <1>2
  <2> QED
    BY <1>1, <2>1, <2>2, GotoKeeps
<1>3. CASE ~(End(p) /\ UNCHANGED section)
  <2>r. PICK r : r = [chapter |-> c, order |-> task[p].seen, page |-> task[p].arg]
    OBVIOUS
  <2>1. /\ section' = Append(section, r) /\ chapter[c] # None
        /\ Disturb(p, None) \/ Disturb(p, [task[p] EXCEPT !.at = "sort"])
    BY <1>3, <2>r DEF InsertSection
  <2>2. c \in DOMAIN chapter /\ task[p].seen \in Nat /\ task[p].arg \in Paging
    BY <1>1 DEF Contents, TaskOK, AskedOK
  <2>3. c \in Rows(chapter) /\ c \in Nat
    BY <2>1, <2>2, Ids DEF Rows
  <2>4. r \in PagedSection /\ r.chapter = c /\ r # None /\ r \in Section
    BY <2>2, <2>3, <2>r, RowsPatched, PagesAreCounted DEF PagedSection, Section, Paging, Page
  <2>5. TablesOK(edition, part, chapter, section, mark, page, pdf)
    BY DEF Contents
  <2>6. section \in Seq(PagedSection \cup {None})
    BY <2>5 DEF TablesOK
  <2>7. /\ section' \in Seq(PagedSection \cup {None}) /\ DOMAIN section' = (DOMAIN section) \cup {Len(section) + 1}
        /\ \A i \in DOMAIN section : section'[i] = section[i]
        /\ section'[Len(section) + 1] = r /\ Len(section) + 1 \notin DOMAIN section
    BY <2>1, <2>4, <2>6, RowAdded, Ids
  <2>8. Rows(section') = Rows(section) \cup {Len(section) + 1}
    BY <2>4, <2>7 DEF Rows
  <2>s. \A s \in Rows(section) : section'[s] = section[s]
    BY <2>7 DEF Rows
  <2>9. Linked(edition, part, chapter, section')
    <3>1. Linked(edition, part, chapter, section)
      BY <2>5 DEF TablesOK
    <3> QED
      BY <2>3, <2>4, <2>7, <2>8, <2>s, <3>1 DEF Linked
  <2>a. Agrees(edition, chapter, section', mark)
    <3>1. Agrees(edition, chapter, section, mark)
      BY <2>5 DEF TablesOK
    <3> QED
      BY <2>8, <2>s, <3>1 DEF Agrees
  <2>10. Ages(edition, part, chapter, section, edition, part, chapter, section')
    BY <2>7 DEF Ages
  <2>11. TablesOK(edition, part, chapter, section', mark, page, pdf)
    BY <2>5, <2>7, <2>9, <2>a DEF TablesOK
  <2>12. "sort" # "resort"
    OBVIOUS
  <2> QED
    BY <1>1, <2>1, <2>10, <2>11, <2>12, WriteKeeps
<1> QED
  BY <1>2, <1>3

\* A chapter is added to an edition and a part that are there.
LEMMA InsertChapterKeeps ==
  ASSUME Contents, NEW p \in Procs, InsertChapter(p)
  PROVE  StepKeeps(p)
<1> PICK e : e = task[p].edition
  OBVIOUS
<1> PICK x : x = task[p].arg
  OBVIOUS
<1>1. /\ task[p] # None /\ task[p].op = "create" /\ UNCHANGED <<edition, part, section, mark, page>>
  BY DEF InsertChapter, At
<1>2. CASE End(p) /\ UNCHANGED <<chapter, pdf>>
  <2>1. UNCHANGED <<contents, page, pdf>>
    BY <1>1, <1>2 DEF contents
  <2>2. (Goto(p, "x") \/ End(p)) /\ "x" # "resort"
    BY <1>2
  <2> QED
    BY <1>1, <2>1, <2>2, GotoKeeps
<1>3. CASE ~(End(p) /\ UNCHANGED <<chapter, pdf>>)
  <2>r. PICK r : r = [edition |-> e, part |-> x, order |-> task[p].seen, pageCount |-> 0, processed |-> 0,
                      status |-> IF type = "EDITOR" THEN "READY" ELSE "DRAFT"]
    OBVIOUS
  <2>1. /\ chapter' = Append(chapter, r) /\ pdf' = Append(pdf, 0)
        /\ edition[e] # None /\ (x # None => part[x] # None)
        /\ Disturb(p, None) \/ Disturb(p, [task[p] EXCEPT !.at = "plan"])
    BY <1>3, <2>r DEF InsertChapter, Regroup
  <2>2. e \in DOMAIN edition /\ task[p].seen \in Nat /\ (x = None \/ Of(part, x, e))
    BY <1>1 DEF Contents, TaskOK, AskedOK
  <2>3. e \in Rows(edition) /\ e \in Nat /\ (x = None \/ (x \in Rows(part) /\ x \in Nat /\ part[x].edition = e))
    BY <2>1, <2>2, Ids DEF Rows, Of
  <2>4. r \in Chapter /\ r.edition = e /\ r.part = x /\ r # None
    BY <2>2, <2>3, <2>r, RowsPatched DEF Chapter
  <2>5. TablesOK(edition, part, chapter, section, mark, page, pdf)
    BY DEF Contents
  <2>6. chapter \in Seq(Chapter \cup {None}) /\ pdf \in Seq(0 .. MaxPages) /\ Len(pdf) = Len(chapter)
    BY <2>5 DEF TablesOK
  <2>7. /\ chapter' \in Seq(Chapter \cup {None}) /\ DOMAIN chapter' = (DOMAIN chapter) \cup {Len(chapter) + 1}
        /\ \A i \in DOMAIN chapter : chapter'[i] = chapter[i]
        /\ chapter'[Len(chapter) + 1] = r /\ Len(chapter) + 1 \notin DOMAIN chapter
        /\ Len(chapter') = Len(chapter) + 1
    BY <2>1, <2>4, <2>6, RowAdded, Ids
  <2>p. pdf' \in Seq(0 .. MaxPages) /\ Len(pdf') = Len(pdf) + 1
    <3>1. 0 \in 0 .. MaxPages
      BY PagesAreCounted
    <3> QED
      BY <2>1, <2>6, <3>1, RowAdded
  <2>8. Rows(chapter') = Rows(chapter) \cup {Len(chapter) + 1}
    BY <2>4, <2>7 DEF Rows
  <2>s. \A c \in Rows(chapter) : chapter'[c] = chapter[c]
    BY <2>7 DEF Rows
  <2>9. Linked(edition, part, chapter', section)
    <3>1. Linked(edition, part, chapter, section)
      BY <2>5 DEF TablesOK
    <3> QED
      BY <2>3, <2>4, <2>7, <2>8, <2>s, <3>1 DEF Linked
  <2>a. Agrees(edition, chapter', section, mark)
    <3>1. Agrees(edition, chapter, section, mark)
      BY <2>5 DEF TablesOK
    <3> QED
      BY <2>8, <2>s, <3>1 DEF Agrees
  <2>b. page \subseteq Rows(chapter') \X Page
    BY <2>5, <2>8 DEF TablesOK
  <2>10. Ages(edition, part, chapter, section, edition, part, chapter', section)
    BY <2>7 DEF Ages
  <2>11. TablesOK(edition, part, chapter', section, mark, page, pdf')
    BY <2>5, <2>6, <2>7, <2>p, <2>9, <2>a, <2>b DEF TablesOK
  <2>12. "plan" # "resort"
    OBVIOUS
  <2> QED
    BY <1>1, <2>1, <2>10, <2>11, <2>12, WriteKeeps
<1> QED
  BY <1>2, <1>3

\* An edition is added, with no bookmark.
LEMMA InsertEditionKeeps ==
  ASSUME Contents, NEW p \in Procs, InsertEdition(p)
  PROVE  StepKeeps(p)
<1>1. /\ task[p] # None /\ task[p].op = "addEdition" /\ End(p) /\ UNCHANGED <<part, chapter, section, page, pdf>>
  BY DEF InsertEdition, At, pages
<1>2. CASE UNCHANGED <<edition, mark>>
  <2>1. UNCHANGED <<contents, page, pdf>>
    BY <1>1, <1>2 DEF contents
  <2>2. (Goto(p, "x") \/ End(p)) /\ "x" # "resort"
    BY <1>1
  <2> QED
    BY <1>1, <2>1, <2>2, GotoKeeps
<1>3. CASE ~UNCHANGED <<edition, mark>>
  <2>r. PICK r : r = [language |-> task[p].word, status |-> "DRAFT", published |-> FALSE]
    OBVIOUS
  <2>1. edition' = Append(edition, r) /\ mark' = Append(mark, None)
    BY <1>3, <2>r DEF InsertEdition
  <2>2. task[p].word \in Languages
    BY <1>1 DEF Contents, TaskOK, AskedOK
  <2>3. r \in Edition
    BY <2>2, <2>r DEF Edition
  <2>4. r \in Edition /\ r # None
    BY <2>3, NoneIsNothing
  <2>5. TablesOK(edition, part, chapter, section, mark, page, pdf)
    BY DEF Contents
  <2>6. edition \in Seq(Edition \cup {None}) /\ mark \in Seq(Bookmark \cup {None}) /\ Len(mark) = Len(edition)
    BY <2>5 DEF TablesOK
  <2>7. /\ edition' \in Seq(Edition \cup {None}) /\ DOMAIN edition' = (DOMAIN edition) \cup {Len(edition) + 1}
        /\ \A i \in DOMAIN edition : edition'[i] = edition[i]
        /\ edition'[Len(edition) + 1] = r /\ Len(edition) + 1 \notin DOMAIN edition
        /\ Len(edition') = Len(edition) + 1
    BY <2>1, <2>4, <2>6, RowAdded, Ids
  <2>p. /\ mark' \in Seq(Bookmark \cup {None}) /\ Len(mark') = Len(mark) + 1
        /\ \A i \in DOMAIN mark : mark'[i] = mark[i]
        /\ mark'[Len(mark) + 1] = None /\ DOMAIN mark = DOMAIN edition
    BY <2>1, <2>6, RowAdded, Ids
  <2>8. Rows(edition') = Rows(edition) \cup {Len(edition) + 1}
    BY <2>4, <2>7 DEF Rows
  <2>s. \A e \in Rows(edition) : edition'[e] = edition[e] /\ mark'[e] = mark[e]
    BY <2>7, <2>p DEF Rows
  <2>9. Linked(edition', part, chapter, section)
    <3>1. Linked(edition, part, chapter, section)
      BY <2>5 DEF TablesOK
    <3> QED
      BY <2>4, <2>7, <2>8, <2>s, <3>1 DEF Linked
  <2>a. Agrees(edition', chapter, section, mark')
    <3>1. Agrees(edition, chapter, section, mark)
      BY <2>5 DEF TablesOK
    <3> QED
      BY <2>6, <2>8, <2>s, <2>p, <3>1 DEF Agrees
  <2>10. Ages(edition, part, chapter, section, edition', part, chapter, section)
    BY <2>7 DEF Ages
  <2>11. TablesOK(edition', part, chapter, section, mark', page, pdf)
    BY <2>5, <2>6, <2>7, <2>p, <2>9, <2>a DEF TablesOK
  <2>12. "plan" # "resort"
    OBVIOUS
  <2> QED
    BY <1>1, <2>1, <2>10, <2>11, <2>12, WriteKeeps
<1> QED
  BY <1>2, <1>3

-----------------------------------------------------------------------------
(* Steps that take rows away *)

\* A status is written.
LEMMA WriteStatusKeeps ==
  ASSUME Contents, NEW p \in Procs, WriteStatus(p)
  PROVE  StepKeeps(p)
<1> PICK e : e = task[p].edition
  OBVIOUS
<1>1. /\ task[p] # None /\ task[p].op = "status" /\ End(p) /\ UNCHANGED <<part, chapter, section, mark, page, pdf>>
  BY DEF WriteStatus, At, pages
<1>2. CASE edition' = edition
  <2>1. UNCHANGED <<contents, page, pdf>>
    BY <1>1, <1>2 DEF contents
  <2>2. (Goto(p, "x") \/ End(p)) /\ "x" # "resort"
    BY <1>1
  <2> QED
    BY <1>1, <2>1, <2>2, GotoKeeps
<1>3. CASE edition' # edition
  <2>1. /\ edition[e] # None
        /\ edition' = [edition EXCEPT ![e].status = task[p].word, ![e].published = @ \/ task[p].word = "PUBLISHED"]
    BY <1>3 DEF WriteStatus
  <2>2. e \in DOMAIN edition /\ task[p].word \in {"DRAFT", "PUBLISHED"}
    BY <1>1 DEF Contents, TaskOK, AskedOK
  <2>3. edition[e] \in Edition
    BY <2>1, <2>2, RowTypes DEF Rows
  <2>r. PICK r : r = [[edition[e] EXCEPT !.status = task[p].word] EXCEPT !.published = @ \/ task[p].word = "PUBLISHED"]
    OBVIOUS
  <2>4. r \in Edition
    BY <2>2, <2>3, <2>r DEF Edition
  <2>5. r # None
    BY <2>4, NoneIsNothing
  <2>6. edition' = [edition EXCEPT ![e] = r]
    BY <2>1, <2>2, <2>r
  <2>7. TablesOK(edition, part, chapter, section, mark, page, pdf)
    BY DEF Contents
  <2>8. /\ edition' \in Seq(Edition \cup {None}) /\ Len(edition') = Len(edition) /\ DOMAIN edition' = DOMAIN edition
    <3>1. edition \in Seq(Edition \cup {None})
      BY <2>7 DEF TablesOK
    <3>2. r \in Edition \cup {None}
      BY <2>4
    <3>3. /\ [edition EXCEPT ![e] = r] \in Seq(Edition \cup {None}) /\ Len([edition EXCEPT ![e] = r]) = Len(edition)
          /\ DOMAIN [edition EXCEPT ![e] = r] = DOMAIN edition
      BY <3>1, <3>2, RowWritten
    <3> QED
      BY <2>6, <3>3
  <2>9. \A d \in DOMAIN edition : edition'[d] = IF d = e THEN r ELSE edition[d]
    BY <2>6
  <2>10. Rows(edition') = Rows(edition)
    BY <2>1, <2>5, <2>8, <2>9 DEF Rows
  <2>11. Linked(edition', part, chapter, section)
    <3>1. Linked(edition, part, chapter, section)
      BY <2>7 DEF TablesOK
    <3>2. \A d \in Rows(edition) : edition'[d] \in Edition
      BY <2>4, <2>9, RowTypes DEF Rows
    <3> QED
      BY <2>10, <3>1, <3>2 DEF Linked
  <2>12. Agrees(edition', chapter, section, mark)
    <3>1. Agrees(edition, chapter, section, mark)
      BY <2>7 DEF TablesOK
    <3> QED
      BY <2>10, <3>1 DEF Agrees
  <2>13. TablesOK(edition', part, chapter, section, mark, page, pdf)
    BY <2>7, <2>8, <2>11, <2>12 DEF TablesOK
  <2>14. Ages(edition, part, chapter, section, edition', part, chapter, section)
    BY <2>1, <2>2, <2>8, <2>9 DEF Ages
  <2>15. "x" # "resort"
    OBVIOUS
  <2> QED
    BY <1>1, <2>13, <2>14, <2>15, WriteKeeps
<1> QED
  BY <1>2, <1>3

\* Chapters go, with the edition and the parts they hang on or alone.
LEMMA ChaptersGo ==
  ASSUME Contents, NEW gone, gone \subseteq Rows(chapter), Without(gone), UNCHANGED pdf,
         NEW cut, cut \subseteq Rows(edition),
         edition' = [e \in DOMAIN edition |-> IF e \in cut THEN None ELSE edition[e]],
         part' = [x \in DOMAIN part |-> IF part[x] # None /\ part[x].edition \in cut THEN None ELSE part[x]],
         \A c \in Rows(chapter) : chapter[c].edition \in cut => c \in gone
  PROVE  /\ TablesOK(edition', part', chapter', section', mark', page', pdf')
         /\ Ages(edition, part, chapter, section, edition', part', chapter', section')
         /\ \A c \in gone : c \in DOMAIN chapter' /\ chapter'[c] = None
<1> DEFINE lost == {s \in Rows(section) : section[s].chapter \in gone}
<1>1. TablesOK(edition, part, chapter, section, mark, page, pdf)
  BY DEF Contents
<1>2. /\ Linked(edition, part, chapter, section) /\ Agrees(edition, chapter, section, mark)
      /\ edition \in Seq(Edition \cup {None}) /\ part \in Seq(Part \cup {None})
      /\ chapter \in Seq(Chapter \cup {None}) /\ section \in Seq(PagedSection \cup {None})
      /\ mark \in Seq(Bookmark \cup {None}) /\ Len(mark) = Len(edition) /\ pdf \in Seq(0 .. MaxPages) /\ Len(pdf) = Len(chapter)
      /\ page \subseteq Rows(chapter) \X Page
  BY <1>1 DEF TablesOK
<1>3. /\ chapter' = [c \in DOMAIN chapter |-> IF c \in gone THEN None ELSE chapter[c]]
      /\ section' = [s \in DOMAIN section |-> IF s \in lost THEN None ELSE section[s]]
      /\ page' = {r \in page : r[1] \notin gone}
      /\ mark' = [e \in DOMAIN mark |->
                    IF mark[e] = None \/ edition'[e] = None THEN None
                    ELSE [chapter |-> IF mark[e].chapter \in gone THEN None ELSE mark[e].chapter,
                          section |-> IF mark[e].section \in lost THEN None ELSE mark[e].section]]
  BY DEF Without
<1>4. edition' \in Seq(Edition \cup {None}) /\ Len(edition') = Len(edition) /\ DOMAIN edition' = DOMAIN edition
  <2>1. edition' \in [DOMAIN edition -> Edition \cup {None}]
    <3>1. \A e \in DOMAIN edition : edition[e] \in Edition \cup {None}
      BY <1>2
    <3> QED
      BY <3>1
  <2> QED
    BY <1>2, <2>1, TableWritten
<1>5. part' \in Seq(Part \cup {None}) /\ DOMAIN part' = DOMAIN part
  <2>1. part' \in [DOMAIN part -> Part \cup {None}]
    <3>1. \A x \in DOMAIN part : part[x] \in Part \cup {None}
      BY <1>2
    <3> QED
      BY <3>1
  <2> QED
    BY <1>2, <2>1, TableWritten
<1>6. chapter' \in Seq(Chapter \cup {None}) /\ Len(chapter') = Len(chapter) /\ DOMAIN chapter' = DOMAIN chapter
  <2>1. chapter' \in [DOMAIN chapter -> Chapter \cup {None}]
    <3>1. \A c \in DOMAIN chapter : chapter[c] \in Chapter \cup {None}
      BY <1>2
    <3> QED
      BY <1>3, <3>1
  <2>0. chapter \in Seq(Chapter \cup {None})
    BY <1>2
  <2>2. chapter' \in Seq(Chapter \cup {None}) /\ Len(chapter') = Len(chapter)
    BY <2>0, <2>1, TableWritten
  <2> QED
    BY <2>1, <2>2
<1> HIDE DEF lost
<1>7. section' \in Seq(PagedSection \cup {None}) /\ DOMAIN section' = DOMAIN section
  <2>1. section' \in [DOMAIN section -> PagedSection \cup {None}]
    <3>1. \A s \in DOMAIN section : section[s] \in PagedSection \cup {None}
      BY <1>2
    <3> QED
      BY <1>3, <3>1
  <2> QED
    BY <1>2, <2>1, TableWritten
<1>8. mark' \in Seq(Bookmark \cup {None}) /\ Len(mark') = Len(edition')
  <2>1. mark' \in [DOMAIN mark -> Bookmark \cup {None}]
    <3>1. ASSUME NEW e \in DOMAIN mark PROVE mark'[e] \in Bookmark \cup {None}
      <4>1. mark[e] \in Bookmark \cup {None}
        BY <1>2
      <4>2. CASE mark'[e] = None
        BY <4>2
      <4>3. CASE mark'[e] # None
        <5>1. /\ mark[e] \in Bookmark
              /\ mark'[e] = [chapter |-> IF mark[e].chapter \in gone THEN None ELSE mark[e].chapter,
                             section |-> IF mark[e].section \in lost THEN None ELSE mark[e].section]
          BY <1>3, <4>1, <4>3
        <5> QED
          BY <5>1 DEF Bookmark
      <4> QED
        BY <4>2, <4>3
    <3> QED
      BY <1>3, <3>1
  <2> QED
    BY <1>2, <1>4, <2>1, TableWritten
<1>9. /\ Rows(edition') = Rows(edition) \ cut
      /\ Rows(chapter') = Rows(chapter) \ gone
      /\ Rows(section') = {s \in Rows(section) : section[s].chapter \notin gone}
      /\ Rows(part') = {x \in Rows(part) : part[x].edition \notin cut}
  <2>1. Rows(edition') = Rows(edition) \ cut
    BY DEF Rows
  <2>2. Rows(chapter') = Rows(chapter) \ gone
    BY <1>3 DEF Rows
  <2>3. Rows(section') = {s \in Rows(section) : section[s].chapter \notin gone}
    BY <1>3 DEF Rows, lost
  <2>4. Rows(part') = {x \in Rows(part) : part[x].edition \notin cut}
    BY DEF Rows
  <2> QED
    BY <2>1, <2>2, <2>3, <2>4
<1>10. /\ \A e \in Rows(edition') : edition'[e] = edition[e]
       /\ \A c \in Rows(chapter') : chapter'[c] = chapter[c]
       /\ \A s \in Rows(section') : section'[s] = section[s]
       /\ \A x \in Rows(part') : part'[x] = part[x]
  BY <1>3 DEF Rows
<1>11. Linked(edition', part', chapter', section')
  <2>1. \A e \in Rows(edition') : edition'[e] \in Edition
    BY <1>2, <1>9, <1>10 DEF Linked
  <2>2. \A x \in Rows(part') : part'[x] \in Part /\ part'[x].edition \in Rows(edition')
    BY <1>2, <1>9, <1>10 DEF Linked
  <2>3. ASSUME NEW c \in Rows(chapter')
        PROVE  /\ chapter'[c] \in Chapter /\ chapter'[c].edition \in Rows(edition')
               /\ chapter'[c].part = None \/ (chapter'[c].part \in Rows(part') /\ part'[chapter'[c].part].edition = chapter'[c].edition)
    <3>1. /\ c \in Rows(chapter) /\ chapter'[c] = chapter[c] /\ chapter[c].edition \notin cut
      BY <1>9, <1>10
    <3>2. /\ chapter[c] \in Chapter /\ chapter[c].edition \in Rows(edition)
          /\ chapter[c].part = None \/ (chapter[c].part \in Rows(part) /\ part[chapter[c].part].edition = chapter[c].edition)
      BY <1>2, <3>1 DEF Linked
    <3>3. chapter[c].part # None => chapter[c].part \in Rows(part')
      BY <1>9, <3>1, <3>2
    <3> QED
      BY <1>9, <1>10, <3>1, <3>2, <3>3
  <2>4. \A s \in Rows(section') : section'[s] \in Section /\ section'[s].chapter \in Rows(chapter')
    BY <1>2, <1>9, <1>10 DEF Linked
  <2> QED
    BY <2>1, <2>2, <2>3, <2>4 DEF Linked
<1>12. Agrees(edition', chapter', section', mark')
  <2> SUFFICES ASSUME NEW e \in Rows(edition'), mark'[e] # None
               PROVE  /\ mark'[e].section # None => mark'[e].section \in Rows(section') /\ mark'[e].chapter = section'[mark'[e].section].chapter
                      /\ mark'[e].chapter # None => mark'[e].chapter \in Rows(chapter') /\ chapter'[mark'[e].chapter].edition = e
    BY DEF Agrees
  <2>1. e \in Rows(edition) /\ e \in DOMAIN mark
    BY <1>2, <1>9, Ids DEF Rows
  <2>2. /\ mark[e] # None
        /\ mark'[e].chapter = IF mark[e].chapter \in gone THEN None ELSE mark[e].chapter
        /\ mark'[e].section = IF mark[e].section \in lost THEN None ELSE mark[e].section
    BY <1>3, <2>1
  <2>3. /\ mark[e].section # None => mark[e].section \in Rows(section) /\ mark[e].chapter = section[mark[e].section].chapter
        /\ mark[e].chapter # None => mark[e].chapter \in Rows(chapter) /\ chapter[mark[e].chapter].edition = e
    BY <1>2, <2>1, <2>2 DEF Agrees
  <2>4. ASSUME mark'[e].section # None
        PROVE  mark'[e].section \in Rows(section') /\ mark'[e].chapter = section'[mark'[e].section].chapter
    <3>1. mark'[e].section = mark[e].section /\ mark[e].section \notin lost /\ mark[e].section \in Rows(section)
      BY <2>2, <2>3, <2>4
    <3>2. mark[e].section \in Rows(section') /\ section[mark[e].section].chapter \notin gone
      BY <1>9, <3>1 DEF lost
    <3> QED
      BY <1>10, <2>2, <2>3, <2>4, <3>1, <3>2
  <2>5. ASSUME mark'[e].chapter # None
        PROVE  mark'[e].chapter \in Rows(chapter') /\ chapter'[mark'[e].chapter].edition = e
    BY <1>9, <1>10, <2>2, <2>3, <2>5
  <2> QED
    BY <2>4, <2>5
<1>13. page' \subseteq Rows(chapter') \X Page
  BY <1>2, <1>3, <1>9
<1>14. Ages(edition, part, chapter, section, edition', part', chapter', section')
  BY <1>3, <1>4, <1>5, <1>6, <1>7 DEF Ages
<1>15. TablesOK(edition', part', chapter', section', mark', page', pdf')
  BY <1>2, <1>4, <1>5, <1>6, <1>7, <1>8, <1>11, <1>12, <1>13 DEF TablesOK
<1>16. \A c \in gone : c \in DOMAIN chapter' /\ chapter'[c] = None
  BY <1>3 DEF Rows
<1> QED
  BY <1>14, <1>15, <1>16

\* A deletion remembers the chapters whose files it will clean.
LEMMA Cleaning ==
  ASSUME NEW t, NEW ed, NEW pt, NEW ch, NEW sc, TaskOK(t, ed, pt, ch, sc), t.op \in {"deleteChapter", "removeEdition"},
         NEW gone, \A c \in gone : c \in DOMAIN ch /\ ch[c] = None
  PROVE  TaskOK([t EXCEPT !.at = "clean", !.todo = gone], ed, pt, ch, sc)
<1> PICK u : u = [t EXCEPT !.at = "clean", !.todo = gone]
  OBVIOUS
<1>1. DOMAIN u = Fields /\ u.op = t.op /\ u.todo = gone /\ u.id = t.id /\ u.edition = t.edition
  BY DEF TaskOK, Fields
<1> QED
  BY <1>1 DEF TaskOK, AskedOK, ReadOK, Planned

\* A chapter is deleted.
LEMMA DeleteChapterKeeps ==
  ASSUME Contents, NEW p \in Procs, DeleteChapter(p)
  PROVE  StepKeeps(p)
<1> PICK c : c = task[p].id
  OBVIOUS
<1>1. /\ task[p] # None /\ task[p].op = "deleteChapter" /\ UNCHANGED <<part, object, pdf>>
  BY DEF DeleteChapter, At
<1>2. CASE End(p) /\ UNCHANGED <<contents, page>>
  <2>1. UNCHANGED <<contents, page, pdf>>
    BY <1>1, <1>2
  <2>2. (Goto(p, "x") \/ End(p)) /\ "x" # "resort"
    BY <1>2
  <2> QED
    BY <1>1, <2>1, <2>2, GotoKeeps
<1>3. CASE ~(End(p) /\ UNCHANGED <<contents, page>>)
  <2>1. /\ chapter[c] # None /\ UNCHANGED edition /\ Without({c})
        /\ Disturb(p, [task[p] EXCEPT !.at = "clean", !.todo = {c}])
    BY <1>3 DEF DeleteChapter
  <2>2. c \in DOMAIN chapter
    BY <1>1 DEF Contents, TaskOK, AskedOK
  <2> PICK gone : gone = {c}
    OBVIOUS
  <2> PICK cut : cut = {}
    OBVIOUS
  <2>3. gone \subseteq Rows(chapter) /\ Without(gone) /\ cut \subseteq Rows(edition)
    BY <2>1, <2>2 DEF Rows
  <2>4. edition' = [e \in DOMAIN edition |-> IF e \in cut THEN None ELSE edition[e]]
    <3>1. edition \in Seq(Edition \cup {None})
      BY DEF Contents, TablesOK
    <3>2. edition = [e \in DOMAIN edition |-> edition[e]]
      BY <3>1
    <3> QED
      BY <2>1, <3>2
  <2>5. part' = [x \in DOMAIN part |-> IF part[x] # None /\ part[x].edition \in cut THEN None ELSE part[x]]
    <3>1. part \in Seq(Part \cup {None})
      BY DEF Contents, TablesOK
    <3>2. part = [x \in DOMAIN part |-> part[x]]
      BY <3>1
    <3> QED
      BY <1>1, <3>2
  <2>6. \A d \in Rows(chapter) : chapter[d].edition \in cut => d \in gone
    OBVIOUS
  <2>7. /\ TablesOK(edition', part', chapter', section', mark', page', pdf')
        /\ Ages(edition, part, chapter, section, edition', part', chapter', section')
        /\ \A d \in gone : d \in DOMAIN chapter' /\ chapter'[d] = None
    BY <1>1, <2>3, <2>4, <2>5, <2>6, ChaptersGo
  <2> PICK u : u = [task[p] EXCEPT !.at = "clean", !.todo = gone]
    OBVIOUS
  <2>8. TaskOK(u, edition', part', chapter', section')
    <3>1. TaskOK(task[p], edition', part', chapter', section')
      BY <1>1, <2>7, TaskAges DEF Contents
    <3> QED
      BY <1>1, <2>7, <3>1, Cleaning
  <2>9. Others(p, task, task') /\ task'[p] = u
    BY <2>1, DisturbOthers
  <2> QED
    BY <2>7, <2>8, <2>9 DEF StepKeeps
<1> QED
  BY <1>2, <1>3

\* An edition is deleted, with its parts and chapters.
LEMMA DeleteEditionKeeps ==
  ASSUME Contents, NEW p \in Procs, DeleteEdition(p)
  PROVE  StepKeeps(p)
<1> PICK e : e = task[p].edition
  OBVIOUS
<1>1. /\ task[p] # None /\ task[p].op = "removeEdition" /\ UNCHANGED <<object, pdf>>
  BY DEF DeleteEdition, At
<1>2. CASE End(p) /\ UNCHANGED <<contents, page>>
  <2>1. UNCHANGED <<contents, page, pdf>>
    BY <1>1, <1>2
  <2>2. (Goto(p, "x") \/ End(p)) /\ "x" # "resort"
    BY <1>2
  <2> QED
    BY <1>1, <2>1, <2>2, GotoKeeps
<1>3. CASE ~(End(p) /\ UNCHANGED <<contents, page>>)
  <2> PICK gone : gone = Chapters(e)
    OBVIOUS
  <2> PICK cut : cut = {e}
    OBVIOUS
  <2>1. /\ edition[e] # None /\ edition' = [edition EXCEPT ![e] = None] /\ Without(gone)
        /\ part' = [x \in DOMAIN part |-> IF HasPart(e, x) THEN None ELSE part[x]]
        /\ Disturb(p, [task[p] EXCEPT !.at = "clean", !.todo = gone])
    BY <1>3 DEF DeleteEdition
  <2>w. Without(gone)
    BY <2>1
  <2>2. e \in DOMAIN edition
    BY <1>1 DEF Contents, TaskOK, AskedOK
  <2>3. gone \subseteq Rows(chapter) /\ cut \subseteq Rows(edition)
    BY <2>1, <2>2 DEF Rows, Chapters
  <2>4. edition' = [d \in DOMAIN edition |-> IF d \in cut THEN None ELSE edition[d]]
    BY <2>1
  <2>5. part' = [x \in DOMAIN part |-> IF part[x] # None /\ part[x].edition \in cut THEN None ELSE part[x]]
    BY <2>1 DEF HasPart, Rows
  <2>6. \A d \in Rows(chapter) : chapter[d].edition \in cut => d \in gone
    BY DEF Chapters
  <2>7. /\ TablesOK(edition', part', chapter', section', mark', page', pdf')
        /\ Ages(edition, part, chapter, section, edition', part', chapter', section')
        /\ \A d \in gone : d \in DOMAIN chapter' /\ chapter'[d] = None
    BY <1>1, <2>w, <2>3, <2>4, <2>5, <2>6, ChaptersGo
  <2> PICK u : u = [task[p] EXCEPT !.at = "clean", !.todo = gone]
    OBVIOUS
  <2>8. TaskOK(u, edition', part', chapter', section')
    <3>1. TaskOK(task[p], edition', part', chapter', section')
      BY <1>1, <2>7, TaskAges DEF Contents
    <3> QED
      BY <1>1, <2>7, <3>1, Cleaning
  <2>9. Others(p, task, task') /\ task'[p] = u
    BY <2>1, DisturbOthers
  <2> QED
    BY <2>7, <2>8, <2>9 DEF StepKeeps
<1> QED
  BY <1>2, <1>3

\* A part is deleted; its chapters stay, unparted.
LEMMA DeletePartKeeps ==
  ASSUME Contents, NEW p \in Procs, DeletePart(p)
  PROVE  StepKeeps(p)
<1> PICK x : x = task[p].id
  OBVIOUS
<1>1. /\ task[p] # None /\ task[p].op = "deletePart" /\ UNCHANGED <<edition, section, mark, page, pdf>>
  BY DEF DeletePart, At, pages
<1>2. CASE End(p) /\ UNCHANGED <<part, chapter>>
  <2>1. UNCHANGED <<contents, page, pdf>>
    BY <1>1, <1>2 DEF contents
  <2>2. (Goto(p, "x") \/ End(p)) /\ "x" # "resort"
    BY <1>2
  <2> QED
    BY <1>1, <2>1, <2>2, GotoKeeps
<1>3. CASE ~(End(p) /\ UNCHANGED <<part, chapter>>)
  <2>1. /\ part[x] # None /\ part' = [part EXCEPT ![x] = None]
        /\ chapter' = [c \in DOMAIN chapter |-> IF chapter[c] # None /\ chapter[c].part = x
                                                THEN [chapter[c] EXCEPT !.part = None] ELSE chapter[c]]
        /\ Disturb(p, [task[p] EXCEPT !.at = "plan"])
    BY <1>3 DEF DeletePart, Regroup
  <2>2. x \in DOMAIN part
    BY <1>1 DEF Contents, TaskOK, AskedOK
  <2>3. TablesOK(edition, part, chapter, section, mark, page, pdf)
    BY DEF Contents
  <2>4. /\ Linked(edition, part, chapter, section) /\ Agrees(edition, chapter, section, mark)
        /\ part \in Seq(Part \cup {None}) /\ chapter \in Seq(Chapter \cup {None})
    BY <2>3 DEF TablesOK
  <2>5. part' \in Seq(Part \cup {None}) /\ DOMAIN part' = DOMAIN part
    <3>1. [part EXCEPT ![x] = None] \in Seq(Part \cup {None}) /\ DOMAIN [part EXCEPT ![x] = None] = DOMAIN part
      BY <2>4, RowWritten
    <3> QED
      BY <2>1, <3>1
  <2>6. ASSUME NEW c \in Rows(chapter)
        PROVE  /\ chapter'[c] \in Chapter /\ chapter'[c] # None /\ chapter'[c].edition = chapter[c].edition
               /\ chapter'[c].part = IF chapter[c].part = x THEN None ELSE chapter[c].part
    <3>1. chapter[c] \in Chapter /\ chapter[c] # None /\ c \in DOMAIN chapter
      BY RowTypes DEF Rows
    <3>2. CASE chapter[c].part = x
      <4>1. chapter'[c] = [chapter[c] EXCEPT !.part = None]
        BY <2>1, <3>1, <3>2
      <4>2. None \in Nat \cup {None}
        OBVIOUS
      <4>3. /\ [chapter[c] EXCEPT !.part = None] \in Chapter /\ [chapter[c] EXCEPT !.part = None].edition = chapter[c].edition
            /\ [chapter[c] EXCEPT !.part = None].part = None
        BY <3>1, <4>2, RowsPatched
      <4>4. chapter'[c] # None
        BY <4>1, <4>3, RowsPatched
      <4> QED
        BY <3>2, <4>1, <4>3, <4>4
    <3>3. CASE chapter[c].part # x
      BY <2>1, <3>1, <3>3
    <3> QED
      BY <3>2, <3>3
  <2>7. \A c \in DOMAIN chapter : chapter[c] = None => chapter'[c] = None
    BY <2>1
  <2>8. DOMAIN chapter' = DOMAIN chapter /\ chapter' \in Seq(Chapter \cup {None}) /\ Len(chapter') = Len(chapter)
    <3>1. \A c \in DOMAIN chapter : chapter'[c] \in Chapter \cup {None}
      BY <2>6, <2>7 DEF Rows
    <3>2. DOMAIN chapter' = DOMAIN chapter
      BY <2>1
    <3>3. chapter' \in [DOMAIN chapter -> Chapter \cup {None}]
      BY <2>1, <3>1
    <3>4. chapter' \in Seq(Chapter \cup {None}) /\ Len(chapter') = Len(chapter)
      BY <2>4, <3>3, TableWritten
    <3> QED
      BY <3>2, <3>4
  <2>9. Rows(chapter') = Rows(chapter)
    BY <2>6, <2>7, <2>8 DEF Rows
  <2>10. Rows(part') = Rows(part) \ {x} /\ \A y \in Rows(part) \ {x} : part'[y] = part[y]
    BY <2>1, <2>2, <2>5 DEF Rows
  <2>11. Linked(edition, part', chapter', section)
    <3>1. ASSUME NEW c \in Rows(chapter)
          PROVE  /\ chapter'[c] \in Chapter /\ chapter'[c].edition \in Rows(edition)
                 /\ chapter'[c].part = None \/ (chapter'[c].part \in Rows(part') /\ part'[chapter'[c].part].edition = chapter'[c].edition)
      <4>1. /\ chapter[c].edition \in Rows(edition)
            /\ chapter[c].part = None \/ (chapter[c].part \in Rows(part) /\ part[chapter[c].part].edition = chapter[c].edition)
        BY <2>4 DEF Linked
      <4> QED
        BY <2>6, <2>10, <4>1
    <3>2. \A y \in Rows(part') : part'[y] \in Part /\ part'[y].edition \in Rows(edition)
      BY <2>4, <2>10 DEF Linked
    <3> QED
      BY <2>4, <2>9, <3>1, <3>2 DEF Linked
  <2>12. Agrees(edition, chapter', section, mark)
    BY <2>4, <2>6, <2>9 DEF Agrees
  <2>13. TablesOK(edition, part', chapter', section, mark, page, pdf)
    BY <2>3, <2>5, <2>8, <2>9, <2>11, <2>12 DEF TablesOK
  <2>14. Ages(edition, part, chapter, section, edition, part', chapter', section)
    <3>1. \A c \in DOMAIN chapter : chapter'[c] # None => chapter[c] # None /\ chapter'[c].edition = chapter[c].edition
      BY <2>6, <2>7 DEF Rows
    <3>2. \A y \in DOMAIN part : part'[y] # None => part'[y] = part[y] /\ part[y] # None
      BY <2>1, <2>2
    <3> QED
      BY <2>5, <2>8, <3>1, <3>2 DEF Ages
  <2>15. "plan" # "resort"
    OBVIOUS
  <2> QED
    BY <1>1, <2>1, <2>13, <2>14, <2>15, WriteKeeps
<1> QED
  BY <1>2, <1>3

\* A section is deleted, and a bookmark in it keeps its chapter.
LEMMA DeleteSectionKeeps ==
  ASSUME Contents, NEW p \in Procs, DeleteSection(p)
  PROVE  StepKeeps(p)
<1> PICK s : s = task[p].id
  OBVIOUS
<1>1. /\ task[p] # None /\ task[p].op = "deleteSection" /\ UNCHANGED <<edition, part, chapter, page, pdf>>
  BY DEF DeleteSection, At, pages
<1>2. CASE End(p) /\ UNCHANGED <<section, mark>>
  <2>1. UNCHANGED <<contents, page, pdf>>
    BY <1>1, <1>2 DEF contents
  <2>2. (Goto(p, "x") \/ End(p)) /\ "x" # "resort"
    BY <1>2
  <2> QED
    BY <1>1, <2>1, <2>2, GotoKeeps
<1>3. CASE ~(End(p) /\ UNCHANGED <<section, mark>>)
  <2>1. /\ section[s] # None /\ section' = [section EXCEPT ![s] = None]
        /\ mark' = [e \in DOMAIN mark |-> IF mark[e] # None /\ mark[e].section = s THEN [mark[e] EXCEPT !.section = None] ELSE mark[e]]
        /\ Disturb(p, None)
    BY <1>3 DEF DeleteSection
  <2>2. s \in DOMAIN section
    BY <1>1 DEF Contents, TaskOK, AskedOK
  <2>3. TablesOK(edition, part, chapter, section, mark, page, pdf)
    BY DEF Contents
  <2>4. /\ Linked(edition, part, chapter, section) /\ Agrees(edition, chapter, section, mark)
        /\ section \in Seq(PagedSection \cup {None}) /\ mark \in Seq(Bookmark \cup {None}) /\ Len(mark) = Len(edition)
    BY <2>3 DEF TablesOK
  <2>5. section' \in Seq(PagedSection \cup {None}) /\ DOMAIN section' = DOMAIN section
    <3>1. [section EXCEPT ![s] = None] \in Seq(PagedSection \cup {None}) /\ DOMAIN [section EXCEPT ![s] = None] = DOMAIN section
      BY <2>4, RowWritten
    <3> QED
      BY <2>1, <3>1
  <2>6. Rows(section') = Rows(section) \ {s} /\ \A r \in Rows(section) \ {s} : section'[r] = section[r]
    BY <2>1, <2>2, <2>5 DEF Rows
  <2>7. ASSUME NEW e \in DOMAIN mark
        PROVE  /\ mark'[e] \in Bookmark \cup {None}
               /\ mark'[e] # None /\ mark[e] # None => /\ mark'[e].chapter = mark[e].chapter
                                                      /\ mark'[e].section = IF mark[e].section = s THEN None ELSE mark[e].section
               /\ mark'[e] # None => mark[e] # None
    <3>1. mark[e] \in Bookmark \cup {None}
      BY <2>4
    <3>2. CASE mark[e] # None /\ mark[e].section = s
      <4>1. mark'[e] = [mark[e] EXCEPT !.section = None] /\ mark[e] \in Bookmark
        BY <2>1, <3>1, <3>2
      <4> QED
        BY <3>2, <4>1 DEF Bookmark
    <3>3. CASE ~(mark[e] # None /\ mark[e].section = s)
      <4>1. mark'[e] = mark[e]
        BY <2>1, <3>3
      <4> QED
        BY <3>1, <3>3, <4>1
    <3> QED
      BY <3>2, <3>3
  <2>8. mark' \in Seq(Bookmark \cup {None}) /\ Len(mark') = Len(mark)
    <3>1. mark' \in [DOMAIN mark -> Bookmark \cup {None}]
      BY <2>1, <2>7
    <3> QED
      BY <2>4, <3>1, TableWritten
  <2>9. Linked(edition, part, chapter, section')
    BY <2>4, <2>6 DEF Linked
  <2>10. Agrees(edition, chapter, section', mark')
    <3> SUFFICES ASSUME NEW e \in Rows(edition), mark'[e] # None
                 PROVE  /\ mark'[e].section # None => mark'[e].section \in Rows(section') /\ mark'[e].chapter = section'[mark'[e].section].chapter
                        /\ mark'[e].chapter # None => mark'[e].chapter \in Rows(chapter) /\ chapter[mark'[e].chapter].edition = e
      BY DEF Agrees
    <3>1. e \in DOMAIN mark
      BY <2>4, Ids DEF Rows
    <3>2. mark[e] # None /\ mark'[e].chapter = mark[e].chapter /\ mark'[e].section = IF mark[e].section = s THEN None ELSE mark[e].section
      BY <2>7, <3>1
    <3>3. /\ mark[e].section # None => mark[e].section \in Rows(section) /\ mark[e].chapter = section[mark[e].section].chapter
          /\ mark[e].chapter # None => mark[e].chapter \in Rows(chapter) /\ chapter[mark[e].chapter].edition = e
      BY <2>4, <3>2 DEF Agrees
    <3> QED
      BY <2>6, <3>2, <3>3
  <2>11. TablesOK(edition, part, chapter, section', mark', page, pdf)
    BY <2>3, <2>4, <2>5, <2>8, <2>9, <2>10 DEF TablesOK
  <2>12. Ages(edition, part, chapter, section, edition, part, chapter, section')
    <3>1. \A y \in DOMAIN section : section'[y] # None => section'[y] = section[y] /\ section[y] # None
      BY <2>1, <2>2
    <3> QED
      BY <2>5, <3>1 DEF Ages
  <2>13. "x" # "resort"
    OBVIOUS
  <2> QED
    BY <1>1, <2>1, <2>11, <2>12, <2>13, WriteKeeps
<1> QED
  BY <1>2, <1>3

\* A bookmark is put in a place that is there, though it was checked before.
LEMMA MarkKeeps ==
  ASSUME Contents, NEW p \in Procs, Mark(p)
  PROVE  StepKeeps(p)
<1> PICK e : e = task[p].edition
  OBVIOUS
<1> PICK s : s = task[p].seen
  OBVIOUS
<1>c. PICK c : c = IF task[p].id # None THEN task[p].id ELSE task[p].arg
  OBVIOUS
<1>1. /\ task[p] # None /\ task[p].op = "mark" /\ End(p) /\ UNCHANGED <<edition, part, chapter, section, page, pdf>>
  BY DEF Mark, At, pages
<1>2. CASE mark' = mark
  <2>1. UNCHANGED <<contents, page, pdf>>
    BY <1>1, <1>2 DEF contents
  <2>2. (Goto(p, "x") \/ End(p)) /\ "x" # "resort"
    BY <1>1
  <2> QED
    BY <1>1, <2>1, <2>2, GotoKeeps
<1>3. CASE mark' # mark
  <2>r. PICK r : r = [chapter |-> c, section |-> s]
    OBVIOUS
  <2>1. /\ edition[e] # None /\ (c = None \/ chapter[c] # None) /\ (s = None \/ section[s] # None)
        /\ mark' = [mark EXCEPT ![e] = r]
    BY <1>3, <1>c, <2>r DEF Mark
  <2>2. /\ e \in DOMAIN edition
        /\ task[p].id = None \/ Of(chapter, task[p].id, e)
        /\ s # None => /\ s \in DOMAIN section /\ Of(chapter, task[p].arg, e) /\ task[p].id \in {None, task[p].arg}
                       /\ task[p].arg # None
                       /\ section[s] # None => section[s].chapter = task[p].arg
        /\ s = None => task[p].arg = None
    BY <1>1 DEF Contents, TaskOK, AskedOK
  <2>3. c # None => c \in Rows(chapter) /\ chapter[c].edition = e
    BY <1>c, <2>1, <2>2 DEF Of, Rows
  <2>4. s # None => s \in Rows(section) /\ section[s].chapter = c
    BY <1>c, <2>1, <2>2 DEF Rows
  <2>5. r \in Bookmark /\ r.chapter = c /\ r.section = s
    <3>1. c \in Nat \cup {None} /\ s \in Nat \cup {None}
      BY <2>3, <2>4, Ids DEF Rows
    <3> QED
      BY <2>r, <3>1 DEF Bookmark
  <2>6. TablesOK(edition, part, chapter, section, mark, page, pdf)
    BY DEF Contents
  <2>7. mark \in Seq(Bookmark \cup {None}) /\ Len(mark) = Len(edition) /\ Agrees(edition, chapter, section, mark)
    BY <2>6 DEF TablesOK
  <2>8. mark' \in Seq(Bookmark \cup {None}) /\ Len(mark') = Len(mark) /\ DOMAIN mark' = DOMAIN mark
    <3>1. r \in Bookmark \cup {None}
      BY <2>5
    <3>n. PICK B : B = Bookmark \cup {None}
      OBVIOUS
    <3>0. mark \in Seq(B)
      BY <2>7, <3>n
    <3>3. r \in B
      BY <3>1, <3>n
    <3>2. [mark EXCEPT ![e] = r] \in Seq(B) /\ Len([mark EXCEPT ![e] = r]) = Len(mark)
          /\ DOMAIN [mark EXCEPT ![e] = r] = DOMAIN mark
      BY <3>0, <3>3, RowWritten
    <3> QED
      BY <2>1, <3>2, <3>n
  <2>9. Agrees(edition, chapter, section, mark')
    <3> SUFFICES ASSUME NEW d \in Rows(edition), mark'[d] # None
                 PROVE  /\ mark'[d].section # None => mark'[d].section \in Rows(section) /\ mark'[d].chapter = section[mark'[d].section].chapter
                        /\ mark'[d].chapter # None => mark'[d].chapter \in Rows(chapter) /\ chapter[mark'[d].chapter].edition = d
      BY DEF Agrees
    <3>1. d \in DOMAIN mark
      BY <2>7, Ids DEF Rows
    <3>2. mark'[d] = IF d = e THEN r ELSE mark[d]
      BY <2>1, <3>1
    <3> QED
      BY <2>3, <2>4, <2>5, <2>7, <3>2 DEF Agrees
  <2>10. TablesOK(edition, part, chapter, section, mark', page, pdf)
    BY <2>6, <2>7, <2>8, <2>9 DEF TablesOK
  <2>11. Ages(edition, part, chapter, section, edition, part, chapter, section)
    BY DEF Ages
  <2>12. "x" # "resort"
    OBVIOUS
  <2> QED
    BY <1>1, <2>10, <2>11, <2>12, WriteKeeps
<1> QED
  BY <1>2, <1>3

\* The files of deleted chapters are cleaned up.
LEMMA CleanKeeps ==
  ASSUME Contents, NEW p \in Procs, Clean(p) \/ CleanDocuments(p)
  PROVE  StepKeeps(p)
<1>1. CASE Clean(p)
  <2>1. task[p] # None /\ (Goto(p, "documents") \/ End(p)) /\ UNCHANGED <<contents, page, pdf>>
    BY <1>1 DEF Clean, At
  <2>2. "documents" # "resort"
    OBVIOUS
  <2> QED
    BY <2>1, <2>2, GotoKeeps
<1>2. CASE CleanDocuments(p)
  <2>1. /\ task[p] # None /\ End(p) /\ UNCHANGED <<edition, part, chapter, section, mark, page>>
        /\ pdf' \in {pdf, [c \in DOMAIN pdf |-> IF c \in task[p].todo THEN 0 ELSE pdf[c]]}
    BY <1>2 DEF CleanDocuments, At, contents
  <2>2. TablesOK(edition, part, chapter, section, mark, page, pdf)
    BY DEF Contents
  <2>3. pdf' \in Seq(0 .. MaxPages) /\ Len(pdf') = Len(pdf)
    <3>n. PICK N : N = 0 .. MaxPages
      OBVIOUS
    <3>1. pdf \in Seq(N)
      BY <2>2, <3>n DEF TablesOK
    <3>2. CASE pdf' = [c \in DOMAIN pdf |-> IF c \in task[p].todo THEN 0 ELSE pdf[c]]
      <4>0. 0 \in N
        BY <3>n, PagesAreCounted
      <4>1. \A c \in DOMAIN pdf : pdf[c] \in N
        BY <3>1
      <4>2. pdf' \in [DOMAIN pdf -> N]
        BY <3>2, <4>0, <4>1
      <4>3. pdf' \in Seq(N) /\ Len(pdf') = Len(pdf)
        BY <3>1, <4>2, TableWritten
      <4> QED
        BY <3>n, <4>3
    <3> QED
      BY <2>1, <3>n, <3>1, <3>2
  <2>4. TablesOK(edition, part, chapter, section, mark, page, pdf')
    BY <2>2, <2>3 DEF TablesOK
  <2>5. Ages(edition, part, chapter, section, edition, part, chapter, section)
    BY DEF Ages
  <2>6. "x" # "resort"
    OBVIOUS
  <2> QED
    BY <2>1, <2>4, <2>5, <2>6, WriteKeeps
<1> QED
  BY <1>1, <1>2

-----------------------------------------------------------------------------
(* The invariant of the conversions *)

Piece == [at : {"render", "upload", "row", "count"}, page : Page]
\* A start that has its claim, or a run that has not given it up.
Holder(t) == t # None /\ ((t.op = "start" /\ t.at = "size") \/ (t.op = "run" /\ t.at # "left"))
InHand(t, n) == \E h \in Hands : t.hands[h] # None /\ t.hands[h].page = n

\* What the run of a task is made of.
Shaped(t) ==
    /\ t.op \in {"start", "run"} => t.done \subseteq Page /\ t.todo \subseteq Page
    /\ t.op = "start" => t.hands = <<>>
    /\ t.op = "run" => /\ t.at \in {"load", "mark", "fetch", "done", "count"} => t.hands = <<>>
                       /\ t.hands # <<>> => /\ DOMAIN t.hands = Hands
                                            /\ \A h \in Hands : t.hands[h] # None => t.hands[h] \in Piece
                       /\ t.at \in {"done", "count", "work"} => t.seen \in Page
                       /\ t.at = "work" => DOMAIN t.hands = Hands

\* The status of the chapter of one who holds it.
Stands(t, row, left) ==
    /\ Holder(t) /\ t.at \in {"size", "load", "mark"} => (row.status = "PROCESSING" => t.id \in left)
    /\ t.op = "run" /\ t.at \in {"fetch", "done", "count", "work"} => row.status = "PROCESSING"
    /\ t.op = "run" /\ t.at = "over" => (row.status = "PROCESSING" => t.id \in left)

\* Every page of the chapter is there, is in somebody's hands or is yet to be taken up.
Progress(t, row, pg) ==
    /\ t.op = "run" /\ t.at = "count" => \A n \in t.done : <<t.id, n>> \in pg
    /\ t.op = "run" /\ t.at = "work" => /\ row.pageCount = t.seen
                                        /\ \A n \in 1 .. t.seen : <<t.id, n>> \in pg \/ n \in t.todo \/ InHand(t, n)

\* What the workers have done is in the store and in the table.
WorkersTrue(t, pg, ob) ==
    t.op = "run" /\ t.hands # <<>> => \A h \in Hands : t.hands[h] # None =>
        /\ t.hands[h].at = "row" => <<t.id, t.hands[h].page>> \in ob
        /\ t.hands[h].at = "count" => <<t.id, t.hands[h].page>> \in pg

Running(t, ch, pg, ob, left) ==
    /\ Shaped(t)
    /\ t.op \in {"start", "run"} /\ ch[t.id] # None =>
          Stands(t, ch[t.id], left) /\ Progress(t, ch[t.id], pg) /\ WorkersTrue(t, pg, ob)

\* A row that is PROCESSING is claimed, or its last run ended without a word.
Orphans(ch, held, left) == \A c \in Rows(ch) : ch[c].status = "PROCESSING" /\ c \notin held => c \in left
Claims(tasks, held) ==
    /\ \A p \in Procs : Holder(tasks[p]) => tasks[p].id \in held
    /\ \A p, q \in Procs : Holder(tasks[p]) /\ Holder(tasks[q]) /\ tasks[p].id = tasks[q].id => p = q

Converting ==
    /\ page \subseteq object
    /\ type = "PDF" => Whole(chapter, page)
    /\ claimed \subseteq DOMAIN chapter
    /\ Orphans(chapter, claimed, stranded)
    /\ Claims(task, claimed)
    /\ \A p \in Procs : task[p] # None => Running(task[p], chapter, page, object, stranded)

-----------------------------------------------------------------------------
(* What a step of one request does to the conversions of the others *)

HoldsIt(t, c) == Holder(t) /\ t.id = c
\* A chapter that is still there keeps its pages and their bytes.
Spares(c, ch, pg, ob, ch1, pg1, ob1) ==
    ch1[c] # None => /\ ch[c] # None
                     /\ \A n : (<<c, n>> \in pg => <<c, n>> \in pg1) /\ (<<c, n>> \in ob => <<c, n>> \in ob1)
SameRow(c, ch, ch1) == ch1[c] # None => ch1[c].status = ch[c].status /\ ch1[c].pageCount = ch[c].pageCount

\* What a chapter is known to have been left with stays, for whoever else holds it.
StaysLeft(p) == \A c \in stranded : ~HoldsIt(task[p], c) => c \in stranded'

\* A step of p that keeps the conversions.
ConvKeeps(p) ==
    /\ StaysLeft(p) /\ type' = type
    /\ page' \subseteq object'
    /\ type = "PDF" => Whole(chapter', page')
    /\ claimed' \subseteq DOMAIN chapter'
    /\ Orphans(chapter', claimed', stranded')
    /\ \A c \in DOMAIN chapter : /\ Spares(c, chapter, page, object, chapter', page', object')
                                 /\ ~HoldsIt(task[p], c) => SameRow(c, chapter, chapter')
                                 /\ c \in claimed /\ ~HoldsIt(task[p], c) => c \in claimed'
    /\ Holder(task'[p]) => /\ task'[p].id \in claimed'
                           /\ task'[p].id \notin claimed \/ HoldsIt(task[p], task'[p].id)
    /\ task'[p] # None => Running(task'[p], chapter', page', object', stranded')

\* What a run relies on outlives the steps of the others.
LEMMA RunningAges ==
  ASSUME NEW t, DOMAIN t = Fields, NEW ch, NEW pg, NEW ob, NEW ch1, NEW pg1, NEW ob1, NEW left, NEW left1, Running(t, ch, pg, ob, left),
         t.op \in {"start", "run"} => /\ Spares(t.id, ch, pg, ob, ch1, pg1, ob1)
                                      /\ Holder(t) => SameRow(t.id, ch, ch1) /\ (t.id \in left => t.id \in left1),
         t # None, NEW u, u = t \/ u = [t EXCEPT !.alone = FALSE], u # None
  PROVE  Running(u, ch1, pg1, ob1, left1)
<1>1. /\ DOMAIN u = Fields
      /\ u.op = t.op /\ u.at = t.at /\ u.id = t.id /\ u.hands = t.hands /\ u.todo = t.todo /\ u.done = t.done /\ u.seen = t.seen
  <2>1. CASE u = t
    BY <2>1
  <2>2. CASE u = [t EXCEPT !.alone = FALSE]
    BY <2>2, NotAlone
  <2> QED
    BY <2>1, <2>2
<1>2. Shaped(u) /\ (Holder(u) <=> Holder(t))
  BY <1>1 DEF Shaped, Running, Holder
<1>3. ASSUME t.op \in {"start", "run"}, ch1[t.id] # None
      PROVE  Stands(t, ch1[t.id], left1) /\ Progress(t, ch1[t.id], pg1) /\ WorkersTrue(t, pg1, ob1)
  <2>1. Stands(t, ch[t.id], left) /\ Progress(t, ch[t.id], pg) /\ WorkersTrue(t, pg, ob)
    BY <1>3 DEF Running, Spares
  <2>2. \A n : (<<t.id, n>> \in pg => <<t.id, n>> \in pg1) /\ (<<t.id, n>> \in ob => <<t.id, n>> \in ob1)
    BY <1>3 DEF Spares
  <2>3. Holder(t) => ch1[t.id].status = ch[t.id].status /\ ch1[t.id].pageCount = ch[t.id].pageCount
                       /\ (t.id \in left => t.id \in left1)
    BY <1>3 DEF SameRow
  <2>4. Stands(t, ch1[t.id], left1)
    BY <2>1, <2>3 DEF Stands, Holder
  <2>5. Progress(t, ch1[t.id], pg1)
    BY <2>1, <2>2, <2>3 DEF Progress, Holder
  <2>6. WorkersTrue(t, pg1, ob1)
    BY <2>1, <2>2 DEF WorkersTrue
  <2> QED
    BY <2>4, <2>5, <2>6
<1>4. ASSUME u.op \in {"start", "run"}, ch1[u.id] # None
      PROVE  Stands(u, ch1[u.id], left1) /\ Progress(u, ch1[u.id], pg1) /\ WorkersTrue(u, pg1, ob1)
  <2>1. Stands(u, ch1[u.id], left1)
    BY <1>1, <1>2, <1>3, <1>4 DEF Stands
  <2>2. Progress(u, ch1[u.id], pg1)
    BY <1>1, <1>3, <1>4 DEF Progress, InHand
  <2>3. WorkersTrue(u, pg1, ob1)
    BY <1>1, <1>3, <1>4 DEF WorkersTrue
  <2> QED
    BY <2>1, <2>2, <2>3
<1> QED
  BY <1>2, <1>4 DEF Running

\* A step of one request that keeps the conversions keeps the invariant.
LEMMA ConvertingKept ==
  ASSUME Contents, Converting, NEW p \in Procs, StepKeeps(p), ConvKeeps(p)
  PROVE  Converting'
<1>1. ASSUME NEW q \in Procs \ {p}, task'[q] # None
      PROVE  /\ task[q] # None /\ DOMAIN task[q] = Fields /\ task'[q].id = task[q].id
             /\ task'[q] = task[q] \/ task'[q] = [task[q] EXCEPT !.alone = FALSE]
             /\ Holder(task'[q]) => Holder(task[q])
             /\ TaskOK(task[q], edition, part, chapter, section) /\ Running(task[q], chapter, page, object, stranded)
  <2>1. task[q] # None /\ (task'[q] = task[q] \/ task'[q] = [task[q] EXCEPT !.alone = FALSE])
    BY <1>1 DEF StepKeeps, Others
  <2>2. TaskOK(task[q], edition, part, chapter, section) /\ Running(task[q], chapter, page, object, stranded)
    BY <2>1 DEF Contents, Converting
  <2>3. DOMAIN task[q] = Fields
    BY <2>2 DEF TaskOK
  <2> PICK t : t = task[q]
    OBVIOUS
  <2> PICK u : u = task'[q]
    OBVIOUS
  <2>4. u.op = t.op /\ u.at = t.at /\ u.id = t.id
    <3>1. CASE u = t
      BY <3>1
    <3>2. CASE u = [t EXCEPT !.alone = FALSE]
      BY <2>3, <3>2, NotAlone
    <3> QED
      BY <2>1, <3>1, <3>2
  <2> QED
    BY <2>1, <2>2, <2>3, <2>4 DEF Holder
<1>2. ASSUME NEW q \in Procs, task'[q] # None
      PROVE  Running(task'[q], chapter', page', object', stranded')
  <2>1. CASE q = p
    BY <1>2, <2>1 DEF ConvKeeps
  <2>2. CASE q # p
    <3> PICK t : t = task[q]
      OBVIOUS
    <3> PICK u : u = task'[q]
      OBVIOUS
    <3>1. /\ t # None /\ u # None /\ DOMAIN t = Fields /\ (u = t \/ u = [t EXCEPT !.alone = FALSE])
          /\ Running(t, chapter, page, object, stranded)
      BY <1>1, <1>2, <2>2
    <3>2. ASSUME t.op \in {"start", "run"}
          PROVE  /\ Spares(t.id, chapter, page, object, chapter', page', object')
                 /\ Holder(t) => SameRow(t.id, chapter, chapter') /\ (t.id \in stranded => t.id \in stranded')
      <4>1. t.id \in DOMAIN chapter
        BY <1>1, <1>2, <2>2, <3>2 DEF TaskOK, AskedOK
      <4>2. Holder(t) => ~HoldsIt(task[p], t.id)
        BY <2>2 DEF HoldsIt, Converting, Claims
      <4> QED
        BY <4>1, <4>2 DEF ConvKeeps, StaysLeft
    <3>3. Running(u, chapter', page', object', stranded')
      BY <3>1, <3>2, RunningAges
    <3> QED
      BY <3>3
  <2> QED
    BY <2>1, <2>2
<1>3. ASSUME NEW q \in Procs \ {p}, Holder(task'[q])
      PROVE  /\ Holder(task[q]) /\ task'[q].id = task[q].id /\ task[q].id \in claimed /\ task'[q].id \in claimed'
             /\ ~HoldsIt(task[p], task[q].id)
  <2>1. task'[q] # None
    BY <1>3 DEF Holder
  <2>2. /\ Holder(task[q]) /\ task'[q].id = task[q].id /\ task[q].id \in claimed
    BY <1>1, <1>3, <2>1 DEF Converting, Claims
  <2>3. ~HoldsIt(task[p], task[q].id)
    BY <2>2 DEF HoldsIt, Converting, Claims
  <2>4. task[q].id \in DOMAIN chapter
    BY <2>2 DEF Converting
  <2> QED
    BY <2>2, <2>3, <2>4 DEF ConvKeeps
<1>4. Claims(task', claimed')
  <2>1. ASSUME NEW q \in Procs, Holder(task'[q]) PROVE task'[q].id \in claimed'
    <3>1. CASE q = p
      BY <2>1, <3>1 DEF ConvKeeps
    <3>2. CASE q # p
      BY <1>3, <2>1, <3>2
    <3> QED
      BY <3>1, <3>2
  <2>2. ASSUME NEW q \in Procs \ {p}, Holder(task'[q]), Holder(task'[p]), task'[q].id = task'[p].id PROVE FALSE
    <3>1. task[q].id \in claimed /\ task'[q].id = task[q].id /\ ~HoldsIt(task[p], task[q].id)
      BY <1>3, <2>2
    <3> QED
      BY <2>2, <3>1 DEF ConvKeeps
  <2>3. ASSUME NEW q \in Procs \ {p}, NEW r \in Procs \ {p}, Holder(task'[q]), Holder(task'[r]), task'[q].id = task'[r].id
        PROVE  q = r
    BY <1>3, <2>3 DEF Converting, Claims
  <2> QED
    BY <2>1, <2>2, <2>3 DEF Claims
<1>5. /\ page' \subseteq object' /\ (type' = "PDF" => Whole(chapter', page')) /\ claimed' \subseteq DOMAIN chapter'
      /\ Orphans(chapter', claimed', stranded')
  BY DEF ConvKeeps, Converting
<1> QED
  BY <1>2, <1>4, <1>5 DEF Converting, ConvKeeps

\* A step of a request that converts nothing: it leaves the conversions of the chapters that
\* stay as they are, and a chapter it adds is not under way.
LEMMA OtherWorkKeeps ==
  ASSUME Contents, Converting, NEW p \in Procs,
         ~Holder(task[p]), task'[p] # None => task'[p].op \notin {"start", "run"},
         UNCHANGED <<claimed, stranded, type>>, DOMAIN chapter \subseteq DOMAIN chapter',
         \A c \in DOMAIN chapter : /\ Spares(c, chapter, page, object, chapter', page', object')
                                   /\ SameRow(c, chapter, chapter'),
         \A c \in Rows(chapter') \ DOMAIN chapter : (chapter'[c].status = "READY" /\ type = "EDITOR") \/ chapter'[c].status = "DRAFT",
         page' \subseteq object'
  PROVE  ConvKeeps(p)
<1>1. ASSUME type = "PDF" PROVE Whole(chapter', page')
  <2> SUFFICES ASSUME NEW c \in Rows(chapter'), chapter'[c].status = "READY"
               PROVE  chapter'[c].pageCount > 0 /\ \A n \in 1 .. chapter'[c].pageCount : <<c, n>> \in page'
    BY DEF Whole
  <2>1. c \in DOMAIN chapter
    BY <1>1
  <2>2. chapter[c] # None /\ chapter[c].status = "READY" /\ chapter'[c].pageCount = chapter[c].pageCount
        /\ \A n : <<c, n>> \in page => <<c, n>> \in page'
    BY <2>1 DEF Spares, SameRow, Rows
  <2>3. chapter[c].pageCount > 0 /\ \A n \in 1 .. chapter[c].pageCount : <<c, n>> \in page
    BY <1>1, <2>1, <2>2 DEF Converting, Whole, Rows
  <2> QED
    BY <2>2, <2>3
<1>2. Orphans(chapter', claimed', stranded)
  <2> SUFFICES ASSUME NEW c \in Rows(chapter'), chapter'[c].status = "PROCESSING", c \notin claimed
               PROVE  c \in stranded
    BY DEF Orphans
  <2>1. c \in DOMAIN chapter
    OBVIOUS
  <2>2. chapter[c] # None /\ chapter[c].status = "PROCESSING"
    BY <2>1 DEF Spares, SameRow, Rows
  <2> QED
    BY <2>1, <2>2 DEF Converting, Orphans, Rows
<1>3. claimed' \subseteq DOMAIN chapter'
  BY DEF Converting
<1>4. task'[p] # None => Running(task'[p], chapter', page', object', stranded) /\ ~Holder(task'[p])
  BY DEF Running, Shaped, Holder
<1>5. ~Holder(task'[p])
  BY <1>4 DEF Holder
<1>6. \A c \in DOMAIN chapter : /\ Spares(c, chapter, page, object, chapter', page', object')
                                /\ ~HoldsIt(task[p], c) => SameRow(c, chapter, chapter')
                                /\ c \in claimed /\ ~HoldsIt(task[p], c) => c \in claimed'
  OBVIOUS
<1> QED
  BY <1>1, <1>2, <1>3, <1>4, <1>5, <1>6 DEF ConvKeeps, StaysLeft

\* One that leaves the chapters and their pages alone.
LEMMA OtherWorkAside ==
  ASSUME Contents, Converting, NEW p \in Procs,
         ~Holder(task[p]), task'[p] # None => task'[p].op \notin {"start", "run"},
         UNCHANGED <<claimed, stranded, type, chapter, page, object>>
  PROVE  ConvKeeps(p)
<1>1. \A c \in DOMAIN chapter : /\ Spares(c, chapter, page, object, chapter', page', object')
                                /\ SameRow(c, chapter, chapter')
  BY DEF Spares, SameRow
<1>2. /\ DOMAIN chapter \subseteq DOMAIN chapter' /\ page' \subseteq object'
      /\ \A c \in Rows(chapter') \ DOMAIN chapter : FALSE
  BY DEF Converting, Rows
<1> QED
  BY <1>1, <1>2, OtherWorkKeeps

\* One that rewrites the chapters, each with its status and its pages.
LEMMA RowsRewritten ==
  ASSUME Contents, Converting, NEW p \in Procs,
         ~Holder(task[p]), task'[p] # None => task'[p].op \notin {"start", "run"},
         UNCHANGED <<claimed, stranded, type, page, object>>,
         DOMAIN chapter' = DOMAIN chapter,
         \A c \in DOMAIN chapter : chapter'[c] # None => /\ chapter[c] # None /\ chapter'[c].status = chapter[c].status
                                                         /\ chapter'[c].pageCount = chapter[c].pageCount
  PROVE  ConvKeeps(p)
<1>1. \A c \in DOMAIN chapter : /\ Spares(c, chapter, page, object, chapter', page', object')
                                /\ SameRow(c, chapter, chapter')
  BY DEF Spares, SameRow
<1>2. /\ DOMAIN chapter \subseteq DOMAIN chapter' /\ page' \subseteq object'
      /\ \A c \in Rows(chapter') \ DOMAIN chapter : FALSE
  BY DEF Converting, Rows
<1> QED
  BY <1>1, <1>2, OtherWorkKeeps

\* Requests that edit are no conversions, before the step and after it.
LEMMA EditsConvertNothing ==
  ASSUME Contents, NEW p \in Procs, Edit(p)
  PROVE  /\ task[p] # None /\ task[p].op \notin {"start", "run"}
         /\ task'[p] # None => task'[p].op \notin {"start", "run"}
<1> DEFINE Ours(t) == t.op \notin {"start", "run"}
<1>1. task[p] # None /\ Ours(task[p])
  BY DEF Edit, InsertEdition, AllowStatus, WriteStatus, CountEditions, DeleteEdition, ReadParts, ReadChapters, Renumber,
         InsertChapter, MoveChapter, DeleteChapter, Clean, CleanDocuments, WriteOrder, InsertPart, WritePartOrder, DeletePart,
         InsertSection, MoveSection, ReadSections, ResortSections, WriteSectionOrder, DeleteSection, Mark, ReadContents, Answer,
         Answered, At, Planned
<1>2. DOMAIN task[p] = Fields /\ DOMAIN task = Procs
  BY <1>1 DEF Contents, TaskOK
<1> PICK t : t = task[p]
  OBVIOUS
<1>3. ASSUME NEW u, Proceed(p, u) \/ Disturb(p, u), u # None => u.op = t.op
      PROVE  task'[p] # None => Ours(task'[p])
  BY <1>1, <1>2, <1>3 DEF Proceed, Disturb
<1>4. ASSUME NEW at, NEW x
      PROVE  /\ [t EXCEPT !.at = at].op = t.op /\ [t EXCEPT !.at = at, !.todo = x].op = t.op
             /\ [t EXCEPT !.parts = x].op = t.op /\ [t EXCEPT !.rows = x].op = t.op /\ [t EXCEPT !.sections = x].op = t.op
             /\ [t EXCEPT !.at = at, !.sections = x].op = t.op
  BY <1>2 DEF Fields
<1>5. PICK u : (Proceed(p, u) \/ Disturb(p, u)) /\ (u # None => u.op = t.op)
  <2>1. CASE InsertEdition(p) \/ WriteStatus(p) \/ CleanDocuments(p) \/ Mark(p) \/ Answer(p)
    BY <2>1 DEF InsertEdition, WriteStatus, CleanDocuments, Mark, Answer, End
  <2>2. CASE AllowStatus(p) \/ CountEditions(p) \/ Clean(p)
    BY <1>4, <2>2 DEF AllowStatus, CountEditions, Clean, Goto, End
  <2>3. CASE DeleteEdition(p) \/ DeleteChapter(p)
    <3>1. PICK x : Proceed(p, None) \/ Disturb(p, [t EXCEPT !.at = "clean", !.todo = x])
      BY <2>3 DEF DeleteEdition, DeleteChapter, End
    <3> PICK u : u = [t EXCEPT !.at = "clean", !.todo = x]
      OBVIOUS
    <3>2. u.op = t.op /\ (Proceed(p, None) \/ Disturb(p, u))
      BY <1>4, <3>1
    <3> QED
      BY <3>2
  <2>4. CASE ReadParts(p) \/ ReadChapters(p) \/ ReadSections(p) \/ ReadContents(p)
    <3>1. PICK x, u : /\ Proceed(p, u)
                      /\ \/ u = [t EXCEPT !.parts = x] \/ u = [t EXCEPT !.rows = x] \/ u = [t EXCEPT !.sections = x]
                         \/ u = [t EXCEPT !.at = "resort", !.sections = x]
      <4>1. CASE ReadParts(p)
        BY <4>1 DEF ReadParts
      <4>2. CASE ReadChapters(p)
        BY <4>2 DEF ReadChapters
      <4>3. CASE ReadSections(p)
        BY <4>3 DEF ReadSections
      <4>4. CASE ReadContents(p)
        BY <4>4 DEF ReadContents
      <4> QED
        BY <2>4, <4>1, <4>2, <4>3, <4>4
    <3>2. u.op = t.op
      BY <1>2, <3>1 DEF Fields
    <3> QED
      BY <3>1, <3>2
  <2>5. CASE Renumber(p) \/ ResortSections(p) \/ WriteSectionOrder(p) \/ DeleteSection(p) \/ InsertPart(p)
    BY <2>5 DEF Renumber, ResortSections, WriteSectionOrder, DeleteSection, InsertPart, End
  <2>6. CASE InsertChapter(p) \/ MoveChapter(p) \/ WriteOrder(p) \/ WritePartOrder(p) \/ DeletePart(p)
    BY <1>4, <2>6 DEF InsertChapter, MoveChapter, WriteOrder, WritePartOrder, DeletePart, End, Regroup
  <2>7. CASE InsertSection(p) \/ MoveSection(p)
    BY <1>4, <2>7 DEF InsertSection, MoveSection, End
  <2> QED
    BY <2>1, <2>2, <2>3, <2>4, <2>5, <2>6, <2>7 DEF Edit
<1> QED
  BY <1>1, <1>3, <1>5

\* A chapter that is put elsewhere is as far as it was.
LEMMA StatusKept ==
  \A r \in Chapter : \A x : /\ [r EXCEPT !.order = x].status = r.status /\ [r EXCEPT !.order = x].pageCount = r.pageCount
                            /\ [r EXCEPT !.part = x].status = r.status /\ [r EXCEPT !.part = x].pageCount = r.pageCount
BY DEF Chapter

\* Chapters that go take their rows of pages along.
LEMMA GoneConvert ==
  ASSUME Contents, Converting, NEW p \in Procs,
         ~Holder(task[p]), task'[p] # None => task'[p].op \notin {"start", "run"},
         UNCHANGED <<claimed, stranded, type, object>>, NEW gone, Without(gone)
  PROVE  ConvKeeps(p)
<1>1. /\ chapter' = [c \in DOMAIN chapter |-> IF c \in gone THEN None ELSE chapter[c]]
      /\ page' = {r \in page : r[1] \notin gone}
  BY DEF Without
<1>2. \A c \in DOMAIN chapter : /\ Spares(c, chapter, page, object, chapter', page', object')
                                /\ SameRow(c, chapter, chapter')
  BY <1>1 DEF Spares, SameRow
<1>3. page' \subseteq object' /\ DOMAIN chapter \subseteq DOMAIN chapter' /\ Rows(chapter') \subseteq DOMAIN chapter
  BY <1>1 DEF Converting, Rows
<1> QED
  BY <1>2, <1>3, OtherWorkKeeps

\* The requests that edit leave the conversions alone.
LEMMA EditsConvert ==
  ASSUME Contents, Converting, NEW p \in Procs, Edit(p)
  PROVE  ConvKeeps(p)
<1>1. /\ task[p] # None /\ task[p].op \notin {"start", "run"}
      /\ task'[p] # None => task'[p].op \notin {"start", "run"}
  BY EditsConvertNothing
<1>2. ~Holder(task[p])
  BY <1>1 DEF Holder
<1>3. UNCHANGED <<claimed, stranded, type>>
  BY DEF Edit, InsertEdition, AllowStatus, WriteStatus, CountEditions, DeleteEdition, ReadParts, ReadChapters, Renumber,
         InsertChapter, MoveChapter, DeleteChapter, Clean, CleanDocuments, WriteOrder, InsertPart, WritePartOrder, DeletePart,
         InsertSection, MoveSection, ReadSections, ResortSections, WriteSectionOrder, DeleteSection, Mark, ReadContents, Answer,
         Reads, Writes, rest
<1>4. CASE UNCHANGED <<chapter, page, object>>
  BY <1>1, <1>2, <1>3, <1>4, OtherWorkAside
<1>5. CASE \/ InsertEdition(p) \/ AllowStatus(p) \/ WriteStatus(p) \/ CountEditions(p) \/ ReadParts(p) \/ ReadChapters(p)
           \/ CleanDocuments(p) \/ InsertPart(p) \/ WritePartOrder(p) \/ InsertSection(p) \/ MoveSection(p)
           \/ ReadSections(p) \/ ResortSections(p) \/ WriteSectionOrder(p) \/ DeleteSection(p) \/ Mark(p) \/ ReadContents(p) \/ Answer(p)
  <2>1. UNCHANGED <<chapter, page, object>>
    BY <1>5 DEF InsertEdition, AllowStatus, WriteStatus, CountEditions, ReadParts, ReadChapters, CleanDocuments, InsertPart,
       WritePartOrder, InsertSection, MoveSection, ReadSections, ResortSections, WriteSectionOrder, DeleteSection, Mark,
       ReadContents, Answer, Reads, Writes, contents, pages
  <2> QED
    BY <1>4, <2>1
<1>6. CASE Renumber(p)
  <2>1. UNCHANGED <<page, object>>
    BY <1>6 DEF Renumber, pages
  <2>2. CASE UNCHANGED chapter
    BY <1>4, <2>1, <2>2
  <2>3. CASE ~UNCHANGED chapter
    <3> PICK order : order = ReadingOrder(task[p].parts, task[p].rows)
      OBVIOUS
    <3>1. /\ DOMAIN order \subseteq Rows(chapter)
          /\ chapter' = [c \in DOMAIN chapter |-> IF c \in DOMAIN order THEN [chapter[c] EXCEPT !.order = order[c]] ELSE chapter[c]]
      BY <1>6, <2>3 DEF Renumber
    <3>2. DOMAIN chapter' = DOMAIN chapter
      BY <3>1
    <3>3. ASSUME NEW c \in DOMAIN chapter, chapter'[c] # None
          PROVE  chapter[c] # None /\ chapter'[c].status = chapter[c].status /\ chapter'[c].pageCount = chapter[c].pageCount
      <4>1. CASE c \in DOMAIN order
        <5>1. chapter[c] \in Chapter /\ chapter[c] # None
          BY <3>1, <4>1, RowTypes DEF Rows
        <5>2. chapter'[c] = [chapter[c] EXCEPT !.order = order[c]]
          BY <3>1, <4>1
        <5> QED
          BY <5>1, <5>2, StatusKept
      <4>2. CASE c \notin DOMAIN order
        BY <3>1, <3>3, <4>2
      <4> QED
        BY <4>1, <4>2
    <3> QED
      BY <1>1, <1>2, <1>3, <2>1, <3>2, <3>3, RowsRewritten
  <2> QED
    BY <2>2, <2>3
<1>7. CASE MoveChapter(p)
  <2>1. UNCHANGED <<page, object>>
    BY <1>7 DEF MoveChapter, pages
  <2>2. CASE UNCHANGED chapter
    BY <1>4, <2>1, <2>2
  <2>3. CASE ~UNCHANGED chapter
    <3> PICK x : x = task[p].arg
      OBVIOUS
    <3> PICK d : d = task[p].id
      OBVIOUS
    <3>1. chapter[d] # None /\ chapter' = [chapter EXCEPT ![d].part = x]
      BY <1>7, <2>3 DEF MoveChapter
    <3>2. DOMAIN chapter' = DOMAIN chapter
      BY <3>1
    <3>3. ASSUME NEW c \in DOMAIN chapter, chapter'[c] # None
          PROVE  chapter[c] # None /\ chapter'[c].status = chapter[c].status /\ chapter'[c].pageCount = chapter[c].pageCount
      <4>1. CASE c = d
        <5>1. chapter[c] \in Chapter /\ chapter[c] # None
          BY <3>1, <4>1, RowTypes DEF Rows
        <5>2. chapter'[c] = [chapter[c] EXCEPT !.part = x]
          BY <3>1, <4>1
        <5> QED
          BY <5>1, <5>2, StatusKept
      <4>2. CASE c # d
        BY <3>1, <3>3, <4>2
      <4> QED
        BY <4>1, <4>2
    <3> QED
      BY <1>1, <1>2, <1>3, <2>1, <3>2, <3>3, RowsRewritten
  <2> QED
    BY <2>2, <2>3
<1>8. CASE WriteOrder(p)
  <2>1. UNCHANGED <<page, object>>
    BY <1>8 DEF WriteOrder, pages
  <2>2. CASE UNCHANGED chapter
    BY <1>4, <2>1, <2>2
  <2>3. CASE ~UNCHANGED chapter
    <3> PICK list : list = task[p].list
      OBVIOUS
    <3>1. AllThere(chapter, list) /\ chapter' = Renumbered(chapter, list)
      BY <1>8, <2>3 DEF WriteOrder
    <3>2. DOMAIN chapter' = DOMAIN chapter
      BY <3>1 DEF Renumbered
    <3>3. ASSUME NEW c \in DOMAIN chapter, chapter'[c] # None
          PROVE  chapter[c] # None /\ chapter'[c].status = chapter[c].status /\ chapter'[c].pageCount = chapter[c].pageCount
      <4>1. CASE \E n \in DOMAIN list : list[n] = c
        <5>1. chapter[c] \in Chapter /\ chapter[c] # None
          BY <3>1, <4>1, RowTypes DEF Rows, AllThere
        <5>2. chapter'[c] = [chapter[c] EXCEPT !.order = Place(list, c)]
          BY <3>1, <4>1 DEF Renumbered
        <5> QED
          BY <5>1, <5>2, StatusKept
      <4>2. CASE ~\E n \in DOMAIN list : list[n] = c
        BY <3>1, <3>3, <4>2 DEF Renumbered
      <4> QED
        BY <4>1, <4>2
    <3> QED
      BY <1>1, <1>2, <1>3, <2>1, <3>2, <3>3, RowsRewritten
  <2> QED
    BY <2>2, <2>3
<1>9. CASE DeletePart(p)
  <2>1. UNCHANGED <<page, object>>
    BY <1>9 DEF DeletePart, pages
  <2>2. CASE UNCHANGED chapter
    BY <1>4, <2>1, <2>2
  <2>3. CASE ~UNCHANGED chapter
    <3> PICK x : x = task[p].id
      OBVIOUS
    <3>1. chapter' = [c \in DOMAIN chapter |-> IF chapter[c] # None /\ chapter[c].part = x
                                               THEN [chapter[c] EXCEPT !.part = None] ELSE chapter[c]]
      BY <1>9, <2>3 DEF DeletePart
    <3>2. DOMAIN chapter' = DOMAIN chapter
      BY <3>1
    <3>3. ASSUME NEW c \in DOMAIN chapter, chapter'[c] # None
          PROVE  chapter[c] # None /\ chapter'[c].status = chapter[c].status /\ chapter'[c].pageCount = chapter[c].pageCount
      <4>1. CASE chapter[c] # None /\ chapter[c].part = x
        <5>1. chapter[c] \in Chapter /\ chapter[c] # None
          BY <4>1, RowTypes DEF Rows
        <5>2. chapter'[c] = [chapter[c] EXCEPT !.part = None]
          BY <3>1, <4>1
        <5> QED
          BY <5>1, <5>2, StatusKept
      <4>2. CASE ~(chapter[c] # None /\ chapter[c].part = x)
        BY <3>1, <3>3, <4>2
      <4> QED
        BY <4>1, <4>2
    <3> QED
      BY <1>1, <1>2, <1>3, <2>1, <3>2, <3>3, RowsRewritten
  <2> QED
    BY <2>2, <2>3
<1>10. CASE InsertChapter(p)
  <2>1. UNCHANGED <<page, object>>
    BY <1>10 DEF InsertChapter
  <2>2. CASE UNCHANGED chapter
    BY <1>4, <2>1, <2>2
  <2>3. CASE ~UNCHANGED chapter
    <3>1. PICK r : chapter' = Append(chapter, r) /\ r.status = IF type = "EDITOR" THEN "READY" ELSE "DRAFT"
      BY <1>10, <2>3 DEF InsertChapter
    <3>2. DOMAIN chapter' = (DOMAIN chapter) \cup {Len(chapter) + 1} /\ \A c \in DOMAIN chapter : chapter'[c] = chapter[c]
          /\ chapter'[Len(chapter) + 1] = r
      <4>1. chapter \in Seq(Chapter \cup {None})
        BY DEF Contents, TablesOK
      <4>2. chapter \in Seq(Chapter \cup {None, r})
        BY <4>1
      <4> QED
        BY <3>1, <4>2, RowAdded
    <3>3. \A c \in DOMAIN chapter : /\ Spares(c, chapter, page, object, chapter', page', object')
                                    /\ SameRow(c, chapter, chapter')
      BY <2>1, <3>2 DEF Spares, SameRow
    <3>4. /\ \A c \in Rows(chapter') \ DOMAIN chapter : (chapter'[c].status = "READY" /\ type = "EDITOR") \/ chapter'[c].status = "DRAFT"
          /\ DOMAIN chapter \subseteq DOMAIN chapter' /\ page' \subseteq object'
      BY <2>1, <3>1, <3>2 DEF Rows, Converting
    <3> QED
      BY <1>1, <1>2, <1>3, <3>3, <3>4, OtherWorkKeeps
  <2> QED
    BY <2>2, <2>3
<1>11. CASE DeleteChapter(p) \/ DeleteEdition(p)
  <2>1. UNCHANGED object
    BY <1>11 DEF DeleteChapter, DeleteEdition
  <2>2. CASE UNCHANGED <<contents, page>>
    <3>1. UNCHANGED <<chapter, page>>
      BY <2>2 DEF contents
    <3> QED
      BY <1>4, <2>1, <3>1
  <2>3. CASE ~UNCHANGED <<contents, page>>
    <3>1. PICK gone : Without(gone)
      BY <1>11, <2>3 DEF DeleteChapter, DeleteEdition
    <3> QED
      BY <1>1, <1>2, <1>3, <2>1, <3>1, GoneConvert
  <2> QED
    BY <2>2, <2>3
<1>12. CASE Clean(p)
  <2>1. UNCHANGED <<chapter, page>>
    BY <1>12 DEF Clean, contents
  <2>2. CASE UNCHANGED object
    BY <1>4, <2>1, <2>2
  <2>3. CASE ~UNCHANGED object
    <3>1. /\ task[p].op \in {"deleteChapter", "removeEdition"} /\ object' = {r \in object : r[1] \notin task[p].todo}
      BY <1>12, <2>3 DEF Clean, At
    <3>2. \A c \in task[p].todo : chapter[c] = None
      BY <1>1, <3>1 DEF Contents, TaskOK, AskedOK
    <3>3. \A c \in DOMAIN chapter : /\ Spares(c, chapter, page, object, chapter', page', object')
                                    /\ SameRow(c, chapter, chapter')
      BY <2>1, <3>1, <3>2 DEF Spares, SameRow
    <3>4. page' \subseteq object'
      <4>1. page \subseteq object /\ page \subseteq Rows(chapter) \X Page
        BY DEF Converting, Contents, TablesOK
      <4>2. \A r \in page : r[1] \notin task[p].todo
        BY <3>2, <4>1 DEF Rows
      <4> QED
        BY <2>1, <3>1, <4>1, <4>2
    <3>5. /\ DOMAIN chapter \subseteq DOMAIN chapter'
          /\ \A c \in Rows(chapter') \ DOMAIN chapter : FALSE
      BY <2>1 DEF Rows
    <3> QED
      BY <1>1, <1>2, <1>3, <3>3, <3>4, <3>5, OtherWorkKeeps
  <2> QED
    BY <2>2, <2>3
<1> QED
  BY <1>5, <1>6, <1>7, <1>8, <1>9, <1>10, <1>11, <1>12 DEF Edit

-----------------------------------------------------------------------------
(* Every step of a request that edits, and every request that is let in *)

\* Every step of an edit or of an answer.
LEMMA EditKeeps ==
  ASSUME Contents, NEW p \in Procs, Edit(p)
  PROVE  StepKeeps(p)
BY InsertEditionKeeps, ChecksKeep, WriteStatusKeeps, DeleteEditionKeeps, PlansRead, RenumberKeeps, InsertChapterKeeps,
   MoveChapterKeeps, DeleteChapterKeeps, CleanKeeps, WriteOrderKeeps, InsertPartKeeps, WritePartOrderKeeps, DeletePartKeeps,
   InsertSectionKeeps, MoveSectionKeeps, SortReads, ResortKeeps, WriteSectionOrderKeeps, DeleteSectionKeeps, MarkKeeps,
   ContentsRead DEF Edit

\* Whatever is asked for, the request carries what it should.
LEMMA ArriveKeeps ==
  ASSUME Contents, NEW p \in Procs, Arrive(p)
  PROVE  StepKeeps(p)
<1>1. CASE \E l \in Languages : AskAddEdition(p, l)
  BY <1>1, AddEditionAsked
<1>2. CASE \E e \in Rows(edition) :
          \/ AskRemoveEdition(p, e) \/ AskCreatePart(p, e)
          \/ \E s \in {"DRAFT", "PUBLISHED"} : AskStatus(p, e, s)
          \/ \E x \in Parts(e) \cup {None} : AskCreateChapter(p, e, x)
          \/ \E list \in Orders(Chapters(e)) : AskReorder(p, e, list)
          \/ \E list \in Orders(Parts(e)) : AskReorderParts(p, e, list)
          \/ \E staff \in BOOLEAN : AskContents(p, e, staff)
          \/ \E c \in Rows(chapter) \cup {None}, s \in Rows(section) \cup {None} : AskMark(p, e, c, s)
  BY <1>2, RemoveEditionAsked, CreatePartAsked, StatusAsked, CreateChapterAsked, ReorderAsked, ReorderPartsAsked,
     ContentsAsked, MarkAsked
<1>3. CASE \E c \in Rows(chapter) :
          \/ AskDeleteChapter(p, c) \/ AskStart(p, c)
          \/ \E x \in Rows(part) \cup {None} : AskMove(p, c, x)
          \/ \E n \in (1 .. MaxPages) \cup {None} : AskCreateSection(p, c, n)
          \/ \E list \in Orders(Sections(c)) : AskReorderSections(p, c, list)
  BY <1>3, DeleteChapterAsked, StartAsked, MoveAsked, CreateSectionAsked, ReorderSectionsAsked
<1>4. CASE \E x \in Rows(part) : AskDeletePart(p, x)
  BY <1>4, DeletePartAsked
<1>5. CASE \E s \in Rows(section) : AskDeleteSection(p, s) \/ \E n \in 1 .. MaxPages : AskMoveSection(p, s, n)
  BY <1>5, DeleteSectionAsked, MoveSectionAsked
<1> QED
  BY <1>1, <1>2, <1>3, <1>4, <1>5 DEF Arrive

\* A request that is let in holds no chapter yet, and leaves the others' to them.
LEMMA AskConverts ==
  ASSUME Contents, Converting, NEW p \in Procs, NEW t, Ask(p, t), t.op # "run",
         t.op = "start" => t.at = "claim" /\ t.hands = <<>> /\ t.done = {} /\ t.todo = {}
  PROVE  ConvKeeps(p)
<1>1. /\ task[p] = None /\ task'[p] = t
      /\ UNCHANGED <<chapter, page, object, claimed, stranded, type>>
  BY DEF Ask, Proceed, contents, pages, rest, Contents
<1>2. Running(t, chapter, page, object, stranded) /\ ~Holder(t)
  BY DEF Running, Shaped, Stands, Progress, WorkersTrue, Holder
<1>3. ~Holder(task[p]) /\ \A c : ~HoldsIt(task[p], c)
  BY <1>1 DEF Holder, HoldsIt
<1>4. \A c \in DOMAIN chapter : /\ Spares(c, chapter, page, object, chapter', page', object')
                                /\ ~HoldsIt(task[p], c) => SameRow(c, chapter, chapter')
                                /\ c \in claimed /\ ~HoldsIt(task[p], c) => c \in claimed'
  BY <1>1 DEF Spares, SameRow
<1>5. /\ page' \subseteq object' /\ (type = "PDF" => Whole(chapter', page')) /\ claimed' \subseteq DOMAIN chapter'
      /\ Orphans(chapter', claimed', stranded)
  BY <1>1 DEF Converting
<1> QED
  BY <1>1, <1>2, <1>4, <1>5 DEF ConvKeeps, StaysLeft

\* Whatever is asked for, nothing is converted yet.
LEMMA ArriveConverts ==
  ASSUME Contents, Converting, NEW p \in Procs, Arrive(p)
  PROVE  ConvKeeps(p)
<1> DEFINE Fresh(t) == t.op # "run" /\ (t.op = "start" => t.at = "claim" /\ t.hands = <<>> /\ t.done = {} /\ t.todo = {})
<1>1. ASSUME NEW t, Ask(p, t), Fresh(t) PROVE ConvKeeps(p)
  BY <1>1, AskConverts
<1> HIDE DEF Fresh
<1>2. ASSUME NEW l \in Languages, AskAddEdition(p, l) PROVE ConvKeeps(p)
  BY <1>1, <1>2 DEF AskAddEdition, Idle, Fresh
<1>3. ASSUME NEW e \in Rows(edition), AskRemoveEdition(p, e) PROVE ConvKeeps(p)
  BY <1>1, <1>3 DEF AskRemoveEdition, Idle, Fresh
<1>4. ASSUME NEW e \in Rows(edition), AskCreatePart(p, e) PROVE ConvKeeps(p)
  BY <1>1, <1>4 DEF AskCreatePart, Idle, Fresh
<1>5. ASSUME NEW e \in Rows(edition), NEW s, AskStatus(p, e, s) PROVE ConvKeeps(p)
  BY <1>1, <1>5 DEF AskStatus, Idle, Fresh
<1>6. ASSUME NEW e \in Rows(edition), NEW x, AskCreateChapter(p, e, x) PROVE ConvKeeps(p)
  BY <1>1, <1>6 DEF AskCreateChapter, Idle, Fresh
<1>7. ASSUME NEW e \in Rows(edition), NEW list, AskReorder(p, e, list) \/ AskReorderParts(p, e, list) PROVE ConvKeeps(p)
  BY <1>1, <1>7 DEF AskReorder, AskReorderParts, Idle, Fresh
<1>8. ASSUME NEW e \in Rows(edition), NEW staff, AskContents(p, e, staff) PROVE ConvKeeps(p)
  BY <1>1, <1>8 DEF AskContents, Idle, Fresh
<1>9. ASSUME NEW e \in Rows(edition), NEW c, NEW s, AskMark(p, e, c, s) PROVE ConvKeeps(p)
  BY <1>1, <1>9 DEF AskMark, Idle, Fresh
<1>10. ASSUME NEW c \in Rows(chapter), AskDeleteChapter(p, c) PROVE ConvKeeps(p)
  BY <1>1, <1>10 DEF AskDeleteChapter, Idle, Fresh
<1>11. ASSUME NEW c \in Rows(chapter), AskStart(p, c) PROVE ConvKeeps(p)
  BY <1>1, <1>11 DEF AskStart, Idle, Fresh
<1>12. ASSUME NEW c \in Rows(chapter), NEW x, AskMove(p, c, x) PROVE ConvKeeps(p)
  BY <1>1, <1>12 DEF AskMove, Idle, Fresh
<1>13. ASSUME NEW c \in Rows(chapter), NEW n, AskCreateSection(p, c, n) PROVE ConvKeeps(p)
  BY <1>1, <1>13 DEF AskCreateSection, Idle, Fresh
<1>14. ASSUME NEW c \in Rows(chapter), NEW list, AskReorderSections(p, c, list) PROVE ConvKeeps(p)
  BY <1>1, <1>14 DEF AskReorderSections, Idle, Fresh
<1>15. ASSUME NEW x \in Rows(part), AskDeletePart(p, x) PROVE ConvKeeps(p)
  BY <1>1, <1>15 DEF AskDeletePart, Idle, Fresh
<1>16. ASSUME NEW s \in Rows(section), AskDeleteSection(p, s) PROVE ConvKeeps(p)
  BY <1>1, <1>16 DEF AskDeleteSection, Idle, Fresh
<1>17. ASSUME NEW s \in Rows(section), NEW n, AskMoveSection(p, s, n) PROVE ConvKeeps(p)
  BY <1>1, <1>17 DEF AskMoveSection, Idle, Fresh
<1> QED
  BY <1>2, <1>3, <1>4, <1>5, <1>6, <1>7, <1>8, <1>9, <1>10, <1>11, <1>12, <1>13, <1>14, <1>15, <1>16, <1>17 DEF Arrive

-----------------------------------------------------------------------------
(* Steps of a conversion *)

\* A start or a run that goes on with its chapter.
Onward(t, u) == u # None => DOMAIN u = Fields /\ u.op \in {"start", "run"} /\ u.id = t.id
\* Patch: the row of the chapter, with another status or other counts.
Patched(c, row) ==
    /\ chapter[c] # None /\ chapter' = [chapter EXCEPT ![c] = row]
    /\ row \in Chapter /\ row.edition = chapter[c].edition /\ row.part = chapter[c].part

\* What a conversion does to the tables and to the others.
LEMMA ConvertContents ==
  ASSUME Contents, NEW p \in Procs, task[p] # None, task[p].op \in {"start", "run"},
         UNCHANGED <<edition, part, section, mark, pdf>>,
         NEW u, Proceed(p, u) \/ Disturb(p, u), Onward(task[p], u),
         \/ UNCHANGED <<chapter, page>>
         \/ UNCHANGED page /\ \E row : Patched(task[p].id, row)
         \/ UNCHANGED chapter /\ page' \subseteq Rows(chapter) \X Page
  PROVE  StepKeeps(p)
<1>1. TablesOK(edition, part, chapter, section, mark, page, pdf)
  BY DEF Contents
<1>2. /\ TablesOK(edition', part', chapter', section', mark', page', pdf')
      /\ Ages(edition, part, chapter, section, edition', part', chapter', section')
  <2>1. CASE UNCHANGED <<chapter, page>>
    BY <1>1, <2>1 DEF Ages
  <2>2. CASE UNCHANGED chapter /\ page' \subseteq Rows(chapter) \X Page
    BY <1>1, <2>2 DEF Ages, TablesOK
  <2>3. CASE UNCHANGED page /\ \E row : Patched(task[p].id, row)
    <3>1. PICK row : Patched(task[p].id, row)
      BY <2>3
    <3> PICK c : c = task[p].id
      OBVIOUS
    <3>2. /\ chapter[c] # None /\ chapter' = [chapter EXCEPT ![c] = row]
          /\ row \in Chapter /\ row.edition = chapter[c].edition /\ row.part = chapter[c].part /\ row # None
      BY <3>1, RowsPatched DEF Patched
    <3> DEFINE S == {chapter'[d] : d \in DOMAIN chapter}
    <3>3. chapter' \in [DOMAIN chapter -> S]
      BY <3>2
    <3>4. ASSUME NEW d \in DOMAIN chapter
          PROVE  IF chapter[d] = None THEN chapter'[d] = None
                 ELSE /\ chapter'[d] \in Chapter /\ chapter'[d] # None /\ chapter'[d].edition = chapter[d].edition
                      /\ chapter'[d].part = None \/ chapter'[d].part = chapter[d].part
                         \/ (chapter'[d].part \in Rows(part) /\ part[chapter'[d].part].edition = chapter[d].edition)
      <4>1. chapter'[d] = IF d = c THEN row ELSE chapter[d]
        BY <3>2
      <4> QED
        BY <3>2, <4>1, RowTypes DEF Rows
    <3> HIDE DEF S
    <3> QED
      BY <2>3, <3>3, <3>4, ChaptersWritten
  <2> QED
    BY <2>1, <2>2, <2>3
<1>3. Others(p, task, task') /\ task'[p] = u
  BY ProceedOthers, DisturbOthers DEF Contents
<1>4. u # None => TaskOK(u, edition', part', chapter', section')
  <2>1. task[p].id \in DOMAIN chapter
    BY DEF Contents, TaskOK, AskedOK
  <2>2. task[p].id \in DOMAIN chapter'
    BY <1>2, <2>1 DEF Ages
  <2>3. ASSUME u # None PROVE DOMAIN u = Fields /\ u.op \in {"start", "run"} /\ u.id \in DOMAIN chapter'
    BY <2>2, <2>3 DEF Onward
  <2> QED
    BY <2>3 DEF TaskOK, AskedOK, ReadOK, Planned
<1> QED
  BY <1>2, <1>3, <1>4 DEF StepKeeps

\* What a step writes down of its own chapter, if anything.
Leaves(p, c) == stranded' = stranded \/ (Holder(task[p]) /\ stranded' \in {stranded \cup {c}, stranded \ {c}})

\* A conversion that keeps its claim leaves its chapter in a state it may be in.
LEMMA ConvertFrames ==
  ASSUME Contents, Converting, NEW p \in Procs, task[p] # None, task[p].op \in {"start", "run"},
         UNCHANGED <<type, claimed>>, NEW c, c = task[p].id, Leaves(p, c),
         NEW u, Proceed(p, u) \/ Disturb(p, u), Onward(task[p], u),
         u # None => Running(u, chapter', page', object', stranded') /\ (Holder(u) => Holder(task[p])),
         page \subseteq page', object \subseteq object', page' \subseteq object',
         \/ UNCHANGED chapter
         \/ \E row : /\ Patched(c, row)
                     /\ Holder(task[p]) \/ (row.status = chapter[c].status /\ row.pageCount = chapter[c].pageCount)
                     /\ type = "PDF" /\ row.status = "READY" => row.pageCount > 0 /\ \A n \in 1 .. row.pageCount : <<c, n>> \in page
  PROVE  ConvKeeps(p)
<1>1. c \in DOMAIN chapter
  BY DEF Contents, TaskOK, AskedOK
<1>2. DOMAIN chapter' = DOMAIN chapter
  BY DEF Patched
<1>3. ASSUME NEW d \in DOMAIN chapter
      PROVE  /\ Spares(d, chapter, page, object, chapter', page', object')
             /\ ~HoldsIt(task[p], d) => SameRow(d, chapter, chapter')
             /\ d # c => chapter'[d] = chapter[d]
             /\ chapter'[d] # None => chapter[d] # None
  <2>1. CASE UNCHANGED chapter
    BY <2>1 DEF Spares, SameRow
  <2>2. CASE ~UNCHANGED chapter
    <3>1. PICK row : /\ chapter[c] # None /\ chapter' = [chapter EXCEPT ![c] = row]
                     /\ Holder(task[p]) \/ (row.status = chapter[c].status /\ row.pageCount = chapter[c].pageCount)
      BY <2>2 DEF Patched
    <3>2. chapter'[d] = IF d = c THEN row ELSE chapter[d]
      BY <3>1
    <3> QED
      BY <3>1, <3>2 DEF Spares, SameRow, HoldsIt
  <2> QED
    BY <2>1, <2>2
<1>4. ASSUME type = "PDF" PROVE Whole(chapter', page')
  <2> SUFFICES ASSUME NEW d \in Rows(chapter'), chapter'[d].status = "READY"
               PROVE  chapter'[d].pageCount > 0 /\ \A n \in 1 .. chapter'[d].pageCount : <<d, n>> \in page'
    BY DEF Whole
  <2>1. d \in Rows(chapter)
    BY <1>2, <1>3 DEF Rows
  <2>2. CASE chapter'[d] = chapter[d]
    BY <1>4, <2>1, <2>2 DEF Converting, Whole
  <2>3. CASE chapter'[d] # chapter[d]
    <3>1. d = c
      BY <1>3, <2>1, <2>3 DEF Rows
    <3>2. PICK row : /\ chapter' = [chapter EXCEPT ![c] = row]
                     /\ type = "PDF" /\ row.status = "READY" => row.pageCount > 0 /\ \A n \in 1 .. row.pageCount : <<c, n>> \in page
      BY <2>3 DEF Patched
    <3>3. chapter'[d] = row
      BY <1>1, <3>1, <3>2
    <3> QED
      BY <1>4, <3>1, <3>2, <3>3
  <2> QED
    BY <2>2, <2>3
<1>5. Orphans(chapter', claimed', stranded')
  <2> SUFFICES ASSUME NEW d \in Rows(chapter'), chapter'[d].status = "PROCESSING", d \notin claimed
               PROVE  d \in stranded'
    BY DEF Orphans
  <2>1. d \in Rows(chapter)
    BY <1>2, <1>3 DEF Rows
  <2>2. ~HoldsIt(task[p], d)
    BY DEF HoldsIt, Converting, Claims
  <2>3. chapter[d].status = "PROCESSING"
    BY <1>3, <2>1, <2>2 DEF SameRow, Rows
  <2>4. d \in stranded
    BY <2>1, <2>3 DEF Converting, Orphans
  <2>5. d # c \/ ~Holder(task[p])
    BY <2>2 DEF HoldsIt
  <2> QED
    BY <2>4, <2>5 DEF Leaves
<1>6. task'[p] = u
  BY DEF Proceed, Disturb, Contents
<1>7. Holder(u) => u.id \in claimed' /\ HoldsIt(task[p], u.id)
  BY DEF Onward, HoldsIt, Holder, Converting, Claims
<1>8. claimed' \subseteq DOMAIN chapter'
  BY <1>2 DEF Converting
<1>9. StaysLeft(p)
  BY DEF Leaves, StaysLeft, HoldsIt
<1> QED
  BY <1>3, <1>4, <1>5, <1>6, <1>7, <1>8, <1>9 DEF ConvKeeps

\* Both, for a step that leaves the rows alone.
LEMMA QuietLeaves ==
  ASSUME Contents, Converting, NEW p \in Procs, task[p] # None, task[p].op \in {"start", "run"},
         UNCHANGED <<contents, page, pdf, type, claimed>>, Leaves(p, task[p].id), object \subseteq object',
         NEW u, Proceed(p, u) \/ Disturb(p, u), Onward(task[p], u),
         u # None => Running(u, chapter, page, object', stranded') /\ (Holder(u) => Holder(task[p]))
  PROVE  StepKeeps(p) /\ ConvKeeps(p)
<1>1. UNCHANGED <<edition, part, chapter, section, mark>>
  BY DEF contents
<1>2. StepKeeps(p)
  BY <1>1, ConvertContents
<1>3. page' \subseteq object'
  BY DEF Converting
<1>4. ConvKeeps(p)
  <2> PICK c : c = task[p].id
    OBVIOUS
  <2> QED
    BY <1>1, <1>3, ConvertFrames
<1> QED
  BY <1>2, <1>4

\* And for one that writes the row of the chapter.
LEMMA PatchLeaves ==
  ASSUME Contents, Converting, NEW p \in Procs, task[p] # None, task[p].op \in {"start", "run"},
         UNCHANGED <<edition, part, section, mark, page, object, pdf, type, claimed>>, Leaves(p, task[p].id),
         NEW u, Proceed(p, u) \/ Disturb(p, u), Onward(task[p], u),
         u # None => Running(u, chapter', page, object, stranded') /\ (Holder(u) => Holder(task[p])),
         NEW row, Patched(task[p].id, row),
         Holder(task[p]) \/ (row.status = chapter[task[p].id].status /\ row.pageCount = chapter[task[p].id].pageCount),
         type = "PDF" /\ row.status = "READY" => row.pageCount > 0 /\ \A n \in 1 .. row.pageCount : <<task[p].id, n>> \in page
  PROVE  StepKeeps(p) /\ ConvKeeps(p)
<1>1. StepKeeps(p)
  BY ConvertContents
<1>2. page' \subseteq object'
  BY DEF Converting
<1>3. ConvKeeps(p)
  <2> PICK c : c = task[p].id
    OBVIOUS
  <2>1. \E r : /\ Patched(c, r)
               /\ Holder(task[p]) \/ (r.status = chapter[c].status /\ r.pageCount = chapter[c].pageCount)
               /\ type = "PDF" /\ r.status = "READY" => r.pageCount > 0 /\ \A n \in 1 .. r.pageCount : <<c, n>> \in page
    OBVIOUS
  <2> QED
    BY <1>2, <2>1, ConvertFrames
<1> QED
  BY <1>1, <1>3

\* Both again, for a step that writes nothing down.
LEMMA QuietStep ==
  ASSUME Contents, Converting, NEW p \in Procs, task[p] # None, task[p].op \in {"start", "run"},
         UNCHANGED <<contents, page, pdf, type, stranded, claimed>>, object \subseteq object',
         NEW u, Proceed(p, u) \/ Disturb(p, u), Onward(task[p], u),
         u # None => Running(u, chapter, page, object', stranded) /\ (Holder(u) => Holder(task[p]))
  PROVE  StepKeeps(p) /\ ConvKeeps(p)
<1>1. Leaves(p, task[p].id) /\ stranded' = stranded
  BY DEF Leaves
<1> QED
  BY <1>1, QuietLeaves

LEMMA PatchStep ==
  ASSUME Contents, Converting, NEW p \in Procs, task[p] # None, task[p].op \in {"start", "run"},
         UNCHANGED <<edition, part, section, mark, page, object, pdf, type, stranded, claimed>>,
         NEW u, Proceed(p, u) \/ Disturb(p, u), Onward(task[p], u),
         u # None => Running(u, chapter', page, object, stranded) /\ (Holder(u) => Holder(task[p])),
         NEW row, Patched(task[p].id, row),
         Holder(task[p]) \/ (row.status = chapter[task[p].id].status /\ row.pageCount = chapter[task[p].id].pageCount),
         type = "PDF" /\ row.status = "READY" => row.pageCount > 0 /\ \A n \in 1 .. row.pageCount : <<task[p].id, n>> \in page
  PROVE  StepKeeps(p) /\ ConvKeeps(p)
<1>1. Leaves(p, task[p].id) /\ stranded' = stranded
  BY DEF Leaves
<1> QED
  BY <1>1, PatchLeaves

\* What is known of a conversion before its step.
LEMMA RunKnown ==
  ASSUME Contents, Converting, NEW p \in Procs, task[p] # None, task[p].op \in {"start", "run"}
  PROVE  /\ DOMAIN task[p] = Fields /\ task[p].id \in DOMAIN chapter
         /\ Running(task[p], chapter, page, object, stranded)
         /\ chapter[task[p].id] # None => chapter[task[p].id] \in Chapter
BY RowTypes DEF Contents, Converting, TaskOK, AskedOK, Rows

\* A run that fails in a query or a call goes to its handler.
LEMMA FailKeeps ==
  ASSUME Contents, Converting, NEW p \in Procs, task[p] # None, task[p].op = "run", task[p].at # "left",
         Fail(p), UNCHANGED <<edition, part, section, mark, claimed, stranded, type>>
  PROVE  StepKeeps(p) /\ ConvKeeps(p)
<1>1. UNCHANGED <<contents, page, pdf, type, stranded, claimed, object>>
  BY DEF Fail, contents, pages
<1> PICK t : t = task[p]
  OBVIOUS
<1>2. DOMAIN t = Fields /\ Running(t, chapter, page, object, stranded)
  BY RunKnown
<1> PICK u : u = [t EXCEPT !.at = "failed"]
  OBVIOUS
<1>3. Proceed(p, u)
  BY DEF Fail, Goto
<1>4. /\ DOMAIN u = Fields /\ u.op = "run" /\ u.id = t.id /\ u.at = "failed" /\ u.hands = t.hands /\ u.todo = t.todo
      /\ u.done = t.done
  BY <1>2, Moved
<1>5. Running(u, chapter, page, object, stranded)
  BY <1>2, <1>4 DEF Running, Shaped, Stands, Progress, WorkersTrue, Holder
<1>6. Holder(t)
  BY DEF Holder
<1> QED
  BY <1>1, <1>3, <1>4, <1>5, <1>6, QuietStep DEF Onward

\* The row is loaded.
LEMMA LoadKeeps ==
  ASSUME Contents, Converting, NEW p \in Procs, Load(p)
  PROVE  StepKeeps(p) /\ ConvKeeps(p)
<1>1. /\ task[p] # None /\ task[p].op = "run" /\ task[p].at = "load"
      /\ UNCHANGED <<contents, page, pdf, type, stranded, claimed, object>>
  BY DEF Load, At, Reads, pages, rest
<1> PICK t : t = task[p]
  OBVIOUS
<1>2. DOMAIN t = Fields /\ Running(t, chapter, page, object, stranded)
  BY <1>1, RunKnown
<1> PICK at : at = IF chapter[t.id] = None THEN "over" ELSE "mark"
  OBVIOUS
<1> PICK u : u = [t EXCEPT !.at = at]
  OBVIOUS
<1>f. CASE Fail(p)
  BY <1>1, <1>f, FailKeeps DEF contents
<1>g. CASE Goto(p, at)
  <2>1. Proceed(p, u)
    BY <1>g DEF Goto
  <2>2. DOMAIN u = Fields /\ u.op = "run" /\ u.id = t.id /\ u.at = at /\ u.hands = t.hands /\ u.todo = t.todo /\ u.done = t.done
    BY <1>1, <1>2, Moved
  <2>3. Running(u, chapter, page, object, stranded)
    BY <1>1, <1>2, <2>2 DEF Running, Shaped, Stands, Progress, WorkersTrue, Holder
  <2>4. Holder(t)
    BY <1>1 DEF Holder
  <2> QED
    BY <1>1, <2>1, <2>2, <2>3, <2>4, QuietStep DEF Onward
<1> QED
  BY <1>f, <1>g DEF Load

\* The chapter is PROCESSING.
LEMMA MarkProcessingKeeps ==
  ASSUME Contents, Converting, NEW p \in Procs, MarkProcessing(p)
  PROVE  StepKeeps(p) /\ ConvKeeps(p)
<1>1. /\ task[p] # None /\ task[p].op = "run" /\ task[p].at = "mark"
      /\ UNCHANGED <<edition, part, section, mark, claimed, type>>
  BY DEF MarkProcessing, At
<1> PICK t : t = task[p]
  OBVIOUS
<1> PICK c : c = t.id
  OBVIOUS
<1>2. DOMAIN t = Fields /\ c \in DOMAIN chapter /\ Running(t, chapter, page, object, stranded)
      /\ (chapter[c] # None => chapter[c] \in Chapter)
  BY <1>1, RunKnown
<1>3. CASE Fail(p) /\ UNCHANGED stranded
  BY <1>1, <1>3, FailKeeps
<1>4. CASE ~(Fail(p) /\ UNCHANGED stranded)
  <2>c. chapter[c] # None
    BY <1>4 DEF MarkProcessing
  <2> PICK row : row = [chapter[c] EXCEPT !.status = "PROCESSING"]
    OBVIOUS
  <2> PICK u : u = [t EXCEPT !.at = "fetch"]
    OBVIOUS
  <2>1. /\ chapter' = [chapter EXCEPT ![c] = row] /\ Disturb(p, u)
        /\ UNCHANGED <<edition, part, section, mark, page, object, pdf, type, claimed>>
        /\ stranded' = stranded \ {c}
    BY <1>1, <1>4 DEF MarkProcessing, Patch, pages
  <2>2. row \in Chapter /\ row.edition = chapter[c].edition /\ row.part = chapter[c].part /\ row.status = "PROCESSING"
    BY <1>2, <2>c DEF Chapter
  <2>3. /\ DOMAIN u = Fields /\ u.op = "run" /\ u.id = t.id /\ u.at = "fetch" /\ u.hands = t.hands /\ u.todo = t.todo
        /\ u.done = t.done
    BY <1>1, <1>2, Moved
  <2>4. chapter'[c] = row
    BY <1>2, <2>1
  <2>h. Shaped(u) /\ u.hands = <<>>
    BY <1>1, <1>2, <2>3 DEF Running, Shaped
  <2>s. Stands(u, chapter'[c], stranded')
    BY <2>2, <2>3, <2>4 DEF Stands
  <2>5. Running(u, chapter', page, object, stranded')
    BY <2>3, <2>h, <2>s DEF Running, Progress, WorkersTrue
  <2>6. Holder(t)
    BY <1>1 DEF Holder
  <2>7. Patched(t.id, row)
    BY <2>c, <2>1, <2>2 DEF Patched
  <2>8. Leaves(p, t.id)
    BY <2>1, <2>6 DEF Leaves
  <2> QED
    BY <1>1, <2>1, <2>2, <2>3, <2>5, <2>6, <2>7, <2>8, PatchLeaves DEF Onward
<1> QED
  BY <1>3, <1>4

\* A PDF that is there has pages, MaxPages at most.
LEMMA PdfCounts ==
  ASSUME Contents, NEW c \in DOMAIN chapter
  PROVE  pdf[c] \in 0 .. MaxPages /\ (pdf[c] > 0 => pdf[c] \in Page)
<1>n. PICK N : N = 0 .. MaxPages
  OBVIOUS
<1>1. pdf \in Seq(N) /\ Len(pdf) = Len(chapter)
  BY <1>n DEF Contents, TablesOK
<1>2. c \in 1 .. Len(pdf)
  BY <1>1, Ids
<1>3. pdf[c] \in N
  BY <1>1, <1>2
<1>4. pdf[c] \in 0 .. MaxPages
  BY <1>n, <1>3
<1> QED
  BY <1>4, PagesAreCounted DEF Page

\* The PDF is fetched and its pages counted.
LEMMA FetchKeeps ==
  ASSUME Contents, Converting, NEW p \in Procs, Fetch(p)
  PROVE  StepKeeps(p) /\ ConvKeeps(p)
<1>1. task[p] # None /\ task[p].op = "run" /\ task[p].at = "fetch" /\ UNCHANGED claimed /\ Keeps
  BY DEF Fetch, At
<1> PICK t : t = task[p]
  OBVIOUS
<1> PICK c : c = t.id
  OBVIOUS
<1>2. DOMAIN t = Fields /\ c \in DOMAIN chapter /\ Running(t, chapter, page, object, stranded)
  BY <1>1, RunKnown
<1>3. CASE Fail(p)
  BY <1>1, <1>3, FailKeeps DEF Keeps, rest
<1>4. CASE ~Fail(p)
  <2>n. PICK n : n = pdf[c]
    OBVIOUS
  <2> PICK u : u = [t EXCEPT !.at = "done", !.seen = n]
    OBVIOUS
  <2>1. Proceed(p, u) /\ UNCHANGED <<contents, page, object, pdf, type, stranded, claimed>> /\ n > 0
    BY <1>1, <1>4, <2>n DEF Fetch, Keeps, pages, rest, contents
  <2>2. n \in Page
    BY <1>2, <2>n, <2>1, PdfCounts
  <2>3. /\ DOMAIN u = Fields /\ u.op = "run" /\ u.id = t.id /\ u.at = "done" /\ u.seen = n /\ u.hands = t.hands /\ u.todo = t.todo
        /\ u.done = t.done
    BY <1>1, <1>2 DEF Fields
  <2>4. Running(u, chapter, page, object, stranded)
    BY <1>1, <1>2, <2>2, <2>3 DEF Running, Shaped, Stands, Progress, WorkersTrue, Holder
  <2>5. Holder(t)
    BY <1>1 DEF Holder
  <2> QED
    BY <1>1, <2>1, <2>3, <2>4, <2>5, QuietStep DEF Onward
<1> QED
  BY <1>3, <1>4

\* The pages of an earlier run are read.
LEMMA ReadDoneKeeps ==
  ASSUME Contents, Converting, NEW p \in Procs, ReadDone(p)
  PROVE  StepKeeps(p) /\ ConvKeeps(p)
<1>1. /\ task[p] # None /\ task[p].op = "run" /\ task[p].at = "done"
      /\ UNCHANGED <<contents, page, pdf, type, stranded, claimed, object>>
  BY DEF ReadDone, At, Reads, pages, rest
<1> PICK t : t = task[p]
  OBVIOUS
<1>2. DOMAIN t = Fields /\ Running(t, chapter, page, object, stranded)
  BY <1>1, RunKnown
<1> PICK done : done = Pages(t.id)
  OBVIOUS
<1> PICK u : u = [t EXCEPT !.at = "count", !.done = done]
  OBVIOUS
<1>f. CASE Fail(p)
  BY <1>1, <1>f, FailKeeps DEF contents
<1>g. CASE Proceed(p, u)
  <2>1. /\ DOMAIN u = Fields /\ u.op = "run" /\ u.id = t.id /\ u.at = "count" /\ u.hands = t.hands /\ u.todo = t.todo
        /\ u.done = done /\ u.seen = t.seen
    BY <1>1, <1>2 DEF Fields
  <2>2. done \subseteq Page /\ \A n \in done : <<t.id, n>> \in page
    BY DEF Pages, Page
  <2>3. Running(u, chapter, page, object, stranded)
    BY <1>1, <1>2, <2>1, <2>2 DEF Running, Shaped, Stands, Progress, WorkersTrue, Holder
  <2>4. Holder(t)
    BY <1>1 DEF Holder
  <2> QED
    BY <1>1, <1>g, <2>1, <2>3, <2>4, QuietStep DEF Onward
<1> QED
  BY <1>f, <1>g DEF ReadDone

\* The ways a conversion writes the row of its chapter.
LEMMA RowPatches ==
  ASSUME NEW r \in Chapter, NEW x,
         \/ \E s \in {"DRAFT", "PROCESSING", "READY", "FAILED"} : x = [r EXCEPT !.status = s]
         \/ \E n, k \in Nat : x = [r EXCEPT !.pageCount = n, !.processed = k]
         \/ x = [r EXCEPT !.processed = @ + 1]
  PROVE  x \in Chapter /\ x.edition = r.edition /\ x.part = r.part
<1>1. CASE \E s \in {"DRAFT", "PROCESSING", "READY", "FAILED"} : x = [r EXCEPT !.status = s]
  BY <1>1 DEF Chapter
<1>2. CASE \E n, k \in Nat : x = [r EXCEPT !.pageCount = n, !.processed = k]
  BY <1>2 DEF Chapter
<1>3. CASE x = [r EXCEPT !.processed = @ + 1]
  BY <1>3 DEF Chapter
<1> QED
  BY <1>1, <1>2, <1>3

\* The pages are counted in the row, and the workers start on those to do.
LEMMA CountKeeps ==
  ASSUME Contents, Converting, NEW p \in Procs, Count(p)
  PROVE  StepKeeps(p) /\ ConvKeeps(p)
<1>1. task[p] # None /\ task[p].op = "run" /\ task[p].at = "count" /\ UNCHANGED claimed /\ Keeps
  BY DEF Count, At
<1> PICK t : t = task[p]
  OBVIOUS
<1> PICK c : c = t.id
  OBVIOUS
<1>2. DOMAIN t = Fields /\ c \in DOMAIN chapter /\ Running(t, chapter, page, object, stranded)
      /\ (chapter[c] # None => chapter[c] \in Chapter)
  BY <1>1, RunKnown
<1>3. CASE Fail(p)
  BY <1>1, <1>3, FailKeeps DEF Keeps, rest
<1>4. CASE ~Fail(p)
  <2>0. chapter[c] # None
    BY <1>4 DEF Count
  <2>1. /\ t.seen \in Page /\ t.done \subseteq Page /\ chapter[c].status = "PROCESSING"
        /\ \A n \in t.done : <<c, n>> \in page
    BY <1>1, <1>2, <2>0 DEF Running, Shaped, Stands, Progress
  <2>a. t.seen \in Nat /\ Page \subseteq Nat /\ 1 .. t.seen \subseteq Page /\ IsFiniteSet(Page)
    <3>1. IsFiniteSet(1 .. MaxPages)
      BY PagesAreCounted, FS_Interval
    <3>2. t.seen \in 1 .. MaxPages
      BY <2>1 DEF Page
    <3>3. t.seen \in Nat /\ 1 .. MaxPages \subseteq Nat /\ 1 .. t.seen \subseteq 1 .. MaxPages
      BY <3>2, PagesAreCounted
    <3> QED
      BY <3>1, <3>3 DEF Page
  <2>p. PICK pending : pending = (1 .. t.seen) \ t.done
    OBVIOUS
  <2>2. pending \subseteq Page /\ pending \subseteq Nat /\ IsFiniteSet(pending)
    BY <2>a, <2>p, FS_Subset
  <2>3. Cardinality(t.done) \in Nat
    BY <2>1, <2>a, FS_Subset, FS_CardinalityType
  <2>r. PICK row : row = [chapter[c] EXCEPT !.pageCount = t.seen, !.processed = Cardinality(t.done)]
    OBVIOUS
  <2>q. PICK todo : todo = {n \in pending : Cardinality({k \in pending : k <= n}) > Cardinality(Hands)}
    OBVIOUS
  <2>f. PICK hands : hands = FirstPages(pending)
    OBVIOUS
  <2> PICK u : u = [t EXCEPT !.at = "work", !.hands = hands, !.todo = todo]
    OBVIOUS
  <2>4. /\ chapter' = [chapter EXCEPT ![c] = row] /\ Proceed(p, u)
        /\ UNCHANGED <<edition, part, section, mark, page, object, pdf, type, stranded, claimed>>
    BY <1>1, <1>4, <2>p, <2>r, <2>q, <2>f DEF Count, Patch, Keeps, pages, rest
  <2>5. /\ row \in Chapter /\ row.edition = chapter[c].edition /\ row.part = chapter[c].part
        /\ row.status = "PROCESSING" /\ row.pageCount = t.seen
    <3>1. chapter[c] \in Chapter
      BY <1>2, <2>0
    <3> QED
      <4>1. row \in Chapter /\ row.edition = chapter[c].edition /\ row.part = chapter[c].part
        BY <2>a, <2>3, <2>r, <3>1, RowPatches
      <4> QED
        BY <2>1, <2>r, <3>1, <4>1 DEF Chapter
  <2>6. /\ DOMAIN u = Fields /\ u.op = "run" /\ u.id = c /\ u.at = "work" /\ u.hands = hands /\ u.todo = todo
        /\ u.done = t.done /\ u.seen = t.seen
    BY <1>1, <1>2 DEF Fields
  <2>7. DOMAIN hands = Hands
    BY <2>f DEF FirstPages
  <2>8. ASSUME NEW h \in Hands, hands[h] # None
        PROVE  hands[h] \in Piece /\ hands[h].at = "render"
    <3>1. PICK n \in pending : hands[h] = [at |-> "render", page |-> n]
      BY <2>2, <2>8, <2>f, FirstPagesCover
    <3> QED
      BY <2>2, <3>1 DEF Piece
  <2>9. ASSUME NEW n \in 1 .. t.seen PROVE <<c, n>> \in page \/ n \in todo \/ InHand(u, n)
    <3>1. CASE n \in t.done
      BY <2>1, <3>1
    <3>2. CASE n \notin t.done
      <4>1. n \in pending
        BY <2>p, <3>2
      <4>2. n \in todo \/ \E h \in Hands : hands[h] = [at |-> "render", page |-> n]
        BY <2>2, <2>f, <2>q, <4>1, FirstPagesCover
      <4>3. n \in todo \/ \E h \in Hands : hands[h] # None /\ hands[h].page = n
        BY <2>2, <4>1, <4>2, NoneIsNothing DEF Page
      <4> QED
        BY <2>6, <4>3 DEF InHand
    <3> QED
      BY <3>1, <3>2
  <2>10. chapter'[c] = row
    BY <1>2, <2>4
  <2>11. todo \subseteq Page
    BY <2>2, <2>q
  <2>12. Shaped(u)
    BY <2>1, <2>6, <2>7, <2>8, <2>11 DEF Shaped
  <2>13. Stands(u, row, stranded)
    BY <2>5, <2>6 DEF Stands
  <2>14. Progress(u, row, page)
    BY <2>5, <2>6, <2>9 DEF Progress
  <2>15. WorkersTrue(u, page, object)
    BY <2>6, <2>8 DEF WorkersTrue
  <2>16. Running(u, chapter', page, object, stranded)
    BY <2>6, <2>10, <2>12, <2>13, <2>14, <2>15 DEF Running
  <2>17. Holder(t)
    BY <1>1 DEF Holder
  <2>18. Patched(c, row)
    BY <2>0, <2>4, <2>5 DEF Patched
  <2> QED
    BY <1>1, <2>4, <2>5, <2>6, <2>16, <2>17, <2>18, PatchStep DEF Onward
<1> QED
  BY <1>3, <1>4

\* What is known of a worker before its step.
LEMMA HandKnown ==
  ASSUME Contents, Converting, NEW p \in Procs, NEW h \in Hands, NEW at, HandAt(p, h, at)
  PROVE  /\ task[p] # None /\ task[p].op = "run" /\ task[p].at \in {"work", "failed", "over", "left"}
         /\ DOMAIN task[p] = Fields /\ task[p].id \in DOMAIN chapter
         /\ task[p].hands # <<>> /\ DOMAIN task[p].hands = Hands
         /\ task[p].hands[h] # None /\ task[p].hands[h] \in Piece /\ task[p].hands[h].at = at /\ task[p].hands[h].page \in Page
         /\ Running(task[p], chapter, page, object, stranded)
         /\ chapter[task[p].id] # None => chapter[task[p].id] \in Chapter
<1>1. task[p] # None /\ task[p].op = "run" /\ task[p].at \in {"work", "failed", "over", "left"}
  BY DEF HandAt, Working
<1>2. task[p].hands # <<>> /\ task[p].hands[h] # None /\ task[p].hands[h].at = at
  BY DEF HandAt
<1>3. /\ DOMAIN task[p] = Fields /\ task[p].id \in DOMAIN chapter
      /\ Running(task[p], chapter, page, object, stranded)
      /\ chapter[task[p].id] # None => chapter[task[p].id] \in Chapter
  BY <1>1, RunKnown
<1>4. DOMAIN task[p].hands = Hands /\ task[p].hands[h] \in Piece
  BY <1>1, <1>2, <1>3 DEF Running, Shaped
<1> QED
  BY <1>1, <1>2, <1>3, <1>4 DEF Piece

\* Worker h of run t goes on to piece s, or stops, and the run is then u.
Takes(t, u, h, s) ==
    /\ DOMAIN t = Fields /\ t.op = "run" /\ t.at \in {"work", "failed", "over", "left"}
    /\ t.hands # <<>> /\ DOMAIN t.hands = Hands
    /\ DOMAIN u = Fields /\ u.op = "run" /\ u.id = t.id /\ u.done = t.done /\ u.seen = t.seen
    /\ u.hands = [t.hands EXCEPT ![h] = s]
    /\ s = None \/ s \in Piece
    /\ u.todo \subseteq t.todo
    /\ u.at = t.at \/ (t.at = "work" /\ u.at = "failed")
\* What the worker had and what it took from the queue is in its hands or in the table.
NothingLost(t, u, h, s, pg) ==
    u.at = "work" => /\ \A n \in t.todo : n \in u.todo \/ (s # None /\ s.page = n)
                     /\ t.hands[h] # None => <<t.id, t.hands[h].page>> \in pg \/ (s # None /\ s.page = t.hands[h].page)
PieceTrue(t, s, pg, ob) ==
    s # None => /\ s.at = "row" => <<t.id, s.page>> \in ob
                /\ s.at = "count" => <<t.id, s.page>> \in pg
SameRun(t, ch, ch1) == SameRow(t.id, ch, ch1) /\ (ch1[t.id] # None => ch[t.id] # None)

\* A run whose worker takes its next step is still a run.
LEMMA HandMoves ==
  ASSUME NEW t, NEW ch, NEW pg, NEW ob, NEW left, Running(t, ch, pg, ob, left),
         NEW u, NEW h \in Hands, NEW s, Takes(t, u, h, s),
         NEW pg1, pg \subseteq pg1, NEW ob1, ob \subseteq ob1, NEW ch1, SameRun(t, ch, ch1),
         PieceTrue(t, s, pg1, ob1), NothingLost(t, u, h, s, pg1)
  PROVE  Running(u, ch1, pg1, ob1, left)
<1> PICK hands : hands = t.hands
  OBVIOUS
<1> PICK hands1 : hands1 = u.hands
  OBVIOUS
<1>1. DOMAIN hands1 = Hands /\ hands1[h] = s /\ \A k \in Hands \ {h} : hands1[k] = hands[k]
  BY DEF Takes
<1>2. \A k \in Hands : hands[k] # None => hands[k] \in Piece
  BY DEF Running, Shaped, Takes
<1>3. Shaped(u)
  BY <1>1, <1>2 DEF Running, Shaped, Takes
<1>4. ASSUME ch1[t.id] # None
      PROVE  Stands(u, ch1[t.id], left) /\ Progress(u, ch1[t.id], pg1) /\ WorkersTrue(u, pg1, ob1)
  <2>1. Stands(t, ch[t.id], left) /\ Progress(t, ch[t.id], pg) /\ WorkersTrue(t, pg, ob)
    BY <1>4 DEF Running, SameRun, Takes
  <2>2. Stands(u, ch1[t.id], left)
    BY <1>4, <2>1 DEF Stands, Holder, SameRun, SameRow, Takes
  <2>3. WorkersTrue(u, pg1, ob1)
    BY <1>1, <2>1 DEF WorkersTrue, PieceTrue, Takes
  <2>4. Progress(u, ch1[t.id], pg1)
    <3>1. CASE u.at # "work"
      BY <3>1 DEF Progress, Takes
    <3>2. CASE u.at = "work"
      <4>1. t.at = "work" /\ ch1[t.id].pageCount = t.seen
        BY <1>4, <2>1, <3>2 DEF Progress, SameRun, SameRow, Takes
      <4>2. ASSUME NEW n \in 1 .. t.seen PROVE <<t.id, n>> \in pg1 \/ n \in u.todo \/ InHand(u, n)
        <5>1. <<t.id, n>> \in pg \/ n \in t.todo \/ InHand(t, n)
          BY <2>1, <4>1, <4>2 DEF Progress, Takes
        <5>2. CASE InHand(t, n)
          <6>1. PICK k \in Hands : hands[k] # None /\ hands[k].page = n
            BY <5>2 DEF InHand
          <6>2. CASE k = h
            BY <1>1, <3>2, <6>1, <6>2 DEF InHand, NothingLost
          <6>3. CASE k # h
            BY <1>1, <6>1, <6>3 DEF InHand
          <6> QED
            BY <6>2, <6>3
        <5>3. CASE n \in t.todo
          BY <1>1, <3>2, <5>3 DEF InHand, NothingLost
        <5> QED
          BY <5>1, <5>2, <5>3
      <4> QED
        BY <4>1, <4>2 DEF Progress, Takes
    <3> QED
      BY <3>1, <3>2
  <2> QED
    BY <2>2, <2>3, <2>4
<1> QED
  BY <1>3, <1>4 DEF Running, Takes

\* A task whose worker goes on to another piece.
LEMMA Handed ==
  ASSUME NEW t, DOMAIN t = Fields, NEW h, NEW s, NEW u, u = [t EXCEPT !.hands[h] = s]
  PROVE  /\ DOMAIN u = Fields
         /\ u.op = t.op /\ u.at = t.at /\ u.id = t.id /\ u.todo = t.todo /\ u.done = t.done /\ u.seen = t.seen
         /\ u.hands = [t.hands EXCEPT ![h] = s]
BY DEF Fields

\* A piece is not None, whatever is done with its page.
LEMMA Pieces ==
  ASSUME NEW n \in Page, NEW at \in {"render", "upload", "row", "count"}, NEW s, s = [page |-> n, at |-> at]
  PROVE  s \in Piece /\ s # None /\ s.page = n /\ s.at = at
<1>1. s \in Piece /\ s.page = n /\ s.at = at
  BY DEF Piece
<1>2. [at |-> at, page |-> n] # None
  BY NoneIsNothing DEF Page
<1> QED
  BY <1>1, <1>2

\* A worker that throws fails its run, unless it has failed already.
LEMMA ThrowKeeps ==
  ASSUME Contents, Converting, NEW p \in Procs, NEW h \in Hands, NEW at, HandAt(p, h, at), Throw(p, h),
         UNCHANGED <<contents, page, pdf, type, stranded, claimed, object>>
  PROVE  StepKeeps(p) /\ ConvKeeps(p)
<1> PICK t : t = task[p]
  OBVIOUS
<1>1. /\ t # None /\ t.op = "run" /\ t.at \in {"work", "failed", "over", "left"} /\ DOMAIN t = Fields
      /\ t.hands # <<>> /\ DOMAIN t.hands = Hands /\ Running(t, chapter, page, object, stranded)
  BY HandKnown
<1> PICK v : v = [t EXCEPT !.hands[h] = None]
  OBVIOUS
<1>2. /\ DOMAIN v = Fields
      /\ v.op = t.op /\ v.at = t.at /\ v.id = t.id /\ v.todo = t.todo /\ v.done = t.done /\ v.seen = t.seen
      /\ v.hands = [t.hands EXCEPT ![h] = None]
  BY <1>1, Handed
<1> PICK to : to = IF v.at = "work" THEN "failed" ELSE v.at
  OBVIOUS
<1> PICK u : u = [v EXCEPT !.at = to]
  OBVIOUS
<1>3. Proceed(p, u)
  BY DEF Throw, Hand
<1>4. /\ DOMAIN u = Fields /\ u.op = "run" /\ u.id = t.id /\ u.at = to /\ u.todo = t.todo /\ u.done = t.done /\ u.seen = t.seen
      /\ u.hands = [t.hands EXCEPT ![h] = None]
  BY <1>1, <1>2, Moved
<1>5. (to = t.at \/ (t.at = "work" /\ to = "failed")) /\ to # "work"
  BY <1>1, <1>2
<1>6. Running(u, chapter, page, object, stranded)
  <2> PICK s : s = None
    OBVIOUS
  <2>1. Takes(t, u, h, s) /\ NothingLost(t, u, h, s, page)
    BY <1>1, <1>4, <1>5 DEF Takes, NothingLost
  <2>2. PieceTrue(t, s, page, object) /\ SameRun(t, chapter, chapter)
    BY DEF PieceTrue, SameRun, SameRow
  <2> QED
    BY <1>1, <2>1, <2>2, HandMoves
<1>7. Holder(u) => Holder(t)
  BY <1>1, <1>2, <1>4 DEF Holder
<1> QED
  BY <1>1, <1>3, <1>4, <1>6, <1>7, QuietStep DEF Onward

\* A page is rendered.
LEMMA RenderKeeps ==
  ASSUME Contents, Converting, NEW p \in Procs, NEW h \in Hands, Render(p, h)
  PROVE  StepKeeps(p) /\ ConvKeeps(p)
<1>1. UNCHANGED <<contents, page, pdf, type, stranded, claimed, object>> /\ HandAt(p, h, "render")
  BY DEF Render, Reads, pages, rest
<1> PICK t : t = task[p]
  OBVIOUS
<1>2. /\ t # None /\ t.op = "run" /\ t.at \in {"work", "failed", "over", "left"} /\ DOMAIN t = Fields
      /\ t.hands # <<>> /\ DOMAIN t.hands = Hands /\ Running(t, chapter, page, object, stranded)
      /\ t.hands[h] \in Piece
  BY <1>1, HandKnown
<1>3. CASE Throw(p, h)
  BY <1>1, <1>3, ThrowKeeps
<1>4. CASE Proceed(p, Hand(p, h, [t.hands[h] EXCEPT !.at = "upload"]))
  <2> PICK s : s = [t.hands[h] EXCEPT !.at = "upload"]
    OBVIOUS
  <2>1. s \in Piece /\ s.page = t.hands[h].page /\ s.at = "upload"
    BY <1>2 DEF Piece
  <2>2. s # None
    <3>1. s.page \in Page /\ s = [page |-> s.page, at |-> "upload"]
      BY <2>1 DEF Piece
    <3> QED
      BY <3>1, Pieces
  <2> PICK u : u = [t EXCEPT !.hands[h] = s]
    OBVIOUS
  <2>3. /\ DOMAIN u = Fields
        /\ u.op = t.op /\ u.at = t.at /\ u.id = t.id /\ u.todo = t.todo /\ u.done = t.done /\ u.seen = t.seen
        /\ u.hands = [t.hands EXCEPT ![h] = s]
    BY <1>2, Handed
  <2>4. Proceed(p, u)
    BY <1>4 DEF Hand
  <2>5. Running(u, chapter, page, object, stranded)
    <3>1. Takes(t, u, h, s)
      BY <1>2, <2>1, <2>2, <2>3 DEF Takes
    <3>2. NothingLost(t, u, h, s, page)
      BY <2>1, <2>2, <2>3 DEF NothingLost
    <3>3. PieceTrue(t, s, page, object) /\ SameRun(t, chapter, chapter)
      BY <2>1 DEF PieceTrue, SameRun, SameRow
    <3> QED
      BY <1>2, <3>1, <3>2, <3>3, HandMoves
  <2>6. Holder(u) => Holder(t)
    BY <1>2, <2>3 DEF Holder
  <2> QED
    BY <1>1, <1>2, <2>3, <2>4, <2>5, <2>6, QuietStep DEF Onward
<1> QED
  BY <1>3, <1>4 DEF Render

\* Its bytes are stored.
LEMMA UploadKeeps ==
  ASSUME Contents, Converting, NEW p \in Procs, NEW h \in Hands, Upload(p, h)
  PROVE  StepKeeps(p) /\ ConvKeeps(p)
<1>1. UNCHANGED <<contents, page, pdf, type, stranded, claimed>> /\ HandAt(p, h, "upload")
  BY DEF Upload, rest
<1> PICK t : t = task[p]
  OBVIOUS
<1>2. /\ t # None /\ t.op = "run" /\ t.at \in {"work", "failed", "over", "left"} /\ DOMAIN t = Fields
      /\ t.hands # <<>> /\ DOMAIN t.hands = Hands /\ Running(t, chapter, page, object, stranded)
      /\ t.hands[h] \in Piece /\ t.hands[h].page \in Page
  BY <1>1, HandKnown
<1>3. CASE Throw(p, h) /\ UNCHANGED object
  BY <1>1, <1>3, ThrowKeeps
<1> PICK n : n = t.hands[h].page
  OBVIOUS
<1> PICK c : c = t.id
  OBVIOUS
<1>4. CASE object' = object \cup {<<c, n>>} /\ Proceed(p, Hand(p, h, [page |-> n, at |-> "row"]))
  <2> PICK s : s = [page |-> n, at |-> "row"]
    OBVIOUS
  <2>1. s \in Piece /\ s # None /\ s.page = n /\ s.at = "row"
    BY <1>2, Pieces
  <2> PICK u : u = [t EXCEPT !.hands[h] = s]
    OBVIOUS
  <2>3. /\ DOMAIN u = Fields
        /\ u.op = t.op /\ u.at = t.at /\ u.id = t.id /\ u.todo = t.todo /\ u.done = t.done /\ u.seen = t.seen
        /\ u.hands = [t.hands EXCEPT ![h] = s]
    BY <1>2, Handed
  <2>4. Proceed(p, u)
    BY <1>4 DEF Hand
  <2>o. object \subseteq object' /\ <<c, n>> \in object'
    BY <1>4
  <2>5. Running(u, chapter, page, object', stranded)
    <3>1. Takes(t, u, h, s)
      BY <1>2, <2>1, <2>3 DEF Takes
    <3>2. NothingLost(t, u, h, s, page)
      BY <2>1, <2>3 DEF NothingLost
    <3>3. PieceTrue(t, s, page, object') /\ SameRun(t, chapter, chapter)
      BY <2>1, <2>o DEF PieceTrue, SameRun, SameRow
    <3> QED
      BY <1>2, <2>o, <3>1, <3>2, <3>3, HandMoves
  <2>6. Holder(u) => Holder(t)
    BY <1>2, <2>3 DEF Holder
  <2> QED
    BY <1>1, <1>2, <2>3, <2>4, <2>5, <2>6, <2>o, QuietStep DEF Onward
<1> QED
  BY <1>3, <1>4 DEF Upload

\* Its row follows.
LEMMA InsertPageKeeps ==
  ASSUME Contents, Converting, NEW p \in Procs, NEW h \in Hands, InsertPage(p, h)
  PROVE  StepKeeps(p) /\ ConvKeeps(p)
<1>1. UNCHANGED <<contents, object, pdf, type, stranded, claimed>> /\ HandAt(p, h, "row")
  BY DEF InsertPage, rest
<1>c. UNCHANGED <<edition, part, chapter, section, mark>>
  BY <1>1 DEF contents
<1> PICK t : t = task[p]
  OBVIOUS
<1>2. /\ t # None /\ t.op = "run" /\ t.at \in {"work", "failed", "over", "left"} /\ DOMAIN t = Fields
      /\ t.hands # <<>> /\ DOMAIN t.hands = Hands /\ Running(t, chapter, page, object, stranded)
      /\ t.hands[h] # None /\ t.hands[h] \in Piece /\ t.hands[h].at = "row" /\ t.hands[h].page \in Page
      /\ t.id \in DOMAIN chapter
  BY <1>1, HandKnown
<1>3. CASE Throw(p, h) /\ UNCHANGED page
  BY <1>1, <1>3, ThrowKeeps
<1> PICK n : n = t.hands[h].page
  OBVIOUS
<1> PICK c : c = t.id
  OBVIOUS
<1>4. CASE chapter[c] # None /\ page' = page \cup {<<c, n>>} /\ Proceed(p, Hand(p, h, [page |-> n, at |-> "count"]))
  <2> PICK s : s = [page |-> n, at |-> "count"]
    OBVIOUS
  <2>1. s \in Piece /\ s # None /\ s.page = n /\ s.at = "count"
    BY <1>2, Pieces
  <2> PICK u : u = [t EXCEPT !.hands[h] = s]
    OBVIOUS
  <2>3. /\ DOMAIN u = Fields
        /\ u.op = t.op /\ u.at = t.at /\ u.id = t.id /\ u.todo = t.todo /\ u.done = t.done /\ u.seen = t.seen
        /\ u.hands = [t.hands EXCEPT ![h] = s]
    BY <1>2, Handed
  <2>4. Proceed(p, u)
    BY <1>4 DEF Hand
  <2>o. page \subseteq page' /\ <<c, n>> \in page'
    BY <1>4
  <2>5. Running(u, chapter, page', object, stranded)
    <3>1. Takes(t, u, h, s)
      BY <1>2, <2>1, <2>3 DEF Takes
    <3>2. NothingLost(t, u, h, s, page')
      BY <2>1, <2>3 DEF NothingLost
    <3>3. PieceTrue(t, s, page', object) /\ SameRun(t, chapter, chapter)
      BY <2>1, <2>o DEF PieceTrue, SameRun, SameRow
    <3> QED
      BY <1>2, <2>o, <3>1, <3>2, <3>3, HandMoves
  <2>6. Holder(u) => Holder(t)
    BY <1>2, <2>3 DEF Holder
  <2>7. page' \subseteq Rows(chapter) \X Page
    BY <1>2, <1>4 DEF Rows, Contents, TablesOK
  <2>8. <<c, n>> \in object
    BY <1>2, <1>4 DEF Running, WorkersTrue
  <2>9. page' \subseteq object
    BY <1>4, <2>8 DEF Converting
  <2>10. Onward(t, u)
    BY <1>2, <2>3 DEF Onward
  <2>11. StepKeeps(p)
    BY <1>1, <1>2, <1>c, <2>4, <2>7, <2>10, ConvertContents
  <2>12. ConvKeeps(p)
    <3>1. /\ Running(u, chapter', page', object', stranded') /\ object \subseteq object' /\ page' \subseteq object'
          /\ Leaves(p, c)
      BY <1>1, <1>c, <2>5, <2>9 DEF Leaves
    <3> QED
      BY <1>1, <1>2, <1>c, <2>4, <2>6, <2>10, <2>o, <3>1, ConvertFrames
  <2> QED
    BY <2>11, <2>12
<1> QED
  BY <1>3, <1>4 DEF InsertPage

\* The page is counted, and the worker takes the next one.
LEMMA CountPageKeeps ==
  ASSUME Contents, Converting, NEW p \in Procs, NEW h \in Hands, CountPage(p, h)
  PROVE  StepKeeps(p) /\ ConvKeeps(p)
<1>1. UNCHANGED <<edition, part, section, mark, page, object, pdf, type, stranded, claimed>> /\ HandAt(p, h, "count")
  BY DEF CountPage, Keeps, pages, rest
<1> PICK t : t = task[p]
  OBVIOUS
<1>2. /\ t # None /\ t.op = "run" /\ t.at \in {"work", "failed", "over", "left"} /\ DOMAIN t = Fields
      /\ t.hands # <<>> /\ DOMAIN t.hands = Hands /\ Running(t, chapter, page, object, stranded)
      /\ t.hands[h] # None /\ t.hands[h] \in Piece /\ t.hands[h].at = "count" /\ t.hands[h].page \in Page
      /\ t.id \in DOMAIN chapter /\ (chapter[t.id] # None => chapter[t.id] \in Chapter)
  BY <1>1, HandKnown
<1>3. CASE Throw(p, h) /\ UNCHANGED chapter
  BY <1>1, <1>3, ThrowKeeps DEF contents
<1> PICK c : c = t.id
  OBVIOUS
<1>4. CASE ~(Throw(p, h) /\ UNCHANGED chapter)
  <2>c. chapter[c] # None
    BY <1>4 DEF CountPage
  <2> PICK row : row = [chapter[c] EXCEPT !.processed = @ + 1]
    OBVIOUS
  <2>r. /\ row \in Chapter /\ row.edition = chapter[c].edition /\ row.part = chapter[c].part
        /\ row.status = chapter[c].status /\ row.pageCount = chapter[c].pageCount
    <3>1. chapter[c] \in Chapter
      BY <1>2, <2>c
    <3>2. row \in Chapter /\ row.edition = chapter[c].edition /\ row.part = chapter[c].part
      BY <3>1, RowPatches
    <3> QED
      BY <3>1, <3>2 DEF Chapter
  <2>n. PICK n : n = CHOOSE i \in t.todo : \A k \in t.todo : i <= k
    OBVIOUS
  <2>0. /\ chapter' = [chapter EXCEPT ![c] = row]
        /\ \/ t.todo = {} /\ Proceed(p, Hand(p, h, None))
           \/ t.todo # {} /\ Proceed(p, [Hand(p, h, [page |-> n, at |-> "render"]) EXCEPT !.todo = @ \ {n}])
    BY <1>4, <2>n DEF CountPage, Patch
  <2>1. chapter'[c] = row
    BY <1>2, <2>0
  <2>2. SameRun(t, chapter, chapter')
    BY <2>c, <2>r, <2>1 DEF SameRun, SameRow
  <2>3. <<c, t.hands[h].page>> \in page
    BY <1>2, <2>c DEF Running, WorkersTrue
  <2>4. ASSUME NEW s, NEW u, Takes(t, u, h, s), u.at = t.at, Proceed(p, u),
               \A m \in t.todo : m \in u.todo \/ (s # None /\ s.page = m), PieceTrue(t, s, page, object)
        PROVE  StepKeeps(p) /\ ConvKeeps(p)
    <3>1. NothingLost(t, u, h, s, page)
      BY <2>3, <2>4 DEF NothingLost
    <3>2. Running(u, chapter', page, object, stranded)
      BY <1>2, <2>2, <2>4, <3>1, HandMoves
    <3>3. (Holder(u) => Holder(t)) /\ Onward(t, u)
      BY <1>2, <2>4 DEF Holder, Onward, Takes
    <3>4. Patched(c, row)
      BY <2>0, <2>c, <2>r DEF Patched
    <3>5. type = "PDF" /\ row.status = "READY" => row.pageCount > 0 /\ \A m \in 1 .. row.pageCount : <<c, m>> \in page
      BY <1>2, <2>c, <2>r DEF Converting, Whole, Rows
    <3> QED
      BY <1>1, <1>2, <2>4, <2>r, <3>2, <3>3, <3>4, <3>5, PatchStep
  <2>5. CASE t.todo = {} /\ Proceed(p, Hand(p, h, None))
    <3> PICK s : s = None
      OBVIOUS
    <3> PICK u : u = [t EXCEPT !.hands[h] = s]
      OBVIOUS
    <3>1. /\ DOMAIN u = Fields
          /\ u.op = t.op /\ u.at = t.at /\ u.id = t.id /\ u.todo = t.todo /\ u.done = t.done /\ u.seen = t.seen
          /\ u.hands = [t.hands EXCEPT ![h] = s]
      BY <1>2, Handed
    <3>2. Proceed(p, u)
      BY <2>5 DEF Hand
    <3>3. Takes(t, u, h, s) /\ PieceTrue(t, s, page, object)
      BY <1>2, <3>1 DEF Takes, PieceTrue
    <3> QED
      BY <2>4, <2>5, <3>1, <3>2, <3>3
  <2>6. CASE t.todo # {} /\ Proceed(p, [Hand(p, h, [page |-> n, at |-> "render"]) EXCEPT !.todo = @ \ {n}])
    <3>1. t.todo \subseteq Page
      BY <1>2 DEF Running, Shaped
    <3>2. t.todo \subseteq Nat /\ IsFiniteSet(t.todo)
      <4>1. IsFiniteSet(Page) /\ Page \subseteq Nat
        BY PagesAreCounted, FS_Interval DEF Page
      <4> QED
        BY <3>1, <4>1, FS_Subset
    <3>3. n \in t.todo
      BY <2>6, <2>n, <3>2, SmallestIsThere
    <3>s. PICK s : s = [page |-> n, at |-> "render"]
      OBVIOUS
    <3>4. s \in Piece /\ s # None /\ s.page = n /\ s.at = "render"
      BY <3>s, <3>1, <3>3, Pieces
    <3>v. PICK v : v = [t EXCEPT !.hands[h] = s]
      OBVIOUS
    <3>5. /\ DOMAIN v = Fields
          /\ v.op = t.op /\ v.at = t.at /\ v.id = t.id /\ v.todo = t.todo /\ v.done = t.done /\ v.seen = t.seen
          /\ v.hands = [t.hands EXCEPT ![h] = s]
      BY <3>v, <1>2, Handed
    <3>u. PICK u : u = [v EXCEPT !.todo = @ \ {n}]
      OBVIOUS
    <3>6. Proceed(p, u)
      BY <3>s, <3>v, <3>u, <2>6 DEF Hand
    <3>7. /\ DOMAIN u = Fields
          /\ u.op = v.op /\ u.at = v.at /\ u.id = v.id /\ u.todo = v.todo \ {n} /\ u.done = v.done /\ u.seen = v.seen
          /\ u.hands = v.hands
      BY <3>u, <3>5 DEF Fields
    <3>8. Takes(t, u, h, s)
      BY <1>2, <3>4, <3>5, <3>7 DEF Takes
    <3>9. PieceTrue(t, s, page, object)
      BY <3>4 DEF PieceTrue
    <3>10. \A m \in t.todo : m \in u.todo \/ (s # None /\ s.page = m)
      BY <3>4, <3>5, <3>7
    <3>11. u.at = t.at
      BY <3>5, <3>7
    <3> QED
      BY <2>4, <3>6, <3>8, <3>9, <3>10, <3>11
  <2> QED
    BY <2>0, <2>5, <2>6
<1> QED
  BY <1>3, <1>4

\* Every worker is back: the chapter is READY.
LEMMA ReadyKeeps ==
  ASSUME Contents, Converting, NEW p \in Procs, Ready(p)
  PROVE  StepKeeps(p) /\ ConvKeeps(p)
<1>1. task[p] # None /\ task[p].op = "run" /\ task[p].at = "work" /\ UNCHANGED claimed /\ Keeps
      /\ task[p].todo = {} /\ ~Busy(p)
  BY DEF Ready, At
<1> PICK t : t = task[p]
  OBVIOUS
<1> PICK c : c = t.id
  OBVIOUS
<1>2. DOMAIN t = Fields /\ c \in DOMAIN chapter /\ Running(t, chapter, page, object, stranded)
      /\ (chapter[c] # None => chapter[c] \in Chapter)
  BY <1>1, RunKnown
<1>3. CASE Fail(p)
  BY <1>1, <1>3, FailKeeps DEF Keeps, rest
<1>4. CASE ~Fail(p)
  <2>0. chapter[c] # None
    BY <1>4 DEF Ready
  <2> PICK row : row = [chapter[c] EXCEPT !.status = "READY"]
    OBVIOUS
  <2> PICK u : u = [t EXCEPT !.at = "over"]
    OBVIOUS
  <2>1. /\ chapter' = [chapter EXCEPT ![c] = row] /\ Proceed(p, u)
        /\ UNCHANGED <<edition, part, section, mark, page, object, pdf, type, stranded, claimed>>
    BY <1>1, <1>4 DEF Ready, Patch, Keeps, pages, rest, Goto
  <2>2. row \in Chapter /\ row.edition = chapter[c].edition /\ row.part = chapter[c].part
        /\ row.status = "READY" /\ row.pageCount = chapter[c].pageCount
    BY <1>2, <2>0 DEF Chapter
  <2>3. /\ DOMAIN u = Fields /\ u.op = "run" /\ u.id = t.id /\ u.at = "over" /\ u.hands = t.hands /\ u.todo = t.todo
        /\ u.done = t.done
    BY <1>1, <1>2, Moved
  <2>4. chapter'[c] = row
    BY <1>2, <2>1
  <2>k. t.seen \in Page /\ row.pageCount = t.seen /\ WorkersTrue(t, page, object)
        /\ \A n \in 1 .. t.seen : <<c, n>> \in page \/ n \in t.todo \/ InHand(t, n)
    BY <1>1, <1>2, <2>0, <2>2 DEF Running, Shaped, Progress
  <2>i. \A n : ~InHand(t, n)
    <3>1. t.hands = <<>> \/ \A h \in Hands : t.hands[h] = None
      BY <1>1 DEF Busy
    <3>2. t.hands = <<>> => Hands = {}
      BY <1>1, <1>2 DEF Running, Shaped
    <3> QED
      BY <3>1, <3>2 DEF InHand
  <2>w. row.pageCount > 0 /\ \A n \in 1 .. row.pageCount : <<c, n>> \in page
    <3>1. row.pageCount > 0
      BY <2>k, PagesAreCounted DEF Page
    <3> QED
      BY <1>1, <2>k, <2>i, <3>1
  <2>h. Shaped(u)
    BY <1>1, <1>2, <2>3 DEF Running, Shaped
  <2>s. Stands(u, chapter'[c], stranded)
    BY <2>2, <2>3, <2>4 DEF Stands
  <2>v. WorkersTrue(u, page, object)
    BY <2>k, <2>3, <1>1 DEF WorkersTrue
  <2>5. Running(u, chapter', page, object, stranded)
    BY <2>3, <2>h, <2>s, <2>v DEF Running, Progress
  <2>6. Holder(t)
    BY <1>1 DEF Holder
  <2>7. Patched(t.id, row)
    BY <2>0, <2>1, <2>2 DEF Patched
  <2> QED
    BY <1>1, <2>1, <2>2, <2>3, <2>5, <2>6, <2>7, <2>w, PatchStep DEF Onward
<1> QED
  BY <1>3, <1>4

\* The run has failed: so has its chapter.
LEMMA MarkFailedKeeps ==
  ASSUME Contents, Converting, NEW p \in Procs, MarkFailed(p)
  PROVE  StepKeeps(p) /\ ConvKeeps(p)
<1>1. task[p] # None /\ task[p].op = "run" /\ task[p].at = "failed"
      /\ UNCHANGED <<edition, part, section, mark, page, object, pdf, type, claimed>>
  BY DEF MarkFailed, At, pages
<1> PICK t : t = task[p]
  OBVIOUS
<1> PICK c : c = t.id
  OBVIOUS
<1>2. DOMAIN t = Fields /\ c \in DOMAIN chapter /\ Running(t, chapter, page, object, stranded)
      /\ (chapter[c] # None => chapter[c] \in Chapter)
  BY <1>1, RunKnown
<1> PICK u : u = [t EXCEPT !.at = "over"]
  OBVIOUS
<1>3. Proceed(p, u) \/ Disturb(p, u)
  BY DEF MarkFailed, Goto
<1>4. /\ DOMAIN u = Fields /\ u.op = "run" /\ u.id = t.id /\ u.at = "over" /\ u.hands = t.hands /\ u.todo = t.todo
      /\ u.done = t.done
  BY <1>1, <1>2, Moved
<1>5. Shaped(u) /\ Holder(t)
  BY <1>1, <1>2, <1>4 DEF Running, Shaped, Holder
<1>6. CASE stranded' = stranded \cup {c} /\ UNCHANGED chapter
  <2>1. UNCHANGED contents
    BY <1>1, <1>6 DEF contents
  <2>2. WorkersTrue(t, page, object) \/ chapter[c] = None
    BY <1>1, <1>2 DEF Running
  <2>3. Running(u, chapter, page, object', stranded')
    BY <1>1, <1>4, <1>5, <1>6, <2>2 DEF Running, Stands, Progress, WorkersTrue
  <2>4. Leaves(p, t.id)
    BY <1>5, <1>6 DEF Leaves
  <2> QED
    BY <1>1, <1>3, <1>4, <1>5, <2>1, <2>3, <2>4, QuietLeaves DEF Onward
<1>7. CASE chapter[c] # None /\ Patch(c, [chapter[c] EXCEPT !.status = "FAILED"]) /\ UNCHANGED stranded
  <2> PICK row : row = [chapter[c] EXCEPT !.status = "FAILED"]
    OBVIOUS
  <2>1. chapter' = [chapter EXCEPT ![c] = row]
    BY <1>7 DEF Patch
  <2>2. row \in Chapter /\ row.edition = chapter[c].edition /\ row.part = chapter[c].part /\ row.status = "FAILED"
    BY <1>2, <1>7 DEF Chapter
  <2>4. chapter'[c] = row
    BY <1>2, <2>1
  <2>k. WorkersTrue(t, page, object)
    BY <1>2, <1>1, <1>7 DEF Running
  <2>s. Stands(u, row, stranded) /\ WorkersTrue(u, page, object)
    BY <1>1, <2>2, <1>4, <2>k DEF Stands, WorkersTrue
  <2>5. Running(u, chapter', page, object, stranded)
    BY <1>4, <1>5, <2>4, <2>s DEF Running, Progress
  <2>7. Patched(t.id, row)
    BY <1>7, <2>1, <2>2 DEF Patched
  <2> QED
    BY <1>1, <1>3, <1>4, <1>5, <1>7, <2>2, <2>5, <2>7, PatchStep DEF Onward
<1> QED
  BY <1>6, <1>7 DEF MarkFailed

\* The last worker is gone.
LEMMA LeaveKeeps ==
  ASSUME Contents, Converting, NEW p \in Procs, Leave(p)
  PROVE  StepKeeps(p) /\ ConvKeeps(p)
<1>1. /\ task[p] # None /\ task[p].op = "run" /\ UNCHANGED <<contents, page, pdf, type, stranded, claimed, object>>
  BY DEF Leave, At, Reads, pages, rest
<1> PICK u : u = None
  OBVIOUS
<1>2. Proceed(p, u) /\ Onward(task[p], u)
  BY DEF Leave, End, Onward
<1> QED
  BY <1>1, <1>2, QuietStep

\* Steps that take a claim or give it up: only a holder gives it up, of a chapter that is not
\* under way, or known to have been left.
LEMMA ClaimStep ==
  ASSUME Contents, Converting, NEW p \in Procs, task[p] # None, task[p].op \in {"start", "run"},
         UNCHANGED <<contents, page, object, pdf, type, stranded>>,
         NEW u, Proceed(p, u), Onward(task[p], u), u # None => Running(u, chapter, page, object, stranded),
         NEW c, c = task[p].id, claimed' \subseteq claimed \cup {c}, claimed \ {c} \subseteq claimed',
         c \in claimed /\ c \notin claimed' =>
             HoldsIt(task[p], c) /\ (chapter[c] # None /\ chapter[c].status = "PROCESSING" => c \in stranded),
         Holder(u) => c \in claimed' /\ (c \notin claimed \/ Holder(task[p]))
  PROVE  StepKeeps(p) /\ ConvKeeps(p)
<1>1. UNCHANGED <<edition, part, chapter, section, mark>>
  BY DEF contents
<1>2. StepKeeps(p)
  BY <1>1, ConvertContents
<1>3. c \in DOMAIN chapter /\ task'[p] = u
  BY DEF Proceed, Contents, TaskOK, AskedOK
<1>4. claimed' \subseteq DOMAIN chapter' /\ page' \subseteq object' /\ (type = "PDF" => Whole(chapter', page'))
  BY <1>1, <1>3 DEF Converting
<1>5. Orphans(chapter', claimed', stranded)
  BY <1>1 DEF Converting, Orphans, Rows
<1>6. \A d \in DOMAIN chapter : /\ Spares(d, chapter, page, object, chapter', page', object')
                                /\ ~HoldsIt(task[p], d) => SameRow(d, chapter, chapter')
                                /\ d \in claimed /\ ~HoldsIt(task[p], d) => d \in claimed'
  BY <1>1 DEF Spares, SameRow
<1>7. Holder(u) => u.id \in claimed' /\ (u.id \notin claimed \/ HoldsIt(task[p], u.id))
  BY DEF Onward, HoldsIt, Holder
<1>8. ConvKeeps(p)
  BY <1>1, <1>3, <1>4, <1>5, <1>6, <1>7 DEF ConvKeeps, StaysLeft
<1> QED
  BY <1>2, <1>8

\* The chapter is claimed, or the start refused.
LEMMA ClaimKeeps ==
  ASSUME Contents, Converting, NEW p \in Procs, Claim(p)
  PROVE  StepKeeps(p) /\ ConvKeeps(p)
<1>1. /\ task[p] # None /\ task[p].op = "start" /\ task[p].at = "claim"
      /\ UNCHANGED <<contents, page, object, pdf, type, stranded>>
  BY DEF Claim, At, pages, rest
<1> PICK t : t = task[p]
  OBVIOUS
<1> PICK c : c = t.id
  OBVIOUS
<1>2. DOMAIN t = Fields /\ c \in DOMAIN chapter /\ Running(t, chapter, page, object, stranded)
  BY <1>1, RunKnown
<1>3. CASE c \in claimed
  <2> PICK u : u = None
    OBVIOUS
  <2>1. Proceed(p, u) /\ Onward(t, u) /\ claimed' = claimed /\ ~Holder(u)
    BY <1>3 DEF Claim, End, Onward, Holder
  <2> QED
    BY <1>1, <2>1, ClaimStep
<1>4. CASE c \notin claimed
  <2> PICK u : u = [t EXCEPT !.at = "size"]
    OBVIOUS
  <2>1. Proceed(p, u) /\ claimed' = claimed \cup {c}
    BY <1>4 DEF Claim, Goto
  <2>2. /\ DOMAIN u = Fields /\ u.op = "start" /\ u.id = c /\ u.at = "size" /\ u.hands = t.hands /\ u.todo = t.todo
        /\ u.done = t.done
    BY <1>1, <1>2, Moved
  <2>3. chapter[c] # None /\ chapter[c].status = "PROCESSING" => c \in stranded
    BY <1>2, <1>4 DEF Converting, Orphans, Rows
  <2>4. Running(u, chapter, page, object, stranded)
    BY <1>1, <1>2, <2>2, <2>3 DEF Running, Shaped, Stands, Progress, WorkersTrue
  <2>5. Onward(t, u)
    BY <2>2 DEF Onward
  <2> QED
    BY <1>1, <1>4, <2>1, <2>4, <2>5, ClaimStep
<1> QED
  BY <1>3, <1>4

\* The run starts, or the claim is given up.
LEMMA SizeUpKeeps ==
  ASSUME Contents, Converting, NEW p \in Procs, SizeUp(p)
  PROVE  StepKeeps(p) /\ ConvKeeps(p)
<1>1. /\ task[p] # None /\ task[p].op = "start" /\ task[p].at = "size"
      /\ UNCHANGED <<contents, page, object, pdf, type, stranded>>
  BY DEF SizeUp, At, pages, rest
<1> PICK t : t = task[p]
  OBVIOUS
<1> PICK c : c = t.id
  OBVIOUS
<1>2. DOMAIN t = Fields /\ c \in DOMAIN chapter /\ Running(t, chapter, page, object, stranded)
  BY <1>1, RunKnown
<1>h. Holder(t) /\ HoldsIt(t, c) /\ c \in claimed
  BY <1>1 DEF Holder, HoldsIt, Converting, Claims
<1>s. chapter[c] # None /\ chapter[c].status = "PROCESSING" => c \in stranded
  BY <1>1, <1>2, <1>h DEF Running, Stands
<1>3. CASE End(p) /\ claimed' = claimed \ {c}
  <2> PICK u : u = None
    OBVIOUS
  <2>1. Proceed(p, u) /\ Onward(t, u) /\ claimed' = claimed \ {c} /\ ~Holder(u)
    BY <1>3 DEF End, Onward, Holder
  <2> QED
    BY <1>1, <1>h, <1>s, <2>1, ClaimStep
<1>4. CASE Proceed(p, [t EXCEPT !.op = "run", !.at = "load"]) /\ UNCHANGED claimed
  <2> PICK u : u = [t EXCEPT !.op = "run", !.at = "load"]
    OBVIOUS
  <2>1. Proceed(p, u) /\ claimed' = claimed
    BY <1>4
  <2>2. /\ DOMAIN u = Fields /\ u.op = "run" /\ u.id = c /\ u.at = "load" /\ u.hands = t.hands /\ u.todo = t.todo
        /\ u.done = t.done
    BY <1>2 DEF Fields
  <2>3. Shaped(u) /\ u.hands = <<>>
    BY <1>1, <1>2, <2>2 DEF Running, Shaped
  <2>4. Running(u, chapter, page, object, stranded)
    BY <1>s, <2>2, <2>3 DEF Running, Stands, Progress, WorkersTrue
  <2>5. Onward(t, u)
    BY <2>2 DEF Onward
  <2> QED
    BY <1>1, <1>h, <2>1, <2>4, <2>5, ClaimStep
<1> QED
  BY <1>3, <1>4 DEF SizeUp

\* The run is over and gives its claim up; its workers may not be.
LEMMA ReleaseKeeps ==
  ASSUME Contents, Converting, NEW p \in Procs, Release(p)
  PROVE  StepKeeps(p) /\ ConvKeeps(p)
<1>1. /\ task[p] # None /\ task[p].op = "run" /\ task[p].at = "over"
      /\ UNCHANGED <<contents, page, object, pdf, type, stranded>>
  BY DEF Release, At, pages, rest
<1> PICK t : t = task[p]
  OBVIOUS
<1> PICK c : c = t.id
  OBVIOUS
<1>2. DOMAIN t = Fields /\ c \in DOMAIN chapter /\ Running(t, chapter, page, object, stranded)
  BY <1>1, RunKnown
<1>h. Holder(t) /\ HoldsIt(t, c) /\ claimed' = claimed \ {c}
  BY <1>1 DEF Holder, HoldsIt, Release
<1>s. chapter[c] # None /\ chapter[c].status = "PROCESSING" => c \in stranded
  BY <1>1, <1>2, <1>h DEF Running, Stands
<1>3. CASE End(p)
  <2> PICK u : u = None
    OBVIOUS
  <2>1. Proceed(p, u) /\ Onward(t, u) /\ ~Holder(u)
    BY <1>3 DEF End, Onward, Holder
  <2> QED
    BY <1>1, <1>h, <1>s, <2>1, ClaimStep
<1>4. CASE Goto(p, "left")
  <2> PICK u : u = [t EXCEPT !.at = "left"]
    OBVIOUS
  <2>1. Proceed(p, u)
    BY <1>4 DEF Goto
  <2>2. /\ DOMAIN u = Fields /\ u.op = "run" /\ u.id = c /\ u.at = "left" /\ u.hands = t.hands /\ u.todo = t.todo
        /\ u.done = t.done
    BY <1>1, <1>2, Moved
  <2>3. Shaped(u) /\ ~Holder(u)
    BY <1>1, <1>2, <2>2 DEF Running, Shaped, Holder
  <2>4. Running(u, chapter, page, object, stranded)
    BY <1>1, <1>2, <2>2, <2>3 DEF Running, Stands, Progress, WorkersTrue
  <2>5. Onward(t, u)
    BY <2>2 DEF Onward
  <2> QED
    BY <1>1, <1>h, <1>s, <2>1, <2>3, <2>4, <2>5, ClaimStep
<1> QED
  BY <1>3, <1>4 DEF Release

\* Every step of a conversion.
LEMMA ConvertKeeps ==
  ASSUME Contents, Converting, NEW p \in Procs, Convert(p)
  PROVE  StepKeeps(p) /\ ConvKeeps(p)
BY ClaimKeeps, SizeUpKeeps, LoadKeeps, MarkProcessingKeeps, FetchKeeps, ReadDoneKeeps, CountKeeps, RenderKeeps, UploadKeeps,
   InsertPageKeeps, CountPageKeeps, ReadyKeeps, MarkFailedKeeps, ReleaseKeeps, LeaveKeeps DEF Convert

-----------------------------------------------------------------------------
(* The invariants hold *)

\* The edits convert nothing: they and the requests let in keep both invariants.
LEMMA RequestStep ==
  ASSUME Contents, Converting, NEW p \in Procs, Arrive(p) \/ Edit(p) \/ Convert(p)
  PROVE  (Contents /\ Converting)'
<1>1. StepKeeps(p) /\ ConvKeeps(p)
  BY ArriveKeeps, ArriveConverts, EditKeeps, EditsConvert, ConvertKeeps
<1> QED
  BY <1>1, ContentsKept, ConvertingKept

\* A PDF that is put is one more value in its table.
LEMMA PutPdfKeeps ==
  ASSUME Contents, Converting, NEW c \in Rows(chapter), NEW n \in 1 .. MaxPages, PutPdf(c, n)
  PROVE  (Contents /\ Converting)'
<1>1. /\ pdf' = [pdf EXCEPT ![c] = n]
      /\ UNCHANGED <<type, edition, part, chapter, section, mark, page, object, claimed, task, stranded>>
  BY DEF PutPdf, contents, rest
<1>n. PICK N : N = 0 .. MaxPages
  OBVIOUS
<1>2. pdf \in Seq(N) /\ Len(pdf) = Len(chapter) /\ n \in N
  BY <1>n, PagesAreCounted DEF Contents, TablesOK
<1>3. pdf' \in Seq(N) /\ Len(pdf') = Len(chapter)
  BY <1>1, <1>2, RowWritten
<1>4. TablesOK(edition, part, chapter, section, mark, page, pdf')
  BY <1>n, <1>3 DEF Contents, TablesOK
<1>5. Contents'
  BY <1>1, <1>4 DEF Contents
<1>6. Converting'
  BY <1>1 DEF Converting
<1> QED
  BY <1>5, <1>6

\* With the process goes all that was under way, and what was claimed is known to be left.
LEMMA RestartKeeps ==
  ASSUME Contents, Converting, Restart
  PROVE  (Contents /\ Converting)'
<1>1. /\ UNCHANGED <<type, edition, part, chapter, section, mark, page, object, pdf>>
      /\ claimed' = {} /\ stranded' = stranded \cup claimed /\ task' = [p \in Procs |-> None]
  BY DEF Restart, contents, pages
<1>2. Contents'
  BY <1>1 DEF Contents
<1>4. Orphans(chapter', claimed', stranded') /\ Claims(task', claimed')
  BY <1>1 DEF Converting, Orphans, Claims, Holder
<1>5. Converting'
  BY <1>1, <1>4 DEF Converting
<1> QED
  BY <1>2, <1>5

\* The books to start from satisfy both.
LEMMA StartHolds ==
  ASSUME Init
  PROVE  Contents /\ Converting
<1> PICK s \in Start :
        /\ type = s.type /\ edition = s.edition /\ part = s.part /\ chapter = s.chapter /\ section = s.section
        /\ mark = s.mark /\ page = s.page /\ object = s.page /\ pdf = s.pdf
        /\ claimed = {} /\ task = [p \in Procs |-> None] /\ stranded = {c \in Rows(chapter) : chapter[c].status = "PROCESSING"}
  BY DEF Init
<1>1. /\ edition \in Seq(Edition \cup {None}) /\ part \in Seq(Part \cup {None})
      /\ chapter \in Seq(Chapter \cup {None}) /\ section \in Seq(Section \cup {None})
      /\ mark \in Seq(Bookmark \cup {None}) /\ Len(mark) = Len(edition)
      /\ pdf \in Seq(0 .. MaxPages) /\ Len(pdf) = Len(chapter)
      /\ Linked(edition, part, chapter, section) /\ Agrees(edition, chapter, section, mark)
      /\ page \subseteq Rows(chapter) \X Page
  BY StartIsSound DEF Page, Bookmark
<1>2. /\ \A i \in Rows(section) : section[i].page \in Paging
      /\ type = "PDF" => Whole(chapter, page)
  BY StartIsSound DEF Page, Paging
<1>3. section \in Seq(PagedSection \cup {None})
  <2>t. PICK T : T = PagedSection \cup {None}
    OBVIOUS
  <2>1. ASSUME NEW i \in DOMAIN section PROVE section[i] \in T
    <3>1. section[i] \in Section \cup {None}
      BY <1>1
    <3>2. CASE section[i] = None
      BY <2>t, <3>2
    <3>3. CASE section[i] # None
      <4>1. section[i] \in Section /\ section[i].page \in Paging
        BY <1>2, <3>1, <3>3 DEF Rows
      <4>2. section[i] \in PagedSection
        BY <4>1 DEF Section, PagedSection, Paging, Page
      <4> QED
        BY <2>t, <4>2
    <3> QED
      BY <3>2, <3>3
  <2>2. section = [i \in DOMAIN section |-> section[i]]
    BY <1>1
  <2>3. section \in [DOMAIN section -> T]
    BY <2>1, <2>2
  <2>4. section \in Seq(T)
    BY <1>1, <2>3, TableWritten
  <2> QED
    BY <2>t, <2>4
<1>4. Contents
  BY <1>1, <1>3 DEF Contents, TablesOK
<1>5. Orphans(chapter, claimed, stranded) /\ Claims(task, claimed)
  BY DEF Orphans, Claims, Holder
<1>6. Converting
  BY <1>2, <1>5 DEF Converting
<1> QED
  BY <1>4, <1>6

\* What is stored and what is under way agree with each other, in every step.
THEOREM BooksHold == Spec => [](Contents /\ Converting)
<1>1. Init => Contents /\ Converting
  BY StartHolds
<1>2. Contents /\ Converting /\ [Next]_vars => (Contents /\ Converting)'
  <2> SUFFICES ASSUME Contents, Converting, [Next]_vars PROVE (Contents /\ Converting)'
    OBVIOUS
  <2>1. CASE \E p \in Procs : Arrive(p) \/ Edit(p) \/ Convert(p)
    BY <2>1, RequestStep
  <2>2. CASE \E c \in Rows(chapter), n \in 1 .. MaxPages : PutPdf(c, n)
    BY <2>2, PutPdfKeeps
  <2>3. CASE Restart
    BY <2>3, RestartKeeps
  <2>4. CASE UNCHANGED vars
    BY <2>4 DEF vars, Contents, Converting
  <2> QED
    BY <2>1, <2>2, <2>3, <2>4 DEF Next
<1> QED
  BY <1>1, <1>2, PTL DEF Spec

\* Whatever edits, deletions and answers run between each other: rows point to rows that
\* are there, the contents a reader is shown hold every chapter once and in the order of
\* its parts, page ranges run forwards, and a bookmark is in a place of its edition.
THEOREM ContentsWhole == Spec => []ContentsAreWhole
<1>1. Contents /\ Converting => ContentsAreWhole
  <2> SUFFICES ASSUME Contents, Converting PROVE ContentsAreWhole
    OBVIOUS
  <2>1. TypeOK
    BY DEF Contents, TablesOK, Converting, TypeOK, Page
  <2>2. ASSUME NEW p \in Procs, task[p] # None, Answered(p)
        PROVE  /\ ReadOf(task[p].parts, Part) /\ ReadOf(task[p].rows, Chapter)
               /\ \A c \in DOMAIN task[p].rows : ReadOf(task[p].sections[c], PagedSection)
    <3>1. ReadOK(task[p])
      BY <2>2 DEF Contents, TaskOK
    <3> QED
      BY <2>2, <3>1 DEF ReadOK, Answered, At
  <2>3. TreeIsWhole
    <3> SUFFICES ASSUME NEW p \in Procs, task[p] # None, Answered(p) PROVE TreeOf(task[p].parts, task[p].rows)
      BY DEF TreeIsWhole, TreeOf
    <3> QED
      BY <2>2, TreeHolds
  <2>4. RangesForward
    <3> SUFFICES ASSUME NEW p \in Procs, task[p] # None, Answered(p), NEW c \in DOMAIN task[p].rows
                 PROVE  RangesOf(task[p].sections[c], task[p].rows[c].pageCount)
      BY DEF RangesForward, RangesOf
    <3>1. ReadOf(task[p].sections[c], PagedSection) /\ task[p].rows[c].pageCount \in Nat
      BY <2>2 DEF ReadOf, Chapter
    <3> QED
      BY <3>1, RangesHold
  <2>5. BookmarkAgrees
    BY DEF Contents, TablesOK, BookmarkAgrees
  <2> QED
    BY <2>1, <2>3, <2>4, <2>5 DEF ContentsAreWhole
<1> QED
  BY <1>1, BooksHold, PTL

\* Whatever fails, is retried, is left behind or is deleted meanwhile: no page row without
\* its bytes, no READY chapter without its pages, one run of a chapter at a time, and a
\* PROCESSING row is claimed, or its last run ended without a word.
THEOREM ConversionSafe == Spec => []ConversionIsSafe
<1>1. Contents /\ Converting => ConversionIsSafe
  <2> SUFFICES ASSUME Contents, Converting PROVE ConversionIsSafe
    OBVIOUS
  <2>1. PageHasBytes /\ ReadyIsComplete
    BY DEF Converting, PageHasBytes, ReadyIsComplete
  <2>2. \A p \in Procs : \A c : Holds(p, c) <=> HoldsIt(task[p], c)
    BY DEF Holds, HoldsIt, Holder, At
  <2>3. OneRunPerChapter
    BY <2>2 DEF OneRunPerChapter, Converting, Claims, HoldsIt
  <2>4. ProcessingIsClaimedOrStranded
    BY DEF Converting, Orphans, ProcessingIsClaimedOrStranded
  <2> QED
    BY <2>1, <2>3, <2>4 DEF ConversionIsSafe
<1> QED
  BY <1>1, BooksHold, PTL

-----------------------------------------------------------------------------
(* What a request relies on that no other write came between *)

OfEdition(table, e) == {i \in Rows(table) : table[i].edition = e}
OfChapter(table, c) == {s \in Rows(table) : table[s].chapter = c}
\* The chapters that were read are where they were.
AsPlaced(rows, ch, e) ==
    /\ DOMAIN rows = OfEdition(ch, e)
    /\ \A c \in DOMAIN rows : rows[c].part = ch[c].part /\ rows[c].order = ch[c].order

\* The count before a status still holds, what was read to plan an order is what is
\* stored, and the order a client sent has been written.
GoesLive(t) == t.op = "status" /\ t.at = "write" /\ t.word = "PUBLISHED" /\ t.was # "PUBLISHED"
PlanKnown(t, pt, ch) ==
    IF t.at = "plan" THEN /\ t.parts # None => t.parts = [x \in OfEdition(pt, t.edition) |-> pt[x]]
                          /\ t.rows # None => AsPlaced(t.rows, ch, t.edition)
    ELSE t.parts = None /\ t.rows = None
ListKnown(t, ch) ==
    /\ DOMAIN t.list \subseteq Nat /\ IsInjective(t.list)
    /\ \A i \in DOMAIN t.list : /\ t.list[i] \in OfEdition(ch, t.edition)
                                /\ t.at = "plan" => ch[t.list[i]].order = i
Sorting == {"createSection", "moveSection"}
Relied(t, pt, ch, sc) ==
    /\ GoesLive(t) => \E c \in OfEdition(ch, t.edition) : ch[c].status = "READY"
    /\ t.op \in Planned => PlanKnown(t, pt, ch)
    /\ t.op = "reorder" => ListKnown(t, ch)
    /\ t.op \in Sorting /\ t.at = "resort" => t.sections = [s \in OfChapter(sc, t.id) |-> sc[s]]

Settled == \A p \in Procs : task[p] # None /\ task[p].alone => Relied(task[p], part, chapter, section)

\* Nothing of that is touched: the parts and the sections are what they were, a chapter
\* is in its place, and one that is READY stays READY.
PlacesKept ==
    /\ UNCHANGED <<part, section>>
    /\ Rows(chapter') = Rows(chapter)
    /\ \A c \in Rows(chapter) :
          /\ chapter'[c].edition = chapter[c].edition /\ chapter'[c].part = chapter[c].part
          /\ chapter'[c].order = chapter[c].order
          /\ chapter[c].status = "READY" => chapter'[c].status = "READY"

\* A step of p that leaves the others what they rely on, or tells them.
StepSettles(p) ==
    /\ \/ PlacesKept /\ \A q \in Procs \ {p} : task'[q] = task[q]
       \/ \A q \in Procs \ {p} : task'[q] = None \/ ~task'[q].alone
    /\ task'[p] # None /\ task'[p].alone => Relied(task'[p], part', chapter', section')

\* What a request relies on stays, where nothing of it is touched.
LEMMA ReliedKept ==
  ASSUME NEW t, Relied(t, part, chapter, section), PlacesKept
  PROVE  Relied(t, part', chapter', section')
<1>1. part' = part /\ section' = section
  BY DEF PlacesKept
<1>2. \A e : OfEdition(chapter', e) = OfEdition(chapter, e)
  BY DEF PlacesKept, OfEdition
<1>3. ASSUME NEW e, NEW c \in OfEdition(chapter, e)
      PROVE  /\ chapter'[c].part = chapter[c].part /\ chapter'[c].order = chapter[c].order
             /\ chapter[c].status = "READY" => chapter'[c].status = "READY"
  BY <1>3 DEF PlacesKept, OfEdition
<1>4. GoesLive(t) => \E c \in OfEdition(chapter', t.edition) : chapter'[c].status = "READY"
  BY <1>2, <1>3 DEF Relied
<1>5. ASSUME NEW rows, NEW e, AsPlaced(rows, chapter, e) PROVE AsPlaced(rows, chapter', e)
  BY <1>2, <1>3, <1>5 DEF AsPlaced
<1>6. t.op \in Planned => PlanKnown(t, part', chapter')
  BY <1>1, <1>5 DEF Relied, PlanKnown
<1>7. t.op = "reorder" => ListKnown(t, chapter')
  BY <1>2, <1>3 DEF Relied, ListKnown
<1>8. t.op \in Sorting /\ t.at = "resort" => t.sections = [s \in OfChapter(section', t.id) |-> section'[s]]
  BY <1>1 DEF Relied
<1> QED
  BY <1>4, <1>6, <1>7, <1>8 DEF Relied

\* A step that leaves the others what they rely on keeps the invariant.
LEMMA SettledKept ==
  ASSUME Settled, NEW p \in Procs, StepSettles(p)
  PROVE  Settled'
<1>1. ASSUME NEW q \in Procs, task'[q] # None, task'[q].alone
      PROVE  Relied(task'[q], part', chapter', section')
  <2>1. CASE q = p
    BY <1>1, <2>1 DEF StepSettles
  <2>2. CASE q # p
    <3>1. PlacesKept /\ task'[q] = task[q]
      BY <1>1, <2>2 DEF StepSettles
    <3>2. Relied(task[q], part, chapter, section)
      BY <1>1, <3>1 DEF Settled
    <3> QED
      BY <3>1, <3>2, ReliedKept
  <2> QED
    BY <2>1, <2>2
<1> QED
  BY <1>1 DEF Settled

\* The tables are what they were.
LEMMA SameKeepsPlaces ==
  ASSUME UNCHANGED <<part, chapter, section>>
  PROVE  PlacesKept
BY DEF PlacesKept

\* A step that writes no part, chapter or section, and goes on as u.
LEMMA QuietSettles ==
  ASSUME DOMAIN task = Procs, NEW p \in Procs, NEW u, Proceed(p, u), PlacesKept,
         u # None /\ u.alone => Relied(u, part', chapter', section')
  PROVE  StepSettles(p)
<1>1. task'[p] = u /\ \A q \in Procs \ {p} : task'[q] = task[q]
  BY DEF Proceed
<1> QED
  BY <1>1 DEF StepSettles

\* A step that tells the others, and goes on as u.
LEMMA DisturbSettles ==
  ASSUME DOMAIN task = Procs, \A q \in Procs : task[q] # None => DOMAIN task[q] = Fields,
         NEW p \in Procs, NEW u, Disturb(p, u), u # None /\ u.alone => Relied(u, part', chapter', section')
  PROVE  StepSettles(p)
<1>1. task'[p] = u
  BY DEF Disturb
<1>2. ASSUME NEW q \in Procs \ {p} PROVE task'[q] = None \/ ~task'[q].alone
  <2>1. CASE task[q] = None
    BY <2>1 DEF Disturb
  <2>2. CASE task[q] # None
    <3>1. task'[q] = [task[q] EXCEPT !.alone = FALSE]
      BY <2>2 DEF Disturb
    <3> QED
      BY <2>2, <3>1 DEF Fields
  <2> QED
    BY <2>1, <2>2
<1> QED
  BY <1>1, <1>2 DEF StepSettles

\* The rows of an edition, by either name.
LEMMA OfEditionRows ==
  \A e : OfEdition(chapter, e) = Chapters(e) /\ OfEdition(part, e) = Parts(e) /\ OfChapter(section, e) = Sections(e)
BY DEF OfEdition, OfChapter, Chapters, Parts, Sections

\* A request that is let in has read nothing it relies on, but for the list it was sent.
LEMMA ArriveSettles ==
  ASSUME Contents, NEW p \in Procs, Arrive(p)
  PROVE  StepSettles(p)
<1> DEFINE Fresh(t) == /\ t.parts = None /\ t.rows = None /\ t.at \notin {"plan", "resort"}
                       /\ t.op = "status" => t.at = "count"
                       /\ t.op = "reorder" => ListKnown(t, chapter)
<1>1. ASSUME NEW t, Ask(p, t), Fresh(t) PROVE StepSettles(p)
  <2>1. Proceed(p, t) /\ UNCHANGED <<part, chapter, section>>
    BY <1>1 DEF Ask, contents
  <2>2. Relied(t, part, chapter, section)
    BY <1>1 DEF Relied, GoesLive, PlanKnown
  <2>3. PlacesKept
    BY <2>1, SameKeepsPlaces
  <2> QED
    BY <2>1, <2>2, <2>3, QuietSettles DEF Contents
<1> HIDE DEF Fresh
<1>2. ASSUME NEW l \in Languages, AskAddEdition(p, l) PROVE StepSettles(p)
  BY <1>1, <1>2 DEF AskAddEdition, Idle, Fresh
<1>3. ASSUME NEW e \in Rows(edition), AskRemoveEdition(p, e) PROVE StepSettles(p)
  BY <1>1, <1>3 DEF AskRemoveEdition, Idle, Fresh
<1>4. ASSUME NEW e \in Rows(edition), AskCreatePart(p, e) PROVE StepSettles(p)
  BY <1>1, <1>4 DEF AskCreatePart, Idle, Fresh
<1>5. ASSUME NEW e \in Rows(edition), NEW s, AskStatus(p, e, s) PROVE StepSettles(p)
  BY <1>1, <1>5 DEF AskStatus, Idle, Fresh
<1>6. ASSUME NEW e \in Rows(edition), NEW x, AskCreateChapter(p, e, x) PROVE StepSettles(p)
  BY <1>1, <1>6 DEF AskCreateChapter, Idle, Fresh
<1>7. ASSUME NEW e \in Rows(edition), NEW list \in Orders(Chapters(e)), AskReorder(p, e, list) PROVE StepSettles(p)
  <2> PICK u : u = [Idle EXCEPT !.op = "reorder", !.at = "write", !.edition = e, !.list = list]
    OBVIOUS
  <2>1. DOMAIN u = Fields /\ u.op = "reorder" /\ u.at = "write" /\ u.edition = e /\ u.list = list /\ u.parts = None /\ u.rows = None
    BY IdleShape DEF Fields
  <2>2. Ask(p, u)
    BY <1>7 DEF AskReorder
  <2>3. Chapters(e) \in SUBSET (DOMAIN chapter)
    BY DEF Chapters, Rows
  <2>4. /\ Cardinality(Chapters(e)) \in Nat /\ DOMAIN list = 1 .. Cardinality(Chapters(e)) /\ IsInjective(list)
        /\ list \in [1 .. Cardinality(Chapters(e)) -> Chapters(e)]
    BY <2>3, OrdersNumbered
  <2>5. ListKnown(u, chapter)
    BY <2>1, <2>4, OfEditionRows DEF ListKnown
  <2> QED
    BY <1>1, <2>1, <2>2, <2>5 DEF Fresh
<1>8. ASSUME NEW e \in Rows(edition), NEW list, AskReorderParts(p, e, list) PROVE StepSettles(p)
  BY <1>1, <1>8 DEF AskReorderParts, Idle, Fresh
<1>9. ASSUME NEW e \in Rows(edition), NEW staff, AskContents(p, e, staff) PROVE StepSettles(p)
  BY <1>1, <1>9 DEF AskContents, Idle, Fresh
<1>10. ASSUME NEW e \in Rows(edition), NEW c, NEW s, AskMark(p, e, c, s) PROVE StepSettles(p)
  BY <1>1, <1>10 DEF AskMark, Idle, Fresh
<1>11. ASSUME NEW c \in Rows(chapter), AskDeleteChapter(p, c) \/ AskStart(p, c) PROVE StepSettles(p)
  BY <1>1, <1>11 DEF AskDeleteChapter, AskStart, Idle, Fresh
<1>12. ASSUME NEW c \in Rows(chapter), NEW x, AskMove(p, c, x) PROVE StepSettles(p)
  BY <1>1, <1>12 DEF AskMove, Idle, Fresh
<1>13. ASSUME NEW c \in Rows(chapter), NEW n, AskCreateSection(p, c, n) PROVE StepSettles(p)
  BY <1>1, <1>13 DEF AskCreateSection, Idle, Fresh
<1>14. ASSUME NEW c \in Rows(chapter), NEW list, AskReorderSections(p, c, list) PROVE StepSettles(p)
  BY <1>1, <1>14 DEF AskReorderSections, Idle, Fresh
<1>15. ASSUME NEW x \in Rows(part), AskDeletePart(p, x) PROVE StepSettles(p)
  BY <1>1, <1>15 DEF AskDeletePart, Idle, Fresh
<1>16. ASSUME NEW s \in Rows(section), AskDeleteSection(p, s) PROVE StepSettles(p)
  BY <1>1, <1>16 DEF AskDeleteSection, Idle, Fresh
<1>17. ASSUME NEW s \in Rows(section), NEW n, AskMoveSection(p, s, n) PROVE StepSettles(p)
  BY <1>1, <1>17 DEF AskMoveSection, Idle, Fresh
<1> QED
  BY <1>2, <1>3, <1>4, <1>5, <1>6, <1>7, <1>8, <1>9, <1>10, <1>11, <1>12, <1>13, <1>14, <1>15, <1>16, <1>17 DEF Arrive

\* Nothing is relied on by the other requests.
LEMMA NothingRelied ==
  ASSUME NEW t, t.op \notin {"status"} \cup Planned \cup Sorting, NEW pt, NEW ch, NEW sc
  PROVE  Relied(t, pt, ch, sc)
BY DEF Relied, GoesLive, Planned

\* The tasks under way.
LEMMA TaskFields ==
  ASSUME Contents
  PROVE  DOMAIN task = Procs /\ \A q \in Procs : task[q] # None => DOMAIN task[q] = Fields
BY DEF Contents, TaskOK

\* A request ends without a write to the places, or with one the others are told of.
LEMMA EndSettles ==
  ASSUME Contents, NEW p \in Procs, (End(p) /\ UNCHANGED <<part, chapter, section>>) \/ Disturb(p, None)
  PROVE  StepSettles(p)
<1> PICK u : u = None
  OBVIOUS
<1>1. CASE End(p) /\ UNCHANGED <<part, chapter, section>>
  <2>1. PlacesKept /\ Proceed(p, u)
    BY <1>1, SameKeepsPlaces DEF End
  <2> QED
    BY <2>1, QuietSettles, TaskFields
<1>2. CASE Disturb(p, None)
  <2>1. Disturb(p, u)
    BY <1>2
  <2> QED
    BY <2>1, DisturbSettles, TaskFields
<1> QED
  BY <1>1, <1>2

\* A request that carries nothing goes on or ends.
LEMMA AsideSettles ==
  ASSUME Contents, NEW p \in Procs, task[p] # None, task[p].op \notin {"status"} \cup Planned \cup Sorting,
         NEW u, u # None => u.op = task[p].op, (Proceed(p, u) /\ UNCHANGED <<part, chapter, section>>) \/ Disturb(p, u)
  PROVE  StepSettles(p)
<1>1. u # None => Relied(u, part', chapter', section')
  BY NothingRelied
<1>2. CASE Proceed(p, u) /\ UNCHANGED <<part, chapter, section>>
  <2>1. PlacesKept
    BY <1>2, SameKeepsPlaces
  <2> QED
    BY <1>1, <1>2, <2>1, QuietSettles, TaskFields
<1>3. CASE Disturb(p, u)
  BY <1>1, <1>3, DisturbSettles, TaskFields
<1> QED
  BY <1>2, <1>3

\* Requests that neither plan an order nor sort sections, nor change a status.
LEMMA PlainSettle ==
  ASSUME Contents, NEW p \in Procs,
         \/ InsertEdition(p) \/ WriteStatus(p) \/ CountEditions(p) \/ Clean(p) \/ CleanDocuments(p) \/ Mark(p) \/ Answer(p)
         \/ InsertPart(p) \/ WriteSectionOrder(p) \/ DeleteSection(p) \/ DeleteChapter(p) \/ DeleteEdition(p) \/ ReadContents(p)
  PROVE  StepSettles(p)
<1>1. CASE InsertEdition(p) \/ WriteStatus(p) \/ CleanDocuments(p) \/ Mark(p) \/ Answer(p)
  <2>1. End(p) /\ UNCHANGED <<part, chapter, section>>
    BY <1>1 DEF InsertEdition, WriteStatus, CleanDocuments, Mark, Answer, Reads, contents
  <2> QED
    BY <2>1, EndSettles
<1>2. CASE InsertPart(p) \/ WriteSectionOrder(p) \/ DeleteSection(p)
  <2>1. (End(p) /\ UNCHANGED <<part, chapter, section>>) \/ Disturb(p, None)
    BY <1>2 DEF InsertPart, WriteSectionOrder, DeleteSection, contents
  <2> QED
    BY <2>1, EndSettles
<1>3. CASE CountEditions(p) \/ Clean(p)
  <2>1. task[p] # None /\ task[p].op \in {"removeEdition", "deleteChapter"} /\ UNCHANGED <<part, chapter, section>>
    BY <1>3 DEF CountEditions, Clean, At, Reads, contents
  <2>2. CASE End(p)
    BY <2>1, <2>2, EndSettles
  <2>3. CASE ~End(p)
    <3>1. PICK at : Goto(p, at)
      BY <1>3, <2>3 DEF CountEditions, Clean
    <3> PICK u : u = [task[p] EXCEPT !.at = at]
      OBVIOUS
    <3>2. u.op = task[p].op /\ Proceed(p, u)
      BY <2>1, <3>1, Moved, TaskFields DEF Goto
    <3> QED
      BY <2>1, <3>2, AsideSettles DEF Planned, Sorting
  <2> QED
    BY <2>2, <2>3
<1>4. CASE DeleteChapter(p) \/ DeleteEdition(p)
  <2>1. task[p] # None /\ task[p].op \in {"removeEdition", "deleteChapter"}
    BY <1>4 DEF DeleteChapter, DeleteEdition, At
  <2>2. CASE End(p) /\ UNCHANGED contents
    BY <2>2, EndSettles DEF contents
  <2>3. CASE ~(End(p) /\ UNCHANGED contents)
    <3>1. PICK todo : Disturb(p, [task[p] EXCEPT !.at = "clean", !.todo = todo])
      BY <1>4, <2>3 DEF DeleteChapter, DeleteEdition
    <3> PICK u : u = [task[p] EXCEPT !.at = "clean", !.todo = todo]
      OBVIOUS
    <3>2. u.op = task[p].op /\ Disturb(p, u)
      BY <2>1, <3>1, TaskFields DEF Fields
    <3> QED
      BY <2>1, <3>2, AsideSettles DEF Planned, Sorting
  <2> QED
    BY <2>2, <2>3
<1>5. CASE ReadContents(p)
  <2> PICK t : t = task[p]
    OBVIOUS
  <2>1. t # None /\ t.op = "contents" /\ UNCHANGED <<part, chapter, section>> /\ DOMAIN t = Fields
    BY <1>5, TaskFields DEF ReadContents, At, Reads, contents
  <2>2. PICK r : \/ Proceed(p, [t EXCEPT !.rows = r]) \/ Proceed(p, [t EXCEPT !.parts = r])
                 \/ Proceed(p, [t EXCEPT !.sections = r])
    BY <1>5 DEF ReadContents
  <2>3. ASSUME NEW u, u = [t EXCEPT !.rows = r] \/ u = [t EXCEPT !.parts = r] \/ u = [t EXCEPT !.sections = r]
        PROVE  u.op = t.op
    BY <2>1, <2>3 DEF Fields
  <2> PICK v : v = [t EXCEPT !.rows = r]
    OBVIOUS
  <2> PICK w : w = [t EXCEPT !.parts = r]
    OBVIOUS
  <2> PICK z : z = [t EXCEPT !.sections = r]
    OBVIOUS
  <2>4. v.op = t.op /\ w.op = t.op /\ z.op = t.op
    BY <2>3
  <2>5. Proceed(p, v) \/ Proceed(p, w) \/ Proceed(p, z)
    BY <2>2
  <2> QED
    BY <2>1, <2>4, <2>5, AsideSettles DEF Planned, Sorting
<1> QED
  BY <1>1, <1>2, <1>3, <1>4, <1>5

\* The count allows the status: a chapter is READY.
LEMMA AllowSettles ==
  ASSUME Contents, NEW p \in Procs, AllowStatus(p)
  PROVE  StepSettles(p)
<1> PICK t : t = task[p]
  OBVIOUS
<1>1. t # None /\ t.op = "status" /\ DOMAIN t = Fields /\ UNCHANGED <<part, chapter, section>>
  BY TaskFields DEF AllowStatus, At, Reads, contents
<1>2. CASE End(p)
  BY <1>1, <1>2, EndSettles
<1>3. CASE ~End(p)
  <2> PICK u : u = [t EXCEPT !.at = "write"]
    OBVIOUS
  <2>1. Proceed(p, u)
    BY <1>3 DEF AllowStatus, Goto
  <2>2. u.op = "status" /\ u.word = t.word /\ u.was = t.was /\ u.edition = t.edition
    BY <1>1, Moved
  <2>3. t.word = "PUBLISHED" /\ t.was # "PUBLISHED" => \E c \in Chapters(t.edition) : chapter[c].status = "READY"
    BY <1>3 DEF AllowStatus
  <2>4. GoesLive(u) => \E c \in OfEdition(chapter, u.edition) : chapter[c].status = "READY"
    BY <2>2, <2>3, OfEditionRows DEF GoesLive
  <2>5. Relied(u, part', chapter', section')
    BY <1>1, <2>2, <2>4 DEF Relied, Planned, Sorting
  <2>6. PlacesKept
    BY <1>1, SameKeepsPlaces
  <2> QED
    BY <2>1, <2>5, <2>6, QuietSettles, TaskFields
<1> QED
  BY <1>2, <1>3

\* What was read to plan an order is what is stored.
LEMMA PlansSettle ==
  ASSUME Contents, Settled, NEW p \in Procs, ReadParts(p) \/ ReadChapters(p)
  PROVE  StepSettles(p)
<1> PICK t : t = task[p]
  OBVIOUS
<1>1. t # None /\ t.op \in Planned /\ t.at = "plan" /\ DOMAIN t = Fields /\ UNCHANGED <<part, chapter, section>>
  BY TaskFields DEF ReadParts, ReadChapters, At, Reads, contents
<1>2. PlacesKept
  BY <1>1, SameKeepsPlaces
<1>3. t.alone => Relied(t, part, chapter, section)
  BY <1>1 DEF Settled
<1>4. ASSUME NEW u, Proceed(p, u), u.op = t.op, u.at = "plan", u.alone = t.alone, u.edition = t.edition, u.list = t.list,
             t.alone => PlanKnown(u, part, chapter)
      PROVE  StepSettles(p)
  <2>1. ASSUME u.alone PROVE Relied(u, part, chapter, section)
    <3>1. u.op = "reorder" => ListKnown(u, chapter)
      BY <1>1, <1>3, <1>4, <2>1 DEF Relied, ListKnown
    <3>2. ~GoesLive(u) /\ u.op \notin Sorting
      BY <1>1, <1>4 DEF GoesLive, Planned, Sorting
    <3> QED
      BY <1>4, <2>1, <3>1, <3>2 DEF Relied
  <2>2. u.alone => Relied(u, part', chapter', section')
    BY <1>1, <2>1
  <2> QED
    BY <1>2, <1>4, <2>2, QuietSettles, TaskFields
<1>5. CASE ReadParts(p)
  <2>r. PICK r : r = [x \in Parts(t.edition) |-> part[x]]
    OBVIOUS
  <2>u. PICK u : u = [t EXCEPT !.parts = r]
    OBVIOUS
  <2>1. Proceed(p, u)
    BY <1>5, <2>r, <2>u DEF ReadParts
  <2>2. /\ u.op = t.op /\ u.at = t.at /\ u.alone = t.alone /\ u.edition = t.edition /\ u.list = t.list
        /\ u.parts = r /\ u.rows = t.rows
    BY <1>1, <2>u DEF Fields
  <2>3. r = [x \in OfEdition(part, t.edition) |-> part[x]]
    BY <2>r, OfEditionRows
  <2>4. t.alone => PlanKnown(u, part, chapter)
    BY <1>1, <1>3, <2>2, <2>3 DEF Relied, PlanKnown
  <2> QED
    BY <1>1, <1>4, <2>1, <2>2, <2>4
<1>6. CASE ReadChapters(p)
  <2>r. PICK r : r = [c \in Chapters(t.edition) |-> chapter[c]]
    OBVIOUS
  <2>u. PICK u : u = [t EXCEPT !.rows = r]
    OBVIOUS
  <2>1. Proceed(p, u)
    BY <1>6, <2>r, <2>u DEF ReadChapters
  <2>2. /\ u.op = t.op /\ u.at = t.at /\ u.alone = t.alone /\ u.edition = t.edition /\ u.list = t.list
        /\ u.rows = r /\ u.parts = t.parts
    BY <1>1, <2>u DEF Fields
  <2>3. AsPlaced(r, chapter, t.edition)
    BY <2>r, OfEditionRows DEF AsPlaced
  <2>4. t.alone => PlanKnown(u, part, chapter)
    BY <1>1, <1>3, <2>2, <2>3 DEF Relied, PlanKnown
  <2> QED
    BY <1>1, <1>4, <2>1, <2>2, <2>4
<1> QED
  BY <1>5, <1>6

\* A change of the chapters or the parts that goes on to plan the order.
LEMMA RegroupSettles ==
  ASSUME Contents, Settled, NEW p \in Procs, task[p] # None, task[p].op \in Planned, task[p].at # "plan",
         Disturb(p, Regroup(p)),
         task[p].op = "reorder" => \A i \in DOMAIN task[p].list : /\ task[p].list[i] \in OfEdition(chapter', task[p].edition)
                                                                  /\ chapter'[task[p].list[i]].order = i
  PROVE  StepSettles(p)
<1> PICK t : t = task[p]
  OBVIOUS
<1>u. PICK u : u = [t EXCEPT !.at = "plan"]
  OBVIOUS
<1>1. Disturb(p, u)
  BY <1>u DEF Regroup
<1>2. /\ u.op = t.op /\ u.at = "plan" /\ u.alone = t.alone /\ u.edition = t.edition /\ u.list = t.list
      /\ u.parts = t.parts /\ u.rows = t.rows
  BY <1>u, Moved, TaskFields
<1>3. ASSUME u.alone PROVE Relied(u, part', chapter', section')
  <2>1. Relied(t, part, chapter, section)
    BY <1>2, <1>3 DEF Settled
  <2>2. PlanKnown(u, part', chapter')
    BY <1>2, <2>1 DEF Relied, PlanKnown
  <2>3. u.op = "reorder" => ListKnown(u, chapter')
    BY <1>2, <2>1 DEF Relied, ListKnown
  <2>4. ~GoesLive(u) /\ u.op \notin Sorting
    BY <1>2 DEF GoesLive, Planned, Sorting
  <2> QED
    BY <2>2, <2>3, <2>4 DEF Relied
<1> QED
  BY <1>1, <1>3, DisturbSettles, TaskFields

\* A place in a list that holds every id once.
LEMMA PlaceIn ==
  ASSUME NEW list, IsInjective(list), NEW i \in DOMAIN list
  PROVE  Place(list, list[i]) = i
BY DEF Place, IsInjective

\* The order a client sent has been written.
LEMMA OrderSettles ==
  ASSUME Contents, Settled, NEW p \in Procs, WriteOrder(p)
  PROVE  StepSettles(p)
<1> PICK t : t = task[p]
  OBVIOUS
<1> PICK list : list = t.list
  OBVIOUS
<1>1. t # None /\ t.op = "reorder" /\ t.at = "write" /\ DOMAIN t = Fields /\ UNCHANGED <<part, section>>
  BY TaskFields DEF WriteOrder, At
<1>2. CASE End(p) /\ UNCHANGED chapter
  BY <1>1, <1>2, EndSettles
<1>3. CASE ~(End(p) /\ UNCHANGED chapter)
  <2>1. chapter' = Renumbered(chapter, list) /\ Disturb(p, Regroup(p))
    BY <1>3 DEF WriteOrder
  <2>2. CASE ~t.alone
    <3>u. PICK u : u = [t EXCEPT !.at = "plan"]
      OBVIOUS
    <3>1. u.alone = t.alone /\ Disturb(p, u)
      BY <1>1, <2>1, <3>u, Moved DEF Regroup
    <3> QED
      BY <2>2, <3>1, DisturbSettles, TaskFields
  <2>3. CASE t.alone
    <3>1. ListKnown(t, chapter)
      BY <1>1, <2>3 DEF Settled, Relied
    <3>2. ASSUME NEW i \in DOMAIN list
          PROVE  list[i] \in OfEdition(chapter', t.edition) /\ chapter'[list[i]].order = i
      <4> PICK c : c = list[i]
        OBVIOUS
      <4>1. c \in DOMAIN chapter /\ chapter[c] # None /\ chapter[c].edition = t.edition /\ i \in Nat
        BY <3>1 DEF ListKnown, OfEdition, Rows
      <4>2. Place(list, c) = i
        BY <3>1, PlaceIn DEF ListKnown
      <4>3. chapter' = [d \in DOMAIN chapter |-> IF \E n \in DOMAIN list : list[n] = d
                                                  THEN [chapter[d] EXCEPT !.order = Place(list, d)] ELSE chapter[d]]
        BY <2>1 DEF Renumbered
      <4>4. c \in DOMAIN chapter' /\ chapter'[c] = [chapter[c] EXCEPT !.order = i]
        BY <4>1, <4>2, <4>3
      <4>5. chapter[c] \in Chapter
        BY <4>1, RowTypes DEF Rows
      <4>6. chapter'[c] \in Chapter /\ chapter'[c].edition = t.edition /\ chapter'[c].order = i
        BY <4>1, <4>4, <4>5 DEF Chapter
      <4>7. chapter'[c] # None
        BY <4>6, NoneIsNothing
      <4> QED
        BY <4>4, <4>6, <4>7 DEF OfEdition, Rows
    <3> QED
      BY <1>1, <2>1, <3>2, RegroupSettles DEF Planned
  <2> QED
    BY <2>2, <2>3
<1> QED
  BY <1>2, <1>3

\* Requests that plan an order, before they plan it and when they have written it.
LEMMA PlannedSettle ==
  ASSUME Contents, Settled, NEW p \in Procs,
         InsertChapter(p) \/ MoveChapter(p) \/ WritePartOrder(p) \/ DeletePart(p) \/ Renumber(p)
  PROVE  StepSettles(p)
<1>1. CASE (End(p) /\ UNCHANGED <<part, chapter, section>>) \/ Disturb(p, None)
  BY <1>1, EndSettles
<1>2. CASE Disturb(p, Regroup(p)) /\ ~Renumber(p)
  <2>1. task[p] # None /\ task[p].op \in Planned \ {"reorder"} /\ task[p].at # "plan"
    BY <1>2 DEF InsertChapter, MoveChapter, WritePartOrder, DeletePart, At, Planned
  <2> QED
    BY <1>2, <2>1, RegroupSettles
<1>3. CASE Renumber(p)
  BY <1>1, <1>3 DEF Renumber
<1> QED
  BY <1>1, <1>2, <1>3 DEF InsertChapter, MoveChapter, WritePartOrder, DeletePart

\* Sections are written, read in order to be sorted, and sorted.
LEMMA SortsSettle ==
  ASSUME Contents, NEW p \in Procs, InsertSection(p) \/ MoveSection(p) \/ ReadSections(p) \/ ResortSections(p)
  PROVE  StepSettles(p)
<1> PICK t : t = task[p]
  OBVIOUS
<1>1. t # None /\ t.op \in Sorting /\ DOMAIN t = Fields /\ UNCHANGED <<part, chapter>>
  BY TaskFields DEF InsertSection, MoveSection, ReadSections, ResortSections, At, Sorting, Reads, contents
<1>2. CASE (End(p) /\ UNCHANGED section) \/ Disturb(p, None)
  BY <1>1, <1>2, EndSettles
<1>3. CASE Disturb(p, [t EXCEPT !.at = "sort"])
  <2>u. PICK u : u = [t EXCEPT !.at = "sort"]
    OBVIOUS
  <2>1. u.op = t.op /\ u.at = "sort" /\ Disturb(p, u)
    BY <1>1, <1>3, <2>u, Moved
  <2>2. Relied(u, part', chapter', section')
    BY <1>1, <2>1 DEF Relied, GoesLive, Planned, Sorting
  <2> QED
    BY <2>1, <2>2, DisturbSettles, TaskFields
<1>4. CASE ReadSections(p)
  <2>r. PICK r : r = [s \in Sections(t.id) |-> section[s]]
    OBVIOUS
  <2>u. PICK u : u = [t EXCEPT !.at = "resort", !.sections = r]
    OBVIOUS
  <2>1. Proceed(p, u) /\ UNCHANGED <<part, chapter, section>>
    BY <1>4, <2>r, <2>u DEF ReadSections, Reads, contents
  <2>2. u.op = t.op /\ u.at = "resort" /\ u.id = t.id /\ u.sections = r
    BY <1>1, <2>u DEF Fields
  <2>3. r = [s \in OfChapter(section, t.id) |-> section[s]]
    BY <2>r, OfEditionRows
  <2>4. Relied(u, part', chapter', section')
    BY <1>1, <2>1, <2>2, <2>3 DEF Relied, GoesLive, Planned, Sorting
  <2>5. PlacesKept
    BY <2>1, SameKeepsPlaces
  <2> QED
    BY <2>1, <2>4, <2>5, QuietSettles, TaskFields
<1> QED
  BY <1>2, <1>3, <1>4 DEF InsertSection, MoveSection, ResortSections

\* Every step of an edit or of an answer.
LEMMA EditSettles ==
  ASSUME Contents, Settled, NEW p \in Procs, Edit(p)
  PROVE  StepSettles(p)
BY PlainSettle, AllowSettles, PlansSettle, OrderSettles, PlannedSettle, SortsSettle DEF Edit

\* A row that is patched stays in its place.
LEMMA PatchKeepsPlaces ==
  ASSUME Contents, NEW c \in DOMAIN chapter, chapter[c] # None, UNCHANGED <<part, section>>,
         NEW row \in Chapter, chapter' = [chapter EXCEPT ![c] = row],
         row.edition = chapter[c].edition, row.part = chapter[c].part, row.order = chapter[c].order,
         chapter[c].status = "READY" => row.status = "READY"
  PROVE  PlacesKept
<1>1. row # None
  BY NoneIsNothing
<1>2. DOMAIN chapter' = DOMAIN chapter /\ \A d \in DOMAIN chapter : chapter'[d] = IF d = c THEN row ELSE chapter[d]
  OBVIOUS
<1>3. Rows(chapter') = Rows(chapter)
  BY <1>1, <1>2 DEF Rows
<1> QED
  BY <1>2, <1>3 DEF PlacesKept, Rows

\* A step of a conversion that leaves the chapters in their places.
LEMMA RunSettles ==
  ASSUME Contents, NEW p \in Procs, task[p] # None, task[p].op \in {"start", "run"},
         NEW u, u # None => u.op \in {"start", "run"}, (Proceed(p, u) /\ PlacesKept) \/ Disturb(p, u)
  PROVE  StepSettles(p)
<1>1. u # None => Relied(u, part', chapter', section')
  BY NothingRelied DEF Planned, Sorting
<1> QED
  BY <1>1, QuietSettles, DisturbSettles, TaskFields

\* The steps of a conversion before its workers start and after they are back.
LEMMA StagesSettle ==
  ASSUME Contents, Converting, NEW p \in Procs,
         \/ Claim(p) \/ SizeUp(p) \/ Load(p) \/ MarkProcessing(p) \/ Fetch(p) \/ ReadDone(p) \/ Count(p) \/ Ready(p)
         \/ MarkFailed(p) \/ Release(p) \/ Leave(p)
  PROVE  StepSettles(p)
<1> PICK t : t = task[p]
  OBVIOUS
<1> PICK c : c = t.id
  OBVIOUS
<1>1. t # None /\ t.op \in {"start", "run"} /\ DOMAIN t = Fields /\ c \in DOMAIN chapter /\ UNCHANGED <<part, section>>
      /\ (chapter[c] # None => chapter[c] \in Chapter)
  <2>1. t # None /\ t.op \in {"start", "run"} /\ UNCHANGED <<part, section>>
    BY DEF Claim, SizeUp, Load, MarkProcessing, Fetch, ReadDone, Count, Ready, MarkFailed, Release, Leave, At, Reads, Keeps,
           contents
  <2> QED
    BY <2>1, RunKnown
<1>2. ASSUME End(p), UNCHANGED chapter PROVE StepSettles(p)
  BY <1>1, <1>2, EndSettles
<1>3. ASSUME NEW at, Goto(p, at), PlacesKept PROVE StepSettles(p)
  <2>u. PICK u : u = [t EXCEPT !.at = at]
    OBVIOUS
  <2>1. Proceed(p, u) /\ u.op = t.op
    BY <1>1, <1>3, <2>u, Moved DEF Goto
  <2> QED
    BY <1>1, <1>3, <2>1, RunSettles
<1>4. UNCHANGED chapter => PlacesKept
  BY <1>1, SameKeepsPlaces
<1>5. Fail(p) => StepSettles(p)
  BY <1>3, <1>4 DEF Fail
<1>6. CASE Claim(p) \/ Load(p) \/ Release(p) \/ Leave(p)
  <2>1. UNCHANGED chapter /\ (End(p) \/ \E at : Goto(p, at))
    BY <1>6 DEF Claim, Load, Fail, Release, Leave, Reads, contents
  <2> QED
    BY <1>2, <1>3, <1>4, <2>1
<1>7. CASE SizeUp(p)
  <2>u. PICK u : u = [t EXCEPT !.op = "run", !.at = "load"]
    OBVIOUS
  <2>1. UNCHANGED chapter /\ (End(p) \/ Proceed(p, u))
    BY <1>7, <2>u DEF SizeUp, contents
  <2>2. u.op = "run"
    BY <1>1, <2>u DEF Fields
  <2> QED
    BY <1>1, <1>2, <1>4, <2>1, <2>2, RunSettles
<1>8. CASE MarkProcessing(p)
  <2>u. PICK u : u = [t EXCEPT !.at = "fetch"]
    OBVIOUS
  <2>1. Fail(p) \/ Disturb(p, u)
    BY <1>8, <2>u DEF MarkProcessing
  <2>2. u.op = t.op
    BY <1>1, <2>u, Moved
  <2> QED
    BY <1>1, <1>5, <2>1, <2>2, RunSettles
<1>9. CASE Fetch(p)
  <2>u. PICK u : u = [t EXCEPT !.at = "done", !.seen = pdf[c]]
    OBVIOUS
  <2>1. Fail(p) \/ (Proceed(p, u) /\ UNCHANGED chapter)
    BY <1>9, <2>u DEF Fetch
  <2>2. u.op = t.op
    BY <1>1, <2>u DEF Fields
  <2> QED
    BY <1>1, <1>4, <1>5, <2>1, <2>2, RunSettles
<1>10. CASE ReadDone(p)
  <2>n. PICK done : done = Pages(c)
    OBVIOUS
  <2>u. PICK u : u = [t EXCEPT !.at = "count", !.done = done]
    OBVIOUS
  <2>1. Fail(p) \/ (Proceed(p, u) /\ UNCHANGED chapter)
    BY <1>10, <2>n, <2>u DEF ReadDone, Reads, contents
  <2>2. u.op = t.op
    BY <1>1, <2>u DEF Fields
  <2> QED
    BY <1>1, <1>4, <1>5, <2>1, <2>2, RunSettles
<1>11. CASE Count(p) /\ ~Fail(p)
  <2>n. PICK n : n = Cardinality(t.done)
    OBVIOUS
  <2>r. PICK row : row = [chapter[c] EXCEPT !.pageCount = t.seen, !.processed = n]
    OBVIOUS
  <2>1. /\ chapter[c] # None /\ chapter' = [chapter EXCEPT ![c] = row]
        /\ \E hands, todo : Proceed(p, [t EXCEPT !.at = "work", !.hands = hands, !.todo = todo])
    BY <1>11, <2>n, <2>r DEF Count, Patch
  <2>2. PICK hands, todo : Proceed(p, [t EXCEPT !.at = "work", !.hands = hands, !.todo = todo])
    BY <2>1
  <2>u. PICK u : u = [t EXCEPT !.at = "work", !.hands = hands, !.todo = todo]
    OBVIOUS
  <2>3. Proceed(p, u) /\ u.op = t.op
    BY <1>1, <2>2, <2>u DEF Fields
  <2>4. t.op = "run" /\ t.at = "count" /\ t.seen \in Nat /\ n \in Nat
    <3>1. t.op = "run" /\ t.at = "count" /\ Running(t, chapter, page, object, stranded)
      BY <1>1, <1>11, RunKnown DEF Count, At
    <3>2. t.seen \in Page /\ t.done \subseteq Page
      BY <3>1 DEF Running, Shaped
    <3>3. IsFiniteSet(Page) /\ Page \subseteq Nat
      BY PagesAreCounted, FS_Interval DEF Page
    <3>4. IsFiniteSet(t.done)
      BY <3>2, <3>3, FS_Subset
    <3> QED
      BY <2>n, <3>1, <3>2, <3>3, <3>4, FS_CardinalityType
  <2>5. /\ row \in Chapter /\ row.edition = chapter[c].edition /\ row.part = chapter[c].part /\ row.order = chapter[c].order
        /\ row.status = chapter[c].status
    <3>1. chapter[c] \in Chapter
      BY <1>1, <2>1
    <3>2. row \in Chapter
      BY <2>4, <2>r, <3>1 DEF Chapter
    <3> QED
      BY <2>r, <3>1, <3>2 DEF Chapter
  <2>6. PlacesKept
    BY <1>1, <2>1, <2>5, PatchKeepsPlaces
  <2> QED
    BY <1>1, <2>3, <2>6, RunSettles
<1>12. CASE Ready(p) /\ ~Fail(p)
  <2>r. PICK row : row = [chapter[c] EXCEPT !.status = "READY"]
    OBVIOUS
  <2>1. chapter[c] # None /\ chapter' = [chapter EXCEPT ![c] = row] /\ Goto(p, "over")
    BY <1>12, <2>r DEF Ready, Patch
  <2>5. /\ row \in Chapter /\ row.edition = chapter[c].edition /\ row.part = chapter[c].part /\ row.order = chapter[c].order
        /\ row.status = "READY"
    BY <1>1, <2>1, <2>r DEF Chapter
  <2>6. PlacesKept
    BY <1>1, <2>1, <2>5, PatchKeepsPlaces
  <2> QED
    BY <1>3, <2>1, <2>6
<1>13. CASE MarkFailed(p)
  <2>u. PICK u : u = [t EXCEPT !.at = "over"]
    OBVIOUS
  <2>1. (Goto(p, "over") /\ UNCHANGED chapter) \/ Disturb(p, u)
    BY <1>13, <2>u DEF MarkFailed
  <2>2. u.op = t.op
    BY <1>1, <2>u, Moved
  <2> QED
    BY <1>1, <1>3, <1>4, <2>1, <2>2, RunSettles
<1> QED
  BY <1>5, <1>6, <1>7, <1>8, <1>9, <1>10, <1>11, <1>12, <1>13

\* The steps of the workers.
LEMMA WorkersSettle ==
  ASSUME Contents, Converting, NEW p \in Procs, NEW h \in Hands,
         Render(p, h) \/ Upload(p, h) \/ InsertPage(p, h) \/ CountPage(p, h)
  PROVE  StepSettles(p)
<1> PICK t : t = task[p]
  OBVIOUS
<1> PICK c : c = t.id
  OBVIOUS
<1>a. PICK at : HandAt(p, h, at)
  BY DEF Render, Upload, InsertPage, CountPage
<1>1. t # None /\ t.op = "run" /\ DOMAIN t = Fields /\ c \in DOMAIN chapter /\ (chapter[c] # None => chapter[c] \in Chapter)
  BY <1>a, HandKnown
<1>2. UNCHANGED <<part, section>>
  BY DEF Render, Upload, InsertPage, CountPage, Reads, Keeps, contents
<1>3. PlacesKept
  <2>1. CASE UNCHANGED chapter
    BY <1>2, <2>1, SameKeepsPlaces
  <2>2. CASE ~UNCHANGED chapter
    <3>r. PICK row : row = [chapter[c] EXCEPT !.processed = @ + 1]
      OBVIOUS
    <3>1. chapter[c] # None /\ chapter' = [chapter EXCEPT ![c] = row]
      BY <2>2, <3>r DEF Render, Upload, InsertPage, CountPage, Reads, contents, Patch
    <3>2. chapter[c] \in Chapter
      BY <1>1, <3>1
    <3>3. row \in Chapter
      BY <3>2, <3>r DEF Chapter
    <3>4. /\ row.edition = chapter[c].edition /\ row.part = chapter[c].part /\ row.order = chapter[c].order
          /\ row.status = chapter[c].status
      BY <3>2, <3>3, <3>r DEF Chapter
    <3> QED
      BY <1>1, <1>2, <3>1, <3>3, <3>4, PatchKeepsPlaces
  <2> QED
    BY <2>1, <2>2
<1>4. ASSUME NEW s, NEW v, v = [t EXCEPT !.hands[h] = s] PROVE DOMAIN v = Fields /\ v.op = "run"
  BY <1>1, <1>4, Handed
<1>5. ASSUME NEW v, Proceed(p, v), v.op = "run" PROVE StepSettles(p)
  BY <1>1, <1>3, <1>5, RunSettles
<1>6. CASE \E s : Proceed(p, Hand(p, h, s))
  <2>1. PICK s : Proceed(p, [t EXCEPT !.hands[h] = s])
    BY <1>6 DEF Hand
  <2>v. PICK v : v = [t EXCEPT !.hands[h] = s]
    OBVIOUS
  <2> QED
    BY <1>4, <1>5, <2>1, <2>v
<1>7. CASE Throw(p, h)
  <2>v. PICK v : v = [t EXCEPT !.hands[h] = None]
    OBVIOUS
  <2>t. PICK to : to = IF v.at = "work" THEN "failed" ELSE v.at
    OBVIOUS
  <2>u. PICK u : u = [v EXCEPT !.at = to]
    OBVIOUS
  <2>1. Proceed(p, u)
    BY <1>7, <2>v, <2>t, <2>u DEF Throw, Hand
  <2>2. DOMAIN v = Fields /\ v.op = "run"
    BY <1>4, <2>v
  <2>3. u.op = "run"
    BY <2>2, <2>u, Moved
  <2> QED
    BY <1>5, <2>1, <2>3
<1>8. CASE \E s, n : Proceed(p, [Hand(p, h, s) EXCEPT !.todo = @ \ {n}])
  <2>1. PICK s, n : Proceed(p, [[t EXCEPT !.hands[h] = s] EXCEPT !.todo = @ \ {n}])
    BY <1>8 DEF Hand
  <2>v. PICK v : v = [t EXCEPT !.hands[h] = s]
    OBVIOUS
  <2>u. PICK u : u = [v EXCEPT !.todo = @ \ {n}]
    OBVIOUS
  <2>2. Proceed(p, u)
    BY <2>1, <2>v, <2>u
  <2>3. u.op = "run"
    BY <1>4, <2>v, <2>u DEF Fields
  <2> QED
    BY <1>5, <2>2, <2>3
<1>9. \/ Throw(p, h) \/ \E s : Proceed(p, Hand(p, h, s))
      \/ \E s, n : Proceed(p, [Hand(p, h, s) EXCEPT !.todo = @ \ {n}])
  BY DEF Render, Upload, InsertPage, CountPage
<1> QED
  BY <1>6, <1>7, <1>8, <1>9

\* Every step of a conversion.
LEMMA ConvertSettles ==
  ASSUME Contents, Converting, NEW p \in Procs, Convert(p)
  PROVE  StepSettles(p)
BY StagesSettle, WorkersSettle DEF Convert

\* What is relied on by a request alone is so, in every step.
THEOREM RelianceHolds == Spec => []Settled
<1>1. Init => Settled
  BY DEF Init, Settled
<1>2. Contents /\ Converting /\ Settled /\ [Next]_vars => Settled'
  <2> SUFFICES ASSUME Contents, Converting, Settled, [Next]_vars PROVE Settled'
    OBVIOUS
  <2>1. CASE \E p \in Procs : Arrive(p) \/ Edit(p) \/ Convert(p)
    BY <2>1, ArriveSettles, EditSettles, ConvertSettles, SettledKept
  <2>2. CASE \E c \in Rows(chapter), n \in 1 .. MaxPages : PutPdf(c, n)
    BY <2>2 DEF PutPdf, contents, Settled
  <2>3. CASE Restart
    BY <2>3 DEF Restart, Settled
  <2>4. CASE UNCHANGED vars
    BY <2>4 DEF vars, Settled
  <2> QED
    BY <2>1, <2>2, <2>3, <2>4 DEF Next
<1> QED
  BY <1>1, <1>2, BooksHold, PTL DEF Spec

-----------------------------------------------------------------------------
(* A change that no other write came between leaves the contents in order *)

\* Chapters that have their places for orders are in reading order: nothing is to be written.
LEMMA PlacedIsCanonical ==
  ASSUME NEW parts, ReadOf(parts, Part), NEW rows, ReadOf(rows, Chapter), NEW placed, ReadOf(placed, Chapter),
         DOMAIN placed = DOMAIN rows,
         \A c \in DOMAIN rows : placed[c].part = rows[c].part /\ placed[c].order = Number(parts, rows, c)
  PROVE  ReadingOrder(parts, placed) = <<>>
<1> DEFINE S == DOMAIN rows
           f == Places(InReading(parts, rows), S)
<1>1. IsFiniteSet(S) /\ LinesUp(InReading(parts, rows), S) /\ \A c \in S : Number(parts, rows, c) = f[c] /\ c \in Nat
  BY ChaptersLineUp DEF ReadOf
<1>2. \A c \in S : GroupOf(parts, placed, c) = GroupOf(parts, rows, c)
  BY DEF GroupOf, Unparted
<1>3. \A c \in S : f[c] \in Nat /\ GroupOf(parts, rows, c) \in Nat
  BY <1>1, PlacesType, ChaptersLineUp
<1>4. ASSUME NEW c \in S, NEW d \in S
      PROVE  <<c, d>> \in InReading(parts, placed) <=> <<c, d>> \in InReading(parts, rows)
  <2>1. <<c, d>> \in InReading(parts, rows) <=> f[c] < f[d]
    BY <1>1, PlacesRise
  <2>2. f[c] = f[d] => c = d
    BY <1>1, PlacesFilled
  <2>3. byPosition(placed[c], c, placed[d], d) <=> f[c] < f[d]
    BY <1>1, <1>3, <2>2 DEF byPosition
  <2>4. <<c, d>> \in InReading(parts, placed) <=>
           \/ GroupOf(parts, rows, c) < GroupOf(parts, rows, d)
           \/ GroupOf(parts, rows, c) = GroupOf(parts, rows, d) /\ f[c] < f[d]
    BY <1>2, <2>3 DEF InReading
  <2>5. <<c, d>> \in InReading(parts, rows) =>
           GroupOf(parts, rows, c) < GroupOf(parts, rows, d) \/ GroupOf(parts, rows, c) = GroupOf(parts, rows, d)
    BY DEF InReading
  <2>6. GroupOf(parts, rows, c) < GroupOf(parts, rows, d) => <<c, d>> \in InReading(parts, rows)
    BY DEF InReading
  <2> QED
    BY <2>1, <2>4, <2>5, <2>6
<1>5. InReading(parts, placed) = InReading(parts, rows)
  <2>1. InReading(parts, placed) \subseteq S \X S /\ InReading(parts, rows) \subseteq S \X S
    BY DEF InReading
  <2> HIDE DEF S
  <2> QED
    BY <1>4, <2>1
<1>6. /\ Listed(parts, placed) = S
      /\ \A c \in S : Number(parts, placed, c) = f[c]
  BY <1>5, ChaptersLineUp
<1>7. \A c \in S : placed[c].order = Number(parts, placed, c)
  BY <1>1, <1>6
<1> DEFINE number == [c \in Listed(parts, placed) |-> Number(parts, placed, c)]
<1>8. {c \in DOMAIN number : placed[c].order # number[c]} = {}
  BY <1>6, <1>7
<1>9. ReadingOrder(parts, placed) = [c \in {} |-> number[c]]
  BY <1>8 DEF ReadingOrder
<1>10. [c \in {} |-> number[c]] = <<>>
  <2> HIDE DEF number
  <2> QED
    OBVIOUS
<1> QED
  BY <1>9, <1>10

\* normalizeReadingOrder, run alone, leaves every chapter of the edition in its place.
LEMMA RenumberPlaces ==
  ASSUME Contents, Settled, NEW p \in Procs, Renumber(p), task[p].alone, NEW t, t = task[p]
  PROVE  /\ ReadOf(t.parts, Part) /\ ReadOf(t.rows, Chapter)
         /\ t.parts = [x \in Parts(t.edition) |-> part[x]] /\ DOMAIN t.rows = Chapters(t.edition)
         /\ Rows(chapter') = Rows(chapter) /\ UNCHANGED part
         /\ \A c \in Rows(chapter) : chapter'[c].edition = chapter[c].edition
         /\ \A c \in Chapters(t.edition) :
               /\ t.rows[c].part = chapter[c].part /\ t.rows[c].order = chapter[c].order
               /\ chapter'[c].part = chapter[c].part /\ chapter'[c].order = Number(t.parts, t.rows, c)
         /\ t.op = "reorder" => ListKnown(t, chapter) /\ t.at = "plan"
<1>1. t # None /\ t.op \in Planned /\ t.at = "plan" /\ t.parts # None /\ t.rows # None /\ UNCHANGED part
  BY DEF Renumber, At
<1>2. Relied(t, part, chapter, section)
  BY <1>1 DEF Settled
<1>3. ReadOf(t.parts, Part) /\ ReadOf(t.rows, Chapter)
  BY <1>1 DEF Contents, TaskOK, ReadOK
<1>4. /\ t.parts = [x \in Parts(t.edition) |-> part[x]] /\ DOMAIN t.rows = Chapters(t.edition)
      /\ \A c \in Chapters(t.edition) : t.rows[c].part = chapter[c].part /\ t.rows[c].order = chapter[c].order
      /\ t.op = "reorder" => ListKnown(t, chapter)
  BY <1>1, <1>2, OfEditionRows DEF Relied, PlanKnown, AsPlaced
<1> DEFINE N(c) == Number(t.parts, t.rows, c)
<1>o. PICK order : order = ReadingOrder(t.parts, t.rows)
  OBVIOUS
<1>5. /\ DOMAIN order = {c \in Chapters(t.edition) : chapter[c].order # N(c)}
      /\ \A c \in DOMAIN order : order[c] = N(c)
  <2>1. Listed(t.parts, t.rows) = Chapters(t.edition)
    BY <1>3, <1>4, ChaptersLineUp
  <2>2. DOMAIN order = {c \in Chapters(t.edition) : t.rows[c].order # N(c)} /\ \A c \in DOMAIN order : order[c] = N(c)
    BY <1>o, <2>1 DEF ReadingOrder
  <2> QED
    BY <1>4, <2>2
<1>6. ASSUME NEW c \in Chapters(t.edition) PROVE N(c) \in Nat
  <2>1. /\ IsFiniteSet(DOMAIN t.rows) /\ LinesUp(InReading(t.parts, t.rows), DOMAIN t.rows)
        /\ N(c) = Places(InReading(t.parts, t.rows), DOMAIN t.rows)[c]
    BY <1>3, <1>4, ChaptersLineUp DEF ReadOf
  <2> QED
    BY <1>4, <2>1, PlacesType
<1>7. Chapters(t.edition) \subseteq Rows(chapter)
  BY DEF Chapters
<1>8. CASE order = <<>>
  <2>1. chapter' = chapter
    BY <1>o, <1>8 DEF Renumber
  <2>2. DOMAIN order = {}
    BY <1>8
  <2> QED
    BY <1>1, <1>3, <1>4, <1>5, <2>1, <2>2
<1>9. CASE order # <<>>
  <2>1. chapter' = [c \in DOMAIN chapter |-> IF c \in DOMAIN order THEN [chapter[c] EXCEPT !.order = order[c]] ELSE chapter[c]]
    BY <1>o, <1>5, <1>7, <1>9 DEF Renumber
  <2>2. ASSUME NEW c \in Rows(chapter)
        PROVE  /\ chapter'[c] # None /\ chapter'[c].edition = chapter[c].edition /\ chapter'[c].part = chapter[c].part
               /\ c \in Chapters(t.edition) => chapter'[c].order = N(c)
    <3>0. chapter[c] \in Chapter /\ c \in DOMAIN chapter /\ chapter[c] # None
      BY RowTypes DEF Rows
    <3>1. CASE c \in DOMAIN order
      <4>1. chapter'[c] = [chapter[c] EXCEPT !.order = N(c)] /\ N(c) \in Nat
        BY <1>5, <1>6, <2>1, <3>0, <3>1
      <4>2. chapter'[c] \in Chapter /\ chapter'[c].edition = chapter[c].edition /\ chapter'[c].part = chapter[c].part
        BY <3>0, <4>1, RowsPatched
      <4>3. chapter'[c].order = N(c)
        BY <3>0, <4>1 DEF Chapter
      <4> QED
        BY <4>2, <4>3, NoneIsNothing
    <3>2. CASE c \notin DOMAIN order
      BY <1>5, <2>1, <3>0, <3>2
    <3> QED
      BY <3>1, <3>2
  <2>3. Rows(chapter') = Rows(chapter)
    <3>1. DOMAIN chapter' = DOMAIN chapter /\ \A c \in DOMAIN chapter : chapter[c] = None => chapter'[c] = None
      BY <1>5, <1>7, <2>1 DEF Rows
    <3> QED
      BY <2>2, <3>1 DEF Rows
  <2> QED
    BY <1>1, <1>3, <1>4, <1>7, <2>2, <2>3
<1> QED
  BY <1>8, <1>9

\* After it the stored order is canonical, and the order that was sent is kept within each group.
LEMMA RenumberSettles ==
  ASSUME Contents, Settled, NEW p \in Procs, Renumber(p), task[p].alone, NEW t, t = task[p]
  PROVE  Honoured(p) /\ Canonical(t.edition)'
<1>1. /\ ReadOf(t.parts, Part) /\ ReadOf(t.rows, Chapter)
      /\ t.parts = [x \in Parts(t.edition) |-> part[x]] /\ DOMAIN t.rows = Chapters(t.edition)
      /\ Rows(chapter') = Rows(chapter) /\ UNCHANGED part
      /\ \A c \in Rows(chapter) : chapter'[c].edition = chapter[c].edition
      /\ \A c \in Chapters(t.edition) :
            /\ t.rows[c].part = chapter[c].part /\ t.rows[c].order = chapter[c].order
            /\ chapter'[c].part = chapter[c].part /\ chapter'[c].order = Number(t.parts, t.rows, c)
      /\ t.op = "reorder" => ListKnown(t, chapter) /\ t.at = "plan"
  BY RenumberPlaces
<1>2. Chapters(t.edition)' = Chapters(t.edition) /\ Parts(t.edition)' = Parts(t.edition)
  BY <1>1 DEF Chapters, Parts
<1>3. Canonical(t.edition)'
  <2>p. PICK placed : placed = [c \in Chapters(t.edition) |-> chapter'[c]]
    OBVIOUS
  <2>1. \A c \in Chapters(t.edition) : chapter'[c] \in Chapter
    <3>1. StepKeeps(p)
      BY RenumberKeeps
    <3>2. Linked(edition', part', chapter', section')
      BY <3>1 DEF StepKeeps, TablesOK
    <3> QED
      BY <1>1, <3>2 DEF Linked, Chapters
  <2>2. ReadOf(placed, Chapter) /\ DOMAIN placed = DOMAIN t.rows
    BY <1>1, <2>p, <2>1 DEF ReadOf
  <2>3. \A c \in DOMAIN t.rows : placed[c].part = t.rows[c].part /\ placed[c].order = Number(t.parts, t.rows, c)
    BY <1>1, <2>p
  <2>4. ReadingOrder(t.parts, placed) = <<>>
    BY <1>1, <2>2, <2>3, PlacedIsCanonical
  <2>5. t.parts = [x \in Parts(t.edition)' |-> part'[x]] /\ placed = [c \in Chapters(t.edition)' |-> chapter'[c]]
    BY <1>1, <1>2, <2>p
  <2> QED
    BY <2>4, <2>5 DEF Canonical
<1>4. Honoured(p)
  <2> PICK list : list = t.list
    OBVIOUS
  <2> SUFFICES ASSUME t.op = "reorder", NEW i \in DOMAIN list, NEW j \in DOMAIN list, i < j,
                      chapter'[list[i]].part = chapter'[list[j]].part
               PROVE  chapter'[list[i]].order < chapter'[list[j]].order
    BY DEF Honoured
  <2>c. PICK c : c = list[i]
    OBVIOUS
  <2>d. PICK d : d = list[j]
    OBVIOUS
  <2>1. /\ c \in Chapters(t.edition) /\ d \in Chapters(t.edition)
        /\ chapter[c].order = i /\ chapter[d].order = j
    BY <1>1, <2>c, <2>d, OfEditionRows DEF ListKnown
  <2>2. t.rows[c].part = t.rows[d].part /\ t.rows[c].order < t.rows[d].order
    <3>1. /\ t.rows[c].part = chapter[c].part /\ t.rows[c].order = i /\ chapter'[c].part = chapter[c].part
          /\ t.rows[d].part = chapter[d].part /\ t.rows[d].order = j /\ chapter'[d].part = chapter[d].part
      BY <1>1, <2>1
    <3>2. chapter'[c].part = chapter'[d].part
      BY <2>c, <2>d
    <3> QED
      BY <3>1, <3>2
  <2>3. GroupOf(t.parts, t.rows, c) = GroupOf(t.parts, t.rows, d)
    BY <2>2 DEF GroupOf, Unparted
  <2>4. <<c, d>> \in InReading(t.parts, t.rows)
    BY <1>1, <2>1, <2>2, <2>3 DEF InReading, byPosition
  <2>5. /\ IsFiniteSet(DOMAIN t.rows) /\ LinesUp(InReading(t.parts, t.rows), DOMAIN t.rows)
        /\ Number(t.parts, t.rows, c) = Places(InReading(t.parts, t.rows), DOMAIN t.rows)[c]
        /\ Number(t.parts, t.rows, d) = Places(InReading(t.parts, t.rows), DOMAIN t.rows)[d]
    BY <1>1, <2>1, ChaptersLineUp DEF ReadOf
  <2>6. Number(t.parts, t.rows, c) < Number(t.parts, t.rows, d)
    BY <1>1, <2>1, <2>4, <2>5, PlacesRise
  <2> QED
    BY <1>1, <2>1, <2>6, <2>c, <2>d
<1> QED
  BY <1>3, <1>4

\* resortPdfSections, run alone, leaves the sections in page order.
LEMMA ResortSettles ==
  ASSUME Contents, Settled, NEW p \in Procs, ResortSections(p), task[p].alone, NEW t, t = task[p]
  PROVE  SortedByPage(t.id)'
<1>1. t # None /\ t.op \in Sorting /\ t.at = "resort"
  BY DEF ResortSections, At, Sorting
<1>2. t.sections = [s \in Sections(t.id) |-> section[s]]
  BY <1>1, OfEditionRows DEF Settled, Relied
<1>r. PICK read : read = t.sections
  OBVIOUS
<1>3. ReadOf(read, PagedSection) /\ DOMAIN read = Sections(t.id)
  BY <1>2, <1>r, ReadsAreRows
<1> DEFINE N(s) == SectionNumber(read, s)
           f == Places(InPages(read), DOMAIN read)
<1>4. /\ IsFiniteSet(DOMAIN read) /\ LinesUp(InPages(read), DOMAIN read)
      /\ \A s \in DOMAIN read : N(s) = f[s]
  BY <1>3, SectionsLineUp DEF ReadOf
<1>5. \A s \in DOMAIN read : N(s) \in Nat
  BY <1>4, PlacesType
<1> DEFINE moved == {s \in DOMAIN read : read[s].order # N(s)}
<1>6. Sections(t.id) \subseteq Rows(section) /\ moved \subseteq Rows(section)
  BY <1>3 DEF Sections
<1>7. ASSUME NEW s \in Rows(section)
      PROVE  /\ section'[s] # None /\ section'[s].chapter = section[s].chapter
             /\ s \in Sections(t.id) => section'[s].order = N(s) /\ section'[s].page = section[s].page
  <2>0. section[s] \in PagedSection /\ s \in DOMAIN section /\ section[s] # None
    BY RowTypes DEF Rows
  <2>1. CASE moved = {}
    <3>1. section' = section
      BY <1>r, <2>1 DEF ResortSections
    <3>2. s \in Sections(t.id) => section[s].order = N(s)
      BY <1>2, <1>3, <1>r, <2>1
    <3> QED
      BY <2>0, <3>1, <3>2
  <2>2. CASE moved # {}
    <3>1. section' = [r \in DOMAIN section |-> IF r \in moved THEN [section[r] EXCEPT !.order = N(r)] ELSE section[r]]
      BY <1>6, <1>r, <2>2 DEF ResortSections
    <3>2. CASE s \in moved
      <4>1. section'[s] = [section[s] EXCEPT !.order = N(s)] /\ N(s) \in Nat
        BY <1>5, <2>0, <3>1, <3>2
      <4>2. section'[s] \in PagedSection /\ section'[s].chapter = section[s].chapter
        BY <2>0, <4>1, RowsPatched
      <4>3. section'[s].order = N(s) /\ section'[s].page = section[s].page
        BY <2>0, <4>1 DEF PagedSection
      <4> QED
        BY <4>2, <4>3, RowsPatched
    <3>3. CASE s \notin moved
      <4>1. section'[s] = section[s]
        BY <2>0, <3>1, <3>3
      <4>2. s \in Sections(t.id) => section[s].order = N(s)
        BY <1>2, <1>3, <1>r, <3>3
      <4> QED
        BY <2>0, <4>1, <4>2
    <3> QED
      BY <3>2, <3>3
  <2> QED
    BY <2>1, <2>2
<1>8. Sections(t.id)' = Sections(t.id)
  <2>1. DOMAIN section' = DOMAIN section /\ \A s \in DOMAIN section : section[s] = None => section'[s] = None
    BY <1>6 DEF ResortSections, Rows
  <2>2. Rows(section') = Rows(section)
    BY <1>7, <2>1 DEF Rows
  <2> QED
    BY <1>7, <2>2 DEF Sections
<1>9. ASSUME NEW s \in Sections(t.id), NEW r \in Sections(t.id), PageOrZero(section'[s]) < PageOrZero(section'[r])
      PROVE  section'[s].order < section'[r].order
  <2>1. /\ section'[s].order = N(s) /\ section'[s].page = section[s].page
        /\ section'[r].order = N(r) /\ section'[r].page = section[r].page
    BY <1>6, <1>7
  <2>2. PageOrZero(read[s]) < PageOrZero(read[r])
    BY <1>2, <1>r, <1>9, <2>1 DEF PageOrZero
  <2>3. <<s, r>> \in InPages(read)
    BY <1>3, <2>2 DEF InPages, SectionBefore
  <2>4. f[s] < f[r]
    BY <1>3, <1>4, <2>3, PlacesRise
  <2> QED
    BY <1>3, <1>4, <2>1, <2>4
<1> QED
  BY <1>8, <1>9 DEF SortedByPage

\* Only the write of a status makes a language live, and it was allowed by a chapter that
\* can be read.
LEMMA LiveByStatus ==
  ASSUME Contents, Converting, Settled, [Next]_vars, NEW e \in Rows(edition), edition'[e] # None,
         edition[e].status # "PUBLISHED", edition'[e].status = "PUBLISHED"
  PROVE  \E p \in Procs : /\ At(p, "status", "write") /\ task'[p] = None
                          /\ task[p].alone /\ task[p].was # "PUBLISHED" => \E c \in Chapters(e) : type = "PDF" =>
                                chapter[c].pageCount > 0 /\ \A n \in 1 .. chapter[c].pageCount : <<c, n>> \in page
<1>0. e \in DOMAIN edition /\ edition[e] # None /\ e \in 1 .. Len(edition) /\ edition[e] \in Edition
  BY RowTypes, Ids DEF Rows
<1>1. edition' # edition
  OBVIOUS
<1>2. PICK p \in Procs : Arrive(p) \/ Edit(p) \/ Convert(p)
  BY <1>1 DEF Next, vars, PutPdf, Restart, contents
<1>3. ~Arrive(p)
  <2>1. Arrive(p) => \E t : Ask(p, t)
    BY DEF Arrive, AskAddEdition, AskRemoveEdition, AskCreatePart, AskStatus, AskCreateChapter, AskReorder, AskReorderParts,
           AskContents, AskMark, AskDeleteChapter, AskStart, AskMove, AskCreateSection, AskReorderSections, AskDeletePart,
           AskDeleteSection, AskMoveSection
  <2> QED
    BY <1>1, <2>1 DEF Ask, contents
<1>4. ~Convert(p)
  <2>1. \A h : ~(Render(p, h) \/ Upload(p, h) \/ InsertPage(p, h) \/ CountPage(p, h))
    BY <1>1 DEF Render, Upload, InsertPage, CountPage, Reads, Keeps, contents
  <2>2. ~(\/ Claim(p) \/ SizeUp(p) \/ Load(p) \/ MarkProcessing(p) \/ Fetch(p) \/ ReadDone(p) \/ Count(p) \/ Ready(p)
          \/ MarkFailed(p) \/ Release(p) \/ Leave(p))
    BY <1>1 DEF Claim, SizeUp, Load, MarkProcessing, Fetch, ReadDone, Count, Ready, MarkFailed, Release, Leave, Reads, Keeps,
                contents
  <2> QED
    BY <2>1, <2>2 DEF Convert
<1>5. ~(InsertEdition(p) \/ DeleteEdition(p))
  <2>1. InsertEdition(p) => edition'[e] = edition[e]
    <3>1. edition \in Seq(Edition \cup {None})
      BY DEF Contents, TablesOK
    <3> QED
      BY <1>0, <1>1, <3>1 DEF InsertEdition
  <2>2. DeleteEdition(p) => edition'[e] = None \/ edition'[e] = edition[e]
    BY <1>0, <1>1 DEF DeleteEdition, contents
  <2> QED
    BY <2>1, <2>2
<1>6. WriteStatus(p)
  <2>1. /\ ~AllowStatus(p) /\ ~CountEditions(p) /\ ~ReadParts(p) /\ ~ReadChapters(p) /\ ~Renumber(p) /\ ~InsertChapter(p)
        /\ ~MoveChapter(p) /\ ~DeleteChapter(p) /\ ~Clean(p) /\ ~CleanDocuments(p) /\ ~WriteOrder(p)
    BY <1>1 DEF AllowStatus, CountEditions, ReadParts, ReadChapters, Renumber, InsertChapter, MoveChapter, DeleteChapter,
                Clean, CleanDocuments, WriteOrder, Reads, contents
  <2>2. /\ ~InsertPart(p) /\ ~WritePartOrder(p) /\ ~DeletePart(p) /\ ~InsertSection(p) /\ ~MoveSection(p) /\ ~ReadSections(p)
        /\ ~ResortSections(p) /\ ~WriteSectionOrder(p) /\ ~DeleteSection(p) /\ ~Mark(p) /\ ~ReadContents(p) /\ ~Answer(p)
    BY <1>1 DEF InsertPart, WritePartOrder, DeletePart, InsertSection, MoveSection, ReadSections, ResortSections,
                WriteSectionOrder, DeleteSection, Mark, ReadContents, Answer, Reads, contents
  <2> QED
    BY <1>2, <1>3, <1>4, <1>5, <2>1, <2>2 DEF Edit
<1>7. At(p, "status", "write") /\ task'[p] = None
  BY <1>6, TaskFields DEF WriteStatus, End, Proceed
<1>8. task[p].edition = e /\ task[p].word = "PUBLISHED"
  <2> PICK x : x = task[p].edition
    OBVIOUS
  <2> PICK w : w = task[p].word
    OBVIOUS
  <2>1. edition[x] # None /\ edition' = [edition EXCEPT ![x].status = w, ![x].published = @ \/ w = "PUBLISHED"]
    BY <1>1, <1>6 DEF WriteStatus
  <2>2. x = e
    BY <1>0, <2>1
  <2>r. PICK row : row = [edition[e] EXCEPT !.status = w, !.published = @ \/ w = "PUBLISHED"]
    OBVIOUS
  <2>3. edition'[e] = row
    BY <1>0, <2>1, <2>2, <2>r
  <2>4. row.status = w
    BY <1>0, <2>r DEF Edition
  <2> QED
    BY <2>2, <2>3, <2>4
<1>9. ASSUME task[p].alone, task[p].was # "PUBLISHED"
      PROVE  \E c \in Chapters(e) : type = "PDF" =>
                chapter[c].pageCount > 0 /\ \A n \in 1 .. chapter[c].pageCount : <<c, n>> \in page
  <2>1. GoesLive(task[p]) /\ task[p] # None
    BY <1>7, <1>8, <1>9 DEF GoesLive, At
  <2>2. PICK c \in Chapters(e) : chapter[c].status = "READY"
    BY <1>8, <1>9, <2>1, OfEditionRows DEF Settled, Relied
  <2>3. c \in Rows(chapter)
    BY DEF Chapters
  <2> QED
    BY <2>2, <2>3 DEF Converting, Whole
<1> QED
  BY <1>7, <1>9

\* A change of chapters, parts or sections that no other write came between leaves the
\* stored order canonical, keeps the order that was sent and leaves the sections in page
\* order; a language that goes live by a request alone holds a chapter that can be read.
THEOREM OrderKept == Spec => ChangesKeepOrder
<1>1. Contents /\ Converting /\ Settled /\ [Next]_vars =>
        [\A p \in Procs :
            /\ Renumber(p) /\ task[p].alone => Honoured(p) /\ \A e \in DOMAIN edition : e = task[p].edition => Canonical(e)'
            /\ ResortSections(p) /\ task[p].alone => \A c \in DOMAIN chapter : c = task[p].id => SortedByPage(c)']_vars
  <2> SUFFICES ASSUME Contents, Settled, NEW p \in Procs
               PROVE  /\ Renumber(p) /\ task[p].alone =>
                            Honoured(p) /\ \A e \in DOMAIN edition : e = task[p].edition => Canonical(e)'
                      /\ ResortSections(p) /\ task[p].alone => \A c \in DOMAIN chapter : c = task[p].id => SortedByPage(c)'
    OBVIOUS
  <2>1. ASSUME Renumber(p), task[p].alone, NEW e \in DOMAIN edition, e = task[p].edition
        PROVE  Canonical(e)'
    <3> PICK t : t = task[p]
      OBVIOUS
    <3>1. Canonical(t.edition)'
      BY <2>1, RenumberSettles
    <3>2. t.edition = e
      BY <2>1
    <3> QED
      BY <3>1, <3>2
  <2>2. ASSUME Renumber(p), task[p].alone PROVE Honoured(p)
    BY <2>2, RenumberSettles
  <2>3. ASSUME ResortSections(p), task[p].alone, NEW c \in DOMAIN chapter, c = task[p].id
        PROVE  SortedByPage(c)'
    <3> PICK t : t = task[p]
      OBVIOUS
    <3>1. SortedByPage(t.id)'
      BY <2>3, ResortSettles
    <3>2. t.id = c
      BY <2>3
    <3> QED
      BY <3>1, <3>2
  <2> QED
    BY <2>1, <2>2, <2>3
<1>2. Contents /\ Converting /\ Settled /\ [Next]_vars =>
        [\A e \in Rows(edition) : edition'[e] # None /\ edition[e].status # "PUBLISHED" /\ edition'[e].status = "PUBLISHED" =>
           \E p \in Procs : /\ At(p, "status", "write") /\ task'[p] = None
                            /\ task[p].alone /\ task[p].was # "PUBLISHED" => \E c \in Chapters(e) : type = "PDF" =>
                                  chapter[c].pageCount > 0 /\ \A n \in 1 .. chapter[c].pageCount : <<c, n>> \in page]_vars
  BY LiveByStatus
<1> QED
  BY <1>1, <1>2, BooksHold, RelianceHolds, PTL DEF Spec, ChangesKeepOrder, SettlesAlone, LiveHasContent

=============================================================================
