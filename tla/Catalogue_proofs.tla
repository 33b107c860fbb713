-------------------------- MODULE Catalogue_proofs --------------------------
(***************************************************************************)
(* That the catalogue's rows stay well formed and that its answers are     *)
(* right, for any number of requests, titles, people, books, comments and  *)
(* tracks.  Tables is about the rows, Held about what a request carries    *)
(* and nobody can take from it, Relied about what it has read and what     *)
(* stays so while no other request writes.                                 *)
(***************************************************************************)
EXTENDS Catalogue, FiniteSetTheorems, TLAPS

-----------------------------------------------------------------------------
(* Places in an order *)

\* R puts S in a line.
LinesUp(R, S) ==
    /\ \A x \in S : <<x, x>> \notin R
    /\ \A x, y, z \in S : <<x, y>> \in R /\ <<y, z>> \in R => <<x, z>> \in R
    /\ \A x, y \in S : x # y => <<x, y>> \in R \/ <<y, x>> \in R
\* The place of each element, from 1.
Places(R, S) == [x \in S |-> 1 + Cardinality({y \in S : <<y, x>> \in R})]

\* Places are numbers up to the size of the set.
LEMMA PlacesType ==
  ASSUME NEW S, IsFiniteSet(S), NEW R, LinesUp(R, S)
  PROVE  Cardinality(S) \in Nat /\ Places(R, S) \in [S -> 1 .. Cardinality(S)]
<1>1. Cardinality(S) \in Nat
  BY FS_CardinalityType
<1>2. ASSUME NEW x \in S
      PROVE  1 + Cardinality({y \in S : <<y, x>> \in R}) \in 1 .. Cardinality(S)
  <2> DEFINE B == {y \in S : <<y, x>> \in R}
  <2>1. x \notin B
    BY <1>2 DEF LinesUp
  <2>2. B \in SUBSET S /\ B # S
    BY <2>1, <1>2
  <2>3. IsFiniteSet(B) /\ Cardinality(B) <= Cardinality(S) /\ Cardinality(B) # Cardinality(S)
    BY <2>2, FS_Subset
  <2>4. Cardinality(B) \in Nat
    BY <2>3, FS_CardinalityType
  <2> QED
    BY <1>1, <2>3, <2>4
<1> QED
  BY <1>1, <1>2 DEF Places

\* A step in the order is a step up in the places, and the other way round.
LEMMA PlacesRise ==
  ASSUME NEW S, IsFiniteSet(S), NEW R, LinesUp(R, S), NEW x \in S, NEW y \in S
  PROVE  <<x, y>> \in R <=> Places(R, S)[x] < Places(R, S)[y]
<1> DEFINE B(z) == {w \in S : <<w, z>> \in R}
<1>1. ASSUME NEW a \in S, NEW b \in S, <<a, b>> \in R
      PROVE  Places(R, S)[a] < Places(R, S)[b]
  <2>1. B(a) \in SUBSET B(b) /\ a \in B(b) /\ a \notin B(a)
    BY <1>1 DEF LinesUp
  <2>2. IsFiniteSet(B(b))
    <3>1. B(b) \in SUBSET S
      OBVIOUS
    <3> QED
      BY <3>1, FS_Subset
  <2>3. IsFiniteSet(B(a)) /\ Cardinality(B(a)) <= Cardinality(B(b)) /\ Cardinality(B(a)) # Cardinality(B(b))
    <3>1. B(a) # B(b)
      BY <2>1
    <3> HIDE DEF B
    <3> QED
      BY <2>1, <2>2, <3>1, FS_Subset
  <2>4. Cardinality(B(a)) \in Nat /\ Cardinality(B(b)) \in Nat
    BY <2>2, <2>3, FS_CardinalityType
  <2>5. Places(R, S)[a] = 1 + Cardinality(B(a)) /\ Places(R, S)[b] = 1 + Cardinality(B(b))
    BY DEF Places
  <2> QED
    BY <2>3, <2>4, <2>5
<1>2. Places(R, S)[x] \in Nat /\ Places(R, S)[y] \in Nat
  BY PlacesType
<1>3. CASE x = y
  BY <1>2, <1>3 DEF LinesUp
<1>4. CASE x # y
  <2>1. <<x, y>> \in R \/ <<y, x>> \in R
    BY <1>4 DEF LinesUp
  <2>2. ~(<<x, y>> \in R /\ <<y, x>> \in R)
    BY DEF LinesUp
  <2> QED
    BY <1>1, <1>2, <2>1, <2>2
<1> QED
  BY <1>3, <1>4

\* Every place up to the size of the set is taken, by one element.
LEMMA PlacesFilled ==
  ASSUME NEW S, IsFiniteSet(S), NEW R, LinesUp(R, S)
  PROVE  /\ \A x, y \in S : Places(R, S)[x] = Places(R, S)[y] => x = y
         /\ \A n \in 1 .. Cardinality(S) : \E x \in S : Places(R, S)[x] = n
<1> DEFINE f == Places(R, S)
           T == 1 .. Cardinality(S)
<1>1. Cardinality(S) \in Nat /\ f \in [S -> T]
  BY PlacesType
<1>2. ASSUME NEW x \in S, NEW y \in S, f[x] = f[y]
      PROVE  x = y
  <2>1. SUFFICES ASSUME x # y PROVE FALSE
    OBVIOUS
  <2>2. f[x] \in Nat /\ f[y] \in Nat
    BY <1>1
  <2>3. <<x, y>> \in R \/ <<y, x>> \in R
    BY <2>1 DEF LinesUp
  <2>4. f[x] < f[y] \/ f[y] < f[x]
    BY <2>3, PlacesRise
  <2> QED
    BY <1>2, <2>2, <2>4
<1>3. f \in Injection(S, T)
  <2>1. DOMAIN f = S
    BY <1>1
  <2>2. IsInjective(f)
    BY <1>2, <2>1 DEF IsInjective
  <2> QED
    BY <1>1, <2>2 DEF Injection
<1>4. IsFiniteSet(T) /\ Cardinality(T) = Cardinality(S)
  BY <1>1, FS_Interval
<1>5. f \in Surjection(S, T)
  <2> HIDE DEF f, T
  <2> QED
    BY <1>3, <1>4, FS_Injection
<1>6. \A n \in T : \E x \in S : f[x] = n
  <2> HIDE DEF f, T
  <2> QED
    BY <1>5 DEF Surjection
<1> QED
  BY <1>2, <1>6

LEMMA ListOf ==
  ASSUME NEW S, NEW n \in Nat, NEW f \in [1 .. n -> S]
  PROVE  f \in Seq(S) /\ Len(f) = n
BY DEF Seq

\* A list in order: at each place what has that place.
LEMMA InLine ==
  ASSUME NEW S, IsFiniteSet(S), NEW R, LinesUp(R, S), NEW f \in [1 .. Cardinality(S) -> S],
         \A i \in 1 .. Cardinality(S) : Places(R, S)[f[i]] = i
  PROVE  /\ f \in Seq(S) /\ Len(f) = Cardinality(S)
         /\ \A x \in S : Places(R, S)[x] \in DOMAIN f /\ f[Places(R, S)[x]] = x
<1>1. Cardinality(S) \in Nat /\ Places(R, S) \in [S -> 1 .. Cardinality(S)]
  BY PlacesType
<1>2. f \in Seq(S) /\ Len(f) = Cardinality(S)
  BY <1>1 DEF Seq
<1>3. ASSUME NEW x \in S
      PROVE  Places(R, S)[x] \in DOMAIN f /\ f[Places(R, S)[x]] = x
  <2>1. PICK i \in 1 .. Cardinality(S) : i = Places(R, S)[x]
    BY <1>1
  <2>2. f[i] \in S /\ Places(R, S)[f[i]] = Places(R, S)[x]
    BY <2>1
  <2>3. f[i] = x
    BY <2>2, PlacesFilled
  <2> QED
    BY <2>1, <2>3
<1> QED
  BY <1>2, <1>3

LEMMA PlaceTaken ==
  ASSUME NEW S, IsFiniteSet(S), NEW R, LinesUp(R, S), NEW n \in 1 .. Cardinality(S)
  PROVE  \E x \in S : Places(R, S)[x] = n
BY PlacesFilled

\* Numbers, the lowest or the highest first.
Rising(S) == {r \in S \X S : r[1] < r[2]}
Falling(S) == {r \in S \X S : r[1] > r[2]}
LEMMA NumbersLineUp ==
  ASSUME NEW S \in SUBSET Nat
  PROVE  LinesUp(Rising(S), S) /\ LinesUp(Falling(S), S)
BY DEF LinesUp, Rising, Falling

\* What Ranked makes of numbers, the lowest first.
LEMMA RankedRising ==
  ASSUME NEW S \in SUBSET Nat, IsFiniteSet(S), NEW f,
         f = [i \in 1 .. Cardinality(S) |-> CHOOSE x \in S : Cardinality({y \in S : y < x}) = i - 1]
  PROVE  /\ f \in [1 .. Cardinality(S) -> S] /\ \A i \in 1 .. Cardinality(S) : Places(Rising(S), S)[f[i]] = i
<1>1. LinesUp(Rising(S), S)
  BY NumbersLineUp
<1>2. Cardinality(S) \in Nat
  BY FS_CardinalityType
<1>3. ASSUME NEW i \in 1 .. Cardinality(S)
      PROVE  f[i] \in S /\ Places(Rising(S), S)[f[i]] = i
  <2>1. PICK x \in S : Places(Rising(S), S)[x] = i
    BY <1>1, PlaceTaken
  <2>2. \A z \in S : {y \in S : <<y, z>> \in Rising(S)} = {y \in S : y < z}
    BY DEF Rising
  <2>3. \A z \in S : Places(Rising(S), S)[z] = 1 + Cardinality({y \in S : y < z}) /\ Cardinality({y \in S : y < z}) \in Nat
    <3>1. \A z \in S : {y \in S : y < z} \in SUBSET S
      OBVIOUS
    <3>2. \A z \in S : Cardinality({y \in S : y < z}) \in Nat
      BY <3>1, FS_Subset, FS_CardinalityType
    <3> QED
      BY <2>2, <3>2 DEF Places
  <2>4. Cardinality({y \in S : y < x}) = i - 1
    BY <2>1, <2>3
  <2>5. f[i] \in S /\ Cardinality({y \in S : y < f[i]}) = i - 1
    <3>1. \E z \in S : Cardinality({y \in S : y < z}) = i - 1
      BY <2>4
    <3>2. f[i] = CHOOSE z \in S : Cardinality({y \in S : y < z}) = i - 1
      OBVIOUS
    <3> QED
      BY <3>1, <3>2, Zenon
  <2>6. Places(Rising(S), S)[f[i]] = 1 + Cardinality({y \in S : y < f[i]})
    BY <2>3, <2>5
  <2> QED
    BY <1>2, <2>5, <2>6
<1>4. f \in [1 .. Cardinality(S) -> S]
  BY <1>3
<1> QED
  BY <1>3, <1>4

LEMMA RankedFalling ==
  ASSUME NEW S \in SUBSET Nat, IsFiniteSet(S), NEW f,
         f = [i \in 1 .. Cardinality(S) |-> CHOOSE x \in S : Cardinality({y \in S : y > x}) = i - 1]
  PROVE  /\ f \in [1 .. Cardinality(S) -> S] /\ \A i \in 1 .. Cardinality(S) : Places(Falling(S), S)[f[i]] = i
<1>1. LinesUp(Falling(S), S)
  BY NumbersLineUp
<1>2. \A z \in S : Places(Falling(S), S)[z] = 1 + Cardinality({y \in S : y > z}) /\ Cardinality({y \in S : y > z}) \in Nat
  <2>1. \A z \in S : {y \in S : <<y, z>> \in Falling(S)} = {y \in S : y > z} /\ {y \in S : y > z} \in SUBSET S
    BY DEF Falling
  <2> QED
    BY <2>1, FS_Subset, FS_CardinalityType DEF Places
<1>3. ASSUME NEW i \in 1 .. Cardinality(S)
      PROVE  f[i] \in S /\ Places(Falling(S), S)[f[i]] = i
  <2>1. PICK x \in S : Places(Falling(S), S)[x] = i
    BY <1>1, PlaceTaken
  <2>2. \E z \in S : Cardinality({y \in S : y > z}) = i - 1
    BY <1>2, <2>1
  <2>3. f[i] = CHOOSE z \in S : Cardinality({y \in S : y > z}) = i - 1
    OBVIOUS
  <2>4. f[i] \in S /\ Cardinality({y \in S : y > f[i]}) = i - 1
    BY <2>2, <2>3, Zenon
  <2>5. Places(Falling(S), S)[f[i]] = 1 + (i - 1)
    BY <1>2, <2>4
  <2> QED
    BY <2>4, <2>5, FS_CardinalityType
<1>4. f \in [1 .. Cardinality(S) -> S]
  BY <1>3
<1> QED
  BY <1>3, <1>4

\* The part of a list that skip and take ask for.
LEMMA Sliced ==
  ASSUME NEW S, NEW f \in Seq(S), NEW skip \in Nat, NEW take \in Nat
  PROVE  /\ Slice(f, skip, take) \in Seq(S)
         /\ \A k : k \in DOMAIN Slice(f, skip, take) <=> k \in 1 .. take /\ skip + k <= Len(f)
         /\ \A k \in DOMAIN Slice(f, skip, take) : Slice(f, skip, take)[k] = f[skip + k]
<1> DEFINE m == IF skip + take < Len(f) THEN skip + take ELSE Len(f)
           g == [i \in 1 .. (1 + m - (skip + 1)) |-> f[i + (skip + 1) - 1]]
<1>1. Slice(f, skip, take) = g
  BY DEF Slice, SubSeq
<1>2. Len(f) \in Nat /\ DOMAIN f = 1 .. Len(f) /\ m \in Nat
  OBVIOUS
<1>3. DOMAIN g = {k \in 1 .. take : skip + k <= Len(f)}
  BY <1>2
<1>4. \A k \in DOMAIN g : g[k] = f[skip + k] /\ g[k] \in S
  BY <1>2
<1>5. g \in Seq(S)
  <2>1. CASE m < skip
    <3>1. g = [i \in 1 .. 0 |-> f[i + (skip + 1) - 1]]
      BY <1>2, <2>1
    <3> QED
      BY <3>1
  <2>2. CASE m >= skip
    <3>1. m - skip \in Nat /\ 1 + m - (skip + 1) = m - skip
      BY <1>2, <2>2
    <3>2. g \in [1 .. (m - skip) -> S]
      BY <1>4, <3>1
    <3> HIDE DEF g
    <3> QED
      BY <3>1, <3>2, ListOf
  <2> QED
    BY <1>2, <2>1, <2>2
<1> QED
  BY <1>1, <1>3, <1>4, <1>5

\* A table has finitely many ids, and so has any part of it.
LEMMA TableIds ==
  ASSUME NEW S, NEW table \in Seq(S)
  PROVE  /\ Len(table) \in Nat /\ DOMAIN table = 1 .. Len(table) /\ DOMAIN table \subseteq Nat
         /\ \A T \in SUBSET (DOMAIN table) : IsFiniteSet(T) /\ T \subseteq Nat
<1>1. Len(table) \in Nat /\ DOMAIN table = 1 .. Len(table)
  OBVIOUS
<1>2. IsFiniteSet(DOMAIN table)
  BY <1>1, FS_Interval
<1> QED
  BY <1>1, <1>2, FS_Subset

\* A table written row by row is a table with the same ids.
LEMMA TableWritten ==
  ASSUME NEW S, NEW T, NEW table \in Seq(S), NEW f \in [DOMAIN table -> T]
  PROVE  f \in Seq(T) /\ Len(f) = Len(table)
BY DEF Seq

\* A table with one row written.
LEMMA RowWritten ==
  ASSUME NEW S, NEW table \in Seq(S), NEW i, NEW r \in S
  PROVE  /\ [table EXCEPT ![i] = r] \in Seq(S) /\ Len([table EXCEPT ![i] = r]) = Len(table)
         /\ DOMAIN [table EXCEPT ![i] = r] = DOMAIN table
<1> DEFINE f == [table EXCEPT ![i] = r]
<1>1. \A j \in DOMAIN table : table[j] \in S
  OBVIOUS
<1>2. f \in [DOMAIN table -> S]
  BY <1>1
<1> HIDE DEF f
<1>3. f \in Seq(S) /\ Len(f) = Len(table) /\ DOMAIN f = DOMAIN table
  BY <1>2, TableWritten
<1> QED
  BY <1>3 DEF f

\* A row added.
LEMMA RowAdded ==
  ASSUME NEW S, NEW table \in Seq(S), NEW r \in S
  PROVE  /\ Append(table, r) \in Seq(S) /\ Len(Append(table, r)) = Len(table) + 1
         /\ DOMAIN Append(table, r) = (DOMAIN table) \cup {Len(table) + 1}
         /\ \A i \in DOMAIN table : Append(table, r)[i] = table[i]
         /\ Append(table, r)[Len(table) + 1] = r
OBVIOUS

-----------------------------------------------------------------------------
(* The tables *)

Typed ==
    /\ series \in Seq(Series \cup {None}) /\ movie \in Seq(Movie \cup {None}) /\ video \in Seq(Video \cup {None})
    /\ subtitle \in Seq(Subtitle \cup {None}) /\ named \in Seq(Named \cup {None}) /\ book \in Seq(Book \cup {None})
    /\ comment \in Seq(Comment \cup {None})
    /\ master \in Seq(Master \cup {None}) /\ Len(master) = Len(movie)
    /\ source \subseteq Nat \X Nat /\ requests \in Nat
Posted == \A m \in Rows(master) : Advertises(master[m], video, subtitle)
\* Filter values are kept with the times they were read at and expire.
Cached ==
    /\ clock \in Nat /\ DOMAIN facets = {"movie", "series"}
    /\ \A k \in DOMAIN facets : facets[k] # None =>
          facets[k].read \in Nat /\ facets[k].expires \in Nat /\ facets[k].expires <= facets[k].read + TTL
Tables == Typed /\ Related(series, movie, video, subtitle, named, book, comment) /\ Posted /\ Cached

-----------------------------------------------------------------------------
(* What a request holds *)

Fields == {"op", "at", "id", "arg", "row", "word", "query", "list", "first", "second", "total", "todo", "done", "rows",
           "text", "ok", "alone"}
Kinds == {"actor", "category", "bookCategory", "author"}
Faces == Pictures \cup {None}
Publishers == {"subtitle", "updateSubtitle", "setDefault", "removeSubtitle", "republish"}
By == [id : Nat, name : DOMAIN Lower]
Rendered == [id : Nat, label : Name, language : Name, default : BOOLEAN]

EditsMovie(t) ==
    /\ t.id \in DOMAIN movie /\ t.word \in {"duration", "status", "links", "pictures"}
    /\ t.word = "duration" => t.arg = 3
    /\ t.word = "status" => t.text \in Statuses
    /\ t.word = "pictures" => t.todo \subseteq Pictures
EditsSeries(t) ==
    /\ t.id \in DOMAIN series /\ t.word \in {"status", "pictures"}
    /\ t.word = "status" => t.text \in {"PUBLISHED", "UNPUBLISHED"}
    /\ t.word = "pictures" => t.todo \subseteq Pictures
Prefixes(ms) == {<<"videos", m>> : m \in ms} \cup {<<"sources", m>> : m \in ms}
ClearsShow(t) ==
    /\ t.id \in DOMAIN series /\ t.done \subseteq DOMAIN movie /\ t.todo \subseteq Prefixes(t.done)
    /\ t.at = "delete" => t.todo = Prefixes(t.done)
    /\ t.at \in {"pictures", "erase", "report"} => t.todo = {}
Renames(t) ==
    /\ t.id \in DOMAIN named /\ t.row \in Named /\ t.text \in DOMAIN Lower /\ t.arg \in Faces
    /\ named[t.id] # None => named[t.id].kind = t.row.kind
Credits(t) ==
    /\ t.id = None \/ t.id \in DOMAIN book
    /\ t.arg \in Faces
    /\ t.at \in {"find", "author", "again"} => t.text \in DOMAIN Lower
    /\ t.at = "write" => /\ t.first \in By \/ (t.first = None /\ t.id # None)
                         /\ t.first \in By => /\ t.first.id \in DOMAIN named
                                              /\ named[t.first.id] # None => named[t.first.id].kind = "author"
Says(t) ==
    /\ t.word \in {"movie", "series", "book"} /\ t.id \in Nat /\ t.text \in STRING
    /\ t.at = "insert" /\ t.arg # None =>
          /\ t.arg \in DOMAIN comment
          /\ comment[t.arg] # None =>
                comment[t.arg].parent = None /\ comment[t.arg].on = t.word /\ comment[t.arg].title = t.id
\* A track that was of video v when it was looked up; it may be gone by now.
OfVideo(x, v) == x \in DOMAIN subtitle /\ (subtitle[x] # None => subtitle[x].video = v)
Publishes(t) ==
    /\ t.row \in DOMAIN video /\ t.arg \in DOMAIN movie
    /\ IF video[t.row] = None THEN movie[t.arg] = None ELSE video[t.row].movie = t.arg
    /\ t.op = "subtitle" => t.id = None /\ t.text \in Subtitle /\ t.text.video = t.row
    /\ t.op \in {"updateSubtitle", "setDefault", "removeSubtitle"} => OfVideo(t.id, t.row)
    /\ t.op = "updateSubtitle" => t.text.label \in Name /\ t.text.default \in BOOLEAN
    /\ t.op = "removeSubtitle" /\ t.at # "delete" => subtitle[t.id] = None
    /\ t.at \in {"rows", "master", "each"} /\ video[t.row] # None => video[t.row].ready
    /\ t.at \in {"master", "each"} => /\ t.rows \in Seq([id : Nat, row : Subtitle])
                                      /\ \A i \in DOMAIN t.rows : /\ OfVideo(t.rows[i].id, t.row)
                                                                  /\ t.op = "removeSubtitle" => t.rows[i].id # t.id
    /\ t.at \notin {"each", "unpublish", "erase"} => t.list = <<>>
    /\ t.list \in Seq(Rendered)
    /\ \A i \in DOMAIN t.list : OfVideo(t.list[i].id, t.row) /\ (t.op = "removeSubtitle" => t.list[i].id # t.id)
Filters(t) == /\ t.word \in {"movie", "series"} /\ t.arg \in Nat /\ t.arg <= clock
              /\ t.at = "store" => t.row \in Nat /\ t.arg <= t.row
Browses(t) ==
    /\ t.query \in Queries
    /\ t.at \in {"count", "tiers"} <=> (t.at # "answer" /\ SortOf(t.query) = "relevance")
    /\ t.at \in {"scan", "refetch"} <=> (t.at # "answer" /\ SortOf(t.query) \in {"viewed", "bought"})
    /\ t.at \in {"list", "count", "tiers", "scan", "refetch", "answer"}
    /\ t.at = "count" => t.first = None /\ t.second = None

Held(t) ==
    /\ t.op = "placeholder" => t.word \in DOMAIN Lower /\ t.id \in DOMAIN series
    /\ t.op = "updateMovie" => EditsMovie(t)
    /\ t.op = "updateSeries" => EditsSeries(t)
    /\ t.op = "removeMovie" => t.id \in DOMAIN movie
    /\ t.op = "removeSeries" => ClearsShow(t)
    /\ t.op = "named" => t.word \in Kinds /\ t.text \in DOMAIN Lower /\ t.arg \in Faces
    /\ t.op = "rename" => Renames(t)
    /\ t.op = "removeNamed" => t.id \in DOMAIN named
    /\ t.op = "book" => Credits(t)
    /\ t.op = "comment" => Says(t)
    /\ t.op = "removeComment" => t.id \in DOMAIN comment
    /\ t.op = "moderate" => t.ok \in BOOLEAN
    /\ t.op \in Publishers => Publishes(t)
    /\ t.op = "facets" => Filters(t)
    /\ t.op = "list" => Browses(t)
    /\ t.op = "title" => t.list \in Seq(Nat)

-----------------------------------------------------------------------------
(* What a request that is alone relies on *)

\* What was reported cleared is clear, and the picture about to go is nobody's.
Cleared(t) ==
    /\ t.at # "delete" /\ t.ok => \A m \in t.done :
          /\ <<"videos", m>> \notin t.todo => master[m] = None /\ Under(m) = {}
          /\ <<"sources", m>> \notin t.todo => \A x \in source : x[1] # m
    /\ t.at = "erase" => ~StillReferenced(Head(t.list))
Credible(t) ==
    /\ t.at = "author" => Namesakes(t.text) = {}
    /\ t.at = "write" /\ t.first \in By => named[t.first.id] # None /\ named[t.first.id].name = t.first.name
Unnamed(t) ==
    movie[t.arg] # None /\ master[t.arg] # None => \A i \in DOMAIN master[t.arg].media : master[t.arg].media[i].id # t.id
Loads(t) ==
    /\ t.op = "subtitle" /\ t.at = "insert" /\ t.text.default => \A s \in Subtitles(t.row) : ~subtitle[s].default
    /\ t.op = "updateSubtitle" /\ t.at = "write" /\ t.text.default => \A s \in Subtitles(t.row) \ {t.id} : ~subtitle[s].default
    /\ t.at = "each" => t.first = master[t.arg] /\ \A i \in DOMAIN t.list : <<t.arg, t.list[i].id>> \in rendition
    /\ t.op = "removeSubtitle" /\ t.at = "publish" /\ (video[t.row] = None \/ ~video[t.row].ready) => Unnamed(t)
    /\ t.op = "removeSubtitle" /\ t.at = "unpublish" => Unnamed(t)
ShownTo(t) ==
    t.word = "USER" =>
        /\ t.at = "answer" => \A k \in DOMAIN t.list : /\ t.list[k] \in Rows(movie) /\ movie[t.list[k]].status = "PUBLISHED"
                                                       /\ movie[t.list[k]].series # None => series[movie[t.list[k]].series].status = "PUBLISHED"
        /\ t.at = "episodes" => t.id \in Rows(series) /\ series[t.id].status = "PUBLISHED"
        /\ t.at = "most" => \A k \in DOMAIN t.list : t.list[k] \in Rows(movie) /\ movie[t.list[k]].bought > 0
Offered(t) ==
    t.at = "store" => \A g \in t.done :
        IF t.word = "movie" THEN \E m \in Rows(movie) : Public(m) /\ movie[m].genre = g
        ELSE \E s \in Rows(series) : series[s].status = "PUBLISHED" /\ series[s].genre = g

\* A part of S in the order R: the places after skip, up to take of them.
CutOf(R, S, skip, take, list) ==
    /\ list \in Seq(S) /\ DOMAIN list = {k \in 1 .. take : skip + k <= Cardinality(S)}
    /\ \A k \in DOMAIN list : Places(R, S)[list[k]] = skip + k
\* The order of a list, and the two tiers it is read in.
Rank(q, i) == IF SortOf(q) = "relevance" THEN IF Titled(q, i) THEN 1 ELSE 0
              ELSE IF SortOf(q) \in {"viewed", "bought"} THEN Times(q, i) ELSE 0
Ahead(q) == {r \in Found(q) \X Found(q) : Rank(q, r[1]) > Rank(q, r[2]) \/ (Rank(q, r[1]) = Rank(q, r[2]) /\ r[1] > r[2])}
InTitle(q) == {i \in Matching(q) : Titled(q, i)}
InText(q) == {i \in Matching(q) : Described(q, i)}
Pages(t) ==
    LET q == t.query
        slice == TwoTierSlice(Offset(q), q.limit, t.row)
    IN  /\ t.at \in {"answer", "refetch"} => t.total = Cardinality(Found(q)) /\ CutOf(Ahead(q), Found(q), Offset(q), q.limit, t.list)
        /\ t.at = "tiers" =>
              /\ t.row = Cardinality(InTitle(q)) /\ t.total = Cardinality(InTitle(q)) + Cardinality(InText(q))
              /\ t.first # None => CutOf(Falling(InTitle(q)), InTitle(q), slice.skip1, slice.take1, t.first)
              /\ t.second # None => CutOf(Falling(InText(q)), InText(q), slice.skip2, slice.take2, t.second)

Relied(t) ==
    /\ t.op = "removeSeries" => Cleared(t)
    /\ t.op = "named" => Available(t.word, t.text, None)
    /\ t.op = "rename" /\ t.at = "write" => t.row = named[t.id] /\ Available(t.row.kind, t.text, t.id)
    /\ t.op = "book" => Credible(t)
    /\ t.op \in Publishers => Loads(t)
    /\ t.op = "title" => ShownTo(t)
    /\ t.op = "facets" => Offered(t)
    /\ t.op = "list" => Pages(t)

CatalogueInv ==
    /\ Tables /\ DOMAIN task = Procs
    /\ \A p \in Procs : task[p] # None => /\ DOMAIN task[p] = Fields /\ Held(task[p])
                                          /\ task[p].alone => Relied(task[p])

-----------------------------------------------------------------------------
(* What a step does to the rows it finds *)

\* Rows come and go; an id is not given again.
Lasts(T, U) == DOMAIN T \subseteq DOMAIN U /\ \A i \in DOMAIN T : T[i] = None => U[i] = None
VideosLast ==
    /\ Lasts(video, video')
    /\ \A v \in DOMAIN video : video[v] # None =>
          IF video'[v] = None THEN video[v].movie \in DOMAIN movie => movie'[video[v].movie] = None
          ELSE video'[v].movie = video[v].movie /\ video'[v].ready = video[v].ready
SubtitlesLast == Lasts(subtitle, subtitle') /\ \A s \in DOMAIN subtitle : subtitle'[s] # None => subtitle'[s].video = subtitle[s].video
NamedLast == Lasts(named, named') /\ \A i \in DOMAIN named : named'[i] # None => named'[i].kind = named[i].kind
CommentsLast ==
    /\ Lasts(comment, comment')
    /\ \A c \in DOMAIN comment : comment'[c] # None =>
          comment'[c].parent = comment[c].parent /\ comment'[c].on = comment[c].on /\ comment'[c].title = comment[c].title
World == /\ Lasts(series, series') /\ Lasts(movie, movie') /\ Lasts(book, book')
         /\ VideosLast /\ SubtitlesLast /\ NamedLast /\ CommentsLast
         /\ clock \in Nat /\ clock' \in Nat /\ clock <= clock'
\* Rows and objects are as they were.
Quiet == UNCHANGED <<titles, subtitle, people, store>>

\* The same request, alone or no longer.
Kept(t, s) ==
    /\ DOMAIN s = Fields /\ s.op = t.op /\ s.at = t.at /\ s.id = t.id /\ s.arg = t.arg /\ s.row = t.row /\ s.word = t.word
    /\ s.query = t.query /\ s.list = t.list /\ s.first = t.first /\ s.second = t.second /\ s.total = t.total
    /\ s.todo = t.todo /\ s.done = t.done /\ s.rows = t.rows /\ s.text = t.text /\ s.ok = t.ok
Stands(t) == DOMAIN t = Fields /\ Held(t) /\ (t.alone => Relied(t))
Steps(p) ==
    /\ Tables' /\ World /\ DOMAIN task' = Procs
    /\ \A q \in Procs \ {p} : task'[q] # None => /\ task[q] # None /\ Kept(task[q], task'[q])
                                                 /\ task'[q].alone => task'[q] = task[q] /\ Quiet
    /\ task'[p] # None => Stands(task[p])'

LEMMA SameLasts ==
  /\ series' = series => Lasts(series, series')
  /\ movie' = movie => Lasts(movie, movie')
  /\ book' = book => Lasts(book, book')
  /\ video' = video => VideosLast
  /\ subtitle' = subtitle => SubtitlesLast
  /\ named' = named => NamedLast
  /\ comment' = comment => CommentsLast
<1>1. series' = series => Lasts(series, series')
  BY DEF Lasts
<1>2. movie' = movie => Lasts(movie, movie')
  BY DEF Lasts
<1>3. book' = book => Lasts(book, book')
  BY DEF Lasts
<1>4. video' = video => VideosLast
  BY DEF VideosLast, Lasts
<1>5. subtitle' = subtitle => SubtitlesLast
  BY DEF SubtitlesLast, Lasts
<1>6. named' = named => NamedLast
  BY DEF NamedLast, Lasts
<1>7. comment' = comment => CommentsLast
  BY DEF CommentsLast, Lasts
<1> QED
  BY <1>1, <1>2, <1>3, <1>4, <1>5, <1>6, <1>7

-----------------------------------------------------------------------------
(* What is held stays, whatever others do *)

LEMMA PublishesStays ==
  ASSUME NEW t, NEW s, Publishes(t), Kept(t, s), World
  PROVE  Publishes(s)'
<1>1. \A x, v : OfVideo(x, v) => OfVideo(x, v)'
  BY DEF World, SubtitlesLast, Lasts, OfVideo
<1>2. /\ t.row \in DOMAIN video /\ t.row \in DOMAIN video' /\ t.arg \in DOMAIN movie /\ t.arg \in DOMAIN movie'
  BY DEF World, VideosLast, Lasts, Publishes
<1>3. /\ IF video[t.row] = None THEN movie[t.arg] = None ELSE video[t.row].movie = t.arg
      /\ video[t.row] = None => video'[t.row] = None
      /\ movie[t.arg] = None => movie'[t.arg] = None
      /\ video[t.row] # None => IF video'[t.row] = None THEN video[t.row].movie \in DOMAIN movie => movie'[video[t.row].movie] = None
                               ELSE video'[t.row].movie = video[t.row].movie /\ video'[t.row].ready = video[t.row].ready
  BY <1>2 DEF World, VideosLast, Lasts, Publishes
<1>4. /\ IF video'[t.row] = None THEN movie'[t.arg] = None ELSE video'[t.row].movie = t.arg
      /\ video'[t.row] # None => video[t.row] # None /\ video'[t.row].ready = video[t.row].ready
  BY <1>2, <1>3
<1>5. t.op = "removeSubtitle" /\ t.at # "delete" => subtitle'[t.id] = None
  <2>1. t.op = "removeSubtitle" /\ t.at # "delete" => t.id \in DOMAIN subtitle /\ subtitle[t.id] = None
    BY DEF Publishes, OfVideo
  <2> QED
    BY <2>1 DEF World, SubtitlesLast, Lasts
<1>6. t.op \in {"updateSubtitle", "setDefault", "removeSubtitle"} => OfVideo(t.id, t.row)'
  BY <1>1 DEF Publishes
<1>7. t.at \in {"master", "each"} => \A i \in DOMAIN t.rows : OfVideo(t.rows[i].id, t.row)' /\ (t.op = "removeSubtitle" => t.rows[i].id # t.id)
  BY <1>1 DEF Publishes
<1>8. \A i \in DOMAIN t.list : OfVideo(t.list[i].id, t.row)' /\ (t.op = "removeSubtitle" => t.list[i].id # t.id)
  BY <1>1 DEF Publishes
<1>9. /\ t.op = "subtitle" => t.id = None /\ t.text \in Subtitle /\ t.text.video = t.row
      /\ t.op = "updateSubtitle" => t.text.label \in Name /\ t.text.default \in BOOLEAN
      /\ t.at \in {"rows", "master", "each"} /\ video[t.row] # None => video[t.row].ready
      /\ t.at \in {"master", "each"} => t.rows \in Seq([id : Nat, row : Subtitle])
      /\ t.at \notin {"each", "unpublish", "erase"} => t.list = <<>>
      /\ t.list \in Seq(Rendered)
  BY DEF Publishes
<1>10. /\ s.op = t.op /\ s.at = t.at /\ s.id = t.id /\ s.arg = t.arg /\ s.row = t.row /\ s.list = t.list /\ s.rows = t.rows
       /\ s.text = t.text
  BY DEF Kept
<1> HIDE DEF Publishes, World, Kept
<1> QED
  BY <1>2, <1>4, <1>5, <1>6, <1>7, <1>8, <1>9, <1>10 DEF Publishes

LEMMA HeldStays ==
  ASSUME NEW t, NEW s, Held(t), Kept(t, s), World
  PROVE  Held(s)'
<1>1. /\ s.op = t.op /\ s.at = t.at /\ s.id = t.id /\ s.arg = t.arg /\ s.row = t.row /\ s.word = t.word /\ s.list = t.list
      /\ s.query = t.query /\ s.first = t.first /\ s.second = t.second /\ s.todo = t.todo /\ s.done = t.done
      /\ s.text = t.text /\ s.ok = t.ok
  BY DEF Kept
<1>2. /\ DOMAIN series \subseteq DOMAIN series' /\ DOMAIN movie \subseteq DOMAIN movie' /\ DOMAIN book \subseteq DOMAIN book'
      /\ DOMAIN named \subseteq DOMAIN named' /\ DOMAIN comment \subseteq DOMAIN comment'
  BY DEF World, Lasts, NamedLast, CommentsLast
<1>3. t.op = "placeholder" => s.word \in DOMAIN Lower /\ s.id \in DOMAIN series'
  BY <1>1, <1>2 DEF Held
<1>4. t.op = "updateMovie" => EditsMovie(s)'
  BY <1>1, <1>2 DEF Held, EditsMovie
<1>5. t.op = "updateSeries" => EditsSeries(s)'
  BY <1>1, <1>2 DEF Held, EditsSeries
<1>6. t.op = "removeSeries" => ClearsShow(s)'
  BY <1>1, <1>2 DEF Held, ClearsShow
<1>7. t.op = "rename" => Renames(s)'
  BY <1>1 DEF Held, Renames, World, NamedLast, Lasts
<1>8. t.op = "book" => Credits(s)'
  BY <1>1, <1>2 DEF Held, Credits, World, NamedLast, Lasts
<1>9. t.op = "comment" => Says(s)'
  BY <1>1 DEF Held, Says, World, CommentsLast, Lasts
<1>10. t.op \in Publishers => Publishes(s)'
  BY PublishesStays DEF Held
<1>11. t.op = "facets" => Filters(s)'
  <2>1. t.op = "facets" => t.arg \in Nat /\ t.arg <= clock
    BY DEF Held, Filters
  <2>2. clock \in Nat /\ clock' \in Nat /\ clock <= clock'
    BY DEF World
  <2> QED
    BY <1>1, <2>1, <2>2 DEF Held, Filters
<1>12. t.op = "list" => Browses(s)'
  BY <1>1 DEF Held, Browses
<1>13. /\ t.op = "removeMovie" => s.id \in DOMAIN movie'
       /\ t.op = "named" => s.word \in Kinds /\ s.text \in DOMAIN Lower /\ s.arg \in Faces
       /\ t.op = "removeNamed" => s.id \in DOMAIN named'
       /\ t.op = "removeComment" => s.id \in DOMAIN comment'
       /\ t.op = "moderate" => s.ok \in BOOLEAN
       /\ t.op = "title" => s.list \in Seq(Nat)
  BY <1>1, <1>2 DEF Held
<1> QED
  BY <1>1, <1>3, <1>4, <1>5, <1>6, <1>7, <1>8, <1>9, <1>10, <1>11, <1>12, <1>13 DEF Held

\* A query finds the same titles in the same order as long as no title is written.
LEMMA SameSight ==
  ASSUME NEW q, UNCHANGED titles
  PROVE  /\ Found(q)' = Found(q) /\ Ahead(q)' = Ahead(q) /\ InTitle(q)' = InTitle(q) /\ InText(q)' = InText(q)
         /\ SortOf(q)' = SortOf(q) /\ Offset(q)' = Offset(q)
<1>1. movie' = movie /\ series' = series
  BY DEF titles
<1>2. \A i : Titled(q, i)' = Titled(q, i) /\ Described(q, i)' = Described(q, i)
  BY <1>1 DEF Titled, Described
<1>3. /\ \A m : MovieMatches(q, m)' = MovieMatches(q, m)
      /\ \A s : SeriesMatches(q, s)' = SeriesMatches(q, s)
  BY <1>1 DEF MovieMatches, SeriesMatches, Public
<1>4. Matching(q)' = Matching(q)
  BY <1>1, <1>3 DEF Matching, Rows
<1>5. Found(q)' = Found(q) /\ InTitle(q)' = InTitle(q) /\ InText(q)' = InText(q)
  BY <1>2, <1>4 DEF Found, InTitle, InText
<1>6. SortOf(q)' = SortOf(q) /\ Offset(q)' = Offset(q)
  BY DEF SortOf, Offset
<1>7. \A i : Rank(q, i)' = Rank(q, i)
  BY <1>1, <1>2, <1>6 DEF Rank, Times
<1>8. Ahead(q)' = Ahead(q)
  BY <1>5, <1>7 DEF Ahead
<1> QED
  BY <1>5, <1>6, <1>8

\* What is relied on stays as long as nothing is written.
LEMMA ReliedStays ==
  ASSUME NEW t, Relied(t), Quiet
  PROVE  Relied(t)'
<1>1. t.op = "list" => Pages(t)'
  BY SameSight DEF Relied, Pages, Quiet
<1>2. /\ t.op = "removeSeries" => Cleared(t)'
      /\ t.op = "facets" => Offered(t)'
      /\ t.op = "title" => ShownTo(t)'
  BY DEF Relied, Cleared, ShownTo, Offered, Under, StillReferenced, Rows, Public, Quiet, titles, store
<1>3. /\ t.op = "named" => Available(t.word, t.text, None)'
      /\ t.op = "rename" /\ t.at = "write" => t.row = named'[t.id] /\ Available(t.row.kind, t.text, t.id)'
      /\ t.op = "book" => Credible(t)'
  BY DEF Relied, Credible, Namesakes, Kin, Rows, Available, Free, Quiet, people
<1>4. t.op \in Publishers => Loads(t)'
  BY DEF Relied, Loads, Unnamed, Rows, Subtitles, Quiet, titles, store
<1> QED
  BY <1>1, <1>2, <1>3, <1>4 DEF Relied

\* The request in progress, by its value.
LEMMA StandsAs ==
  ASSUME NEW p, NEW t, task'[p] = t, Stands(t)'
  PROVE  Stands(task[p])'
BY DEF Stands, Held, Relied, EditsMovie, EditsSeries, ClearsShow, Renames, Credits, Says, Publishes, Filters, Browses,
       Cleared, Credible, Loads, ShownTo, Offered, Unnamed, Available, Namesakes, Under, Subtitles, OfVideo

LEMMA StepKeeps ==
  ASSUME CatalogueInv, NEW p \in Procs, Steps(p)
  PROVE  CatalogueInv'
<1>1. ASSUME NEW q \in Procs, task'[q] # None
      PROVE  Stands(task[q])'
  <2>1. CASE q = p
    BY <1>1, <2>1 DEF Steps
  <2>2. CASE q # p
    <3>1. PICK t : t = task[q]
      OBVIOUS
    <3>2. PICK s : s = task'[q]
      OBVIOUS
    <3>0. \A r \in Procs \ {p} : task'[r] # None => /\ task[r] # None /\ Kept(task[r], task'[r])
                                                    /\ task'[r].alone => task'[r] = task[r] /\ Quiet
      BY DEF Steps
    <3>a. task[q] # None /\ Kept(task[q], task'[q]) /\ (task'[q].alone => task'[q] = task[q] /\ Quiet)
      <4>1. q \in Procs \ {p} /\ task'[q] # None
        BY <1>1, <2>2
      <4> QED
        BY <4>1, <3>0, Zenon
    <3>b. World
      BY DEF Steps
    <3>3. task[q] # None /\ Kept(t, s) /\ (s.alone => s = t /\ Quiet)
      BY <3>a, <3>1, <3>2
    <3>4. Held(t) /\ (t.alone => Relied(t))
      BY <3>1, <3>3 DEF CatalogueInv
    <3>5. Held(s)'
      BY <3>b, <3>3, <3>4, HeldStays
    <3>6. s.alone => Relied(s)'
      BY <3>3, <3>4, ReliedStays
    <3>7. DOMAIN s = Fields
      BY <3>3 DEF Kept
    <3>8. Stands(s)'
      BY <3>5, <3>6, <3>7 DEF Stands
    <3> QED
      BY <3>2, <3>8, StandsAs
  <2> QED
    BY <2>1, <2>2
<1>2. Tables' /\ DOMAIN task' = Procs
  BY DEF Steps
<1> QED
  BY <1>1, <1>2 DEF CatalogueInv, Stands

-----------------------------------------------------------------------------
(* The kinds of steps *)

LEMMA OthersKept ==
  ASSUME CatalogueInv
  PROVE  \A q \in Procs : task[q] # None => Kept(task[q], task[q])
BY DEF CatalogueInv, Kept

LEMMA QuietWorld ==
  ASSUME Tables, Quiet, UNCHANGED cache, requests' \in Nat
  PROVE  Tables' /\ World
<1>1. Tables'
  BY DEF Tables, Typed, Posted, Cached, Quiet, titles, people, store, cache
<1>2. World
  BY SameLasts DEF World, Quiet, titles, people, store, cache, Tables, Cached
<1> QED
  BY <1>1, <1>2

LEMMA QuietStands ==
  ASSUME NEW t, Stands(t), Quiet, UNCHANGED cache
  PROVE  Stands(t)'
<1>1. Relied(t) => Relied(t)'
  BY ReliedStays
<1>2. Held(t) => Held(t)'
  BY DEF Held, EditsMovie, EditsSeries, ClearsShow, Renames, Credits, Says, Publishes, Filters, Browses, OfVideo, Quiet, titles,
         people, store, cache
<1> QED
  BY <1>1, <1>2 DEF Stands

LEMMA AskKeeps ==
  ASSUME CatalogueInv, NEW p \in Procs, NEW t, Ask(p, t), Stands(t)
  PROVE  Steps(p)
<1>1. Quiet /\ UNCHANGED cache /\ task' = [task EXCEPT ![p] = t] /\ requests' = requests + 1
  BY DEF Ask, Proceed, Quiet
<1>2. Tables' /\ World
  BY <1>1, QuietWorld DEF CatalogueInv, Tables, Typed
<1>3. DOMAIN task' = Procs /\ task'[p] = t /\ \A q \in Procs \ {p} : task'[q] = task[q]
  BY <1>1 DEF CatalogueInv
<1>4. Stands(t)'
  BY <1>1, QuietStands
<1> QED
  BY <1>1, <1>2, <1>3, <1>4, StandsAs, OthersKept DEF Steps

\* A step that only reads.
LEMMA ReadKeeps ==
  ASSUME CatalogueInv, NEW p \in Procs, NEW t, Proceed(p, t), Reads, t # None => Stands(t)
  PROVE  Steps(p)
<1>1. Quiet /\ UNCHANGED cache /\ task' = [task EXCEPT ![p] = t] /\ requests' = requests
  BY DEF Proceed, Quiet, Reads, Goes
<1>2. Tables' /\ World
  BY <1>1, QuietWorld DEF CatalogueInv, Tables, Typed
<1>3. DOMAIN task' = Procs /\ task'[p] = t /\ \A q \in Procs \ {p} : task'[q] = task[q]
  BY <1>1 DEF CatalogueInv
<1>4. t # None => Stands(t)'
  BY <1>1, QuietStands
<1> QED
  BY <1>1, <1>2, <1>3, <1>4, StandsAs, OthersKept DEF Steps

LEMMA EndKeeps ==
  ASSUME CatalogueInv, NEW p \in Procs, End(p), Reads
  PROVE  Steps(p)
BY ReadKeeps DEF End

\* A step that writes.
LEMMA WriteKeeps ==
  ASSUME CatalogueInv, NEW p \in Procs, NEW t, Disturb(p, t), Tables', World, t # None => Stands(t)'
  PROVE  Steps(p)
<1>1. DOMAIN task' = Procs /\ task'[p] = t
  BY DEF Disturb
<1>2. ASSUME NEW q \in Procs \ {p}, task'[q] # None
      PROVE  task[q] # None /\ Kept(task[q], task'[q]) /\ ~task'[q].alone
  <2>1. task[q] # None /\ task'[q] = [task[q] EXCEPT !.alone = FALSE]
    BY <1>2 DEF Disturb
  <2>2. PICK t0 : t0 = task[q]
    OBVIOUS
  <2>3. DOMAIN t0 = Fields
    BY <2>1, <2>2 DEF CatalogueInv
  <2>4. PICK s0 : s0 = [t0 EXCEPT !.alone = FALSE]
    OBVIOUS
  <2>5. Kept(t0, s0) /\ ~s0.alone
    BY <2>3, <2>4 DEF Kept, Fields
  <2> QED
    BY <2>1, <2>2, <2>4, <2>5
<1>3. t # None => Stands(task[p])'
  BY <1>1, StandsAs
<1> QED
  BY <1>1, <1>2, <1>3 DEF Steps

-----------------------------------------------------------------------------
(* Requests come in *)

\* A request that holds nothing of its own.
Plain == {"stream", "backfill", "thread"}
LEMMA PlainStands ==
  ASSUME NEW t, DOMAIN t = Fields, t.op \in Plain
  PROVE  Stands(t)
BY DEF Stands, Held, Relied, Plain, Publishers

LEMMA AskListKeeps ==
  ASSUME CatalogueInv, NEW p \in Procs, NEW q \in Queries, AskList(p, q)
  PROVE  Steps(p)
<1>1. PICK t : t = [Idle EXCEPT !.op = "list", !.query = q,
                        !.at = CASE SortOf(q) = "relevance" -> "count" [] SortOf(q) \in {"viewed", "bought"} -> "scan"
                                 [] OTHER -> "list"]
  OBVIOUS
<1>2. /\ DOMAIN t = Fields /\ t.op = "list" /\ t.query = q /\ t.first = None /\ t.second = None
      /\ t.at = CASE SortOf(q) = "relevance" -> "count" [] SortOf(q) \in {"viewed", "bought"} -> "scan" [] OTHER -> "list"
  BY <1>1 DEF Idle, Fields
<1>3. Browses(t)
  BY <1>2 DEF Browses
<1>4. Pages(t)
  BY <1>2 DEF Pages
<1>5. Stands(t)
  BY <1>2, <1>3, <1>4 DEF Stands, Held, Relied, Publishers
<1> QED
  BY <1>1, <1>5, AskKeeps DEF AskList

LEMMA AskTitleKeeps ==
  ASSUME CatalogueInv, NEW p \in Procs, NEW m, NEW role, AskTitle(p, m, role)
  PROVE  Steps(p)
<1>1. PICK t : t = [Idle EXCEPT !.op = "title", !.at = "answer", !.word = role, !.list = <<m>>]
  OBVIOUS
<1>2. DOMAIN t = Fields /\ t.op = "title" /\ t.at = "answer" /\ t.word = role /\ t.list = <<m>>
  BY <1>1 DEF Idle, Fields
<1>3. m \in Rows(movie) /\ SeenBy(m, role)
  BY DEF AskTitle
<1>4. m \in Nat
  BY <1>3 DEF CatalogueInv, Tables, Typed, Rows
<1>5. t.list \in Seq(Nat) /\ DOMAIN t.list = {1} /\ t.list[1] = m
  BY <1>2, <1>4
<1>6. ShownTo(t)
  BY <1>2, <1>3, <1>5 DEF ShownTo, SeenBy
<1>7. Stands(t)
  BY <1>2, <1>5, <1>6 DEF Stands, Held, Relied, Publishers
<1> QED
  BY <1>1, <1>7, AskKeeps DEF AskTitle

LEMMA AskEpisodesKeeps ==
  ASSUME CatalogueInv, NEW p \in Procs, NEW s, NEW role, AskEpisodes(p, s, role)
  PROVE  Steps(p)
<1>1. PICK t : t = [Idle EXCEPT !.op = "title", !.at = "episodes", !.word = role, !.id = s]
  OBVIOUS
<1>2. DOMAIN t = Fields /\ t.op = "title" /\ t.at = "episodes" /\ t.word = role /\ t.id = s /\ t.list = <<>>
  BY <1>1 DEF Idle, Fields
<1>3. s \in Rows(series) /\ (role = "USER" => series[s].status = "PUBLISHED")
  BY DEF AskEpisodes
<1>4. ShownTo(t)
  BY <1>2, <1>3 DEF ShownTo
<1>5. t.list \in Seq(Nat)
  BY <1>2
<1>6. Stands(t)
  BY <1>2, <1>4, <1>5 DEF Stands, Held, Relied, Publishers
<1> QED
  BY <1>1, <1>6, AskKeeps DEF AskEpisodes

\* What Ranked makes of scores, the highest or the lowest first.
LEMMA ScoresLineUp ==
  ASSUME NEW S \in SUBSET Nat, NEW w \in [S -> Nat]
  PROVE  /\ LinesUp({r \in S \X S : w[r[1]] > w[r[2]] \/ (w[r[1]] = w[r[2]] /\ r[1] > r[2])}, S)
         /\ LinesUp({r \in S \X S : w[r[1]] > w[r[2]] \/ (w[r[1]] = w[r[2]] /\ r[1] < r[2])}, S)
BY DEF LinesUp

LEMMA RankedByPurchases ==
  ASSUME Tables, NEW S, S = {m \in Rows(movie) : movie[m].bought > 0}, NEW f,
         f = [i \in 1 .. Cardinality(S) |-> CHOOSE x \in S :
                Cardinality({y \in S : movie[y].bought > movie[x].bought \/ (movie[y].bought = movie[x].bought /\ y < x)}) = i - 1]
  PROVE  f \in [1 .. Cardinality(S) -> S] /\ Cardinality(S) \in Nat
<1> DEFINE w == [m \in S |-> movie[m].bought]
           B(x) == {y \in S : movie[y].bought > movie[x].bought \/ (movie[y].bought = movie[x].bought /\ y < x)}
           R == {r \in S \X S : w[r[1]] > w[r[2]] \/ (w[r[1]] = w[r[2]] /\ r[1] < r[2])}
<1>1. S \in SUBSET Nat /\ IsFiniteSet(S) /\ Cardinality(S) \in Nat
  <2>1. movie \in Seq(Movie \cup {None}) /\ S \in SUBSET (DOMAIN movie)
    BY DEF Tables, Typed, Rows
  <2>2. IsFiniteSet(S) /\ S \subseteq Nat
    BY <2>1, TableIds
  <2> QED
    BY <2>2, FS_CardinalityType
<1>2. \A m \in S : movie[m].bought \in Nat
  BY DEF Tables, Typed, Rows, Movie
<1>3. LinesUp(R, S)
  <2>1. w \in [S -> Nat]
    BY <1>2
  <2> HIDE DEF w
  <2> QED
    BY <1>1, <2>1, ScoresLineUp
<1>4. \A x \in S : Places(R, S)[x] = 1 + Cardinality(B(x)) /\ Cardinality(B(x)) \in Nat
  <2>1. \A x \in S : {y \in S : <<y, x>> \in R} = B(x) /\ B(x) \in SUBSET S
    OBVIOUS
  <2> HIDE DEF B, R
  <2> QED
    BY <1>1, <2>1, FS_Subset, FS_CardinalityType DEF Places
<1> HIDE DEF R
<1>5. \A n \in 1 .. Cardinality(S) : \E x \in S : Places(R, S)[x] = n
  BY ONLY <1>1, <1>3, PlaceTaken
<1>6. ASSUME NEW i \in 1 .. Cardinality(S)
      PROVE  f[i] \in S
  <2>1. PICK x \in S : Places(R, S)[x] = i
    BY <1>5
  <2>2. \E z \in S : Cardinality(B(z)) = i - 1
    <3> HIDE DEF B
    <3>1. i = 1 + Cardinality(B(x)) /\ Cardinality(B(x)) \in Nat
      BY <1>4, <2>1
    <3>2. Cardinality(B(x)) = i - 1
      BY <3>1
    <3> QED
      BY <3>2
  <2>3. f[i] = CHOOSE z \in S : Cardinality(B(z)) = i - 1
    OBVIOUS
  <2> QED
    BY <2>2, <2>3, Zenon
<1> QED
  BY <1>1, <1>6

LEMMA AskMostPurchasedKeeps ==
  ASSUME CatalogueInv, NEW p \in Procs, NEW limit \in Nat, AskMostPurchased(p, limit)
  PROVE  Steps(p)
<1> DEFINE S == {m \in Rows(movie) : movie[m].bought > 0}
           f == [i \in 1 .. Cardinality(S) |-> CHOOSE x \in S :
                  Cardinality({y \in S : movie[y].bought > movie[x].bought \/ (movie[y].bought = movie[x].bought /\ y < x)}) = i - 1]
<1>1. PICK t : t = [Idle EXCEPT !.op = "title", !.at = "most", !.word = "USER", !.list = Slice(f, 0, limit)]
  OBVIOUS
<1>2. Ask(p, t)
  BY <1>1 DEF AskMostPurchased, Ranked
<1>3. DOMAIN t = Fields /\ t.op = "title" /\ t.at = "most" /\ t.word = "USER" /\ t.list = Slice(f, 0, limit)
  BY <1>1 DEF Idle, Fields
<1>4. f \in [1 .. Cardinality(S) -> S] /\ Cardinality(S) \in Nat
  BY RankedByPurchases DEF CatalogueInv
<1>5. S \subseteq Nat
  BY DEF CatalogueInv, Tables, Typed, Rows
<1> HIDE DEF f, S
<1>6. t.list \in Seq(S)
  <2>1. f \in Seq(S)
    BY <1>4, ListOf
  <2>2. 0 \in Nat
    OBVIOUS
  <2>3. Slice(f, 0, limit) \in Seq(S)
    BY ONLY <2>1, <2>2, limit \in Nat, Sliced
  <2> QED
    BY <1>3, <2>3
<1> USE DEF S
<1>7. t.list \in Seq(Nat) /\ \A k \in DOMAIN t.list : t.list[k] \in Rows(movie) /\ movie[t.list[k]].bought > 0
  BY <1>5, <1>6
<1>8. ShownTo(t)
  BY <1>3, <1>7 DEF ShownTo
<1>9. Stands(t)
  BY <1>3, <1>7, <1>8 DEF Stands, Held, Relied, Publishers
<1> QED
  BY <1>2, <1>9, AskKeeps

LEMMA AskStreamKeeps ==
  ASSUME CatalogueInv, NEW p \in Procs, NEW m, NEW role, NEW subscribed, AskStream(p, m, role, subscribed)
  PROVE  Steps(p)
<1>1. PICK t : t = [Idle EXCEPT !.op = "stream", !.at = "video", !.id = m]
  OBVIOUS
<1>2. DOMAIN t = Fields /\ t.op \in Plain
  BY <1>1 DEF Idle, Fields, Plain
<1> QED
  BY <1>1, <1>2, PlainStands, AskKeeps DEF AskStream

LEMMA AskFacetsKeeps ==
  ASSUME CatalogueInv, NEW p \in Procs, NEW k \in {"movie", "series"}, AskFacets(p, k)
  PROVE  Steps(p)
<1> DEFINE fresh == facets[k] # None /\ facets[k].expires > clock
<1>1. PICK t : t = [Idle EXCEPT !.op = "facets", !.word = k, !.arg = clock, !.at = IF fresh THEN "answer" ELSE "query",
                            !.done = IF fresh THEN facets[k].genres ELSE {}]
  OBVIOUS
<1>2. DOMAIN t = Fields /\ t.op = "facets" /\ t.word = k /\ t.arg = clock /\ t.at \in {"answer", "query"}
  BY <1>1 DEF Idle, Fields
<1>3. Filters(t) /\ Offered(t)
  BY <1>2 DEF Filters, Offered, CatalogueInv, Tables, Cached
<1>4. Stands(t)
  BY <1>2, <1>3 DEF Stands, Held, Relied, Publishers
<1> QED
  BY <1>1, <1>4, AskKeeps DEF AskFacets

LEMMA AskPlaceholderKeeps ==
  ASSUME CatalogueInv, NEW p \in Procs, NEW s, AskPlaceholder(p, s)
  PROVE  Steps(p)
<1>1. PICK t : t = [Idle EXCEPT !.op = "placeholder", !.at = "insert", !.id = s, !.word = series[s].genre]
  OBVIOUS
<1>2. DOMAIN t = Fields /\ t.op = "placeholder" /\ t.id = s /\ t.word = series[s].genre
  BY <1>1 DEF Idle, Fields
<1>3. s \in DOMAIN series /\ series[s] \in Series
  BY DEF AskPlaceholder, Rows, CatalogueInv, Tables, Typed
<1>4. t.word \in DOMAIN Lower /\ t.id \in DOMAIN series
  BY <1>2, <1>3 DEF Series
<1>5. Stands(t)
  BY <1>2, <1>4 DEF Stands, Held, Relied, Publishers
<1> QED
  BY <1>1, <1>5, AskKeeps DEF AskPlaceholder

LEMMA AskRemoveMovieKeeps ==
  ASSUME CatalogueInv, NEW p \in Procs, NEW m, AskRemoveMovie(p, m)
  PROVE  Steps(p)
<1>1. PICK t : t = [Idle EXCEPT !.op = "removeMovie", !.at = "delete", !.id = m, !.todo = movie[m].pictures]
  OBVIOUS
<1>2. DOMAIN t = Fields /\ t.op = "removeMovie" /\ t.id = m
  BY <1>1 DEF Idle, Fields
<1>3. t.id \in DOMAIN movie
  BY <1>2 DEF AskRemoveMovie, Rows
<1>4. Stands(t)
  BY <1>2, <1>3 DEF Stands, Held, Relied, Publishers
<1> QED
  BY <1>1, <1>4, AskKeeps DEF AskRemoveMovie

LEMMA AskUpdateMovieKeeps ==
  ASSUME CatalogueInv, NEW p \in Procs, NEW m, NEW field \in {"duration", "status", "links", "pictures"}, NEW value,
         AskUpdateMovie(p, m, field, value),
         field = "duration" => value = 3, field = "status" => value \in Statuses, field = "pictures" => value \in SUBSET Pictures
  PROVE  Steps(p)
<1>1. PICK t : t = [Idle EXCEPT !.op = "updateMovie", !.at = "write", !.id = m, !.word = field,
                           !.arg = IF field = "duration" THEN value ELSE None, !.text = IF field = "status" THEN value ELSE None,
                           !.todo = IF field \in {"pictures", "links"} THEN value ELSE {}]
  OBVIOUS
<1>2. /\ DOMAIN t = Fields /\ t.op = "updateMovie" /\ t.id = m /\ t.word = field
      /\ t.arg = IF field = "duration" THEN value ELSE None
      /\ t.text = IF field = "status" THEN value ELSE None
      /\ t.todo = IF field \in {"pictures", "links"} THEN value ELSE {}
  BY <1>1 DEF Idle, Fields
<1>3. EditsMovie(t)
  BY <1>2 DEF EditsMovie, AskUpdateMovie, Rows
<1>4. Stands(t)
  BY <1>2, <1>3 DEF Stands, Held, Relied, Publishers
<1> QED
  BY <1>1, <1>4, AskKeeps DEF AskUpdateMovie

LEMMA AskUpdateSeriesKeeps ==
  ASSUME CatalogueInv, NEW p \in Procs, NEW s, NEW field \in {"status", "pictures"}, NEW value, AskUpdateSeries(p, s, field, value),
         field = "status" => value \in {"PUBLISHED", "UNPUBLISHED"}, field = "pictures" => value \in SUBSET Pictures
  PROVE  Steps(p)
<1>1. PICK t : t = [Idle EXCEPT !.op = "updateSeries", !.at = "write", !.id = s, !.word = field,
                           !.text = IF field = "status" THEN value ELSE None, !.todo = IF field = "pictures" THEN value ELSE {}]
  OBVIOUS
<1>2. /\ DOMAIN t = Fields /\ t.op = "updateSeries" /\ t.id = s /\ t.word = field
      /\ t.text = IF field = "status" THEN value ELSE None
      /\ t.todo = IF field = "pictures" THEN value ELSE {}
  BY <1>1 DEF Idle, Fields
<1>3. EditsSeries(t)
  BY <1>2 DEF EditsSeries, AskUpdateSeries, Rows
<1>4. Stands(t)
  BY <1>2, <1>3 DEF Stands, Held, Relied, Publishers
<1> QED
  BY <1>1, <1>4, AskKeeps DEF AskUpdateSeries

LEMMA AskRemoveSeriesKeeps ==
  ASSUME CatalogueInv, NEW p \in Procs, NEW s, AskRemoveSeries(p, s)
  PROVE  Steps(p)
<1> DEFINE list == SetToList(series[s].pictures \cup UNION {movie[m].pictures : m \in Episodes(s)})
<1>1. PICK t : t = [Idle EXCEPT !.op = "removeSeries", !.at = "delete", !.id = s, !.done = Episodes(s),
                           !.todo = {<<"videos", m>> : m \in Episodes(s)} \cup {<<"sources", m>> : m \in Episodes(s)}, !.list = list]
  OBVIOUS
<1>2. Ask(p, t)
  BY <1>1 DEF AskRemoveSeries
<1> HIDE DEF list
<1>3. DOMAIN t = Fields /\ t.op = "removeSeries" /\ t.at = "delete" /\ t.id = s /\ t.done = Episodes(s)
  BY <1>1 DEF Idle, Fields
<1>4. t.todo = {<<"videos", m>> : m \in Episodes(s)} \cup {<<"sources", m>> : m \in Episodes(s)}
  BY <1>1 DEF Idle
<1>5. t.todo = Prefixes(t.done)
  BY <1>3, <1>4 DEF Prefixes
<1>6. ClearsShow(t) /\ Cleared(t)
  BY <1>3, <1>5 DEF ClearsShow, Cleared, AskRemoveSeries, Rows, Episodes
<1>7. Stands(t)
  BY <1>3, <1>6 DEF Stands, Held, Relied, Publishers
<1> QED
  BY <1>2, <1>7, AskKeeps

LEMMA AskBackfillKeeps ==
  ASSUME CatalogueInv, NEW p \in Procs, AskBackfill(p)
  PROVE  Steps(p)
<1> DEFINE list == Ranked({m \in Rows(movie) : movie[m].duration = 0 /\ ReadyVideos(m) # {}}, Oldest)
<1>1. PICK t : t = [Idle EXCEPT !.op = "backfill", !.at = "recover", !.list = list]
  OBVIOUS
<1>2. Ask(p, t)
  BY <1>1 DEF AskBackfill
<1> HIDE DEF list
<1>3. DOMAIN t = Fields /\ t.op \in Plain
  BY <1>1 DEF Idle, Fields, Plain
<1> QED
  BY <1>2, <1>3, PlainStands, AskKeeps

LEMMA AskCreateNamedKeeps ==
  ASSUME CatalogueInv, NEW p \in Procs, NEW k \in {"actor", "author"}, NEW n \in Names, NEW face \in Faces,
         AskCreateNamed(p, k, n, face)
  PROVE  Steps(p)
<1>1. PICK t : t = [Idle EXCEPT !.op = "named", !.at = "insert", !.word = k, !.text = n, !.arg = face]
  OBVIOUS
<1>2. DOMAIN t = Fields /\ t.op = "named" /\ t.word = k /\ t.text = n /\ t.arg = face
  BY <1>1 DEF Idle, Fields
<1>3. t.word \in Kinds /\ t.text \in DOMAIN Lower /\ t.arg \in Faces /\ Available(t.word, t.text, None)
  BY <1>2 DEF Kinds, Names, AskCreateNamed
<1>4. Stands(t)
  BY <1>2, <1>3 DEF Stands, Held, Relied, Publishers
<1> QED
  BY <1>1, <1>4, AskKeeps DEF AskCreateNamed

LEMMA AskRenameKeeps ==
  ASSUME CatalogueInv, NEW p \in Procs, NEW i, NEW n \in Names, NEW face \in Faces, AskRename(p, i, n, face)
  PROVE  Steps(p)
<1>1. PICK t : t = [Idle EXCEPT !.op = "rename", !.at = "write", !.id = i, !.text = n, !.row = named[i], !.arg = face]
  OBVIOUS
<1>2. DOMAIN t = Fields /\ t.op = "rename" /\ t.at = "write" /\ t.id = i /\ t.text = n /\ t.row = named[i] /\ t.arg = face
  BY <1>1 DEF Idle, Fields
<1>3. i \in DOMAIN named /\ named[i] \in Named /\ Available(named[i].kind, n, i)
  BY DEF AskRename, Rows, CatalogueInv, Tables, Typed
<1>4. Renames(t)
  BY <1>2, <1>3 DEF Renames, Names
<1>5. Stands(t)
  BY <1>2, <1>3, <1>4 DEF Stands, Held, Relied, Publishers
<1> QED
  BY <1>1, <1>5, AskKeeps DEF AskRename

LEMMA AskRemoveNamedKeeps ==
  ASSUME CatalogueInv, NEW p \in Procs, NEW i, AskRemoveNamed(p, i)
  PROVE  Steps(p)
<1>1. PICK t : t = [Idle EXCEPT !.op = "removeNamed", !.at = "delete", !.id = i, !.row = named[i]]
  OBVIOUS
<1>2. DOMAIN t = Fields /\ t.op = "removeNamed" /\ t.id = i
  BY <1>1 DEF Idle, Fields
<1>3. t.id \in DOMAIN named
  BY <1>2 DEF AskRemoveNamed, Rows
<1>4. Stands(t)
  BY <1>2, <1>3 DEF Stands, Held, Relied, Publishers
<1> QED
  BY <1>1, <1>4, AskKeeps DEF AskRemoveNamed

LEMMA AskBookKeeps ==
  ASSUME CatalogueInv, NEW p \in Procs, NEW b, NEW author, NEW name \in Names \cup {None}, NEW cover \in Faces,
         AskBook(p, b, author, name, cover)
  PROVE  Steps(p)
<1> DEFINE by == IF author = None THEN None ELSE [id |-> author, name |-> named[author].name]
           old == IF b = None THEN None ELSE book[b]
<1>1. PICK t : t = [Idle EXCEPT !.op = "book", !.id = b, !.text = name, !.arg = cover,
                           !.at = IF name # None THEN "find" ELSE "write", !.first = by, !.row = old]
  OBVIOUS
<1>2. Ask(p, t)
  BY <1>1 DEF AskBook
<1>3. /\ b = None \/ b \in DOMAIN book
      /\ b = None => author # None \/ name # None
      /\ author # None => author \in Kin("author") /\ name = None
  BY DEF AskBook, Rows
<1> HIDE DEF by, old
<1>4. /\ DOMAIN t = Fields /\ t.op = "book" /\ t.id = b /\ t.text = name /\ t.arg = cover
      /\ t.at = (IF name # None THEN "find" ELSE "write") /\ t.first = by
  BY <1>1 DEF Idle, Fields
<1>5. CASE author = None
  <2>1. by = None
    BY <1>5 DEF by
  <2>2. None \notin By
    BY NoneIsNothing DEF By
  <2>3. Credits(t) /\ Credible(t)
    BY <1>3, <1>4, <1>5, <2>1, <2>2 DEF Credits, Credible, Names
  <2>4. Stands(t)
    BY <1>4, <2>3 DEF Stands, Held, Relied, Publishers
  <2> QED
    BY <1>2, <2>4, AskKeeps
<1>6. CASE author # None
  <2>1. author \in DOMAIN named /\ named[author] # None /\ named[author].kind = "author" /\ named[author] \in Named /\ author \in Nat
    BY <1>3, <1>6 DEF Kin, Rows, CatalogueInv, Tables, Typed
  <2>2. by \in By /\ by.id = author /\ by.name = named[author].name
    BY <1>6, <2>1 DEF by, By, Named
  <2>3. Credits(t) /\ Credible(t)
    BY <1>3, <1>4, <1>6, <2>1, <2>2 DEF Credits, Credible
  <2>4. Stands(t)
    BY <1>4, <2>3 DEF Stands, Held, Relied, Publishers
  <2> QED
    BY <1>2, <2>4, AskKeeps
<1> QED
  BY <1>5, <1>6

LEMMA AskRemoveBookKeeps ==
  ASSUME CatalogueInv, NEW p \in Procs, NEW b, AskRemoveBook(p, b)
  PROVE  Steps(p)
<1>1. PICK t : t = [Idle EXCEPT !.op = "book", !.at = "delete", !.id = b, !.todo = {book[b].cover} \ {None}]
  OBVIOUS
<1>2. DOMAIN t = Fields /\ t.op = "book" /\ t.at = "delete" /\ t.id = b /\ t.arg = None
  BY <1>1 DEF Idle, Fields
<1>3. Credits(t) /\ Credible(t)
  BY <1>2 DEF Credits, Credible, AskRemoveBook, Rows, Faces
<1>4. Stands(t)
  BY <1>2, <1>3 DEF Stands, Held, Relied, Publishers
<1> QED
  BY <1>1, <1>4, AskKeeps DEF AskRemoveBook

LEMMA AskCommentKeeps ==
  ASSUME CatalogueInv, NEW p \in Procs, NEW on \in {"movie", "series"}, NEW x, NEW parent, NEW by \in {"ann", "bob"},
         AskComment(p, on, x, parent, by)
  PROVE  Steps(p)
<1>1. PICK t : t = [Idle EXCEPT !.op = "comment", !.word = on, !.id = x, !.arg = parent, !.text = by,
                           !.at = IF parent = None THEN "insert" ELSE "parent"]
  OBVIOUS
<1>2. /\ DOMAIN t = Fields /\ t.op = "comment" /\ t.word = on /\ t.id = x /\ t.arg = parent /\ t.text = by
      /\ t.at = IF parent = None THEN "insert" ELSE "parent"
  BY <1>1 DEF Idle, Fields
<1>3. x \in Nat
  <2>1. on = "movie" \/ on = "series"
    OBVIOUS
  <2>2. There(on, x)
    BY DEF AskComment
  <2>3. x \in Rows(movie) \/ x \in Rows(series)
    BY <2>1, <2>2 DEF There
  <2>4. DOMAIN movie \subseteq Nat /\ DOMAIN series \subseteq Nat
    BY DEF CatalogueInv, Tables, Typed
  <2> QED
    BY <2>3, <2>4 DEF Rows
<1>4. by \in STRING
  BY WordsAreStrings
<1>5. Says(t)
  BY <1>2, <1>3, <1>4 DEF Says
<1>6. Stands(t)
  BY <1>2, <1>5 DEF Stands, Held, Relied, Publishers
<1> QED
  BY <1>1, <1>6, AskKeeps DEF AskComment

LEMMA AskRemoveCommentKeeps ==
  ASSUME CatalogueInv, NEW p \in Procs, NEW c, NEW by, NEW moderates, AskRemoveComment(p, c, by, moderates)
  PROVE  Steps(p)
<1>1. PICK t : t = [Idle EXCEPT !.op = "removeComment", !.at = "delete", !.id = c]
  OBVIOUS
<1>2. DOMAIN t = Fields /\ t.op = "removeComment" /\ t.id = c
  BY <1>1 DEF Idle, Fields
<1>3. t.id \in DOMAIN comment
  BY <1>2 DEF AskRemoveComment, Rows
<1>4. Stands(t)
  BY <1>2, <1>3 DEF Stands, Held, Relied, Publishers
<1> QED
  BY <1>1, <1>4, AskKeeps DEF AskRemoveComment

LEMMA AskModerateKeeps ==
  ASSUME CatalogueInv, NEW p \in Procs, NEW c, NEW visible \in BOOLEAN, AskModerate(p, c, visible)
  PROVE  Steps(p)
<1>1. PICK t : t = [Idle EXCEPT !.op = "moderate", !.at = "write", !.id = c, !.ok = visible]
  OBVIOUS
<1>2. DOMAIN t = Fields /\ t.op = "moderate" /\ t.ok = visible
  BY <1>1 DEF Idle, Fields
<1>3. Stands(t)
  BY <1>2 DEF Stands, Held, Relied, Publishers
<1> QED
  BY <1>1, <1>3, AskKeeps DEF AskModerate

LEMMA AskThreadKeeps ==
  ASSUME CatalogueInv, NEW p \in Procs, NEW on, NEW x, AskThread(p, on, x)
  PROVE  Steps(p)
<1> DEFINE top == {c \in Rows(comment) : comment[c].on = on /\ comment[c].title = x /\ comment[c].parent = None /\ comment[c].visible}
           all == top \cup {c \in Rows(comment) : comment[c].parent \in top /\ comment[c].visible}
<1>1. PICK t : t = [Idle EXCEPT !.op = "thread", !.at = "answer", !.id = x, !.word = on, !.done = all]
  OBVIOUS
<1>2. Ask(p, t)
  BY <1>1 DEF AskThread
<1> HIDE DEF top, all
<1>3. DOMAIN t = Fields /\ t.op \in Plain
  BY <1>1 DEF Idle, Fields, Plain
<1> QED
  BY <1>2, <1>3, PlainStands, AskKeeps

LEMMA AskCommentsKeeps ==
  ASSUME CatalogueInv, NEW p \in Procs, NEW status, AskComments(p, status)
  PROVE  Steps(p)
<1> DEFINE all == {c \in Rows(comment) : status = None \/ comment[c].visible = (status = "VISIBLE")}
<1>1. PICK t : t = [Idle EXCEPT !.op = "thread", !.at = "answer", !.word = "moderator", !.done = all]
  OBVIOUS
<1>2. Ask(p, t)
  BY <1>1 DEF AskComments
<1> HIDE DEF all
<1>3. DOMAIN t = Fields /\ t.op \in Plain
  BY <1>1 DEF Idle, Fields, Plain
<1> QED
  BY <1>2, <1>3, PlainStands, AskKeeps

\* A video that is there: what publishing for it holds on to.
LEMMA OnVideo ==
  ASSUME Tables, NEW v \in Rows(video)
  PROVE  /\ v \in DOMAIN video /\ v \in Nat /\ video[v] # None /\ video[v].movie \in DOMAIN movie /\ movie[video[v].movie] # None
         /\ video[v].movie \in Nat
BY DEF Tables, Typed, Related, FilesHold, Rows

LEMMA OnTrack ==
  ASSUME Tables, NEW s \in Rows(subtitle)
  PROVE  /\ s \in DOMAIN subtitle /\ subtitle[s] # None /\ subtitle[s] \in Subtitle /\ subtitle[s].video \in Rows(video)
         /\ OfVideo(s, subtitle[s].video)
BY DEF Tables, Typed, Related, TracksHold, Rows, OfVideo

LEMMA RowOfType ==
  ASSUME NEW v \in Nat, NEW label \in Name, NEW language \in Name, NEW ass \in BOOLEAN, NEW default \in BOOLEAN, NEW key \in Nat
  PROVE  /\ RowOf(v, label, language, ass, default, key) \in Subtitle
         /\ RowOf(v, label, language, ass, default, key).video = v /\ RowOf(v, label, language, ass, default, key).default = default
BY DEF RowOf, Subtitle

LEMMA NamesOfWords ==
  /\ \A w \in {"ann", "bob", "english", "en", "id", ""} : <<Word(w)>> \in Name
  /\ \A w \in {"ann", "bob", "english", "en", "id", ""}, n \in Nat : <<Word(w), Number(n)>> \in Name
  /\ <<>> \in Name
  /\ \A base \in Name, n \in Nat : Append(base, Number(n)) \in Name
<1> DEFINE W == [word : STRING, number : Nat]
<1>1. \A w \in {"ann", "bob", "english", "en", "id", ""} : Word(w) \in W
  BY WordsAreStrings DEF Word
<1>2. \A n \in Nat : Number(n) \in W
  BY WordsAreStrings DEF Number
<1>3. Name = Seq(W)
  BY DEF Name
<1> HIDE DEF W
<1>4. /\ \A a \in W : <<a>> \in Seq(W)
      /\ \A a, b \in W : <<a, b>> \in Seq(W)
      /\ \A base \in Seq(W), a \in W : Append(base, a) \in Seq(W)
      /\ <<>> \in Seq(W)
  OBVIOUS
<1> QED
  BY <1>1, <1>2, <1>3, <1>4

LEMMA AskSubtitleKeeps ==
  ASSUME CatalogueInv, NEW p \in Procs, NEW v, NEW label \in Name, NEW ass \in BOOLEAN, NEW default \in BOOLEAN,
         AskSubtitle(p, v, label, ass, default)
  PROVE  Steps(p)
<1> DEFINE row == RowOf(v, label, <<Word("en")>>, ass, default, requests + 1)
<1>1. PICK t : t = [Idle EXCEPT !.op = "subtitle", !.at = "upload", !.row = v, !.arg = video[v].movie, !.text = row]
  OBVIOUS
<1>2. Ask(p, t) /\ v \in Rows(video)
  BY <1>1 DEF AskSubtitle
<1>3. v \in DOMAIN video /\ v \in Nat /\ video[v] # None /\ video[v].movie \in DOMAIN movie
  BY <1>2, OnVideo DEF CatalogueInv
<1>4. row \in Subtitle /\ row.video = v
  <2>1. <<Word("en")>> \in Name
    BY NamesOfWords
  <2>2. requests + 1 \in Nat
    BY DEF CatalogueInv, Tables, Typed
  <2> QED
    BY <1>3, <2>1, <2>2, RowOfType
<1> HIDE DEF row
<1>5. DOMAIN t = Fields /\ t.op = "subtitle" /\ t.at = "upload" /\ t.id = None /\ t.row = v /\ t.arg = video[v].movie /\ t.text = row /\ t.list = <<>>
  BY <1>1 DEF Idle, Fields
<1>6. Publishes(t)
  BY <1>3, <1>4, <1>5 DEF Publishes
<1>7. Loads(t)
  BY <1>5 DEF Loads
<1>8. Stands(t)
  BY <1>5, <1>6, <1>7 DEF Stands, Held, Relied, Publishers
<1> QED
  BY <1>2, <1>8, AskKeeps

LEMMA AskExistingKeyKeeps ==
  ASSUME CatalogueInv, NEW p \in Procs, NEW v, NEW label \in Name, AskExistingKey(p, v, label)
  PROVE  Steps(p)
<1>1. PICK x \in source : /\ x[1] = video[v].movie
                          /\ Ask(p, [Idle EXCEPT !.op = "subtitle", !.at = "insert", !.row = v, !.arg = x[1],
                                                !.text = RowOf(v, label, <<Word("en")>>, FALSE, FALSE, x[2])])
  BY DEF AskExistingKey
<1> DEFINE row == RowOf(v, label, <<Word("en")>>, FALSE, FALSE, x[2])
<1>2. PICK t : t = [Idle EXCEPT !.op = "subtitle", !.at = "insert", !.row = v, !.arg = x[1], !.text = row]
  OBVIOUS
<1>3. Ask(p, t) /\ v \in Rows(video) /\ x[1] = video[v].movie
  BY <1>1, <1>2 DEF AskExistingKey
<1>4. v \in DOMAIN video /\ v \in Nat /\ video[v] # None /\ video[v].movie \in DOMAIN movie
  BY <1>3, OnVideo DEF CatalogueInv
<1>5. row \in Subtitle /\ row.video = v /\ row.default = FALSE
  <2>1. <<Word("en")>> \in Name
    BY NamesOfWords
  <2>2. x[2] \in Nat
    <3>1. x \in Nat \X Nat
      BY DEF CatalogueInv, Tables, Typed
    <3> QED
      BY <3>1
  <2> QED
    BY <1>4, <2>1, <2>2 DEF RowOf, Subtitle
<1> HIDE DEF row
<1>6. DOMAIN t = Fields /\ t.op = "subtitle" /\ t.at = "insert" /\ t.id = None /\ t.row = v /\ t.arg = x[1] /\ t.text = row /\ t.list = <<>>
  BY <1>2 DEF Idle, Fields
<1>7. Publishes(t)
  BY <1>3, <1>4, <1>5, <1>6 DEF Publishes
<1>8. Loads(t)
  BY <1>5, <1>6 DEF Loads
<1>9. Stands(t)
  BY <1>6, <1>7, <1>8 DEF Stands, Held, Relied, Publishers
<1> QED
  BY <1>3, <1>9, AskKeeps

LEMMA AskUpdateSubtitleKeeps ==
  ASSUME CatalogueInv, NEW p \in Procs, NEW s, NEW label \in Name, NEW default \in BOOLEAN, AskUpdateSubtitle(p, s, label, default)
  PROVE  Steps(p)
<1> DEFINE text == [label |-> label, default |-> default]
<1>1. PICK t : t = [Idle EXCEPT !.op = "updateSubtitle", !.at = IF default THEN "clear" ELSE "write", !.id = s, !.row = subtitle[s].video,
                           !.arg = video[subtitle[s].video].movie, !.text = text]
  OBVIOUS
<1>2. Ask(p, t) /\ s \in Rows(subtitle)
  BY <1>1 DEF AskUpdateSubtitle
<1>3. text.label = label /\ text.default = default
  OBVIOUS
<1> HIDE DEF text
<1>4. /\ DOMAIN t = Fields /\ t.op = "updateSubtitle" /\ t.id = s /\ t.row = subtitle[s].video /\ t.text = text /\ t.list = <<>>
      /\ t.arg = video[subtitle[s].video].movie /\ t.at = IF default THEN "clear" ELSE "write"
  BY <1>1 DEF Idle, Fields
<1>5. subtitle[s].video \in Rows(video) /\ OfVideo(s, subtitle[s].video)
  BY <1>2, OnTrack DEF CatalogueInv
<1>6. t.row \in DOMAIN video /\ video[t.row] # None /\ video[t.row].movie = t.arg /\ t.arg \in DOMAIN movie
  BY <1>4, <1>5, OnVideo DEF CatalogueInv
<1>7. Publishes(t)
  BY <1>3, <1>4, <1>5, <1>6 DEF Publishes
<1>8. Loads(t)
  BY <1>3, <1>4 DEF Loads
<1>9. Stands(t)
  BY <1>4, <1>7, <1>8 DEF Stands, Held, Relied, Publishers
<1> QED
  BY <1>2, <1>9, AskKeeps

LEMMA AskSetDefaultKeeps ==
  ASSUME CatalogueInv, NEW p \in Procs, NEW s, AskSetDefault(p, s)
  PROVE  Steps(p)
<1>1. PICK t : t = [Idle EXCEPT !.op = "setDefault", !.at = "write", !.id = s, !.row = subtitle[s].video,
                           !.arg = video[subtitle[s].video].movie]
  OBVIOUS
<1>2. Ask(p, t) /\ s \in Rows(subtitle)
  BY <1>1 DEF AskSetDefault
<1>3. /\ DOMAIN t = Fields /\ t.op = "setDefault" /\ t.at = "write" /\ t.id = s /\ t.row = subtitle[s].video /\ t.list = <<>>
      /\ t.arg = video[subtitle[s].video].movie
  BY <1>1 DEF Idle, Fields
<1>4. subtitle[s].video \in Rows(video) /\ OfVideo(s, subtitle[s].video)
  BY <1>2, OnTrack DEF CatalogueInv
<1>5. t.row \in DOMAIN video /\ video[t.row] # None /\ video[t.row].movie = t.arg /\ t.arg \in DOMAIN movie
  BY <1>3, <1>4, OnVideo DEF CatalogueInv
<1>6. Publishes(t) /\ Loads(t)
  BY <1>3, <1>4, <1>5 DEF Publishes, Loads
<1>7. Stands(t)
  BY <1>3, <1>6 DEF Stands, Held, Relied, Publishers
<1> QED
  BY <1>2, <1>7, AskKeeps

LEMMA AskRemoveSubtitleKeeps ==
  ASSUME CatalogueInv, NEW p \in Procs, NEW s, AskRemoveSubtitle(p, s)
  PROVE  Steps(p)
<1>1. PICK t : t = [Idle EXCEPT !.op = "removeSubtitle", !.at = "delete", !.id = s, !.row = subtitle[s].video,
                           !.arg = video[subtitle[s].video].movie, !.total = subtitle[s].key]
  OBVIOUS
<1>2. Ask(p, t) /\ s \in Rows(subtitle)
  BY <1>1 DEF AskRemoveSubtitle
<1>3. /\ DOMAIN t = Fields /\ t.op = "removeSubtitle" /\ t.at = "delete" /\ t.id = s /\ t.row = subtitle[s].video /\ t.list = <<>>
      /\ t.arg = video[subtitle[s].video].movie
  BY <1>1 DEF Idle, Fields
<1>4. subtitle[s].video \in Rows(video) /\ OfVideo(s, subtitle[s].video)
  BY <1>2, OnTrack DEF CatalogueInv
<1>5. t.row \in DOMAIN video /\ video[t.row] # None /\ video[t.row].movie = t.arg /\ t.arg \in DOMAIN movie
  BY <1>3, <1>4, OnVideo DEF CatalogueInv
<1>6. Publishes(t) /\ Loads(t)
  BY <1>3, <1>4, <1>5 DEF Publishes, Loads
<1>7. Stands(t)
  BY <1>3, <1>6 DEF Stands, Held, Relied, Publishers
<1> QED
  BY <1>2, <1>7, AskKeeps

LEMMA AskRepublishKeeps ==
  ASSUME CatalogueInv, NEW p \in Procs, NEW v, AskRepublish(p, v)
  PROVE  Steps(p)
<1>1. PICK t : t = [Idle EXCEPT !.op = "republish", !.at = "publish", !.row = v, !.arg = video[v].movie]
  OBVIOUS
<1>2. Ask(p, t) /\ v \in Rows(video)
  BY <1>1 DEF AskRepublish
<1>3. DOMAIN t = Fields /\ t.op = "republish" /\ t.at = "publish" /\ t.row = v /\ t.arg = video[v].movie /\ t.list = <<>>
  BY <1>1 DEF Idle, Fields
<1>4. t.row \in DOMAIN video /\ video[t.row] # None /\ video[t.row].movie = t.arg /\ t.arg \in DOMAIN movie
  BY <1>2, <1>3, OnVideo DEF CatalogueInv
<1>5. Publishes(t) /\ Loads(t)
  BY <1>3, <1>4 DEF Publishes, Loads
<1>6. Stands(t)
  BY <1>3, <1>5 DEF Stands, Held, Relied, Publishers
<1> QED
  BY <1>2, <1>6, AskKeeps

LEMMA AskShelfKeeps ==
  ASSUME CatalogueInv, NEW p \in Procs, AskShelf(p)
  PROVE  Steps(p)
<1>1. CASE \E k \in {"actor", "author"}, n \in Names, face \in Pictures \cup {None} : AskCreateNamed(p, k, n, face)
  BY <1>1, AskCreateNamedKeeps DEF Faces
<1>2. CASE \E i \in Rows(named), n \in Names, face \in Pictures \cup {None} : AskRename(p, i, n, face)
  BY <1>2, AskRenameKeeps DEF Faces
<1>3. CASE \E i \in Rows(named) : AskRemoveNamed(p, i)
  BY <1>3, AskRemoveNamedKeeps
<1>4. CASE \E b \in Rows(book) \cup {None}, a \in Kin("author"), cover \in Pictures \cup {None} : AskBook(p, b, a, None, cover)
  BY <1>4, AskBookKeeps DEF Faces
<1>5. CASE \E b \in Rows(book) \cup {None}, n \in Names : AskBook(p, b, None, n, None)
  BY <1>5, AskBookKeeps DEF Faces
<1>6. CASE \E b \in Rows(book), cover \in Pictures \cup {None} : AskBook(p, b, None, None, cover)
  BY <1>6, AskBookKeeps DEF Faces
<1>7. CASE \E b \in Rows(book) : AskRemoveBook(p, b)
  BY <1>7, AskRemoveBookKeeps
<1>8. CASE \E m \in Rows(movie), c \in Rows(comment) \cup {None}, by \in {"ann", "bob"} : AskComment(p, "movie", m, c, by)
  BY <1>8, AskCommentKeeps
<1>9. CASE \E s \in Rows(series), by \in {"ann", "bob"} : AskComment(p, "series", s, None, by)
  BY <1>9, AskCommentKeeps
<1>10. CASE \E c \in Rows(comment), by \in {"ann", "bob"}, moderates \in BOOLEAN : AskRemoveComment(p, c, by, moderates)
  BY <1>10, AskRemoveCommentKeeps
<1>11. CASE \E m \in Rows(movie) : AskThread(p, "movie", m)
  BY <1>11, AskThreadKeeps
<1>12. CASE \E c \in Rows(comment), visible \in BOOLEAN : AskModerate(p, c, visible)
  BY <1>12, AskModerateKeeps
<1>13. CASE \E status \in {None, "VISIBLE", "HIDDEN"} : AskComments(p, status)
  BY <1>13, AskCommentsKeeps
<1> QED
  BY <1>1, <1>2, <1>3, <1>4, <1>5, <1>6, <1>7, <1>8, <1>9, <1>10, <1>11, <1>12, <1>13 DEF AskShelf

LEMMA AskSubtitlesKeeps ==
  ASSUME CatalogueInv, NEW p \in Procs, AskSubtitles(p)
  PROVE  Steps(p)
<1>1. <<Word("english")>> \in Name /\ <<>> \in Name /\ Labels \subseteq Name /\ TRUE \in BOOLEAN /\ FALSE \in BOOLEAN
  BY NamesOfWords DEF Labels
<1>2. CASE \E v \in Rows(video), default \in BOOLEAN : AskSubtitle(p, v, <<Word("english")>>, FALSE, default)
  BY <1>1, <1>2, AskSubtitleKeeps
<1>3. CASE \E v \in Rows(video) : AskSubtitle(p, v, <<>>, TRUE, FALSE)
  BY <1>1, <1>3, AskSubtitleKeeps
<1>4. CASE \E v \in Rows(video) : AskExistingKey(p, v, <<Word("english")>>)
  BY <1>1, <1>4, AskExistingKeyKeeps
<1>5. CASE \E v \in Rows(video) : AskRepublish(p, v)
  BY <1>5, AskRepublishKeeps
<1>6. CASE \E s \in Rows(subtitle), label \in Labels, default \in BOOLEAN : AskUpdateSubtitle(p, s, label, default)
  BY <1>1, <1>6, AskUpdateSubtitleKeeps
<1>7. CASE \E s \in Rows(subtitle) : AskRemoveSubtitle(p, s)
  BY <1>7, AskRemoveSubtitleKeeps
<1>8. CASE \E s \in Rows(subtitle) : AskSetDefault(p, s)
  BY <1>8, AskSetDefaultKeeps
<1> QED
  BY <1>2, <1>3, <1>4, <1>5, <1>6, <1>7, <1>8 DEF AskSubtitles

-----------------------------------------------------------------------------
(* Steps that read *)

LEMMA UnderWay ==
  ASSUME CatalogueInv, NEW p \in Procs, task[p] # None, NEW t, t = task[p]
  PROVE  DOMAIN t = Fields /\ Held(t) /\ (t.alone => Relied(t)) /\ Stands(t)
BY DEF CatalogueInv, Stands

LEMMA FoundIds ==
  ASSUME Tables, NEW q
  PROVE  /\ Found(q) \in SUBSET Nat /\ IsFiniteSet(Found(q)) /\ Cardinality(Found(q)) \in Nat
         /\ InTitle(q) \in SUBSET Nat /\ IsFiniteSet(InTitle(q)) /\ Cardinality(InTitle(q)) \in Nat
         /\ InText(q) \in SUBSET Nat /\ IsFiniteSet(InText(q)) /\ Cardinality(InText(q)) \in Nat
<1>1. movie \in Seq(Movie \cup {None}) /\ series \in Seq(Series \cup {None})
  BY DEF Tables, Typed
<1>2. Rows(movie) \in SUBSET (DOMAIN movie) /\ Rows(series) \in SUBSET (DOMAIN series)
  BY DEF Rows
<1>3. Matching(q) \in SUBSET (DOMAIN movie) \/ Matching(q) \in SUBSET (DOMAIN series)
  BY <1>2 DEF Matching
<1>4. \A S \in SUBSET Matching(q) : IsFiniteSet(S) /\ S \in SUBSET Nat
  BY <1>1, <1>3, TableIds
<1>5. Found(q) \in SUBSET Matching(q) /\ InTitle(q) \in SUBSET Matching(q) /\ InText(q) \in SUBSET Matching(q)
  BY DEF Found, InTitle, InText
<1> QED
  BY <1>4, <1>5, FS_CardinalityType

LEMMA QueryFacts ==
  ASSUME NEW q \in Queries
  PROVE  /\ q.of \in {"movie", "series"} /\ q.limit \in Nat /\ Offset(q) \in Nat
         /\ SortOf(q) \in {"recent", "relevance", "viewed", "bought"}
         /\ SortOf(q) \in {"viewed", "bought"} => q.of = "movie"
         /\ SortOf(q) = "relevance" => q.search
<1>1. /\ q.of \in {"movie", "series"} /\ q.page \in Nat \ {0} /\ q.limit \in Nat \ {0}
      /\ q.sort \in {"recent", "relevance"} \/ (q.of = "movie" /\ q.sort \in {"viewed", "bought"})
  BY QueriesAreValid
<1>2. Offset(q) \in Nat
  <2>1. q.page - 1 \in Nat
    BY <1>1
  <2> QED
    BY <1>1, <2>1 DEF Offset
<1> QED
  BY <1>1, <1>2 DEF SortOf

LEMMA SlicedCut ==
  ASSUME NEW S, IsFiniteSet(S), NEW R, NEW f \in [1 .. Cardinality(S) -> S], \A i \in 1 .. Cardinality(S) : Places(R, S)[f[i]] = i,
         NEW skip \in Nat, NEW take \in Nat
  PROVE  CutOf(R, S, skip, take, Slice(f, skip, take)) /\ Len(f) = Cardinality(S)
<1>1. Cardinality(S) \in Nat
  BY FS_CardinalityType
<1>2. f \in Seq(S) /\ Len(f) = Cardinality(S) /\ DOMAIN f = 1 .. Cardinality(S)
  BY <1>1, ListOf
<1>3. /\ Slice(f, skip, take) \in Seq(S)
      /\ \A k : k \in DOMAIN Slice(f, skip, take) <=> k \in 1 .. take /\ skip + k <= Len(f)
      /\ \A k \in DOMAIN Slice(f, skip, take) : Slice(f, skip, take)[k] = f[skip + k]
  BY ONLY <1>2, skip \in Nat, take \in Nat, Sliced
<1>4. \A k \in 1 .. take : skip + k <= Len(f) => skip + k \in 1 .. Cardinality(S)
  BY <1>1, <1>2
<1> QED
  BY <1>2, <1>3, <1>4 DEF CutOf

\* A list whose titles are ranked by nothing but age.
LEMMA ByAge ==
  ASSUME Tables, NEW S \in SUBSET Nat, IsFiniteSet(S), NEW skip \in Nat, NEW take \in Nat
  PROVE  CutOf(Falling(S), S, skip, take, Slice(Ranked(S, Newer), skip, take)) /\ Len(Ranked(S, Newer)) = Cardinality(S)
<1> DEFINE f == [i \in 1 .. Cardinality(S) |-> CHOOSE x \in S : Cardinality({y \in S : y > x}) = i - 1]
<1>1. Ranked(S, Newer) = f
  BY DEF Ranked, Newer
<1>2. f \in [1 .. Cardinality(S) -> S] /\ \A i \in 1 .. Cardinality(S) : Places(Falling(S), S)[f[i]] = i
  BY RankedFalling
<1> HIDE DEF f
<1>3. CutOf(Falling(S), S, skip, take, Slice(f, skip, take)) /\ Len(f) = Cardinality(S)
  <2> DEFINE R == Falling(S)
  <2>1. \A i \in 1 .. Cardinality(S) : Places(R, S)[f[i]] = i
    BY <1>2
  <2> HIDE DEF R
  <2>2. CutOf(R, S, skip, take, Slice(f, skip, take)) /\ Len(f) = Cardinality(S)
    BY <1>2, <2>1, SlicedCut
  <2> QED
    BY <2>2 DEF R
<1> QED
  BY <1>1, <1>3

LEMMA ListPageKeeps ==
  ASSUME CatalogueInv, NEW p \in Procs, ListPage(p)
  PROVE  Steps(p)
<1>1. PICK t0 : t0 = task[p]
  OBVIOUS
<1>2. task[p] # None /\ t0.op = "list" /\ t0.at = "list" /\ Reads
  BY <1>1 DEF ListPage, At
<1>3. DOMAIN t0 = Fields /\ Browses(t0)
  BY <1>1, <1>2, UnderWay DEF Held
<1>4. PICK q : q = t0.query
  OBVIOUS
<1> DEFINE all == Ranked(Found(q), Newer)
<1>5. PICK t : t = [t0 EXCEPT !.at = "answer", !.list = Slice(all, Offset(q), q.limit), !.total = Len(all)]
  OBVIOUS
<1>6. Proceed(p, t)
  BY <1>1, <1>4, <1>5 DEF ListPage
<1>7. q \in Queries /\ SortOf(q) = "recent"
  BY <1>2, <1>3, <1>4, QueryFacts DEF Browses
<1>8. CutOf(Falling(Found(q)), Found(q), Offset(q), q.limit, Slice(all, Offset(q), q.limit)) /\ Len(all) = Cardinality(Found(q))
  BY <1>7, FoundIds, QueryFacts, ByAge DEF CatalogueInv
<1> HIDE DEF all
<1>9. /\ DOMAIN t = Fields /\ t.op = "list" /\ t.at = "answer" /\ t.query = q /\ t.list = Slice(all, Offset(q), q.limit)
      /\ t.total = Len(all)
  BY <1>2, <1>3, <1>4, <1>5 DEF Fields
<1>10. Ahead(q) = Falling(Found(q))
  <2>1. \A i : Rank(q, i) = 0
    BY <1>7 DEF Rank
  <2> QED
    BY <2>1 DEF Ahead, Falling
<1>11. Pages(t) /\ Browses(t)
  BY <1>7, <1>8, <1>9, <1>10 DEF Pages, Browses
<1>12. Stands(t)
  BY <1>9, <1>11 DEF Stands, Held, Relied, Publishers
<1> QED
  BY <1>2, <1>6, <1>12, ReadKeeps

LEMMA TiersByAge ==
  ASSUME Tables, NEW q, NEW skip \in Nat, NEW take \in Nat
  PROVE  /\ CutOf(Falling(InTitle(q)), InTitle(q), skip, take, Slice(Tier(q, 1), skip, take))
         /\ Len(Tier(q, 1)) = Cardinality(InTitle(q))
         /\ CutOf(Falling(InText(q)), InText(q), skip, take, Slice(Tier(q, 2), skip, take))
         /\ Len(Tier(q, 2)) = Cardinality(InText(q))
<1>1. PICK S : S = {i \in Matching(q) : IF 1 = 1 THEN Titled(q, i) ELSE Described(q, i)}
  OBVIOUS
<1>2. PICK T : T = {i \in Matching(q) : IF 2 = 1 THEN Titled(q, i) ELSE Described(q, i)}
  OBVIOUS
<1>3. S = InTitle(q) /\ T = InText(q)
  BY <1>1, <1>2 DEF InTitle, InText
<1>4. Tier(q, 1) = Ranked(S, Newer) /\ Tier(q, 2) = Ranked(T, Newer)
  BY <1>1, <1>2 DEF Tier
<1>5. CutOf(Falling(S), S, skip, take, Slice(Ranked(S, Newer), skip, take)) /\ Len(Ranked(S, Newer)) = Cardinality(S)
  BY <1>3, FoundIds, ByAge
<1>6. CutOf(Falling(T), T, skip, take, Slice(Ranked(T, Newer), skip, take)) /\ Len(Ranked(T, Newer)) = Cardinality(T)
  BY <1>3, FoundIds, ByAge
<1> QED
  BY <1>3, <1>4, <1>5, <1>6

LEMMA CountTiersKeeps ==
  ASSUME CatalogueInv, NEW p \in Procs, CountTiers(p)
  PROVE  Steps(p)
<1>1. PICK t0 : t0 = task[p]
  OBVIOUS
<1>2. task[p] # None /\ t0.op = "list" /\ t0.at = "count" /\ Reads
  BY <1>1 DEF CountTiers, At
<1>3. DOMAIN t0 = Fields /\ Browses(t0)
  BY <1>1, <1>2, UnderWay DEF Held
<1>4. PICK q : q = t0.query
  OBVIOUS
<1>5. PICK n : n = Len(Tier(q, 1))
  OBVIOUS
<1>6. PICK m : m = Len(Tier(q, 1)) + Len(Tier(q, 2))
  OBVIOUS
<1>7. PICK t : t = [t0 EXCEPT !.at = "tiers", !.row = n, !.total = m]
  OBVIOUS
<1>8. Proceed(p, t)
  BY <1>1, <1>4, <1>5, <1>6, <1>7 DEF CountTiers
<1>9. n = Cardinality(InTitle(q)) /\ m = Cardinality(InTitle(q)) + Cardinality(InText(q))
  BY <1>5, <1>6, TiersByAge DEF CatalogueInv
<1>10. /\ DOMAIN t = Fields /\ t.op = "list" /\ t.at = "tiers" /\ t.query = q /\ t.row = n /\ t.total = m
       /\ t.first = None /\ t.second = None
  BY <1>2, <1>3, <1>4, <1>7 DEF Fields, Browses
<1>11. Browses(t)
  BY <1>2, <1>3, <1>4, <1>10 DEF Browses
<1>12. Pages(t)
  BY <1>9, <1>10 DEF Pages
<1>13. Stands(t)
  BY <1>10, <1>11, <1>12 DEF Stands, Held, Relied, Publishers
<1> QED
  BY <1>2, <1>8, <1>13, ReadKeeps

\* What two tiers show together.
LEMMA TierPlaces ==
  ASSUME Tables, NEW q \in Queries, SortOf(q) = "relevance"
  PROVE  /\ Cardinality(Found(q)) = Cardinality(InTitle(q)) + Cardinality(InText(q))
         /\ \A x \in InTitle(q) : x \in Found(q) /\ Places(Ahead(q), Found(q))[x] = Places(Falling(InTitle(q)), InTitle(q))[x]
         /\ \A x \in InText(q) : /\ x \in Found(q)
                                 /\ Places(Ahead(q), Found(q))[x] = Cardinality(InTitle(q)) + Places(Falling(InText(q)), InText(q))[x]
<1> DEFINE A == InTitle(q)
           B == InText(q)
<1>1. q.search
  BY QueryFacts
<1>2. Found(q) = A \cup B
  BY <1>1 DEF Found, InTitle, InText
<1>3. A \cap B = {}
  BY DEF InTitle, InText, Titled, Described
<1>4. \A i : i \in A => Rank(q, i) = 1
  BY DEF Rank, InTitle
<1>5. \A i : i \in B => Rank(q, i) = 0
  BY DEF Rank, InText, Titled, Described
<1>6. /\ A \in SUBSET Nat /\ IsFiniteSet(A) /\ Cardinality(A) \in Nat /\ B \in SUBSET Nat /\ IsFiniteSet(B) /\ Cardinality(B) \in Nat
  BY FoundIds
<1> HIDE DEF A, B
<1>7. Cardinality(Found(q)) = Cardinality(A) + Cardinality(B)
  <2>1. Cardinality(A \cup B) = Cardinality(A) + Cardinality(B) - Cardinality(A \cap B)
    BY <1>6, FS_Union
  <2>2. Cardinality(A \cap B) = 0
    BY <1>3, FS_EmptySet
  <2> QED
    BY <1>2, <1>6, <2>1, <2>2
<1>8. ASSUME NEW x \in A
      PROVE  x \in Found(q) /\ Places(Ahead(q), Found(q))[x] = Places(Falling(A), A)[x]
  <2>1. {y \in Found(q) : <<y, x>> \in Ahead(q)} = {y \in A : <<y, x>> \in Falling(A)}
    BY <1>2, <1>4, <1>5 DEF Ahead, Falling
  <2> QED
    BY <1>2, <2>1 DEF Places
<1>9. ASSUME NEW x \in B
      PROVE  x \in Found(q) /\ Places(Ahead(q), Found(q))[x] = Cardinality(A) + Places(Falling(B), B)[x]
  <2> DEFINE C == {y \in B : <<y, x>> \in Falling(B)}
  <2>1. {y \in Found(q) : <<y, x>> \in Ahead(q)} = A \cup C
    BY <1>2, <1>3, <1>4, <1>5 DEF Ahead, Falling
  <2>2. C \in SUBSET B /\ A \cap C = {}
    BY <1>3
  <2> HIDE DEF C
  <2>3. IsFiniteSet(C) /\ Cardinality(C) \in Nat
    BY <1>6, <2>2, FS_Subset, FS_CardinalityType
  <2>4. Cardinality(A \cup C) = Cardinality(A) + Cardinality(C) - Cardinality(A \cap C)
    BY <1>6, <2>3, FS_Union
  <2>5. Cardinality(A \cup C) = Cardinality(A) + Cardinality(C)
    <3>1. Cardinality(A \cap C) = 0
      BY <2>2, FS_EmptySet
    <3> QED
      BY <1>6, <2>3, <2>4, <3>1
  <2>6. Places(Falling(B), B)[x] = 1 + Cardinality(C)
    BY DEF Places, C
  <2>7. Places(Ahead(q), Found(q))[x] = 1 + Cardinality(A \cup C)
    BY <1>2, <2>1 DEF Places
  <2> QED
    BY <1>2, <1>6, <2>3, <2>5, <2>6, <2>7
<1> QED
  BY <1>7, <1>8, <1>9 DEF A, B

LEMMA CutFacts ==
  ASSUME NEW R, NEW S, NEW skip, NEW take, NEW list, CutOf(R, S, skip, take, list)
  PROVE  /\ list \in Seq(S) /\ Len(list) \in Nat /\ DOMAIN list = 1 .. Len(list)
         /\ \A k : k \in DOMAIN list <=> k \in 1 .. take /\ skip + k <= Cardinality(S)
         /\ \A k \in DOMAIN list : list[k] \in S /\ Places(R, S)[list[k]] = skip + k
<1>1. list \in Seq(S)
  BY DEF CutOf
<1>a. DOMAIN list = {k \in 1 .. take : skip + k <= Cardinality(S)}
  BY DEF CutOf
<1>2. \A k \in DOMAIN list : Places(R, S)[list[k]] = skip + k
  BY DEF CutOf
<1>3. \A k : k \in DOMAIN list <=> k \in 1 .. take /\ skip + k <= Cardinality(S)
  BY ONLY <1>a, Zenon
<1>4. Len(list) \in Nat /\ DOMAIN list = 1 .. Len(list)
  BY ONLY <1>1
<1>5. \A k \in DOMAIN list : list[k] \in S
  BY ONLY <1>1
<1> QED
  BY ONLY <1>1, <1>2, <1>3, <1>4, <1>5

LEMMA TwoTiers ==
  ASSUME NEW S, NEW A, NEW B, NEW R, NEW Q, NEW T, NEW c \in Nat, NEW d \in Nat, c = Cardinality(A), d = Cardinality(B),
         Cardinality(S) = c + d,
         \A x \in A : x \in S /\ Places(R, S)[x] = Places(Q, A)[x],
         \A x \in B : x \in S /\ Places(R, S)[x] = c + Places(T, B)[x],
         NEW o \in Nat, NEW n \in Nat, NEW a, NEW b,
         CutOf(Q, A, TwoTierSlice(o, n, c).skip1, TwoTierSlice(o, n, c).take1, a),
         CutOf(T, B, TwoTierSlice(o, n, c).skip2, TwoTierSlice(o, n, c).take2, b)
  PROVE  CutOf(R, S, o, n, a \o b)
<1> DEFINE l == a \o b
<1>1. PICK skip1, take1, skip2, take2 :
        /\ TwoTierSlice(o, n, c).skip1 = skip1 /\ TwoTierSlice(o, n, c).take1 = take1
        /\ TwoTierSlice(o, n, c).skip2 = skip2 /\ TwoTierSlice(o, n, c).take2 = take2
  OBVIOUS
<1>2. /\ take1 \in Nat /\ skip1 \in Nat /\ skip2 \in Nat /\ take2 \in Nat /\ take1 + take2 = n
      /\ o < c => skip1 = o /\ skip2 = 0 /\ take1 <= c - o /\ (take1 = n \/ take1 = c - o)
      /\ o >= c => skip1 = c /\ skip2 = o - c /\ take1 = 0
  BY <1>1 DEF TwoTierSlice, AtLeast0
<1>3. /\ a \in Seq(A) /\ \A k : k \in DOMAIN a <=> k \in 1 .. take1 /\ skip1 + k <= c
      /\ \A k \in DOMAIN a : a[k] \in A /\ Places(Q, A)[a[k]] = skip1 + k
  <2>1. CutOf(Q, A, skip1, take1, a)
    BY <1>1
  <2> QED
    BY ONLY <2>1, CutFacts, c = Cardinality(A)
<1>4. /\ b \in Seq(B) /\ \A k : k \in DOMAIN b <=> k \in 1 .. take2 /\ skip2 + k <= d
      /\ \A k \in DOMAIN b : b[k] \in B /\ Places(T, B)[b[k]] = skip2 + k
  <2>1. CutOf(T, B, skip2, take2, b)
    BY <1>1
  <2> QED
    BY ONLY <2>1, CutFacts, d = Cardinality(B)
<1>5. Len(a) = take1 /\ Len(b) \in Nat
  <2>1. take1 = 0 \/ take1 \in DOMAIN a
    <3>1. take1 # 0 => take1 \in 1 .. take1 /\ skip1 + take1 <= c
      BY <1>2
    <3> QED
      BY <1>3, <3>1
  <2>2. Len(a) \in Nat /\ DOMAIN a = 1 .. Len(a)
    BY <1>3
  <2>3. take1 + 1 \notin DOMAIN a
    BY <1>2, <1>3
  <2>4. take1 \in Nat
    BY <1>2
  <2>5. Len(a) = take1
    <3>1. PICK la \in Nat : la = Len(a)
      BY <2>2
    <3>2. \A k \in Nat : k \in DOMAIN a <=> 1 <= k /\ k <= la
      BY ONLY <2>2, <3>1
    <3>3. take1 = 0 \/ take1 <= la
      BY ONLY <2>1, <2>4, <3>2
    <3>4. PICK m \in Nat : m = take1 + 1 /\ m >= 1
      BY ONLY <2>4
    <3>5. ~(m <= la)
      BY ONLY <2>3, <3>2, <3>4
    <3>6. la = take1
      BY ONLY <2>4, <3>1, <3>3, <3>4, <3>5
    <3> QED
      BY ONLY <3>1, <3>6
  <2>6. b \in Seq(B)
    BY <1>4
  <2>7. Len(b) \in Nat
    BY ONLY <2>6
  <2> QED
    BY <2>5, <2>7
<1>6. DOMAIN b = 1 .. Len(b)
  BY <1>4
<1>7. /\ l \in Seq(S) /\ Len(l) = take1 + Len(b) /\ DOMAIN l = 1 .. Len(l)
      /\ \A k \in DOMAIN a : l[k] = a[k]
      /\ \A k \in DOMAIN b : l[take1 + k] = b[k]
  <2>1. a \in Seq(S) /\ b \in Seq(S)
    <3>1. A \subseteq S /\ B \subseteq S
      OBVIOUS
    <3> QED
      BY <1>3, <1>4, <3>1
  <2>2. Len(l) = Len(a) + Len(b) /\ l \in Seq(S)
    BY ONLY <2>1
  <2>3. \A k \in 1 .. Len(a) + Len(b) : l[k] = IF k <= Len(a) THEN a[k] ELSE b[k - Len(a)]
    BY ONLY <2>1
  <2>4. DOMAIN a = 1 .. Len(a)
    BY ONLY <2>1
  <2> HIDE DEF l
  <2>5. ASSUME NEW k \in DOMAIN a
        PROVE  l[k] = a[k]
    <3>1. k \in Nat /\ 1 <= k /\ k <= Len(a) /\ Len(a) \in Nat
      BY <1>2, <1>5, <2>4
    <3>2. k \in 1 .. Len(a) + Len(b)
      BY <1>5, <3>1
    <3> QED
      BY <2>3, <3>1, <3>2
  <2>6. ASSUME NEW k \in DOMAIN b
        PROVE  l[take1 + k] = b[k]
    <3>1. k \in Nat /\ 1 <= k /\ k <= Len(b)
      BY <1>5, <1>6
    <3>2. PICK m : m = take1 + k
      OBVIOUS
    <3>3. m \in 1 .. Len(a) + Len(b) /\ ~(m <= Len(a)) /\ m - Len(a) = k
      <4>1. PICK la \in Nat, lb \in Nat : la = take1 /\ la = Len(a) /\ lb = Len(b)
        <5>1. take1 \in Nat
          BY <1>2
        <5> QED
          BY ONLY <1>5, <5>1
      <4>2. k \in Nat /\ 1 <= k /\ k <= lb /\ m = la + k
        BY ONLY <3>1, <3>2, <4>1
      <4>3. m \in 1 .. la + lb /\ ~(m <= la) /\ m - la = k
        BY ONLY <4>1, <4>2
      <4> QED
        BY ONLY <4>1, <4>3
    <3>4. l[m] = b[k]
      BY ONLY <2>3, <3>3
    <3> QED
      BY <3>2, <3>4
  <2> QED
    BY <1>5, <2>2, <2>5, <2>6
<1> HIDE DEF l
<1>8. ASSUME NEW k
      PROVE  k \in DOMAIN l <=> k \in 1 .. n /\ o + k <= c + d
  <2>1. k \in DOMAIN l <=> k \in Nat /\ 1 <= k /\ k <= take1 + Len(b)
    BY <1>2, <1>5, <1>7
  <2>2. ASSUME NEW j \in Nat, j >= 1
        PROVE  j <= Len(b) <=> j <= take2 /\ skip2 + j <= d
    <3>1. j \in DOMAIN b <=> j \in 1 .. take2 /\ skip2 + j <= d
      BY <1>4
    <3> QED
      BY <1>2, <1>5, <1>6, <2>2, <3>1
  <2>3. CASE k \in Nat /\ k > take1
    <3>1. PICK j \in Nat : j = k - take1 /\ j >= 1
      BY <1>2, <2>3
    <3>2. j <= Len(b) <=> j <= take2 /\ skip2 + j <= d
      BY <2>2, <3>1
    <3>3. k = take1 + j
      BY <1>2, <2>3, <3>1
    <3>4. k <= take1 + Len(b) <=> j <= Len(b)
      BY <1>2, <1>5, <3>3
    <3>5. k <= n <=> j <= take2
      BY <1>2, <3>3
    <3>6. j <= take2 => (skip2 + j <= d <=> o + k <= c + d)
      <4>1. CASE o < c
        <5>1. j <= take2 => take1 = c - o
          BY <1>2, <3>1, <4>1
        <5> QED
          BY <1>2, <3>3, <4>1, <5>1
      <4>2. CASE o >= c
        BY <1>2, <3>3, <4>2
      <4> QED
        BY <4>1, <4>2
    <3>7. k \in 1 .. n <=> k <= n
      BY <1>2, <2>3
    <3> QED
      BY <2>1, <2>3, <3>2, <3>4, <3>5, <3>6, <3>7, <1>2
  <2>4. CASE k \in Nat /\ 1 <= k /\ k <= take1
    <3>1. k <= n /\ o + k <= c
      BY <1>2, <2>4
    <3> QED
      BY <2>1, <2>4, <3>1, <1>5, <1>2
  <2>5. CASE k \notin Nat \/ k < 1
    BY <2>1, <2>5
  <2> QED
    BY <2>3, <2>4, <2>5, <1>2
<1>9. ASSUME NEW k \in DOMAIN l
      PROVE  Places(R, S)[l[k]] = o + k
  <2>1. CASE k \in DOMAIN a
    <3>1. l[k] = a[k] /\ a[k] \in A /\ Places(Q, A)[a[k]] = skip1 + k
      BY <1>3, <1>7, <2>1
    <3>2. skip1 = o
      <4>1. take1 # 0
        BY <1>2, <1>3, <2>1
      <4> QED
        BY <1>2, <4>1
    <3> QED
      BY <3>1, <3>2
  <2>2. CASE k \notin DOMAIN a
    <3>1. k \in Nat /\ k > take1 /\ k <= take1 + Len(b)
      <4>1. k \in Nat /\ 1 <= k /\ k <= take1 + Len(b)
        BY <1>2, <1>5, <1>7
      <4>2. DOMAIN a = 1 .. take1
        BY <1>3, <1>5
      <4> QED
        BY <1>2, <2>2, <4>1, <4>2
    <3>2. PICK j \in Nat : k = take1 + j /\ j \in DOMAIN b
      <4>1. k - take1 \in 1 .. Len(b) /\ k - take1 \in Nat /\ k = take1 + (k - take1)
        BY <1>2, <1>5, <3>1
      <4> QED
        BY <1>6, <4>1
    <3>3. l[k] = b[j]
      BY <1>7, <3>2
    <3>4. b[j] \in B /\ Places(T, B)[b[j]] = skip2 + j /\ j <= take2 /\ j >= 1
      BY <1>2, <1>4, <3>2
    <3>5. c + skip2 = o + take1
      BY <1>2, <3>2, <3>4
    <3>6. Places(R, S)[l[k]] = c + (skip2 + j)
      BY <3>3, <3>4
    <3> QED
      BY <1>2, <3>2, <3>5, <3>6
  <2> QED
    BY <2>1, <2>2
<1>10. DOMAIN l = {k \in 1 .. n : o + k <= Cardinality(S)}
  BY <1>8
<1> QED
  BY <1>7, <1>9, <1>10 DEF CutOf, l

LEMMA ReadTierKeeps ==
  ASSUME CatalogueInv, NEW p \in Procs, ReadTier(p)
  PROVE  Steps(p)
<1>1. PICK t0 : t0 = task[p]
  OBVIOUS
<1>2. task[p] # None /\ t0.op = "list" /\ t0.at = "tiers" /\ Reads
  BY <1>1 DEF ReadTier, At
<1>3. DOMAIN t0 = Fields /\ Browses(t0) /\ (t0.alone => Pages(t0))
  BY <1>1, <1>2, UnderWay DEF Held, Relied
<1>4. PICK q : q = t0.query
  OBVIOUS
<1>5. PICK cut : cut = TwoTierSlice(Offset(q), q.limit, t0.row)
  OBVIOUS
<1>6. q \in Queries /\ SortOf(q) = "relevance" /\ Offset(q) \in Nat /\ q.limit \in Nat
  BY <1>2, <1>3, <1>4, QueryFacts DEF Browses
<1>7. t0.alone =>
        /\ t0.row = Cardinality(InTitle(q)) /\ t0.total = Cardinality(InTitle(q)) + Cardinality(InText(q))
        /\ t0.first # None => CutOf(Falling(InTitle(q)), InTitle(q), cut.skip1, cut.take1, t0.first)
        /\ t0.second # None => CutOf(Falling(InText(q)), InText(q), cut.skip2, cut.take2, t0.second)
  BY <1>2, <1>3, <1>4, <1>5 DEF Pages
<1>8. t0.alone => cut.skip1 \in Nat /\ cut.take1 \in Nat /\ cut.skip2 \in Nat /\ cut.take2 \in Nat
  BY <1>5, <1>6, <1>7, FoundIds DEF TwoTierSlice, AtLeast0, CatalogueInv
<1>9. ASSUME NEW first, first = Slice(Tier(q, 1), cut.skip1, cut.take1), Proceed(p, [t0 EXCEPT !.first = first])
      PROVE  Steps(p)
  <2>1. PICK t : t = [t0 EXCEPT !.first = first]
    OBVIOUS
  <2>2. /\ DOMAIN t = Fields /\ t.op = "list" /\ t.at = "tiers" /\ t.query = q /\ t.row = t0.row /\ t.total = t0.total
        /\ t.first = first /\ t.second = t0.second /\ t.alone = t0.alone
    BY <1>2, <1>3, <1>4, <2>1 DEF Fields
  <2>3. Browses(t)
    BY <1>2, <1>3, <1>4, <2>2 DEF Browses
  <2>4. t.alone => CutOf(Falling(InTitle(q)), InTitle(q), cut.skip1, cut.take1, first)
    BY <1>8, <1>9, <2>2, TiersByAge DEF CatalogueInv
  <2>5. t.alone => Pages(t)
    BY <1>5, <1>7, <2>2, <2>4 DEF Pages
  <2>6. Stands(t)
    BY <2>2, <2>3, <2>5 DEF Stands, Held, Relied, Publishers
  <2> QED
    BY <1>2, <1>9, <2>1, <2>6, ReadKeeps
<1>10. ASSUME NEW second, second = Slice(Tier(q, 2), cut.skip2, cut.take2), Proceed(p, [t0 EXCEPT !.second = second])
       PROVE  Steps(p)
  <2>1. PICK t : t = [t0 EXCEPT !.second = second]
    OBVIOUS
  <2>2. /\ DOMAIN t = Fields /\ t.op = "list" /\ t.at = "tiers" /\ t.query = q /\ t.row = t0.row /\ t.total = t0.total
        /\ t.first = t0.first /\ t.second = second /\ t.alone = t0.alone
    BY <1>2, <1>3, <1>4, <2>1 DEF Fields
  <2>3. Browses(t)
    BY <1>2, <1>3, <1>4, <2>2 DEF Browses
  <2>4. t.alone => CutOf(Falling(InText(q)), InText(q), cut.skip2, cut.take2, second)
    BY <1>8, <1>10, <2>2, TiersByAge DEF CatalogueInv
  <2>5. t.alone => Pages(t)
    BY <1>5, <1>7, <2>2, <2>4 DEF Pages
  <2>6. Stands(t)
    BY <2>2, <2>3, <2>5 DEF Stands, Held, Relied, Publishers
  <2> QED
    BY <1>2, <1>10, <2>1, <2>6, ReadKeeps
<1>11. ASSUME NEW list, list = t0.first \o t0.second, t0.first # None, t0.second # None,
              Proceed(p, [t0 EXCEPT !.at = "answer", !.list = list])
       PROVE  Steps(p)
  <2>1. PICK t : t = [t0 EXCEPT !.at = "answer", !.list = list]
    OBVIOUS
  <2>2. /\ DOMAIN t = Fields /\ t.op = "list" /\ t.at = "answer" /\ t.query = q /\ t.total = t0.total /\ t.list = list
        /\ t.alone = t0.alone
    BY <1>2, <1>3, <1>4, <2>1 DEF Fields
  <2>3. Browses(t)
    BY <1>2, <1>3, <1>4, <2>2 DEF Browses
  <2>4. ASSUME t.alone
        PROVE  t0.total = Cardinality(Found(q)) /\ CutOf(Ahead(q), Found(q), Offset(q), q.limit, list)
    <3>1. t0.row = Cardinality(InTitle(q)) /\ t0.total = Cardinality(InTitle(q)) + Cardinality(InText(q))
      BY <1>7, <2>2, <2>4
    <3>2. /\ CutOf(Falling(InTitle(q)), InTitle(q), cut.skip1, cut.take1, t0.first)
          /\ CutOf(Falling(InText(q)), InText(q), cut.skip2, cut.take2, t0.second)
      BY <1>7, <1>11, <2>2, <2>4
    <3>3. Cardinality(Found(q)) = Cardinality(InTitle(q)) + Cardinality(InText(q))
      BY <1>6, TierPlaces DEF CatalogueInv
    <3>4. \A x \in InTitle(q) : x \in Found(q) /\ Places(Ahead(q), Found(q))[x] = Places(Falling(InTitle(q)), InTitle(q))[x]
      BY <1>6, TierPlaces DEF CatalogueInv
    <3>5. \A x \in InText(q) : /\ x \in Found(q)
                               /\ Places(Ahead(q), Found(q))[x] = Cardinality(InTitle(q)) + Places(Falling(InText(q)), InText(q))[x]
      BY <1>6, TierPlaces DEF CatalogueInv
    <3>6. Cardinality(InTitle(q)) \in Nat /\ Cardinality(InText(q)) \in Nat
      BY FoundIds DEF CatalogueInv
    <3>7. PICK S, A, B, R, Q, T, c, d, o, n :
            /\ S = Found(q) /\ A = InTitle(q) /\ B = InText(q) /\ R = Ahead(q) /\ Q = Falling(A) /\ T = Falling(B)
            /\ c = Cardinality(A) /\ d = Cardinality(B) /\ o = Offset(q) /\ n = q.limit
      OBVIOUS
    <3>8. CutOf(R, S, o, n, t0.first \o t0.second)
      <4>1. c \in Nat /\ d \in Nat /\ c = Cardinality(A) /\ d = Cardinality(B) /\ Cardinality(S) = c + d /\ o \in Nat /\ n \in Nat
        BY <1>6, <3>3, <3>6, <3>7
      <4>2. \A x \in A : x \in S /\ Places(R, S)[x] = Places(Q, A)[x]
        BY <3>4, <3>7
      <4>3. \A x \in B : x \in S /\ Places(R, S)[x] = c + Places(T, B)[x]
        BY <3>5, <3>7
      <4>4. CutOf(Q, A, TwoTierSlice(o, n, c).skip1, TwoTierSlice(o, n, c).take1, t0.first)
        BY <1>5, <3>1, <3>2, <3>7
      <4>5. CutOf(T, B, TwoTierSlice(o, n, c).skip2, TwoTierSlice(o, n, c).take2, t0.second)
        BY <1>5, <3>1, <3>2, <3>7
      <4> QED
        BY ONLY <4>1, <4>2, <4>3, <4>4, <4>5, TwoTiers
    <3> QED
      BY <1>11, <3>1, <3>3, <3>7, <3>8
  <2>5. t.alone => Pages(t)
    BY <2>2, <2>4 DEF Pages
  <2>6. Stands(t)
    BY <2>2, <2>3, <2>5 DEF Stands, Held, Relied, Publishers
  <2> QED
    BY <1>2, <1>11, <2>1, <2>6, ReadKeeps
<1>12. \/ Proceed(p, [t0 EXCEPT !.first = Slice(Tier(q, 1), cut.skip1, cut.take1)])
       \/ Proceed(p, [t0 EXCEPT !.second = Slice(Tier(q, 2), cut.skip2, cut.take2)])
       \/ t0.first # None /\ t0.second # None /\ Proceed(p, [t0 EXCEPT !.at = "answer", !.list = t0.first \o t0.second])
  BY <1>1, <1>4, <1>5 DEF ReadTier
<1> QED
  BY <1>9, <1>10, <1>11, <1>12

\* Viewed or bought the most, the newer first among equals.
LEMMA ByScore ==
  ASSUME Tables, NEW q \in Queries, SortOf(q) \in {"viewed", "bought"}, NEW S, S = Found(q), NEW f,
         f = [i \in 1 .. Cardinality(S) |-> CHOOSE x \in S :
                Cardinality({y \in S : Times(q, y) > Times(q, x) \/ (Times(q, y) = Times(q, x) /\ y > x)}) = i - 1]
  PROVE  f \in [1 .. Cardinality(S) -> S] /\ \A i \in 1 .. Cardinality(S) : Places(Ahead(q), S)[f[i]] = i
<1> DEFINE w == [m \in S |-> Times(q, m)]
           B(x) == {y \in S : Times(q, y) > Times(q, x) \/ (Times(q, y) = Times(q, x) /\ y > x)}
<1>1. S \in SUBSET Nat /\ IsFiniteSet(S) /\ Cardinality(S) \in Nat
  BY FoundIds
<1>2. S \subseteq Rows(movie)
  BY QueryFacts DEF Found, Matching
<1>3. \A m \in S : Times(q, m) \in Nat
  BY <1>2 DEF Times, Tables, Typed, Rows, Movie
<1>4. PICK R : R = Ahead(q)
  OBVIOUS
<1>5. R = {r \in S \X S : w[r[1]] > w[r[2]] \/ (w[r[1]] = w[r[2]] /\ r[1] > r[2])}
  <2>1. \A i : Rank(q, i) = Times(q, i)
    BY DEF Rank
  <2>2. R = {r \in S \X S : Times(q, r[1]) > Times(q, r[2]) \/ (Times(q, r[1]) = Times(q, r[2]) /\ r[1] > r[2])}
    BY <1>4, <2>1 DEF Ahead
  <2>3. \A r \in S \X S : w[r[1]] = Times(q, r[1]) /\ w[r[2]] = Times(q, r[2])
    OBVIOUS
  <2> HIDE DEF w
  <2> QED
    BY <2>2, <2>3
<1>6. LinesUp(R, S)
  <2>1. w \in [S -> Nat]
    BY <1>3
  <2> HIDE DEF w
  <2> QED
    BY <1>1, <1>5, <2>1, ScoresLineUp
<1>7. \A x \in S : Places(R, S)[x] = 1 + Cardinality(B(x)) /\ Cardinality(B(x)) \in Nat
  <2>1. \A x \in S : {y \in S : <<y, x>> \in R} = B(x) /\ B(x) \in SUBSET S
    BY <1>5
  <2> HIDE DEF B
  <2> QED
    BY <1>1, <2>1, FS_Subset, FS_CardinalityType DEF Places
<1>8. \A n \in 1 .. Cardinality(S) : \E x \in S : Places(R, S)[x] = n
  BY ONLY <1>1, <1>6, PlaceTaken
<1>9. ASSUME NEW i \in 1 .. Cardinality(S)
      PROVE  f[i] \in S /\ Places(R, S)[f[i]] = i
  <2>1. PICK x \in S : Places(R, S)[x] = i
    BY <1>8
  <2>2. \E z \in S : Cardinality(B(z)) = i - 1
    <3> HIDE DEF B
    <3>1. i = 1 + Cardinality(B(x)) /\ Cardinality(B(x)) \in Nat
      BY <1>7, <2>1
    <3>2. Cardinality(B(x)) = i - 1
      BY <3>1
    <3> QED
      BY <3>2
  <2>3. f[i] = CHOOSE z \in S : Cardinality(B(z)) = i - 1
    OBVIOUS
  <2>4. f[i] \in S /\ Cardinality(B(f[i])) = i - 1
    BY <2>2, <2>3, Zenon
  <2> HIDE DEF B
  <2>5. Places(R, S)[f[i]] = 1 + (i - 1)
    BY <1>7, <2>4
  <2> QED
    BY <1>1, <2>4, <2>5
<1> QED
  BY <1>4, <1>9

LEMMA ScanIdsKeeps ==
  ASSUME CatalogueInv, NEW p \in Procs, ScanIds(p)
  PROVE  Steps(p)
<1>1. PICK t0 : t0 = task[p]
  OBVIOUS
<1>2. task[p] # None /\ t0.op = "list" /\ t0.at = "scan" /\ Reads
  BY <1>1 DEF ScanIds, At
<1>3. DOMAIN t0 = Fields /\ Browses(t0)
  BY <1>1, <1>2, UnderWay DEF Held
<1>4. PICK q : q = t0.query
  OBVIOUS
<1>5. q \in Queries /\ SortOf(q) \in {"viewed", "bought"} /\ Offset(q) \in Nat /\ q.limit \in Nat
  BY <1>2, <1>3, <1>4, QueryFacts DEF Browses
<1>6. PICK S : S = Found(q)
  OBVIOUS
<1> DEFINE q0 == task[p].query
           S0 == Found(q0)
           all == [i \in 1 .. Cardinality(S0) |-> CHOOSE x \in S0 :
                     Cardinality({y \in S0 : Times(q0, y) > Times(q0, x) \/ (Times(q0, y) = Times(q0, x) /\ y > x)}) = i - 1]
<1>7. Proceed(p, [task[p] EXCEPT !.at = "refetch", !.list = Slice(all, Offset(q0), q0.limit), !.total = Len(all)])
  BY DEF ScanIds, Ranked, Newer
<1>8. PICK f : f = all
  OBVIOUS
<1>9. f \in [1 .. Cardinality(S) -> S] /\ \A i \in 1 .. Cardinality(S) : Places(Ahead(q), S)[f[i]] = i
  <2>1. q = q0 /\ S = S0
    BY <1>1, <1>4, <1>6
  <2>2. q0 \in Queries /\ SortOf(q0) \in {"viewed", "bought"}
    BY <1>5, <2>1
  <2>3. f \in [1 .. Cardinality(S0) -> S0] /\ \A i \in 1 .. Cardinality(S0) : Places(Ahead(q0), S0)[f[i]] = i
    BY <1>8, <2>2, ByScore DEF CatalogueInv
  <2> HIDE DEF q0, S0
  <2> QED
    BY <2>1, <2>3
<1> HIDE DEF all
<1>10. PICK R : R = Ahead(q)
  OBVIOUS
<1>11. IsFiniteSet(S)
  BY <1>6, FoundIds DEF CatalogueInv
<1>12. CutOf(R, S, Offset(q), q.limit, Slice(f, Offset(q), q.limit)) /\ Len(f) = Cardinality(S)
  <2>1. \A i \in 1 .. Cardinality(S) : Places(R, S)[f[i]] = i
    BY <1>9, <1>10
  <2>2. PICK skip, take : skip = Offset(q) /\ take = q.limit
    OBVIOUS
  <2>3. skip \in Nat /\ take \in Nat
    BY <1>5, <2>2
  <2>4. CutOf(R, S, skip, take, Slice(f, skip, take)) /\ Len(f) = Cardinality(S)
    BY ONLY <1>9, <1>11, <2>1, <2>3, SlicedCut
  <2> QED
    BY <2>2, <2>4
<1>13. PICK t : t = [t0 EXCEPT !.at = "refetch", !.list = Slice(f, Offset(q), q.limit), !.total = Len(f)]
  OBVIOUS
<1>14. /\ DOMAIN t = Fields /\ t.op = "list" /\ t.at = "refetch" /\ t.query = q /\ t.list = Slice(f, Offset(q), q.limit)
       /\ t.total = Len(f)
  BY <1>2, <1>3, <1>4, <1>13 DEF Fields
<1>15. Browses(t)
  BY <1>2, <1>3, <1>4, <1>14 DEF Browses
<1>16. Pages(t)
  BY <1>6, <1>10, <1>12, <1>14 DEF Pages
<1>17. Stands(t)
  BY <1>14, <1>15, <1>16 DEF Stands, Held, Relied, Publishers
<1> QED
  BY <1>1, <1>2, <1>4, <1>7, <1>8, <1>13, <1>17, ReadKeeps

\* What is left of a list.
Left(list, S) == {k \in DOMAIN list : list[k] \in S}
LEMMA ThoseFacts ==
  ASSUME NEW T, NEW list \in Seq(T), NEW S
  PROVE  /\ Cardinality(Left(list, S)) \in Nat /\ DOMAIN Those(list, S) = 1 .. Cardinality(Left(list, S))
         /\ \E f \in [1 .. Cardinality(Left(list, S)) -> Left(list, S)] :
               \A i \in 1 .. Cardinality(Left(list, S)) :
                   Places(Rising(Left(list, S)), Left(list, S))[f[i]] = i /\ Those(list, S)[i] = list[f[i]]
<1>1. PICK D : D = Left(list, S)
  OBVIOUS
<1>2. D \in SUBSET Nat /\ IsFiniteSet(D) /\ Cardinality(D) \in Nat
  <2>1. D \in SUBSET (DOMAIN list)
    BY <1>1 DEF Left
  <2> QED
    BY <2>1, TableIds, FS_CardinalityType
<1>3. PICK f : f = [i \in 1 .. Cardinality(D) |-> CHOOSE x \in D : Cardinality({y \in D : y < x}) = i - 1]
  OBVIOUS
<1>4. f \in [1 .. Cardinality(D) -> D] /\ \A i \in 1 .. Cardinality(D) : Places(Rising(D), D)[f[i]] = i
  BY <1>2, <1>3, RankedRising
<1>5. Those(list, S) = [i \in 1 .. Cardinality(D) |-> list[f[i]]]
  <2> DEFINE E == {k \in DOMAIN list : list[k] \in S}
             g == [i \in 1 .. Cardinality(E) |-> CHOOSE x \in E : Cardinality({y \in E : y < x}) = i - 1]
  <2>1. Those(list, S) = [i \in DOMAIN g |-> list[g[i]]]
    BY DEF Those, Ranked
  <2>2. E = D
    BY <1>1 DEF Left
  <2> HIDE DEF E
  <2>3. g = f
    BY <1>3, <2>2
  <2>4. DOMAIN f = 1 .. Cardinality(D)
    BY <1>4
  <2> HIDE DEF g
  <2> QED
    BY <2>1, <2>3, <2>4
<1> QED
  BY <1>1, <1>2, <1>4, <1>5

LEMMA ThoseLeft ==
  ASSUME NEW T, NEW list \in Seq(T), NEW S
  PROVE  /\ Those(list, S) \in Seq(T)
         /\ \A k \in DOMAIN Those(list, S) : Those(list, S)[k] \in S /\ \E j \in DOMAIN list : Those(list, S)[k] = list[j]
<1>1. PICK D : D = Left(list, S)
  OBVIOUS
<1>2. PICK g : g = Those(list, S)
  OBVIOUS
<1>3. Cardinality(D) \in Nat /\ DOMAIN g = 1 .. Cardinality(D)
  BY <1>1, <1>2, ThoseFacts
<1>4. PICK f \in [1 .. Cardinality(D) -> D] : \A i \in 1 .. Cardinality(D) : g[i] = list[f[i]]
  BY <1>1, <1>2, ThoseFacts
<1>5. \A i \in 1 .. Cardinality(D) : f[i] \in DOMAIN list /\ list[f[i]] \in S /\ list[f[i]] \in T
  BY <1>1, <1>4 DEF Left
<1>6. g \in [1 .. Cardinality(D) -> T]
  <2>1. g = [i \in DOMAIN g |-> g[i]]
    <3>1. Those(list, S) = [i \in DOMAIN Those(list, S) |-> Those(list, S)[i]]
      BY DEF Those
    <3> QED
      BY <1>2, <3>1
  <2> QED
    BY <1>3, <1>4, <1>5, <2>1
<1>7. g \in Seq(T)
  BY <1>3, <1>6, ListOf
<1> QED
  BY <1>2, <1>3, <1>4, <1>5, <1>7

LEMMA ThoseAll ==
  ASSUME NEW T, NEW list \in Seq(T), NEW S, \A k \in DOMAIN list : list[k] \in S
  PROVE  Those(list, S) = list
<1>1. PICK D : D = Left(list, S)
  OBVIOUS
<1>2. PICK g : g = Those(list, S)
  OBVIOUS
<1>3. DOMAIN g = 1 .. Cardinality(D)
  BY <1>1, <1>2, ThoseFacts
<1>4. PICK f \in [1 .. Cardinality(D) -> D] :
        \A i \in 1 .. Cardinality(D) : Places(Rising(D), D)[f[i]] = i /\ g[i] = list[f[i]]
  BY <1>1, <1>2, ThoseFacts
<1>5. PICK n \in Nat : n = Len(list)
  OBVIOUS
<1>6. D = 1 .. n /\ Cardinality(D) = n
  <2>1. D = 1 .. n
    BY <1>1, <1>5 DEF Left
  <2>2. Cardinality(1 .. n) = n
    BY FS_Interval
  <2> QED
    BY <2>1, <2>2
<1>7. ASSUME NEW i \in 1 .. n
      PROVE  f[i] = i
  <2>1. f[i] \in 1 .. n /\ Places(Rising(D), D)[f[i]] = i
    BY <1>4, <1>6
  <2>2. {y \in D : <<y, f[i]>> \in Rising(D)} = 1 .. f[i] - 1
    BY <1>6, <2>1 DEF Rising
  <2>3. Cardinality(1 .. f[i] - 1) = f[i] - 1
    BY <2>1, FS_Interval
  <2>4. Places(Rising(D), D)[f[i]] = 1 + (f[i] - 1)
    BY <1>6, <2>1, <2>2, <2>3 DEF Places
  <2> QED
    BY <2>1, <2>4
<1>8. \A i \in 1 .. n : g[i] = list[i]
  BY <1>4, <1>6, <1>7
<1>9. g = [i \in DOMAIN g |-> g[i]]
  <2>1. Those(list, S) = [i \in DOMAIN Those(list, S) |-> Those(list, S)[i]]
    BY DEF Those
  <2> QED
    BY <1>2, <2>1
<1>10. DOMAIN list = 1 .. n /\ list = [i \in DOMAIN list |-> list[i]]
  BY <1>5
<1> QED
  BY <1>2, <1>3, <1>6, <1>8, <1>9, <1>10

LEMMA RefetchKeeps ==
  ASSUME CatalogueInv, NEW p \in Procs, Refetch(p)
  PROVE  Steps(p)
<1>1. PICK t0 : t0 = task[p]
  OBVIOUS
<1>2. task[p] # None /\ t0.op = "list" /\ t0.at = "refetch" /\ Reads
  BY <1>1 DEF Refetch, At
<1>3. DOMAIN t0 = Fields /\ Browses(t0) /\ (t0.alone => Pages(t0))
  BY <1>1, <1>2, UnderWay DEF Held, Relied
<1>4. PICK q : q = t0.query
  OBVIOUS
<1>5. q \in Queries /\ SortOf(q) \in {"viewed", "bought"} /\ q.of = "movie"
  BY <1>2, <1>3, <1>4, QueryFacts DEF Browses
<1>6. PICK list : list = Those(t0.list, Rows(movie))
  OBVIOUS
<1>7. PICK t : t = [t0 EXCEPT !.at = "answer", !.list = list]
  OBVIOUS
<1>8. Proceed(p, t)
  BY <1>1, <1>6, <1>7 DEF Refetch
<1>9. /\ DOMAIN t = Fields /\ t.op = "list" /\ t.at = "answer" /\ t.query = q /\ t.total = t0.total /\ t.list = list
      /\ t.alone = t0.alone
  BY <1>2, <1>3, <1>4, <1>7 DEF Fields
<1>10. Browses(t)
  BY <1>2, <1>3, <1>4, <1>9 DEF Browses
<1>11. ASSUME t.alone
       PROVE  t0.total = Cardinality(Found(q)) /\ CutOf(Ahead(q), Found(q), Offset(q), q.limit, list)
  <2>1. t0.total = Cardinality(Found(q)) /\ CutOf(Ahead(q), Found(q), Offset(q), q.limit, t0.list)
    BY <1>2, <1>3, <1>4, <1>9, <1>11 DEF Pages
  <2>2. t0.list \in Seq(Found(q)) /\ \A k \in DOMAIN t0.list : t0.list[k] \in Found(q)
    BY <2>1, CutFacts
  <2>3. Found(q) \subseteq Rows(movie)
    BY <1>5 DEF Found, Matching
  <2>4. \A k \in DOMAIN t0.list : t0.list[k] \in Rows(movie)
    BY <2>2, <2>3
  <2>5. list = t0.list
    BY <1>6, <2>2, <2>4, ThoseAll
  <2> QED
    BY <2>1, <2>5
<1>12. t.alone => Pages(t)
  BY <1>9, <1>11 DEF Pages
<1>13. Stands(t)
  BY <1>9, <1>10, <1>12 DEF Stands, Held, Relied, Publishers
<1> QED
  BY <1>2, <1>8, <1>13, ReadKeeps

LEMMA ReadEpisodesKeeps ==
  ASSUME CatalogueInv, NEW p \in Procs, ReadEpisodes(p)
  PROVE  Steps(p)
<1> DEFINE S == {m \in Episodes(task[p].id) : task[p].word = "USER" => movie[m].status = "PUBLISHED"}
           all == [i \in 1 .. Cardinality(S) |-> CHOOSE x \in S : Cardinality({y \in S : y < x}) = i - 1]
<1>1. PICK t0 : t0 = task[p]
  OBVIOUS
<1>2. task[p] # None /\ t0.op = "title" /\ t0.at = "episodes" /\ Reads
  BY <1>1 DEF ReadEpisodes, At
<1>3. DOMAIN t0 = Fields /\ (t0.alone => ShownTo(t0))
  BY <1>1, <1>2, UnderWay DEF Relied
<1>4. PICK f : f = all
  OBVIOUS
<1>5. PICK t : t = [t0 EXCEPT !.at = "answer", !.list = f]
  OBVIOUS
<1>6. Proceed(p, t)
  BY <1>1, <1>4, <1>5 DEF ReadEpisodes, Ranked, Oldest
<1>7. \A m \in S : m \in Rows(movie) /\ movie[m].series = t0.id /\ (t0.word = "USER" => movie[m].status = "PUBLISHED")
  BY <1>1 DEF Episodes
<1>8. S \in SUBSET Nat /\ IsFiniteSet(S) /\ Cardinality(S) \in Nat
  <2>1. movie \in Seq(Movie \cup {None}) /\ S \in SUBSET (DOMAIN movie)
    BY <1>7 DEF CatalogueInv, Tables, Typed, Rows
  <2>2. IsFiniteSet(S) /\ S \subseteq Nat
    BY <2>1, TableIds
  <2> QED
    BY <2>2, FS_CardinalityType
<1> HIDE DEF S
<1>9. f \in [1 .. Cardinality(S) -> S]
  BY <1>4, <1>8, RankedRising
<1> HIDE DEF all
<1>10. f \in Seq(Nat) /\ \A k \in DOMAIN f : f[k] \in S
  BY <1>8, <1>9, ListOf
<1>11. DOMAIN t = Fields /\ t.op = "title" /\ t.at = "answer" /\ t.word = t0.word /\ t.list = f /\ t.alone = t0.alone
  BY <1>2, <1>3, <1>5 DEF Fields
<1>12. t.alone => ShownTo(t)
  BY <1>2, <1>3, <1>7, <1>10, <1>11 DEF ShownTo
<1>13. Stands(t)
  BY <1>10, <1>11, <1>12 DEF Stands, Held, Relied, Publishers
<1> QED
  BY <1>2, <1>6, <1>13, ReadKeeps

LEMMA ReadMostPurchasedKeeps ==
  ASSUME CatalogueInv, NEW p \in Procs, ReadMostPurchased(p)
  PROVE  Steps(p)
<1>1. PICK t0 : t0 = task[p]
  OBVIOUS
<1>2. task[p] # None /\ t0.op = "title" /\ t0.at = "most" /\ Reads
  BY <1>1 DEF ReadMostPurchased, At
<1>3. DOMAIN t0 = Fields /\ t0.list \in Seq(Nat) /\ (t0.alone => ShownTo(t0))
  BY <1>1, <1>2, UnderWay DEF Held, Relied
<1>4. PICK S : S = {m \in Rows(movie) : movie[m].status = "PUBLISHED"}
  OBVIOUS
<1>5. PICK list : list = Those(t0.list, S)
  OBVIOUS
<1>6. PICK t : t = [t0 EXCEPT !.at = "answer", !.list = list]
  OBVIOUS
<1>7. Proceed(p, t)
  BY <1>1, <1>4, <1>5, <1>6 DEF ReadMostPurchased
<1>8. list \in Seq(Nat) /\ \A k \in DOMAIN list : list[k] \in S /\ \E j \in DOMAIN t0.list : list[k] = t0.list[j]
  BY <1>3, <1>5, ThoseLeft
<1>9. DOMAIN t = Fields /\ t.op = "title" /\ t.at = "answer" /\ t.word = t0.word /\ t.list = list /\ t.alone = t0.alone
  BY <1>2, <1>3, <1>6 DEF Fields
<1>10. \A m \in Rows(movie) : movie[m].bought > 0 => movie[m].series = None
  BY DEF CatalogueInv, Tables, Related, FilmsWereBought
<1>11. t.alone => ShownTo(t)
  BY <1>2, <1>3, <1>4, <1>8, <1>9, <1>10 DEF ShownTo
<1>12. Stands(t)
  BY <1>8, <1>9, <1>11 DEF Stands, Held, Relied, Publishers
<1> QED
  BY <1>2, <1>7, <1>12, ReadKeeps

LEMMA PlainKeeps ==
  ASSUME CatalogueInv, NEW p \in Procs, Reads, NEW t, Proceed(p, t), t # None => DOMAIN t = Fields /\ t.op \in Plain
  PROVE  Steps(p)
BY PlainStands, ReadKeeps

LEMMA ReadVideoKeeps ==
  ASSUME CatalogueInv, NEW p \in Procs, ReadVideo(p)
  PROVE  Steps(p)
<1>1. PICK t0 : t0 = task[p]
  OBVIOUS
<1>2. task[p] # None /\ t0.op = "stream" /\ Reads
  BY <1>1 DEF ReadVideo, At
<1>3. DOMAIN t0 = Fields
  BY <1>1, <1>2, UnderWay
<1>4. PICK v : v = CHOOSE w \in {w \in Videos(t0.id) : \A x \in Videos(t0.id) : x <= w} : TRUE
  OBVIOUS
<1>5. CASE End(p)
  BY <1>2, <1>5, EndKeeps
<1>6. ASSUME NEW w, Proceed(p, [t0 EXCEPT !.at = "tracks", !.row = w])
      PROVE  Steps(p)
  <2>1. PICK t : t = [t0 EXCEPT !.at = "tracks", !.row = w]
    OBVIOUS
  <2>2. DOMAIN t = Fields /\ t.op \in Plain
    BY <1>2, <1>3, <2>1 DEF Fields, Plain
  <2> QED
    BY <1>2, <1>6, <2>1, <2>2, PlainKeeps
<1>7. \/ End(p)
      \/ \E w : Proceed(p, [t0 EXCEPT !.at = "tracks", !.row = w])
  BY <1>1 DEF ReadVideo
<1> QED
  BY <1>5, <1>6, <1>7

LEMMA ReadTracksKeeps ==
  ASSUME CatalogueInv, NEW p \in Procs, ReadTracks(p)
  PROVE  Steps(p)
<1>1. PICK t0 : t0 = task[p]
  OBVIOUS
<1>2. task[p] # None /\ t0.op = "stream" /\ Reads
  BY <1>1 DEF ReadTracks, At
<1>3. DOMAIN t0 = Fields
  BY <1>1, <1>2, UnderWay
<1>4. PICK t : t = [t0 EXCEPT !.at = "answer", !.done = Subtitles(t0.row)]
  OBVIOUS
<1>5. DOMAIN t = Fields /\ t.op \in Plain
  BY <1>2, <1>3, <1>4 DEF Fields, Plain
<1>6. Proceed(p, t)
  BY <1>1, <1>4 DEF ReadTracks
<1> QED
  BY <1>2, <1>5, <1>6, PlainKeeps

LEMMA RecoverKeeps ==
  ASSUME CatalogueInv, NEW p \in Procs, Recover(p)
  PROVE  Steps(p)
<1>1. PICK t0 : t0 = task[p]
  OBVIOUS
<1>2. task[p] # None /\ t0.op = "backfill" /\ Reads
  BY <1>1 DEF Recover, At
<1>3. DOMAIN t0 = Fields
  BY <1>1, <1>2, UnderWay
<1>4. PICK t1 : t1 = [t0 EXCEPT !.list = Tail(@)]
  OBVIOUS
<1>5. PICK t2 : t2 = [t0 EXCEPT !.at = "video"]
  OBVIOUS
<1>6. End(p) \/ Proceed(p, t1) \/ Proceed(p, t2)
  BY <1>1, <1>4, <1>5 DEF Recover, Goto
<1>7. DOMAIN t1 = Fields /\ t1.op \in Plain
  BY <1>2, <1>3, <1>4 DEF Fields, Plain
<1>8. DOMAIN t2 = Fields /\ t2.op \in Plain
  BY <1>2, <1>3, <1>5 DEF Fields, Plain
<1>9. CASE End(p)
  BY <1>2, <1>9, EndKeeps
<1>10. CASE Proceed(p, t1)
  BY <1>2, <1>7, <1>10, PlainKeeps
<1>11. CASE Proceed(p, t2)
  BY <1>2, <1>8, <1>11, PlainKeeps
<1> QED
  BY <1>6, <1>9, <1>10, <1>11

LEMMA QueryFacetsKeeps ==
  ASSUME CatalogueInv, NEW p \in Procs, QueryFacets(p)
  PROVE  Steps(p)
<1>1. PICK t0 : t0 = task[p]
  OBVIOUS
<1>2. task[p] # None /\ t0.op = "facets" /\ Reads
  BY <1>1 DEF QueryFacets, At
<1>3. DOMAIN t0 = Fields /\ Filters(t0)
  BY <1>1, <1>2, UnderWay DEF Held
<1>4. PICK done : done = IF t0.word = "movie" THEN {movie[m].genre : m \in {m \in Rows(movie) : Public(m)}}
                         ELSE {series[s].genre : s \in {s \in Rows(series) : series[s].status = "PUBLISHED"}}
  OBVIOUS
<1>5. PICK t : t = [t0 EXCEPT !.at = "store", !.row = clock, !.done = done]
  OBVIOUS
<1>6. Proceed(p, t)
  BY <1>1, <1>4, <1>5 DEF QueryFacets
<1>7. DOMAIN t = Fields /\ t.op = "facets" /\ t.at = "store" /\ t.row = clock /\ t.done = done /\ t.word = t0.word /\ t.arg = t0.arg
  BY <1>2, <1>3, <1>5 DEF Fields
<1>8. Filters(t)
  BY <1>3, <1>7 DEF Filters, CatalogueInv, Tables, Cached
<1>9. Offered(t)
  BY <1>4, <1>7 DEF Offered
<1>10. Stands(t)
  BY <1>7, <1>8, <1>9 DEF Stands, Held, Relied, Publishers
<1> QED
  BY <1>2, <1>6, <1>10, ReadKeeps

LEMMA CountReferencesKeeps ==
  ASSUME CatalogueInv, NEW p \in Procs, CountReferences(p)
  PROVE  Steps(p)
<1>1. PICK t0 : t0 = task[p]
  OBVIOUS
<1>2. task[p] # None /\ t0.op = "removeSeries" /\ t0.at = "pictures" /\ Reads
  BY <1>1 DEF CountReferences, At
<1>3. DOMAIN t0 = Fields /\ ClearsShow(t0) /\ (t0.alone => Cleared(t0))
  BY <1>1, <1>2, UnderWay DEF Held, Relied
<1>4. ASSUME NEW t, Proceed(p, t), DOMAIN t = Fields, t.op = "removeSeries", t.at \in {"pictures", "report", "erase"}, t.id = t0.id,
             t.done = t0.done, t.todo = t0.todo, t.ok = t0.ok, t.alone = t0.alone,
             t.at = "erase" => ~StillReferenced(Head(t.list))
      PROVE  Steps(p)
  <2>1. ClearsShow(t)
    BY <1>2, <1>3, <1>4 DEF ClearsShow
  <2>2. t.alone => Cleared(t)
    BY <1>2, <1>3, <1>4 DEF Cleared
  <2>3. Stands(t)
    BY <1>4, <2>1, <2>2 DEF Stands, Held, Relied, Publishers
  <2> QED
    BY <1>2, <1>4, <2>3, ReadKeeps
<1>5. PICK t1 : t1 = [t0 EXCEPT !.at = "report"]
  OBVIOUS
<1>6. PICK t2 : t2 = [t0 EXCEPT !.list = Tail(@)]
  OBVIOUS
<1>7. PICK t3 : t3 = [t0 EXCEPT !.at = "erase"]
  OBVIOUS
<1>8. Proceed(p, t1) \/ Proceed(p, t2) \/ (Proceed(p, t3) /\ ~StillReferenced(Head(t0.list)))
  BY <1>1, <1>5, <1>6, <1>7 DEF CountReferences, Goto
<1>9. CASE Proceed(p, t1)
  <2>1. /\ DOMAIN t1 = Fields /\ t1.op = "removeSeries" /\ t1.at = "report" /\ t1.id = t0.id /\ t1.done = t0.done
        /\ t1.todo = t0.todo /\ t1.ok = t0.ok /\ t1.alone = t0.alone
    BY <1>2, <1>3, <1>5 DEF Fields
  <2> QED
    BY <1>4, <1>9, <2>1
<1>10. CASE Proceed(p, t2)
  <2>1. /\ DOMAIN t2 = Fields /\ t2.op = "removeSeries" /\ t2.at = "pictures" /\ t2.id = t0.id /\ t2.done = t0.done
        /\ t2.todo = t0.todo /\ t2.ok = t0.ok /\ t2.alone = t0.alone
    BY <1>2, <1>3, <1>6 DEF Fields
  <2> QED
    BY <1>4, <1>10, <2>1
<1>11. CASE Proceed(p, t3) /\ ~StillReferenced(Head(t0.list))
  <2>1. /\ DOMAIN t3 = Fields /\ t3.op = "removeSeries" /\ t3.at = "erase" /\ t3.id = t0.id /\ t3.done = t0.done
        /\ t3.todo = t0.todo /\ t3.ok = t0.ok /\ t3.alone = t0.alone /\ t3.list = t0.list
    BY <1>2, <1>3, <1>7 DEF Fields
  <2> QED
    BY <1>4, <1>11, <2>1
<1> QED
  BY <1>8, <1>9, <1>10, <1>11

LEMMA FindAuthorKeeps ==
  ASSUME CatalogueInv, NEW p \in Procs, FindAuthor(p)
  PROVE  Steps(p)
<1>1. PICK t0 : t0 = task[p]
  OBVIOUS
<1>2. task[p] # None /\ t0.op = "book" /\ t0.at \in {"find", "again"} /\ Reads
  BY <1>1 DEF FindAuthor, At
<1>3. DOMAIN t0 = Fields /\ Credits(t0)
  BY <1>1, <1>2, UnderWay DEF Held
<1>4. CASE End(p)
  BY <1>2, <1>4, EndKeeps
<1>5. ASSUME NEW i \in Namesakes(t0.text), NEW by, by = [id |-> i, name |-> named[i].name],
             Proceed(p, [t0 EXCEPT !.at = "write", !.first = by])
      PROVE  Steps(p)
  <2>1. i \in DOMAIN named /\ i \in Nat /\ named[i] # None /\ named[i] \in Named /\ named[i].kind = "author"
    BY DEF Namesakes, Kin, Rows, CatalogueInv, Tables, Typed
  <2>2. by \in By /\ by.id = i /\ by.name = named[i].name
    BY <1>5, <2>1 DEF By, Named
  <2>3. PICK t : t = [t0 EXCEPT !.at = "write", !.first = by]
    OBVIOUS
  <2>4. DOMAIN t = Fields /\ t.op = "book" /\ t.at = "write" /\ t.first = by /\ t.id = t0.id /\ t.arg = t0.arg
    BY <1>2, <1>3, <2>3 DEF Fields
  <2>5. Credits(t) /\ Credible(t)
    BY <1>3, <2>1, <2>2, <2>4 DEF Credits, Credible
  <2>6. Stands(t)
    BY <2>4, <2>5 DEF Stands, Held, Relied, Publishers
  <2> QED
    BY <1>2, <1>5, <2>3, <2>6, ReadKeeps
<1>6. CASE Namesakes(t0.text) = {} /\ t0.at = "find" /\ Proceed(p, [t0 EXCEPT !.at = "author"])
  <2>1. PICK t : t = [t0 EXCEPT !.at = "author"]
    OBVIOUS
  <2>2. DOMAIN t = Fields /\ t.op = "book" /\ t.at = "author" /\ t.text = t0.text /\ t.id = t0.id /\ t.arg = t0.arg
    BY <1>2, <1>3, <2>1 DEF Fields
  <2>3. Credits(t) /\ Credible(t)
    BY <1>3, <1>6, <2>2 DEF Credits, Credible
  <2>4. Stands(t)
    BY <2>2, <2>3 DEF Stands, Held, Relied, Publishers
  <2> QED
    BY <1>2, <1>6, <2>1, <2>4, ReadKeeps
<1>7. \/ \E i \in Namesakes(t0.text) : Proceed(p, [t0 EXCEPT !.at = "write", !.first = [id |-> i, name |-> named[i].name]])
      \/ Namesakes(t0.text) = {} /\ t0.at = "find" /\ Proceed(p, [t0 EXCEPT !.at = "author"])
      \/ End(p)
  BY <1>1 DEF FindAuthor, Goto
<1> QED
  BY <1>4, <1>5, <1>6, <1>7

LEMMA CountCoversKeeps ==
  ASSUME CatalogueInv, NEW p \in Procs, CountCovers(p)
  PROVE  Steps(p)
<1>1. PICK t0 : t0 = task[p]
  OBVIOUS
<1>2. task[p] # None /\ t0.op = "book" /\ t0.at = "cover" /\ Reads
  BY <1>1 DEF CountCovers, At
<1>3. DOMAIN t0 = Fields /\ Credits(t0)
  BY <1>1, <1>2, UnderWay DEF Held
<1>4. PICK t : t = [t0 EXCEPT !.at = "erase"]
  OBVIOUS
<1>5. End(p) \/ Proceed(p, t)
  BY <1>1, <1>4 DEF CountCovers, Goto
<1>6. DOMAIN t = Fields /\ t.op = "book" /\ t.at = "erase" /\ t.id = t0.id /\ t.arg = t0.arg
  BY <1>2, <1>3, <1>4 DEF Fields
<1>7. Credits(t) /\ Credible(t)
  BY <1>3, <1>6 DEF Credits, Credible
<1>8. Stands(t)
  BY <1>6, <1>7 DEF Stands, Held, Relied, Publishers
<1> QED
  BY <1>2, <1>5, <1>8, ReadKeeps, EndKeeps

LEMMA CheckParentKeeps ==
  ASSUME CatalogueInv, NEW p \in Procs, CheckParent(p)
  PROVE  Steps(p)
<1>1. PICK t0 : t0 = task[p]
  OBVIOUS
<1>2. task[p] # None /\ t0.op = "comment" /\ Reads
  BY <1>1 DEF CheckParent, At
<1>3. DOMAIN t0 = Fields /\ Says(t0)
  BY <1>1, <1>2, UnderWay DEF Held
<1>4. PICK t : t = [t0 EXCEPT !.at = "insert"]
  OBVIOUS
<1>5. End(p) \/ (Proceed(p, t) /\ MayAnswer(t0.arg, t0.word, t0.id))
  BY <1>1, <1>4 DEF CheckParent, Goto
<1>6. DOMAIN t = Fields /\ t.op = "comment" /\ t.at = "insert" /\ t.id = t0.id /\ t.arg = t0.arg /\ t.word = t0.word /\ t.text = t0.text
  BY <1>2, <1>3, <1>4 DEF Fields
<1>7. MayAnswer(t0.arg, t0.word, t0.id) => Says(t)
  BY <1>3, <1>6 DEF Says, MayAnswer, Rows
<1>8. MayAnswer(t0.arg, t0.word, t0.id) => Stands(t)
  BY <1>6, <1>7 DEF Stands, Held, Relied, Publishers
<1> QED
  BY <1>2, <1>5, <1>8, ReadKeeps, EndKeeps

LEMMA AnswersKeep ==
  ASSUME CatalogueInv, NEW p \in Procs, Answered(p) \/ Report(p) \/ ShowThread(p)
  PROVE  Steps(p)
BY EndKeeps DEF Answered, Report, ShowThread

LEMMA ReadReadyKeeps ==
  ASSUME CatalogueInv, NEW p \in Procs, ReadReady(p)
  PROVE  Steps(p)
<1>1. PICK t0 : t0 = task[p]
  OBVIOUS
<1>2. task[p] # None /\ t0.op \in Publishers /\ t0.at = "publish" /\ Reads
  BY <1>1 DEF ReadReady, Publishing, Publishers
<1>3. DOMAIN t0 = Fields /\ Publishes(t0) /\ (t0.alone => Loads(t0))
  BY <1>1, <1>2, UnderWay DEF Held, Relied
<1>4. PICK t1 : t1 = [t0 EXCEPT !.at = "rows"]
  OBVIOUS
<1>5. PICK t2 : t2 = [t0 EXCEPT !.at = "unpublish"]
  OBVIOUS
<1>6. \/ Proceed(p, t1) /\ video[t0.row] # None /\ video[t0.row].ready
      \/ Proceed(p, t2) /\ t0.op = "removeSubtitle" /\ (video[t0.row] = None \/ ~video[t0.row].ready)
      \/ Proceed(p, None)
  BY <1>1, <1>4, <1>5 DEF ReadReady, AfterPublish, Goto
<1>7. CASE Proceed(p, t1) /\ video[t0.row] # None /\ video[t0.row].ready
  <2>1. /\ DOMAIN t1 = Fields /\ t1.op = t0.op /\ t1.at = "rows" /\ t1.id = t0.id /\ t1.arg = t0.arg /\ t1.row = t0.row
        /\ t1.list = t0.list /\ t1.text = t0.text /\ t1.alone = t0.alone
    BY <1>3, <1>4 DEF Fields
  <2>2. Publishes(t1)
    BY <1>2, <1>3, <1>7, <2>1 DEF Publishes
  <2>3. Loads(t1)
    BY <2>1 DEF Loads
  <2>4. Stands(t1)
    BY <1>2, <2>1, <2>2, <2>3 DEF Stands, Held, Relied, Publishers
  <2> QED
    BY <1>2, <1>7, <2>4, ReadKeeps
<1>8. CASE Proceed(p, t2) /\ t0.op = "removeSubtitle" /\ (video[t0.row] = None \/ ~video[t0.row].ready)
  <2>1. /\ DOMAIN t2 = Fields /\ t2.op = t0.op /\ t2.at = "unpublish" /\ t2.id = t0.id /\ t2.arg = t0.arg /\ t2.row = t0.row
        /\ t2.list = t0.list /\ t2.text = t0.text /\ t2.alone = t0.alone
    BY <1>3, <1>5 DEF Fields
  <2>2. Publishes(t2)
    BY <1>2, <1>3, <1>8, <2>1 DEF Publishes
  <2>3. t2.alone => Loads(t2)
    BY <1>2, <1>3, <1>8, <2>1 DEF Loads, Unnamed
  <2>4. Stands(t2)
    BY <1>2, <2>1, <2>2, <2>3 DEF Stands, Held, Relied, Publishers
  <2> QED
    BY <1>2, <1>8, <2>4, ReadKeeps
<1>9. CASE Proceed(p, None)
  BY <1>2, <1>9, EndKeeps DEF End
<1> QED
  BY <1>6, <1>7, <1>8, <1>9

LEMMA ReadRowsKeeps ==
  ASSUME CatalogueInv, NEW p \in Procs, ReadRows(p)
  PROVE  Steps(p)
<1> DEFINE S0 == Subtitles(task[p].row)
           ids0 == [i \in 1 .. Cardinality(S0) |-> CHOOSE x \in S0 : Cardinality({y \in S0 : y < x}) = i - 1]
<1>1. PICK t0 : t0 = task[p]
  OBVIOUS
<1>2. task[p] # None /\ t0.op \in Publishers /\ t0.at = "rows" /\ Reads
  BY <1>1 DEF ReadRows, Publishing, Publishers
<1>3. DOMAIN t0 = Fields /\ Publishes(t0)
  BY <1>1, <1>2, UnderWay DEF Held
<1>4. PICK ids : ids = ids0
  OBVIOUS
<1>5. PICK rows : rows = [i \in DOMAIN ids |-> [id |-> ids[i], row |-> subtitle[ids[i]]]]
  OBVIOUS
<1>6. PICK t : t = [t0 EXCEPT !.at = "master", !.rows = rows]
  OBVIOUS
<1>7. Proceed(p, t)
  BY <1>1, <1>4, <1>5, <1>6 DEF ReadRows, Ranked
<1>8. PICK S : S = S0
  OBVIOUS
<1>9. \A s \in S : s \in Rows(subtitle) /\ subtitle[s].video = t0.row
  BY <1>1, <1>8 DEF Subtitles
<1>10. S \in SUBSET Nat /\ IsFiniteSet(S) /\ Cardinality(S) \in Nat
  <2>1. subtitle \in Seq(Subtitle \cup {None}) /\ S \in SUBSET (DOMAIN subtitle)
    BY <1>9 DEF CatalogueInv, Tables, Typed, Rows
  <2>2. IsFiniteSet(S) /\ S \subseteq Nat
    BY <2>1, TableIds
  <2> QED
    BY <2>2, FS_CardinalityType
<1>11. ids \in [1 .. Cardinality(S) -> S]
  <2>1. ids = [i \in 1 .. Cardinality(S) |-> CHOOSE x \in S : Cardinality({y \in S : y < x}) = i - 1]
    BY <1>4, <1>8
  <2> HIDE DEF S0, ids0
  <2> QED
    BY <1>10, <2>1, RankedRising
<1> HIDE DEF S0, ids0
<1>12. \A s \in S : s \in Nat /\ subtitle[s] \in Subtitle /\ OfVideo(s, t0.row)
  BY <1>9, <1>10 DEF CatalogueInv, Tables, Typed, Rows, OfVideo
<1>13. rows \in Seq([id : Nat, row : Subtitle])
  <2>1. rows \in [1 .. Cardinality(S) -> [id : Nat, row : Subtitle]]
    BY <1>5, <1>11, <1>12
  <2> QED
    BY <1>10, <2>1, ListOf
<1>14. \A i \in DOMAIN rows : rows[i].id \in S
  BY <1>5, <1>11
<1>15. /\ DOMAIN t = Fields /\ t.op = t0.op /\ t.at = "master" /\ t.id = t0.id /\ t.arg = t0.arg /\ t.row = t0.row
       /\ t.list = t0.list /\ t.text = t0.text /\ t.rows = rows
  BY <1>3, <1>6 DEF Fields
<1>16. t0.op = "removeSubtitle" => subtitle[t0.id] = None
  BY <1>2, <1>3 DEF Publishes
<1>17. \A i \in DOMAIN rows : OfVideo(rows[i].id, t0.row) /\ (t0.op = "removeSubtitle" => rows[i].id # t0.id)
  BY <1>9, <1>12, <1>14, <1>16 DEF Rows
<1>18. Publishes(t)
  BY <1>2, <1>3, <1>13, <1>15, <1>17 DEF Publishes
<1>19. Loads(t)
  BY <1>15 DEF Loads
<1>20. Stands(t)
  BY <1>2, <1>15, <1>18, <1>19 DEF Stands, Held, Relied, Publishers
<1> QED
  BY <1>2, <1>7, <1>20, ReadKeeps

LEMMA ReadMasterKeeps ==
  ASSUME CatalogueInv, NEW p \in Procs, ReadMaster(p)
  PROVE  Steps(p)
<1>1. PICK t0 : t0 = task[p]
  OBVIOUS
<1>2. task[p] # None /\ t0.op \in Publishers /\ t0.at = "master" /\ Reads
  BY <1>1 DEF ReadMaster, Publishing, Publishers
<1>3. DOMAIN t0 = Fields /\ Publishes(t0)
  BY <1>1, <1>2, UnderWay DEF Held
<1>4. PICK text : text = master[t0.arg]
  OBVIOUS
<1>5. PICK t1 : t1 = [t0 EXCEPT !.at = "each", !.first = text]
  OBVIOUS
<1>6. PICK t2 : t2 = [t0 EXCEPT !.at = "erase"]
  OBVIOUS
<1>7. Proceed(p, t1) \/ (Proceed(p, t2) /\ t0.op = "removeSubtitle") \/ Proceed(p, None)
  BY <1>1, <1>4, <1>5, <1>6 DEF ReadMaster, AfterPublish
<1>8. CASE Proceed(p, t1)
  <2>1. /\ DOMAIN t1 = Fields /\ t1.op = t0.op /\ t1.at = "each" /\ t1.id = t0.id /\ t1.arg = t0.arg /\ t1.row = t0.row
        /\ t1.list = t0.list /\ t1.text = t0.text /\ t1.rows = t0.rows /\ t1.first = text
    BY <1>3, <1>5 DEF Fields
  <2>2. Publishes(t1)
    BY <1>2, <1>3, <2>1 DEF Publishes
  <2>3. t1.list = <<>>
    BY <1>2, <1>3, <2>1 DEF Publishes
  <2>4. Loads(t1)
    BY <1>4, <2>1, <2>3 DEF Loads
  <2>5. Stands(t1)
    BY <1>2, <2>1, <2>2, <2>4 DEF Stands, Held, Relied, Publishers
  <2> QED
    BY <1>2, <1>8, <2>5, ReadKeeps
<1>9. CASE Proceed(p, t2) /\ t0.op = "removeSubtitle"
  <2>1. /\ DOMAIN t2 = Fields /\ t2.op = t0.op /\ t2.at = "erase" /\ t2.id = t0.id /\ t2.arg = t0.arg /\ t2.row = t0.row
        /\ t2.list = t0.list /\ t2.text = t0.text
    BY <1>3, <1>6 DEF Fields
  <2>2. Publishes(t2)
    BY <1>2, <1>3, <1>9, <2>1 DEF Publishes
  <2>3. Loads(t2)
    BY <1>9, <2>1 DEF Loads
  <2>4. Stands(t2)
    BY <1>2, <2>1, <2>2, <2>3 DEF Stands, Held, Relied, Publishers
  <2> QED
    BY <1>2, <1>9, <2>4, ReadKeeps
<1>10. CASE Proceed(p, None)
  BY <1>2, <1>10, EndKeeps DEF End
<1> QED
  BY <1>7, <1>8, <1>9, <1>10

-----------------------------------------------------------------------------
(* What a step that writes does to the tables *)

LEMMA MovieAdded ==
  ASSUME Tables, NEW row \in Movie, row.series = None \/ row.series \in Rows(series), row.links \subseteq Rows(named),
         row.bought = 0, AddMovie(row), UNCHANGED <<series, video, subtitle, people, source, cache>>, requests' \in Nat
  PROVE  Tables' /\ World
<1>1. movie' = Append(movie, row) /\ master' = Append(master, None)
  BY DEF AddMovie
<1>2. PICK n : n = Len(movie) + 1
  OBVIOUS
<1>3. /\ movie' \in Seq(Movie \cup {None}) /\ Len(movie') = n /\ DOMAIN movie' = (DOMAIN movie) \cup {n}
      /\ \A i \in DOMAIN movie : movie'[i] = movie[i]
      /\ movie'[n] = row
  <2>1. movie \in Seq(Movie \cup {None}) /\ row \in Movie \cup {None}
    BY DEF Tables, Typed
  <2> QED
    BY <1>1, <1>2, <2>1, RowAdded
<1>4. /\ master' \in Seq(Master \cup {None}) /\ Len(master') = n /\ DOMAIN master' = (DOMAIN master) \cup {n}
      /\ \A i \in DOMAIN master : master'[i] = master[i]
      /\ master'[n] = None
  <2>1. master \in Seq(Master \cup {None}) /\ None \in Master \cup {None} /\ Len(master) = Len(movie)
    BY DEF Tables, Typed
  <2> QED
    BY <1>1, <1>2, <2>1, RowAdded
<1>5. n \notin DOMAIN movie /\ row # None
  <2>1. movie \in Seq(Movie \cup {None})
    BY DEF Tables, Typed
  <2> QED
    BY <1>2, <2>1, TableIds, NoneIsNothing
<1>6. Rows(movie') = Rows(movie) \cup {n} /\ \A m \in Rows(movie) : movie'[m] = movie[m]
  BY <1>3, <1>5 DEF Rows
<1>7. Rows(master') = Rows(master) /\ \A m \in Rows(master) : master'[m] = master[m]
  BY <1>4 DEF Rows, Tables, Typed
<1>8. /\ series' = series /\ video' = video /\ subtitle' = subtitle /\ named' = named /\ book' = book /\ comment' = comment
      /\ source' = source /\ facets' = facets /\ clock' = clock
  BY DEF people, cache
<1>9. Typed'
  BY <1>3, <1>4, <1>8 DEF Tables, Typed
<1>10. LinksHold(movie', named') /\ EpisodesHold(movie', series') /\ FilesHold(video', movie') /\ FilmsWereBought(movie')
  BY <1>3, <1>6, <1>8 DEF LinksHold, EpisodesHold, FilesHold, FilmsWereBought, Tables, Related
<1>11. Related(series, movie, video, subtitle, named, book, comment)'
  BY <1>8, <1>10 DEF Tables, Related
<1>12. Posted'
  BY <1>7, <1>8 DEF Tables, Posted
<1>13. Cached'
  BY <1>8 DEF Tables, Cached
<1>14. Lasts(movie, movie')
  BY <1>3 DEF Lasts
<1>15. World
  BY <1>8, <1>14, SameLasts DEF World, Tables, Cached
<1> QED
  BY <1>9, <1>11, <1>12, <1>13, <1>15 DEF Tables

LEMMA MovieWritten ==
  ASSUME Tables, NEW m \in Rows(movie), NEW row \in Movie, row.series = movie[m].series, row.bought = movie[m].bought,
         row.links \subseteq Rows(named), movie' = [movie EXCEPT ![m] = row],
         UNCHANGED <<series, video, subtitle, people, store, cache, requests>>
  PROVE  Tables' /\ World
<1>1. /\ movie' \in Seq(Movie \cup {None}) /\ Len(movie') = Len(movie) /\ DOMAIN movie' = DOMAIN movie
  <2>1. movie \in Seq(Movie \cup {None}) /\ row \in Movie \cup {None}
    BY DEF Tables, Typed
  <2> QED
    BY <2>1, RowWritten
<1>2. m \in DOMAIN movie /\ row # None /\ movie'[m] = row /\ \A i \in DOMAIN movie : i # m => movie'[i] = movie[i]
  BY NoneIsNothing DEF Rows
<1>3. Rows(movie') = Rows(movie)
  BY <1>1, <1>2 DEF Rows
<1>4. /\ series' = series /\ video' = video /\ subtitle' = subtitle /\ named' = named /\ book' = book /\ comment' = comment
      /\ source' = source /\ master' = master /\ facets' = facets /\ clock' = clock
  BY DEF people, cache, store
<1>5. Typed'
  BY <1>1, <1>4 DEF Tables, Typed
<1>6. LinksHold(movie', named') /\ EpisodesHold(movie', series') /\ FilesHold(video', movie') /\ FilmsWereBought(movie')
  BY <1>2, <1>3, <1>4 DEF LinksHold, EpisodesHold, FilesHold, FilmsWereBought, Tables, Related, Rows
<1>7. Related(series, movie, video, subtitle, named, book, comment)'
  BY <1>4, <1>6 DEF Tables, Related
<1>8. Posted' /\ Cached'
  BY <1>4 DEF Tables, Posted, Cached
<1>9. Lasts(movie, movie')
  BY <1>1, <1>2 DEF Lasts, Rows
<1>10. World
  BY <1>4, <1>9, SameLasts DEF World, Tables, Cached
<1> QED
  BY <1>5, <1>7, <1>8, <1>10 DEF Tables

LEMMA SeriesAdded ==
  ASSUME Tables, NEW row \in Series, row.links \subseteq Rows(named), series' = Append(series, row),
         UNCHANGED <<movie, video, subtitle, people, store, cache>>, requests' \in Nat
  PROVE  Tables' /\ World
<1>1. PICK n : n = Len(series) + 1
  OBVIOUS
<1>2. /\ series' \in Seq(Series \cup {None}) /\ DOMAIN series' = (DOMAIN series) \cup {n}
      /\ \A i \in DOMAIN series : series'[i] = series[i]
      /\ series'[n] = row
  <2>1. series \in Seq(Series \cup {None}) /\ row \in Series \cup {None}
    BY DEF Tables, Typed
  <2> QED
    BY <1>1, <2>1, RowAdded
<1>3. n \notin DOMAIN series /\ row # None
  <2>1. series \in Seq(Series \cup {None})
    BY DEF Tables, Typed
  <2> QED
    BY <1>1, <2>1, TableIds, NoneIsNothing
<1>4. Rows(series') = Rows(series) \cup {n}
  BY <1>2, <1>3 DEF Rows
<1>5. /\ movie' = movie /\ video' = video /\ subtitle' = subtitle /\ named' = named /\ book' = book /\ comment' = comment
      /\ source' = source /\ master' = master /\ facets' = facets /\ clock' = clock
  BY DEF people, cache, store
<1>6. Typed'
  BY <1>2, <1>5 DEF Tables, Typed
<1>7. LinksHold(series', named') /\ EpisodesHold(movie', series')
  BY <1>2, <1>4, <1>5 DEF LinksHold, EpisodesHold, Tables, Related, Rows
<1>8. Related(series, movie, video, subtitle, named, book, comment)'
  BY <1>5, <1>7 DEF Tables, Related
<1>9. Posted' /\ Cached'
  BY <1>5 DEF Tables, Posted, Cached
<1>10. Lasts(series, series')
  BY <1>2 DEF Lasts
<1>11. World
  BY <1>5, <1>10, SameLasts DEF World, Tables, Cached
<1> QED
  BY <1>6, <1>8, <1>9, <1>11 DEF Tables

LEMMA SeriesWritten ==
  ASSUME Tables, NEW s \in Rows(series), NEW row \in Series, row.links \subseteq Rows(named), series' = [series EXCEPT ![s] = row],
         UNCHANGED <<movie, video, subtitle, people, store, cache, requests>>
  PROVE  Tables' /\ World
<1>1. /\ series' \in Seq(Series \cup {None}) /\ DOMAIN series' = DOMAIN series
  <2>1. series \in Seq(Series \cup {None}) /\ row \in Series \cup {None}
    BY DEF Tables, Typed
  <2> QED
    BY <2>1, RowWritten
<1>2. s \in DOMAIN series /\ row # None /\ series'[s] = row /\ \A i \in DOMAIN series : i # s => series'[i] = series[i]
  BY NoneIsNothing DEF Rows
<1>3. Rows(series') = Rows(series)
  BY <1>1, <1>2 DEF Rows
<1>4. /\ movie' = movie /\ video' = video /\ subtitle' = subtitle /\ named' = named /\ book' = book /\ comment' = comment
      /\ source' = source /\ master' = master /\ facets' = facets /\ clock' = clock
  BY DEF people, cache, store
<1>5. Typed'
  BY <1>1, <1>4 DEF Tables, Typed
<1>6. LinksHold(series', named') /\ EpisodesHold(movie', series')
  BY <1>2, <1>3, <1>4 DEF LinksHold, EpisodesHold, Tables, Related, Rows
<1>7. Related(series, movie, video, subtitle, named, book, comment)'
  BY <1>4, <1>6 DEF Tables, Related
<1>8. Posted' /\ Cached'
  BY <1>4 DEF Tables, Posted, Cached
<1>9. Lasts(series, series')
  BY <1>1, <1>2 DEF Lasts, Rows
<1>10. World
  BY <1>4, <1>9, SameLasts DEF World, Tables, Cached
<1> QED
  BY <1>5, <1>7, <1>8, <1>10 DEF Tables

\* Objects come and go: of a master's lines each names a track as it should.
LEMMA StoreWritten ==
  ASSUME Tables, UNCHANGED <<titles, subtitle, people, cache, requests>>,
         master' \in Seq(Master \cup {None}), Len(master') = Len(master),
         \A m \in Rows(master') : Advertises(master'[m], video, subtitle), source' \in SUBSET (Nat \X Nat)
  PROVE  Tables' /\ World
<1>1. /\ series' = series /\ movie' = movie /\ video' = video /\ subtitle' = subtitle /\ named' = named /\ book' = book
      /\ comment' = comment /\ facets' = facets /\ clock' = clock /\ requests' = requests
  BY DEF titles, people, cache
<1>2. Typed'
  BY <1>1 DEF Tables, Typed
<1>3. Related(series, movie, video, subtitle, named, book, comment)'
  BY <1>1 DEF Tables
<1>4. Posted' /\ Cached'
  BY <1>1 DEF Tables, Posted, Cached
<1>5. World
  BY <1>1, SameLasts DEF World, Tables, Cached
<1> QED
  BY <1>2, <1>3, <1>4, <1>5 DEF Tables

\* Titles that go take their videos, tracks and comments along.
LEMMA TitlesGone ==
  ASSUME Tables, NEW movies, NEW others, Gone(movies, others), UNCHANGED <<named, book, store, cache, requests>>,
         series' \in Seq(Series \cup {None}), DOMAIN series' = DOMAIN series,
         \A i \in DOMAIN series : series'[i] = series[i] \/ series'[i] = None,
         \A m \in Rows(movie) \ movies : movie[m].series # None => series'[movie[m].series] # None
  PROVE  /\ Tables' /\ World
         /\ DOMAIN movie' = DOMAIN movie /\ \A m \in DOMAIN movie : movie'[m] = IF m \in movies THEN None ELSE movie[m]
<1>1. PICK films : films = {v \in Rows(video) : video[v].movie \in movies}
  OBVIOUS
<1>2. PICK said : said = {c \in Rows(comment) : \/ comment[c].on = "movie" /\ comment[c].title \in movies
                                                \/ <<comment[c].on, comment[c].title>> \in others}
  OBVIOUS
<1>3. /\ movie' = [m \in DOMAIN movie |-> IF m \in movies THEN None ELSE movie[m]]
      /\ video' = [v \in DOMAIN video |-> IF v \in films THEN None ELSE video[v]]
      /\ subtitle' = [s \in DOMAIN subtitle |-> IF subtitle[s] # None /\ subtitle[s].video \in films THEN None ELSE subtitle[s]]
      /\ comment' = [c \in DOMAIN comment |-> IF c \in said \/ (comment[c] # None /\ comment[c].parent \in said)
                                              THEN None ELSE comment[c]]
  BY <1>1, <1>2 DEF Gone
<1>4. /\ named' = named /\ book' = book /\ source' = source /\ master' = master /\ facets' = facets /\ clock' = clock
      /\ requests' = requests
  BY DEF store, cache
<1>5. /\ movie \in Seq(Movie \cup {None}) /\ video \in Seq(Video \cup {None}) /\ subtitle \in Seq(Subtitle \cup {None})
      /\ comment \in Seq(Comment \cup {None})
  BY DEF Tables, Typed
<1>6. movie' \in Seq(Movie \cup {None}) /\ Len(movie') = Len(movie) /\ DOMAIN movie' = DOMAIN movie
  <2>1. movie' \in [DOMAIN movie -> Movie \cup {None}]
    BY <1>3, <1>5
  <2> QED
    BY <1>5, <2>1, TableWritten
<1>7. video' \in Seq(Video \cup {None}) /\ DOMAIN video' = DOMAIN video
  <2>1. video' \in [DOMAIN video -> Video \cup {None}]
    BY <1>3, <1>5
  <2> QED
    BY <1>5, <2>1, TableWritten
<1>8. subtitle' \in Seq(Subtitle \cup {None}) /\ DOMAIN subtitle' = DOMAIN subtitle
  <2>1. subtitle' \in [DOMAIN subtitle -> Subtitle \cup {None}]
    BY <1>3, <1>5
  <2> QED
    BY <1>5, <2>1, TableWritten
<1>9. comment' \in Seq(Comment \cup {None}) /\ DOMAIN comment' = DOMAIN comment
  <2>1. comment' \in [DOMAIN comment -> Comment \cup {None}]
    BY <1>3, <1>5
  <2> QED
    BY <1>5, <2>1, TableWritten
<1>10. Typed'
  BY <1>4, <1>6, <1>7, <1>8, <1>9 DEF Tables, Typed
<1>11. Rows(movie') = Rows(movie) \ movies /\ \A m \in Rows(movie') : movie'[m] = movie[m]
  BY <1>3 DEF Rows
<1>12. Rows(video') = Rows(video) \ films /\ \A v \in Rows(video') : video'[v] = video[v] /\ video[v].movie \notin movies
  BY <1>1, <1>3 DEF Rows
<1>13. \A s \in Rows(subtitle') : s \in Rows(subtitle) /\ subtitle'[s] = subtitle[s] /\ subtitle[s].video \notin films
  BY <1>3 DEF Rows
<1>14. \A c \in Rows(comment') : c \in Rows(comment) /\ comment'[c] = comment[c] /\ c \notin said /\ comment[c].parent \notin said
  BY <1>3 DEF Rows
<1>15. \A c \in Rows(comment) : c \notin said /\ comment[c].parent \notin said => c \in Rows(comment')
  BY <1>3 DEF Rows
<1>16. None \notin said
  BY <1>2, <1>5, TableIds, NoneIsNothing DEF Rows
<1>17. LinksHold(series', named') /\ LinksHold(movie', named')
  <2>1. \A i \in Rows(series') : i \in Rows(series) /\ series'[i] = series[i]
    BY DEF Rows
  <2> QED
    BY <1>4, <1>11, <2>1 DEF LinksHold, Tables, Related
<1>18. EpisodesHold(movie', series')
  BY <1>11 DEF EpisodesHold, Tables, Related, Rows
<1>19. FilesHold(video', movie') /\ TracksHold(subtitle', video')
  BY <1>11, <1>12, <1>13 DEF FilesHold, TracksHold, Tables, Related
<1>20. RepliesHold(comment')
  <2>1. SUFFICES ASSUME NEW c \in Rows(comment'), comment'[c].parent # None
                 PROVE  /\ comment'[c].parent \in Rows(comment') /\ comment'[comment'[c].parent].parent = None
                        /\ comment'[comment'[c].parent].on = comment'[c].on /\ comment'[comment'[c].parent].title = comment'[c].title
    BY DEF RepliesHold
  <2>2. PICK d : d = comment[c].parent
    OBVIOUS
  <2>3. c \in Rows(comment) /\ comment'[c] = comment[c] /\ d # None /\ d \notin said
    BY <1>14, <2>1, <2>2
  <2>4. d \in Rows(comment) /\ comment[d].parent = None /\ comment[d].on = comment[c].on /\ comment[d].title = comment[c].title
    BY <2>2, <2>3 DEF RepliesHold, Tables, Related
  <2>5. d \in Rows(comment')
    BY <1>15, <1>16, <2>3, <2>4
  <2> QED
    BY <1>14, <2>2, <2>3, <2>4, <2>5
<1>21. FilmsWereBought(movie')
  BY <1>11 DEF FilmsWereBought, Tables, Related
<1>22. Related(series, movie, video, subtitle, named, book, comment)'
  BY <1>4, <1>17, <1>18, <1>19, <1>20, <1>21 DEF Tables, Related
<1>23. Posted'
  <2>1. ASSUME NEW text, Advertises(text, video, subtitle)
        PROVE  Advertises(text, video', subtitle')
    <3>1. ASSUME NEW s \in Rows(subtitle')
          PROVE  s \in Rows(subtitle) /\ video'[subtitle'[s].video] = video[subtitle[s].video]
      <4>1. s \in Rows(subtitle) /\ subtitle'[s] = subtitle[s] /\ subtitle[s].video \notin films
        BY <1>13
      <4>2. subtitle[s].video \in Rows(video)
        BY <4>1 DEF TracksHold, Tables, Related
      <4> QED
        BY <1>12, <4>1, <4>2
    <3> QED
      BY <1>8, <2>1, <3>1 DEF Advertises
  <2> QED
    BY <1>4, <2>1 DEF Tables, Posted
<1>24. Cached'
  BY <1>4 DEF Tables, Cached
<1>25. Lasts(series, series')
  <2>1. \A i \in DOMAIN series : series[i] = None => series'[i] = None
    OBVIOUS
  <2> QED
    BY <2>1 DEF Lasts
<1>26. Lasts(movie, movie') /\ Lasts(video, video')
  BY <1>3 DEF Lasts
<1>27. VideosLast
  BY <1>1, <1>3, <1>26 DEF VideosLast, Rows
<1>28. SubtitlesLast /\ CommentsLast
  BY <1>3 DEF SubtitlesLast, CommentsLast, Lasts
<1>29. World
  BY <1>4, <1>25, <1>26, <1>27, <1>28, SameLasts DEF World, Tables, Cached
<1> QED
  BY <1>3, <1>10, <1>22, <1>23, <1>24, <1>29 DEF Tables

LEMMA VideosWritten ==
  ASSUME Tables, video' \in Seq(Video \cup {None}), DOMAIN video' = DOMAIN video,
         \A v \in DOMAIN video : IF video[v] = None THEN video'[v] = None
                                 ELSE video'[v] # None /\ video'[v].movie = video[v].movie /\ video'[v].ready = video[v].ready,
         UNCHANGED <<series, movie, subtitle, people, store, cache, requests>>
  PROVE  Tables' /\ World
<1>1. /\ series' = series /\ movie' = movie /\ subtitle' = subtitle /\ named' = named /\ book' = book /\ comment' = comment
      /\ source' = source /\ master' = master /\ facets' = facets /\ clock' = clock
  BY DEF people, cache, store
<1>2. Typed'
  BY <1>1 DEF Tables, Typed
<1>3. Rows(video') = Rows(video)
  BY DEF Rows
<1>4. FilesHold(video', movie') /\ TracksHold(subtitle', video')
  BY <1>1, <1>3 DEF FilesHold, TracksHold, Tables, Related, Rows
<1>5. Related(series, movie, video, subtitle, named, book, comment)'
  BY <1>1, <1>4 DEF Tables, Related
<1>6. Posted'
  <2>1. ASSUME NEW text, Advertises(text, video, subtitle)
        PROVE  Advertises(text, video', subtitle')
    <3>1. \A s \in Rows(subtitle) : video'[subtitle[s].video].ready = video[subtitle[s].video].ready
      BY DEF TracksHold, Tables, Related, Rows
    <3> QED
      BY <1>1, <2>1, <3>1 DEF Advertises
  <2> QED
    BY <1>1, <2>1 DEF Tables, Posted
<1>7. Cached'
  BY <1>1 DEF Tables, Cached
<1>8. VideosLast
  BY DEF VideosLast, Lasts
<1>9. World
  BY <1>1, <1>8, SameLasts DEF World, Tables, Cached
<1> QED
  BY <1>2, <1>5, <1>6, <1>7, <1>9 DEF Tables

LEMMA NamedAdded ==
  ASSUME Tables, NEW row \in Named, Free(row.kind, row.name, None), named' = Append(named, row),
         UNCHANGED <<titles, subtitle, book, comment, store, cache, requests>>
  PROVE  /\ Tables' /\ World
         /\ Len(named) + 1 \in DOMAIN named' /\ named'[Len(named) + 1] = row /\ \A i \in DOMAIN named : named'[i] = named[i]
<1>1. PICK n : n = Len(named) + 1
  OBVIOUS
<1>2. /\ named' \in Seq(Named \cup {None}) /\ DOMAIN named' = (DOMAIN named) \cup {n}
      /\ \A i \in DOMAIN named : named'[i] = named[i]
      /\ named'[n] = row
  <2>1. named \in Seq(Named \cup {None}) /\ row \in Named \cup {None}
    BY DEF Tables, Typed
  <2> QED
    BY <1>1, <2>1, RowAdded
<1>3. n \notin DOMAIN named /\ row # None /\ None \notin DOMAIN named
  <2>1. named \in Seq(Named \cup {None})
    BY DEF Tables, Typed
  <2> QED
    BY <1>1, <2>1, TableIds, NoneIsNothing
<1>4. Rows(named') = Rows(named) \cup {n}
  BY <1>2, <1>3 DEF Rows
<1>5. /\ series' = series /\ movie' = movie /\ video' = video /\ subtitle' = subtitle /\ book' = book /\ comment' = comment
      /\ source' = source /\ master' = master /\ facets' = facets /\ clock' = clock /\ requests' = requests
  BY DEF titles, cache, store
<1>6. Typed'
  BY <1>2, <1>5 DEF Tables, Typed
<1>7. LinksHold(series', named') /\ LinksHold(movie', named') /\ CreditsHold(book', named')
  BY <1>2, <1>4, <1>5 DEF LinksHold, CreditsHold, Tables, Related, Rows
<1>8. NamesHold(named')
  <2>1. \A i \in Rows(named) : named[i].kind = row.kind => named[i].name # row.name
    BY <1>3 DEF Free, Kin, Rows
  <2> QED
    BY <1>2, <1>3, <1>4, <2>1 DEF NamesHold, Tables, Related, Rows
<1>9. Related(series, movie, video, subtitle, named, book, comment)'
  BY <1>5, <1>7, <1>8 DEF Tables, Related
<1>10. Posted' /\ Cached'
  BY <1>5 DEF Tables, Posted, Cached
<1>11. NamedLast
  BY <1>2 DEF NamedLast, Lasts
<1>12. World
  BY <1>5, <1>11, SameLasts DEF World, Tables, Cached
<1> QED
  BY <1>1, <1>2, <1>6, <1>9, <1>10, <1>12 DEF Tables

\* A row is renamed, with the books that carry the name.
LEMMA NamedWritten ==
  ASSUME Tables, NEW i \in Rows(named), NEW n \in DOMAIN Lower, NEW face \in Faces, Free(named[i].kind, n, i),
         named' = [named EXCEPT ![i].name = n, ![i].face = face],
         book' \in Seq(Book \cup {None}), DOMAIN book' = DOMAIN book,
         \A b \in DOMAIN book : IF book[b] = None THEN book'[b] = None ELSE book'[b] # None /\ book'[b].credit = book[b].credit,
         UNCHANGED <<titles, subtitle, comment, store, cache, requests>>
  PROVE  Tables' /\ World
<1>1. PICK row : row = [named[i] EXCEPT !.name = n, !.face = face]
  OBVIOUS
<1>2. /\ row \in Named /\ row.kind = named[i].kind /\ row.name = n
      /\ named' \in [DOMAIN named -> Named \cup {None}]
      /\ i \in DOMAIN named /\ named'[i] = row /\ \A j \in DOMAIN named : j # i => named'[j] = named[j]
  <2>1. named[i] \in Named
    BY DEF Rows, Tables, Typed
  <2>2. row \in Named /\ row.kind = named[i].kind /\ row.name = n
    BY <1>1, <2>1 DEF Named, Faces
  <2>3. i \in DOMAIN named
    BY DEF Rows
  <2>4. DOMAIN named' = DOMAIN named /\ named'[i] = row /\ \A j \in DOMAIN named : j # i => named'[j] = named[j]
    BY <1>1, <2>1, <2>3 DEF Named
  <2>5. named \in [DOMAIN named -> Named \cup {None}]
    BY DEF Tables, Typed
  <2>6. [named[i] EXCEPT !.name = n] \in Named /\ [named EXCEPT ![i].name = n] \in [DOMAIN named -> Named \cup {None}]
    BY <2>1, <2>3, <2>5 DEF Named
  <2>7. \A j \in DOMAIN named : named'[j] \in Named \cup {None}
    BY <2>2, <2>4, <2>5
  <2>8. named' \in [DOMAIN named -> Named \cup {None}]
    <3>1. PICK f : f = [named EXCEPT ![i].name = n]
      OBVIOUS
    <3>2. f \in [DOMAIN named -> Named \cup {None}] /\ f[i] = [named[i] EXCEPT !.name = n]
      BY <2>3, <2>6, <3>1
    <3>3. named' = [f EXCEPT ![i] = row]
      BY <1>1, <2>1, <2>3, <3>1, <3>2 DEF Named
    <3> QED
      BY <2>2, <3>2, <3>3
  <2> QED
    BY <2>2, <2>3, <2>4, <2>8
<1>3. named' \in Seq(Named \cup {None}) /\ DOMAIN named' = DOMAIN named
  <2>1. named \in Seq(Named \cup {None})
    BY DEF Tables, Typed
  <2>2. PICK f \in [DOMAIN named -> Named \cup {None}] : f = named'
    BY <1>2
  <2>3. f \in Seq(Named \cup {None}) /\ DOMAIN f = DOMAIN named
    BY ONLY <2>1, f \in [DOMAIN named -> Named \cup {None}], TableWritten
  <2> QED
    BY <2>2, <2>3
<1>4. i \in DOMAIN named /\ row # None /\ named'[i] = row /\ \A j \in DOMAIN named : j # i => named'[j] = named[j]
  BY <1>2, NoneIsNothing
<1>5. Rows(named') = Rows(named)
  BY <1>3, <1>4 DEF Rows
<1>6. /\ series' = series /\ movie' = movie /\ video' = video /\ subtitle' = subtitle /\ comment' = comment
      /\ source' = source /\ master' = master /\ facets' = facets /\ clock' = clock /\ requests' = requests
  BY DEF titles, cache, store
<1>7. Typed'
  BY <1>3, <1>6 DEF Tables, Typed
<1>8. LinksHold(series', named') /\ LinksHold(movie', named')
  BY <1>5, <1>6 DEF LinksHold, Tables, Related
<1>9. \A j \in Rows(named) : named'[j].kind = named[j].kind
  BY <1>2, <1>4 DEF Rows
<1>10. Rows(book') = Rows(book)
  BY DEF Rows
<1>11. CreditsHold(book', named')
  BY <1>5, <1>9, <1>10 DEF CreditsHold, Tables, Related, Rows
<1>12. NamesHold(named')
  <2>1. \A j \in Rows(named) : j # i /\ named[j].kind = row.kind => named[j].name # n
    BY <1>2 DEF Free, Kin
  <2> QED
    BY <1>2, <1>4, <1>5, <2>1 DEF NamesHold, Tables, Related, Rows
<1>13. Related(series, movie, video, subtitle, named, book, comment)'
  BY <1>6, <1>8, <1>11, <1>12 DEF Tables, Related
<1>14. Posted' /\ Cached'
  BY <1>6 DEF Tables, Posted, Cached
<1>15. NamedLast
  BY <1>3, <1>4, <1>9 DEF NamedLast, Lasts, Rows
<1>16. Lasts(book, book')
  <2>1. \A b \in DOMAIN book : book[b] = None => book'[b] = None
    OBVIOUS
  <2> QED
    BY <2>1 DEF Lasts
<1>17. World
  BY <1>6, <1>15, <1>16, SameLasts DEF World, Tables, Cached
<1> QED
  BY <1>7, <1>13, <1>14, <1>17 DEF Tables

\* Rows that lose a link keep the rest.
LEMMA Unlinked ==
  ASSUME NEW i, NEW T, NEW table \in Seq(T \cup {None}), NEW f,
         \A r \in T : [r EXCEPT !.links = @ \ {i}] \in T,
         f = [x \in DOMAIN table |-> IF table[x] = None THEN None ELSE [table[x] EXCEPT !.links = @ \ {i}]]
  PROVE  f \in Seq(T \cup {None}) /\ Len(f) = Len(table) /\ DOMAIN f = DOMAIN table
<1>1. \A x \in DOMAIN table : table[x] \in T \cup {None}
  OBVIOUS
<1>2. f \in [DOMAIN table -> T \cup {None}]
  BY <1>1
<1> QED
  BY ONLY <1>2, table \in Seq(T \cup {None}), TableWritten

LEMMA NamedGone ==
  ASSUME Tables, NEW i \in Rows(named), \A b \in Rows(book) : book[b].credit # i, named' = [named EXCEPT ![i] = None],
         movie' = [x \in DOMAIN movie |-> IF movie[x] = None THEN None ELSE [movie[x] EXCEPT !.links = @ \ {i}]],
         series' = [x \in DOMAIN series |-> IF series[x] = None THEN None ELSE [series[x] EXCEPT !.links = @ \ {i}]],
         book' = [x \in DOMAIN book |-> IF book[x] = None THEN None ELSE [book[x] EXCEPT !.links = @ \ {i}]],
         UNCHANGED <<video, subtitle, comment, store, cache, requests>>
  PROVE  Tables' /\ World
<1>1. /\ movie \in Seq(Movie \cup {None}) /\ series \in Seq(Series \cup {None}) /\ book \in Seq(Book \cup {None})
      /\ named \in Seq(Named \cup {None})
  BY DEF Tables, Typed
<1>2. movie' \in Seq(Movie \cup {None}) /\ Len(movie') = Len(movie) /\ DOMAIN movie' = DOMAIN movie
  <2>1. \A r \in Movie : [r EXCEPT !.links = @ \ {i}] \in Movie
    BY DEF Movie
  <2>2. PICK f : f = movie'
    OBVIOUS
  <2>3. f = [x \in DOMAIN movie |-> IF movie[x] = None THEN None ELSE [movie[x] EXCEPT !.links = @ \ {i}]]
    BY <2>2
  <2>4. movie \in Seq(Movie \cup {None})
    BY <1>1
  <2>5. f \in Seq(Movie \cup {None}) /\ Len(f) = Len(movie) /\ DOMAIN f = DOMAIN movie
    BY ONLY <2>1, <2>3, <2>4, Unlinked
  <2> QED
    BY <2>2, <2>5
<1>3. series' \in Seq(Series \cup {None}) /\ DOMAIN series' = DOMAIN series
  <2>1. \A r \in Series : [r EXCEPT !.links = @ \ {i}] \in Series
    BY DEF Series
  <2>2. PICK f : f = series'
    OBVIOUS
  <2>3. f = [x \in DOMAIN series |-> IF series[x] = None THEN None ELSE [series[x] EXCEPT !.links = @ \ {i}]]
    BY <2>2
  <2>4. f \in Seq(Series \cup {None}) /\ DOMAIN f = DOMAIN series
    BY ONLY <1>1, <2>1, <2>3, Unlinked
  <2> QED
    BY <2>2, <2>4
<1>4. book' \in Seq(Book \cup {None}) /\ DOMAIN book' = DOMAIN book
  <2>1. \A r \in Book : [r EXCEPT !.links = @ \ {i}] \in Book
    BY DEF Book
  <2>2. PICK f : f = book'
    OBVIOUS
  <2>3. f = [x \in DOMAIN book |-> IF book[x] = None THEN None ELSE [book[x] EXCEPT !.links = @ \ {i}]]
    BY <2>2
  <2>4. f \in Seq(Book \cup {None}) /\ DOMAIN f = DOMAIN book
    BY ONLY <1>1, <2>1, <2>3, Unlinked
  <2> QED
    BY <2>2, <2>4
<1>5. named' \in Seq(Named \cup {None}) /\ DOMAIN named' = DOMAIN named
  BY <1>1, RowWritten
<1>6. /\ video' = video /\ subtitle' = subtitle /\ comment' = comment
      /\ source' = source /\ master' = master /\ facets' = facets /\ clock' = clock /\ requests' = requests
  BY DEF cache, store
<1>7. Typed'
  BY <1>2, <1>3, <1>4, <1>5, <1>6 DEF Tables, Typed
<1>8. Rows(named') = Rows(named) \ {i} /\ \A j \in Rows(named') : named'[j] = named[j]
  BY <1>5 DEF Rows
<1>9. /\ \A m \in DOMAIN movie : movie[m] = None => movie'[m] = None
      /\ \A s \in DOMAIN series : series[s] = None => series'[s] = None
      /\ \A b \in DOMAIN book : book[b] = None => book'[b] = None
  OBVIOUS
<1>10. ASSUME NEW m \in Rows(movie)
       PROVE  /\ movie'[m] # None /\ movie'[m].links = movie[m].links \ {i} /\ movie'[m].series = movie[m].series
              /\ movie'[m].bought = movie[m].bought
  <2>1. m \in DOMAIN movie /\ movie[m] # None /\ movie[m] \in Movie
    BY <1>1 DEF Rows
  <2>2. movie'[m] = [movie[m] EXCEPT !.links = @ \ {i}]
    BY <2>1
  <2> QED
    BY <2>1, <2>2, NoneIsNothing DEF Movie
<1>11. ASSUME NEW s \in Rows(series)
       PROVE  series'[s] # None /\ series'[s].links = series[s].links \ {i}
  <2>1. s \in DOMAIN series /\ series[s] # None /\ series[s] \in Series
    BY <1>1 DEF Rows
  <2>2. series'[s] = [series[s] EXCEPT !.links = @ \ {i}]
    BY <2>1
  <2> QED
    BY <2>1, <2>2, NoneIsNothing DEF Series
<1>12. ASSUME NEW b \in Rows(book)
       PROVE  book'[b] # None /\ book'[b].credit = book[b].credit
  <2>1. b \in DOMAIN book /\ book[b] # None /\ book[b] \in Book
    BY <1>1 DEF Rows
  <2>2. book'[b] = [book[b] EXCEPT !.links = @ \ {i}]
    BY <2>1
  <2> QED
    BY <2>1, <2>2, NoneIsNothing DEF Book
<1>13. Rows(movie') = Rows(movie) /\ Rows(series') = Rows(series) /\ Rows(book') = Rows(book)
  <2>1. Rows(movie') = Rows(movie)
    BY ONLY <1>2, <1>9, <1>10 DEF Rows
  <2>2. Rows(series') = Rows(series)
    BY ONLY <1>3, <1>9, <1>11 DEF Rows
  <2>3. Rows(book') = Rows(book)
    BY ONLY <1>4, <1>9, <1>12 DEF Rows
  <2> QED
    BY <2>1, <2>2, <2>3
<1>14. LinksHold(series', named') /\ LinksHold(movie', named')
  <2>1. LinksHold(series, named) /\ LinksHold(movie, named)
    BY DEF Tables, Related
  <2>2. LinksHold(series', named')
    BY ONLY <1>8, <1>11, <1>13, <2>1 DEF LinksHold
  <2>3. LinksHold(movie', named')
    BY ONLY <1>8, <1>10, <1>13, <2>1 DEF LinksHold
  <2> QED
    BY <2>2, <2>3
<1>15. CreditsHold(book', named')
  <2>1. CreditsHold(book, named)
    BY DEF Tables, Related
  <2>2. \A b \in Rows(book) : book[b].credit # i
    OBVIOUS
  <2> QED
    BY ONLY <1>8, <1>12, <1>13, <2>1, <2>2 DEF CreditsHold
<1>16. EpisodesHold(movie', series') /\ FilmsWereBought(movie') /\ FilesHold(video', movie')
  BY <1>6, <1>10, <1>13 DEF EpisodesHold, FilmsWereBought, FilesHold, Tables, Related
<1>17. NamesHold(named')
  BY <1>8 DEF NamesHold, Tables, Related
<1>18. Related(series, movie, video, subtitle, named, book, comment)'
  BY <1>6, <1>14, <1>15, <1>16, <1>17 DEF Tables, Related
<1>19. Posted' /\ Cached'
  BY <1>6 DEF Tables, Posted, Cached
<1>20. Lasts(series, series') /\ Lasts(movie, movie') /\ Lasts(book, book')
  BY <1>2, <1>3, <1>4, <1>9 DEF Lasts
<1>21. NamedLast
  BY <1>5 DEF NamedLast, Lasts
<1>22. World
  BY <1>6, <1>20, <1>21, SameLasts DEF World, Tables, Cached
<1> QED
  BY <1>7, <1>18, <1>19, <1>22 DEF Tables

LEMMA BooksWritten ==
  ASSUME Tables, book' \in Seq(Book \cup {None}), Lasts(book, book'), CreditsHold(book', named),
         UNCHANGED <<titles, subtitle, named, comment, store, cache, requests>>
  PROVE  Tables' /\ World
<1>1. /\ series' = series /\ movie' = movie /\ video' = video /\ subtitle' = subtitle /\ named' = named /\ comment' = comment
      /\ source' = source /\ master' = master /\ facets' = facets /\ clock' = clock /\ requests' = requests
  BY DEF titles, cache, store
<1>2. Typed'
  BY <1>1 DEF Tables, Typed
<1>3. Related(series, movie, video, subtitle, named, book, comment)'
  BY <1>1 DEF Tables, Related
<1>4. Posted' /\ Cached'
  BY <1>1 DEF Tables, Posted, Cached
<1>5. World
  BY <1>1, SameLasts DEF World, Tables, Cached
<1> QED
  BY <1>2, <1>3, <1>4, <1>5 DEF Tables

LEMMA CommentsWritten ==
  ASSUME Tables, comment' \in Seq(Comment \cup {None}), CommentsLast, RepliesHold(comment'),
         book' \in Seq(Book \cup {None}), DOMAIN book' = DOMAIN book, \A b \in DOMAIN book : book'[b] \in {None, book[b]},
         UNCHANGED <<titles, subtitle, named, store, cache, requests>>
  PROVE  Tables' /\ World
<1>1. /\ series' = series /\ movie' = movie /\ video' = video /\ subtitle' = subtitle /\ named' = named
      /\ source' = source /\ master' = master /\ facets' = facets /\ clock' = clock /\ requests' = requests
  BY DEF titles, cache, store
<1>2. Typed'
  BY <1>1 DEF Tables, Typed
<1>3. CreditsHold(book', named')
  <2>1. \A b \in Rows(book') : b \in Rows(book) /\ book'[b] = book[b]
    BY DEF Rows
  <2> QED
    BY <1>1, <2>1 DEF CreditsHold, Tables, Related
<1>4. Related(series, movie, video, subtitle, named, book, comment)'
  BY <1>1, <1>3 DEF Tables, Related
<1>5. Posted' /\ Cached'
  BY <1>1 DEF Tables, Posted, Cached
<1>6. Lasts(book, book')
  BY DEF Lasts
<1>7. World
  BY <1>1, <1>6, SameLasts DEF World, Tables, Cached
<1> QED
  BY <1>2, <1>4, <1>5, <1>7 DEF Tables

LEMMA SubtitlesWritten ==
  ASSUME Tables, subtitle' \in Seq(Subtitle \cup {None}), SubtitlesLast, TracksHold(subtitle', video),
         UNCHANGED <<titles, people, store, cache, requests>>
  PROVE  Tables' /\ World
<1>1. /\ series' = series /\ movie' = movie /\ video' = video /\ named' = named /\ book' = book /\ comment' = comment
      /\ source' = source /\ master' = master /\ facets' = facets /\ clock' = clock /\ requests' = requests
  BY DEF titles, people, cache, store
<1>2. Typed'
  BY <1>1 DEF Tables, Typed
<1>3. Related(series, movie, video, subtitle, named, book, comment)'
  BY <1>1 DEF Tables, Related
<1>4. Posted'
  <2>1. ASSUME NEW text, Advertises(text, video, subtitle)
        PROVE  Advertises(text, video', subtitle')
    BY <1>1, <2>1 DEF Advertises, SubtitlesLast, Lasts, Rows
  <2> QED
    BY <1>1, <2>1 DEF Tables, Posted
<1>5. Cached'
  BY <1>1 DEF Tables, Cached
<1>6. World
  BY <1>1, SameLasts DEF World, Tables, Cached
<1> QED
  BY <1>2, <1>3, <1>4, <1>5, <1>6 DEF Tables

-----------------------------------------------------------------------------
(* Steps that write: titles *)

LEMMA CreateMovieKeeps ==
  ASSUME CatalogueInv, NEW p \in Procs, NEW g \in Names, NEW used \in {{}, Pictures}, NEW links, CreateMovie(p, g, used, links)
  PROVE  Steps(p)
<1>1. PICK row : row = [NewMovie EXCEPT !.genre = g, !.duration = 2, !.pictures = used, !.links = links]
  OBVIOUS
<1>2. links \subseteq Rows(named) /\ links \in SUBSET Nat
  <2>1. named \in Seq(Named \cup {None})
    BY DEF CatalogueInv, Tables, Typed
  <2> QED
    BY <2>1, TableIds DEF CreateMovie, Linked, Rows
<1>3. row \in Movie /\ row.series = None /\ row.links = links /\ row.bought = 0
  BY <1>1, <1>2 DEF NewMovie, Movie, Names
<1>4. requests \in Nat
  BY DEF CatalogueInv, Tables, Typed
<1>5. /\ AddMovie(row) /\ Disturb(p, None) /\ requests' = requests + 1
      /\ UNCHANGED <<series, video, subtitle, people, source, cache>>
  BY <1>1 DEF CreateMovie, Once
<1>6. requests' \in Nat /\ Tables /\ row.links \subseteq Rows(named) /\ (row.series = None \/ row.series \in Rows(series))
  BY <1>2, <1>3, <1>4, <1>5 DEF CatalogueInv
<1>7. Tables' /\ World
  BY ONLY <1>3, <1>5, <1>6, MovieAdded
<1> QED
  BY <1>5, <1>7, WriteKeeps

LEMMA CreateSeriesKeeps ==
  ASSUME CatalogueInv, NEW p \in Procs, NEW g \in Names, NEW used \in {{}, Pictures}, NEW links, CreateSeries(p, g, used, links)
  PROVE  Steps(p)
<1>1. PICK row : row = [status |-> "DRAFT", access |-> "SUBSCRIPTION", genre |-> g, found |-> "no", pictures |-> used, links |-> links]
  OBVIOUS
<1>2. links \subseteq Rows(named) /\ links \in SUBSET Nat
  <2>1. named \in Seq(Named \cup {None})
    BY DEF CatalogueInv, Tables, Typed
  <2> QED
    BY <2>1, TableIds DEF CreateSeries, Linked, Rows
<1>3. row \in Series /\ row.links = links
  BY <1>1, <1>2 DEF Series, Names
<1>4. requests \in Nat
  BY DEF CatalogueInv, Tables, Typed
<1>5. /\ series' = Append(series, row) /\ Disturb(p, None) /\ requests' = requests + 1
      /\ UNCHANGED <<movie, video, subtitle, people, store, cache>>
  BY <1>1 DEF CreateSeries, Once
<1>6. Tables' /\ World
  BY <1>2, <1>3, <1>4, <1>5, SeriesAdded DEF CatalogueInv
<1> QED
  BY <1>5, <1>6, WriteKeeps

LEMMA AskTitlesKeeps ==
  ASSUME CatalogueInv, NEW p \in Procs, AskTitles(p)
  PROVE  Steps(p)
<1>1. CASE \E q \in Queries : AskList(p, q)
  BY <1>1, AskListKeeps
<1>2. CASE \E m \in Rows(movie), role \in Roles : AskTitle(p, m, role)
  BY <1>2, AskTitleKeeps
<1>3. CASE \E s \in Rows(series), role \in Roles : AskEpisodes(p, s, role)
  BY <1>3, AskEpisodesKeeps
<1>4. CASE AskMostPurchased(p, 2)
  BY <1>4, AskMostPurchasedKeeps
<1>5. CASE \E m \in Rows(movie), role \in Roles, subscribed \in BOOLEAN : AskStream(p, m, role, subscribed)
  BY <1>5, AskStreamKeeps
<1>6. CASE \E k \in {"movie", "series"} : AskFacets(p, k)
  BY <1>6, AskFacetsKeeps
<1>7. CASE \E s \in Rows(series) : AskPlaceholder(p, s)
  BY <1>7, AskPlaceholderKeeps
<1>8. CASE \E m \in Rows(movie) : AskRemoveMovie(p, m)
  BY <1>8, AskRemoveMovieKeeps
<1>9. CASE \E m \in Rows(movie) : AskUpdateMovie(p, m, "duration", 3)
  BY <1>9, AskUpdateMovieKeeps
<1>10. CASE \E m \in Rows(movie), status \in Statuses : AskUpdateMovie(p, m, "status", status)
  BY <1>10, AskUpdateMovieKeeps
<1>11. CASE \E m \in Rows(movie), links \in {{}, Kin("actor")} : AskUpdateMovie(p, m, "links", links)
  BY <1>11, AskUpdateMovieKeeps
<1>12. CASE \E m \in Rows(movie), used \in {{}, Pictures} : AskUpdateMovie(p, m, "pictures", used)
  BY <1>12, AskUpdateMovieKeeps
<1>13. CASE \E s \in Rows(series), status \in {"PUBLISHED", "UNPUBLISHED"} : AskUpdateSeries(p, s, "status", status)
  BY <1>13, AskUpdateSeriesKeeps
<1>14. CASE \E s \in Rows(series), used \in {{}, Pictures} : AskUpdateSeries(p, s, "pictures", used)
  BY <1>14, AskUpdateSeriesKeeps
<1>15. CASE \E s \in Rows(series) : AskRemoveSeries(p, s)
  BY <1>15, AskRemoveSeriesKeeps
<1>16. CASE AskBackfill(p)
  BY <1>16, AskBackfillKeeps
<1>17. CASE \E g \in Names, used \in {{}, Pictures}, links \in {{}, Kin("actor")} : CreateMovie(p, g, used, links) \/ CreateSeries(p, g, used, links)
  BY <1>17, CreateMovieKeeps, CreateSeriesKeeps
<1> QED
  BY <1>1, <1>2, <1>3, <1>4, <1>5, <1>6, <1>7, <1>8, <1>9, <1>10, <1>11, <1>12, <1>13, <1>14, <1>15, <1>16, <1>17 DEF AskTitles


LEMMA InsertPlaceholderKeeps ==
  ASSUME CatalogueInv, NEW p \in Procs, InsertPlaceholder(p)
  PROVE  Steps(p)
<1>1. PICK t0 : t0 = task[p]
  OBVIOUS
<1>2. task[p] # None /\ t0.op = "placeholder"
  BY <1>1 DEF InsertPlaceholder, At
<1>3. t0.word \in DOMAIN Lower /\ t0.id \in DOMAIN series
  BY <1>1, <1>2, UnderWay DEF Held
<1>4. CASE series[t0.id] = None
  <2>1. End(p) /\ Reads
    BY <1>1, <1>4 DEF InsertPlaceholder, Reads, titles, store
  <2> QED
    BY <2>1, EndKeeps
<1>5. CASE series[t0.id] # None
  <2>1. PICK row : row = [NewMovie EXCEPT !.series = t0.id, !.status = "UPLOADING", !.genre = t0.word]
    OBVIOUS
  <2>2. t0.id \in Nat /\ t0.id \in Rows(series)
    <3>1. series \in Seq(Series \cup {None})
      BY DEF CatalogueInv, Tables, Typed
    <3> QED
      BY <1>3, <1>5, <3>1, TableIds DEF Rows
  <2>3. row \in Movie /\ row.series = t0.id /\ row.links \subseteq Rows(named) /\ row.bought = 0
    BY <1>3, <2>1, <2>2 DEF NewMovie, Movie
  <2>4. /\ AddMovie(row) /\ Disturb(p, None) /\ requests' = requests
        /\ UNCHANGED <<series, video, subtitle, people, source, cache>>
    BY <1>1, <1>5, <2>1 DEF InsertPlaceholder, Goes
  <2>5. requests' \in Nat
    BY <2>4 DEF CatalogueInv, Tables, Typed
  <2>6. Tables' /\ World
    BY <2>2, <2>3, <2>4, <2>5, MovieAdded DEF CatalogueInv
  <2> QED
    BY <2>4, <2>6, WriteKeeps
<1> QED
  BY <1>4, <1>5

LEMMA WriteMovieKeeps ==
  ASSUME CatalogueInv, NEW p \in Procs, WriteMovie(p)
  PROVE  Steps(p)
<1>1. PICK t0 : t0 = task[p]
  OBVIOUS
<1>2. task[p] # None /\ t0.op = "updateMovie"
  BY <1>1 DEF WriteMovie, At
<1>3. EditsMovie(t0)
  BY <1>1, <1>2, UnderWay DEF Held
<1>4. PICK m : m = t0.id
  OBVIOUS
<1>5. CASE movie[m] = None \/ (t0.word = "links" /\ ~Linked(t0.todo))
  <2>1. End(p) /\ Reads
    BY <1>1, <1>4, <1>5 DEF WriteMovie, Reads, titles
  <2> QED
    BY <2>1, EndKeeps
<1>6. CASE ~(movie[m] = None \/ (t0.word = "links" /\ ~Linked(t0.todo)))
  <2>1. PICK old : old = movie[m]
    OBVIOUS
  <2>2. m \in Rows(movie) /\ old \in Movie /\ old.links \subseteq Rows(named)
    <3>0. movie \in Seq(Movie \cup {None})
      BY DEF CatalogueInv, Tables, Typed
    <3>3. m \in DOMAIN movie /\ movie[m] # None
      BY <1>3, <1>4, <1>6 DEF EditsMovie
    <3>1. m \in Rows(movie) /\ movie[m] \in Movie
      BY <3>0, <3>3 DEF Rows
    <3>2. LinksHold(movie, named)
      BY DEF CatalogueInv, Tables, Related
    <3> QED
      BY <2>1, <3>1, <3>2 DEF LinksHold
  <2>3. PICK row : row = CASE t0.word = "status" -> [old EXCEPT !.status = t0.text]
                           [] t0.word = "duration" -> [old EXCEPT !.duration = t0.arg]
                           [] t0.word = "pictures" -> [old EXCEPT !.pictures = t0.todo]
                           [] t0.word = "links" -> [old EXCEPT !.links = t0.todo]
    OBVIOUS
  <2>4. /\ movie' = [movie EXCEPT ![m] = row] /\ Disturb(p, None)
        /\ UNCHANGED <<series, video, subtitle, people, store, cache, requests>>
    BY <1>1, <1>4, <1>6, <2>1, <2>3 DEF WriteMovie, Goes
  <2>5. row \in Movie /\ row.series = old.series /\ row.bought = old.bought /\ row.links \subseteq Rows(named)
    <3>1. CASE t0.word = "status"
      BY <1>3, <2>2, <2>3, <3>1 DEF EditsMovie, Movie, Statuses
    <3>2. CASE t0.word = "duration"
      BY <1>3, <2>2, <2>3, <3>2 DEF EditsMovie, Movie
    <3>3. CASE t0.word = "pictures"
      BY <1>3, <2>2, <2>3, <3>3 DEF EditsMovie, Movie
    <3>4. CASE t0.word = "links"
      <4>1. t0.todo \subseteq Rows(named)
        BY <1>6, <3>4 DEF Linked
      <4>2. t0.todo \subseteq Nat
        <5>1. named \in Seq(Named \cup {None})
          BY DEF CatalogueInv, Tables, Typed
        <5> QED
          BY <4>1, <5>1, TableIds DEF Rows
      <4>3. row = [old EXCEPT !.links = t0.todo]
        BY <2>3, <3>4
      <4> QED
        BY <2>2, <4>1, <4>2, <4>3 DEF Movie
    <3> QED
      BY <1>3, <3>1, <3>2, <3>3, <3>4 DEF EditsMovie
  <2>6. Tables' /\ World
    BY <2>1, <2>2, <2>4, <2>5, MovieWritten DEF CatalogueInv
  <2> QED
    BY <2>4, <2>6, WriteKeeps
<1> QED
  BY <1>5, <1>6

LEMMA WriteSeriesKeeps ==
  ASSUME CatalogueInv, NEW p \in Procs, WriteSeries(p)
  PROVE  Steps(p)
<1>1. PICK t0 : t0 = task[p]
  OBVIOUS
<1>2. task[p] # None /\ t0.op = "updateSeries"
  BY <1>1 DEF WriteSeries, At
<1>3. EditsSeries(t0)
  BY <1>1, <1>2, UnderWay DEF Held
<1>4. PICK s : s = t0.id
  OBVIOUS
<1>5. CASE series[s] = None
  <2>1. End(p) /\ Reads
    BY <1>1, <1>4, <1>5 DEF WriteSeries, Reads, titles
  <2> QED
    BY <2>1, EndKeeps
<1>6. CASE series[s] # None
  <2>1. PICK old : old = series[s]
    OBVIOUS
  <2>2. s \in Rows(series) /\ old \in Series /\ old.links \subseteq Rows(named)
    <3>1. s \in Rows(series) /\ series[s] \in Series
      BY <1>3, <1>4, <1>6 DEF EditsSeries, CatalogueInv, Tables, Typed, Rows
    <3>2. LinksHold(series, named)
      BY DEF CatalogueInv, Tables, Related
    <3> QED
      BY <2>1, <3>1, <3>2 DEF LinksHold
  <2>3. PICK row : row = IF t0.word = "status" THEN [old EXCEPT !.status = t0.text] ELSE [old EXCEPT !.pictures = t0.todo]
    OBVIOUS
  <2>4. /\ series' = [series EXCEPT ![s] = row] /\ Disturb(p, None)
        /\ UNCHANGED <<movie, video, subtitle, people, store, cache, requests>>
    BY <1>1, <1>4, <1>6, <2>1, <2>3 DEF WriteSeries, Goes
  <2>5. row \in Series /\ row.links \subseteq Rows(named)
    <3>1. CASE t0.word = "status"
      BY <1>3, <2>2, <2>3, <3>1 DEF EditsSeries, Series
    <3>2. CASE t0.word = "pictures"
      BY <1>3, <2>2, <2>3, <3>2 DEF EditsSeries, Series
    <3> QED
      BY <1>3, <3>1, <3>2 DEF EditsSeries
  <2>6. Tables' /\ World
    BY <2>2, <2>4, <2>5, SeriesWritten DEF CatalogueInv
  <2> QED
    BY <2>4, <2>6, WriteKeeps
<1> QED
  BY <1>5, <1>6

LEMMA RemovesStands ==
  ASSUME NEW t, DOMAIN t = Fields, t.op = "removeMovie", t.id \in DOMAIN movie'
  PROVE  Stands(t)'
BY DEF Stands, Held, Relied, Publishers

LEMMA PlainStays ==
  ASSUME NEW t, DOMAIN t = Fields, t.op \in Plain
  PROVE  Stands(t)'
BY DEF Stands, Held, Relied, Plain, Publishers

LEMMA DeleteMovieKeeps ==
  ASSUME CatalogueInv, NEW p \in Procs, DeleteMovie(p)
  PROVE  Steps(p)
<1>1. PICK t0 : t0 = task[p]
  OBVIOUS
<1>2. task[p] # None /\ t0.op = "removeMovie"
  BY <1>1 DEF DeleteMovie, At
<1>3. DOMAIN t0 = Fields /\ t0.id \in DOMAIN movie
  BY <1>1, <1>2, UnderWay DEF Held
<1>4. CASE movie[t0.id] = None
  <2>1. End(p) /\ Reads
    BY <1>1, <1>4 DEF DeleteMovie, Reads, titles, people
  <2> QED
    BY <2>1, EndKeeps
<1>5. CASE movie[t0.id] # None
  <2>1. PICK t : t = [t0 EXCEPT !.at = "videos"]
    OBVIOUS
  <2>2. PICK movies : movies = {t0.id}
    OBVIOUS
  <2>3. PICK others : others = {}
    OBVIOUS
  <2>4. /\ Gone(movies, others) /\ Disturb(p, t) /\ series' = series
        /\ UNCHANGED <<named, book, store, cache, requests>>
    BY <1>1, <1>5, <2>1, <2>2, <2>3 DEF DeleteMovie, Goes
  <2>5. /\ Tables /\ series \in Seq(Series \cup {None})
        /\ \A m \in Rows(movie) \ movies : movie[m].series # None => series[movie[m].series] # None
    BY DEF CatalogueInv, Tables, Typed, Related, EpisodesHold, Rows
  <2>6. /\ series' \in Seq(Series \cup {None}) /\ DOMAIN series' = DOMAIN series
        /\ \A i \in DOMAIN series : series'[i] = series[i] \/ series'[i] = None
        /\ \A m \in Rows(movie) \ movies : movie[m].series # None => series'[movie[m].series] # None
    BY <2>4, <2>5
  <2>7. Tables' /\ World /\ DOMAIN movie' = DOMAIN movie
    BY <2>4, <2>5, <2>6, TitlesGone
  <2>8. DOMAIN t = Fields /\ t.op = "removeMovie" /\ t.id = t0.id
    BY <1>2, <1>3, <2>1 DEF Fields
  <2>9. Stands(t)'
    BY <1>3, <2>7, <2>8, RemovesStands
  <2> QED
    BY <2>4, <2>7, <2>9, WriteKeeps
<1> QED
  BY <1>4, <1>5

\* Objects that go, by their movie.
LEMMA VideosSwept ==
  ASSUME Tables, NEW m, SweepVideos(m), UNCHANGED <<titles, subtitle, people, source, cache, requests>>
  PROVE  Tables' /\ World
<1>1. master \in Seq(Master \cup {None}) /\ None \in Master \cup {None}
  BY DEF Tables, Typed
<1>2. /\ [master EXCEPT ![m] = None] \in Seq(Master \cup {None}) /\ Len([master EXCEPT ![m] = None]) = Len(master)
      /\ DOMAIN [master EXCEPT ![m] = None] = DOMAIN master
  BY <1>1, RowWritten
<1>3. master' \in Seq(Master \cup {None}) /\ Len(master') = Len(master) /\ DOMAIN master' = DOMAIN master
  BY <1>2 DEF SweepVideos
<1>4. \A x \in Rows(master') : x \in Rows(master) /\ master'[x] = master[x]
  BY <1>3 DEF SweepVideos, Rows
<1>5. \A x \in Rows(master') : Advertises(master'[x], video, subtitle)
  BY <1>4 DEF Tables, Posted
<1>6. source' \in SUBSET (Nat \X Nat)
  BY DEF Tables, Typed
<1> QED
  BY <1>3, <1>5, <1>6, StoreWritten

LEMMA SourcesSwept ==
  ASSUME Tables, source' \subseteq source \/ source' \subseteq Nat \X Nat, UNCHANGED <<titles, subtitle, people, master, cache, requests>>
  PROVE  Tables' /\ World
<1>1. master' \in Seq(Master \cup {None}) /\ Len(master') = Len(master)
  BY DEF Tables, Typed
<1>2. \A x \in Rows(master') : Advertises(master'[x], video, subtitle)
  BY DEF Tables, Posted
<1>3. source' \in SUBSET (Nat \X Nat)
  BY DEF Tables, Typed
<1> QED
  BY <1>1, <1>2, <1>3, StoreWritten

LEMMA CleanMovieKeeps ==
  ASSUME CatalogueInv, NEW p \in Procs, CleanMovie(p)
  PROVE  Steps(p)
<1>1. PICK t0 : t0 = task[p]
  OBVIOUS
<1>2. /\ task[p] # None /\ t0.op = "removeMovie"
      /\ UNCHANGED <<titles, subtitle, people, cache, requests>> /\ Goes
  BY <1>1 DEF CleanMovie, At, Goes
<1>3. DOMAIN t0 = Fields /\ t0.id \in DOMAIN movie /\ Tables
  BY <1>1, <1>2, UnderWay DEF Held, CatalogueInv
<1>4. ASSUME NEW t, Disturb(p, t), DOMAIN t = Fields, t.op = "removeMovie", t.id = t0.id, Tables', World
      PROVE  Steps(p)
  <2>1. t.id \in DOMAIN movie'
    BY <1>2, <1>3, <1>4 DEF titles
  <2>2. Stands(t)'
    BY <1>4, <2>1, RemovesStands
  <2> QED
    BY <1>4, <2>2, WriteKeeps
<1>5. CASE SweepVideos(t0.id) /\ Disturb(p, [t0 EXCEPT !.at = "sources"]) /\ UNCHANGED <<source, picture>>
  <2>1. PICK t : t = [t0 EXCEPT !.at = "sources"]
    OBVIOUS
  <2>2. DOMAIN t = Fields /\ t.op = "removeMovie" /\ t.id = t0.id
    BY <1>2, <1>3, <2>1 DEF Fields
  <2>3. Tables' /\ World
    BY <1>2, <1>3, <1>5, VideosSwept
  <2> QED
    BY <1>4, <1>5, <2>1, <2>2, <2>3
<1>6. CASE SweepSources(t0.id) /\ Disturb(p, [t0 EXCEPT !.at = "pictures"]) /\ UNCHANGED <<master, rendition, picture>>
  <2>1. PICK t : t = [t0 EXCEPT !.at = "pictures"]
    OBVIOUS
  <2>2. DOMAIN t = Fields /\ t.op = "removeMovie" /\ t.id = t0.id
    BY <1>2, <1>3, <2>1 DEF Fields
  <2>3. Tables' /\ World
    BY <1>2, <1>3, <1>6, SourcesSwept DEF SweepSources
  <2> QED
    BY <1>4, <1>6, <2>1, <2>2, <2>3
<1>7. ASSUME NEW k, Disturb(p, [t0 EXCEPT !.todo = @ \ {k}]), UNCHANGED <<master, rendition, source>>
      PROVE  Steps(p)
  <2>1. PICK t : t = [t0 EXCEPT !.todo = @ \ {k}]
    OBVIOUS
  <2>2. DOMAIN t = Fields /\ t.op = "removeMovie" /\ t.id = t0.id
    BY <1>2, <1>3, <2>1 DEF Fields
  <2>3. Tables' /\ World
    BY <1>2, <1>3, <1>7, SourcesSwept
  <2> QED
    BY <1>4, <1>7, <2>1, <2>2, <2>3
<1>8. CASE End(p) /\ UNCHANGED store
  <2>1. Reads
    BY <1>2, <1>8 DEF Reads
  <2> QED
    BY <1>8, <2>1, EndKeeps
<1>9. \/ SweepVideos(t0.id) /\ Disturb(p, [t0 EXCEPT !.at = "sources"]) /\ UNCHANGED <<source, picture>>
      \/ SweepSources(t0.id) /\ Disturb(p, [t0 EXCEPT !.at = "pictures"]) /\ UNCHANGED <<master, rendition, picture>>
      \/ \E k : Disturb(p, [t0 EXCEPT !.todo = @ \ {k}]) /\ UNCHANGED <<master, rendition, source>>
      \/ End(p) /\ UNCHANGED store
  BY <1>1 DEF CleanMovie
<1> QED
  BY <1>5, <1>6, <1>7, <1>8, <1>9

LEMMA ClearsStands ==
  ASSUME NEW t, DOMAIN t = Fields, t.op = "removeSeries", ClearsShow(t)', t.alone => Cleared(t)'
  PROVE  Stands(t)'
BY DEF Stands, Held, Relied, Publishers

LEMMA DeleteSeriesKeeps ==
  ASSUME CatalogueInv, NEW p \in Procs, DeleteSeries(p)
  PROVE  Steps(p)
<1>1. PICK t0 : t0 = task[p]
  OBVIOUS
<1>2. task[p] # None /\ t0.op = "removeSeries" /\ t0.at = "delete"
  BY <1>1 DEF DeleteSeries, At
<1>3. DOMAIN t0 = Fields /\ ClearsShow(t0)
  BY <1>1, <1>2, UnderWay DEF Held
<1>4. CASE series[t0.id] = None
  <2>1. End(p) /\ Reads
    BY <1>1, <1>4 DEF DeleteSeries, Reads, people
  <2> QED
    BY <2>1, EndKeeps
<1>5. CASE series[t0.id] # None
  <2>1. PICK t : t = [t0 EXCEPT !.at = "prefixes"]
    OBVIOUS
  <2>2. PICK movies : movies = Episodes(t0.id)
    OBVIOUS
  <2>3. PICK others : others = {<<"series", t0.id>>}
    OBVIOUS
  <2>4. /\ Gone(movies, others) /\ Disturb(p, t) /\ series' = [series EXCEPT ![t0.id] = None]
        /\ UNCHANGED <<named, book, store, cache, requests>>
    BY <1>1, <1>5, <2>1, <2>2, <2>3 DEF DeleteSeries, Goes
  <2>5. /\ Tables /\ series \in Seq(Series \cup {None})
        /\ \A m \in Rows(movie) \ movies : movie[m].series # None => movie[m].series # t0.id /\ movie[m].series \in Rows(series)
    BY <2>2 DEF CatalogueInv, Tables, Typed, Related, EpisodesHold, Rows, Episodes
  <2>6. /\ series' \in Seq(Series \cup {None}) /\ DOMAIN series' = DOMAIN series
        /\ \A i \in DOMAIN series : series'[i] = series[i] \/ series'[i] = None
        /\ \A m \in Rows(movie) \ movies : movie[m].series # None => series'[movie[m].series] # None
    <3>1. None \in Series \cup {None}
      OBVIOUS
    <3>2. /\ [series EXCEPT ![t0.id] = None] \in Seq(Series \cup {None})
          /\ DOMAIN [series EXCEPT ![t0.id] = None] = DOMAIN series
      BY ONLY <2>5, <3>1, RowWritten
    <3> QED
      BY <2>4, <2>5, <3>2 DEF Rows
  <2>7. Tables' /\ World /\ DOMAIN movie' = DOMAIN movie
    BY <2>4, <2>5, <2>6, TitlesGone
  <2>8. /\ DOMAIN t = Fields /\ t.op = "removeSeries" /\ t.id = t0.id /\ t.at = "prefixes" /\ t.todo = t0.todo /\ t.done = t0.done
    BY <1>2, <1>3, <2>1 DEF Fields
  <2>9. ClearsShow(t)'
    BY <1>3, <2>6, <2>7, <2>8 DEF ClearsShow
  <2>10. Cleared(t)'
    <3>1. t.todo = Prefixes(t.done)
      BY <1>2, <1>3, <2>8 DEF ClearsShow
    <3> QED
      BY <2>8, <3>1 DEF Cleared, Prefixes
  <2>11. Stands(t)'
    BY <2>8, <2>9, <2>10, ClearsStands
  <2> QED
    BY <2>4, <2>7, <2>11, WriteKeeps
<1> QED
  BY <1>4, <1>5

LEMMA SweepEpisodeKeeps ==
  ASSUME CatalogueInv, NEW p \in Procs, SweepEpisode(p)
  PROVE  Steps(p)
<1>1. PICK t0 : t0 = task[p]
  OBVIOUS
<1>2. /\ task[p] # None /\ t0.op = "removeSeries" /\ t0.at = "prefixes"
      /\ UNCHANGED <<titles, subtitle, people, cache, requests>> /\ Goes
  BY <1>1 DEF SweepEpisode, At, Goes
<1>3. DOMAIN t0 = Fields /\ ClearsShow(t0) /\ (t0.alone => Cleared(t0)) /\ Tables
  BY <1>1, <1>2, UnderWay DEF Held, CatalogueInv, Relied
<1>4. DOMAIN movie = DOMAIN master
  BY <1>3 DEF Tables, Typed
<1>5. CASE t0.todo = {} /\ Goto(p, "pictures") /\ UNCHANGED store
  <2>1. PICK t : t = [t0 EXCEPT !.at = "pictures"]
    OBVIOUS
  <2>2. /\ DOMAIN t = Fields /\ t.op = "removeSeries" /\ t.id = t0.id /\ t.at = "pictures" /\ t.todo = {} /\ t.done = t0.done
        /\ t.ok = t0.ok /\ t.alone = t0.alone
    BY <1>2, <1>3, <1>5, <2>1 DEF Fields
  <2>3. ClearsShow(t) /\ (t.alone => Cleared(t))
    BY <1>2, <1>3, <1>5, <2>2 DEF ClearsShow, Cleared
  <2>4. Stands(t)
    BY <2>2, <2>3 DEF Stands, Held, Relied, Publishers
  <2> QED
    BY <1>1, <1>2, <1>5, <2>1, <2>4, ReadKeeps DEF Goto, Reads
<1>6. ASSUME NEW x \in t0.todo, UNCHANGED store, Proceed(p, [[t0 EXCEPT !.todo = @ \ {x}] EXCEPT !.ok = FALSE])
      PROVE  Steps(p)
  <2>1. PICK t : t = [[t0 EXCEPT !.todo = @ \ {x}] EXCEPT !.ok = FALSE]
    OBVIOUS
  <2>2. /\ DOMAIN t = Fields /\ t.op = "removeSeries" /\ t.id = t0.id /\ t.at = "prefixes" /\ t.todo = t0.todo \ {x}
        /\ t.done = t0.done /\ t.ok = FALSE
    BY <1>2, <1>3, <2>1 DEF Fields
  <2>3. ClearsShow(t) /\ Cleared(t)
    BY <1>2, <1>3, <2>2 DEF ClearsShow, Cleared
  <2>4. Stands(t)
    BY <2>2, <2>3 DEF Stands, Held, Relied, Publishers
  <2> QED
    BY <1>2, <1>6, <2>1, <2>4, ReadKeeps DEF Reads
<1>7. ASSUME NEW x \in t0.todo, Disturb(p, [t0 EXCEPT !.todo = @ \ {x}]),
             \/ x[1] = "videos" /\ SweepVideos(x[2]) /\ UNCHANGED source
             \/ x[1] = "sources" /\ SweepSources(x[2]) /\ UNCHANGED <<master, rendition>>
      PROVE  Steps(p)
  <2>1. PICK t : t = [t0 EXCEPT !.todo = @ \ {x}]
    OBVIOUS
  <2>2. /\ DOMAIN t = Fields /\ t.op = "removeSeries" /\ t.id = t0.id /\ t.at = "prefixes" /\ t.todo = t0.todo \ {x}
        /\ t.done = t0.done /\ t.ok = t0.ok /\ t.alone = t0.alone
    BY <1>2, <1>3, <2>1 DEF Fields
  <2>3. Tables' /\ World
    <3>1. CASE SweepVideos(x[2]) /\ UNCHANGED source
      BY <1>2, <1>3, <3>1, VideosSwept
    <3>2. CASE SweepSources(x[2]) /\ UNCHANGED <<master, rendition>>
      BY <1>2, <1>3, <3>2, SourcesSwept DEF SweepSources
    <3> QED
      BY <1>7, <3>1, <3>2
  <2>4. ClearsShow(t)'
    BY <1>2, <1>3, <2>2 DEF ClearsShow, titles
  <2>5. ASSUME t.alone
        PROVE  Cleared(t)'
    <3>1. Cleared(t0)
      BY <1>3, <2>2, <2>5
    <3>2. ASSUME t0.ok, NEW m \in t.done, <<"videos", m>> \notin t.todo
          PROVE  master'[m] = None /\ Under(m)' = {}
      <4>1. m \in DOMAIN master
        BY <1>3, <1>4, <2>2, <3>2 DEF ClearsShow
      <4>2. CASE <<"videos", m>> \notin t0.todo
        <5>1. master[m] = None /\ Under(m) = {}
          BY <1>2, <2>2, <3>1, <3>2, <4>2 DEF Cleared
        <5> QED
          BY <1>7, <4>1, <5>1 DEF SweepVideos, Under
      <4>3. CASE <<"videos", m>> \in t0.todo
        <5>1. x = <<"videos", m>>
          BY <2>2, <3>2, <4>3
        <5>2. SweepVideos(m)
          BY <1>7, <5>1
        <5> QED
          BY <4>1, <5>2 DEF SweepVideos, Under
      <4> QED
        BY <4>2, <4>3
    <3>3. ASSUME t0.ok, NEW m \in t.done, <<"sources", m>> \notin t.todo
          PROVE  \A y \in source' : y[1] # m
      <4>1. CASE <<"sources", m>> \notin t0.todo
        <5>1. \A y \in source : y[1] # m
          BY <1>2, <2>2, <3>1, <3>3, <4>1 DEF Cleared
        <5> QED
          BY <1>7, <5>1 DEF SweepSources
      <4>2. CASE <<"sources", m>> \in t0.todo
        <5>1. x = <<"sources", m>>
          BY <2>2, <3>3, <4>2
        <5>2. SweepSources(m)
          BY <1>7, <5>1
        <5> QED
          BY <5>2 DEF SweepSources
      <4> QED
        BY <4>1, <4>2
    <3> QED
      BY <2>2, <3>2, <3>3 DEF Cleared
  <2>6. Stands(t)'
    BY <2>2, <2>4, <2>5, ClearsStands
  <2> QED
    BY <1>7, <2>1, <2>3, <2>6, WriteKeeps
<1>8. \/ t0.todo = {} /\ Goto(p, "pictures") /\ UNCHANGED store
      \/ \E x \in t0.todo : \/ UNCHANGED store /\ Proceed(p, [[t0 EXCEPT !.todo = @ \ {x}] EXCEPT !.ok = FALSE])
                            \/ /\ Disturb(p, [t0 EXCEPT !.todo = @ \ {x}])
                               /\ \/ x[1] = "videos" /\ SweepVideos(x[2]) /\ UNCHANGED source
                                  \/ x[1] = "sources" /\ SweepSources(x[2]) /\ UNCHANGED <<master, rendition>>
  BY <1>1 DEF SweepEpisode
<1> QED
  BY <1>5, <1>6, <1>7, <1>8

LEMMA ErasePictureKeeps ==
  ASSUME CatalogueInv, NEW p \in Procs, ErasePicture(p)
  PROVE  Steps(p)
<1>1. PICK t0 : t0 = task[p]
  OBVIOUS
<1>2. /\ task[p] # None /\ t0.op = "removeSeries" /\ t0.at = "erase"
      /\ UNCHANGED <<titles, subtitle, people, cache, requests, master, rendition, source>> /\ Goes
  BY <1>1 DEF ErasePicture, At, Goes
<1>3. DOMAIN t0 = Fields /\ ClearsShow(t0) /\ (t0.alone => Cleared(t0)) /\ Tables
  BY <1>1, <1>2, UnderWay DEF Held, CatalogueInv, Relied
<1>4. PICK t1 : t1 = [t0 EXCEPT !.at = "pictures", !.list = Tail(@)]
  OBVIOUS
<1>5. PICK t2 : t2 = [t1 EXCEPT !.ok = FALSE]
  OBVIOUS
<1>6. /\ DOMAIN t1 = Fields /\ t1.op = "removeSeries" /\ t1.id = t0.id /\ t1.at = "pictures" /\ t1.todo = t0.todo
      /\ t1.done = t0.done /\ t1.ok = t0.ok /\ t1.alone = t0.alone
  BY <1>2, <1>3, <1>4 DEF Fields
<1>7. /\ DOMAIN t2 = Fields /\ t2.op = "removeSeries" /\ t2.id = t0.id /\ t2.at = "pictures" /\ t2.todo = t0.todo
      /\ t2.done = t0.done /\ t2.ok = FALSE /\ t2.alone = t0.alone
  BY <1>5, <1>6 DEF Fields
<1>8. CASE Disturb(p, t1)
  <2>1. Tables' /\ World
    BY <1>2, <1>3, SourcesSwept
  <2>2. ClearsShow(t1)'
    BY <1>2, <1>3, <1>6 DEF ClearsShow, titles
  <2>3. t1.alone => Cleared(t1)'
    BY <1>2, <1>3, <1>6 DEF Cleared, Under
  <2>4. Stands(t1)'
    BY <1>6, <2>2, <2>3, ClearsStands
  <2> QED
    BY <1>8, <2>1, <2>4, WriteKeeps
<1>9. CASE picture' = picture /\ Proceed(p, t2)
  <2>1. ClearsShow(t2)
    BY <1>2, <1>3, <1>7 DEF ClearsShow
  <2>2. Cleared(t2)
    BY <1>7 DEF Cleared
  <2>3. Stands(t2)
    BY <1>7, <2>1, <2>2 DEF Stands, Held, Relied, Publishers
  <2>4. Reads
    BY <1>2, <1>9 DEF Reads, store
  <2> QED
    BY <1>9, <2>3, <2>4, ReadKeeps
<1> QED
  BY <1>1, <1>4, <1>5, <1>8, <1>9 DEF ErasePicture

LEMMA FillVideoKeeps ==
  ASSUME CatalogueInv, NEW p \in Procs, FillVideo(p)
  PROVE  Steps(p)
<1>1. PICK t0 : t0 = task[p]
  OBVIOUS
<1>2. /\ task[p] # None /\ t0.op = "backfill" /\ UNCHANGED <<series, movie, subtitle, people, store, cache, requests>>
  BY <1>1 DEF FillVideo, At, Goes
<1>3. PICK ready : ready = ReadyVideos(Head(t0.list))
  OBVIOUS
<1>4. video' = [v \in DOMAIN video |-> IF v \in ready /\ (\A w \in ready : w <= v) /\ video[v].duration = 0
                                       THEN [video[v] EXCEPT !.duration = 1] ELSE video[v]]
  BY <1>1, <1>3 DEF FillVideo
<1>5. PICK t : t = [t0 EXCEPT !.at = "movie"]
  OBVIOUS
<1>6. DOMAIN t = Fields /\ t.op \in Plain
  <2>1. DOMAIN t0 = Fields
    BY <1>1, <1>2, UnderWay
  <2> QED
    BY <1>2, <1>5, <2>1 DEF Fields, Plain
<1>7. /\ Tables /\ video \in Seq(Video \cup {None}) /\ \A v \in ready : v \in DOMAIN video /\ video[v] # None
  BY <1>3 DEF CatalogueInv, Tables, Typed, ReadyVideos, Videos, Rows
<1>8. \A v \in DOMAIN video : video[v] # None => /\ video[v] \in Video /\ [video[v] EXCEPT !.duration = 1] \in Video
                                                 /\ [video[v] EXCEPT !.duration = 1].movie = video[v].movie
                                                 /\ [video[v] EXCEPT !.duration = 1].ready = video[v].ready
  BY <1>7 DEF Video
<1>9. \A v \in DOMAIN video : IF video[v] = None THEN video'[v] = None
                              ELSE video'[v] \in Video /\ video'[v].movie = video[v].movie /\ video'[v].ready = video[v].ready
  BY <1>4, <1>7, <1>8
<1>10. video' \in Seq(Video \cup {None}) /\ DOMAIN video' = DOMAIN video
  <2>1. PICK f : f = video'
    OBVIOUS
  <2>2. f \in [DOMAIN video -> Video \cup {None}]
    BY <1>4, <1>9, <2>1
  <2>3. video \in Seq(Video \cup {None})
    BY <1>7
  <2>4. f \in Seq(Video \cup {None}) /\ DOMAIN f = DOMAIN video
    BY ONLY <2>2, <2>3, TableWritten
  <2> QED
    BY <2>1, <2>4
<1>11. \A v \in DOMAIN video : IF video[v] = None THEN video'[v] = None
                              ELSE video'[v] # None /\ video'[v].movie = video[v].movie /\ video'[v].ready = video[v].ready
  BY <1>9, NoneIsNothing
<1>12. Tables' /\ World
  BY ONLY <1>2, <1>7, <1>10, <1>11, VideosWritten
<1>13. Disturb(p, t)
  BY <1>1, <1>5 DEF FillVideo
<1> QED
  BY <1>6, <1>12, <1>13, PlainStays, WriteKeeps

LEMMA FillMovieKeeps ==
  ASSUME CatalogueInv, NEW p \in Procs, FillMovie(p)
  PROVE  Steps(p)
<1>1. PICK t0 : t0 = task[p]
  OBVIOUS
<1>2. /\ task[p] # None /\ t0.op = "backfill" /\ UNCHANGED <<series, video, subtitle, people, store, cache, requests>>
  BY <1>1 DEF FillMovie, At, Goes
<1>3. PICK m : m = Head(t0.list)
  OBVIOUS
<1>4. movie' = IF movie[m] # None /\ movie[m].duration = 0 THEN [movie EXCEPT ![m].duration = 1] ELSE movie
  BY <1>1, <1>3 DEF FillMovie
<1>5. PICK t : t = [t0 EXCEPT !.at = "recover", !.list = Tail(@)]
  OBVIOUS
<1>6. DOMAIN t = Fields /\ t.op \in Plain
  <2>1. DOMAIN t0 = Fields
    BY <1>1, <1>2, UnderWay
  <2> QED
    BY <1>2, <1>5, <2>1 DEF Fields, Plain
<1>7. Tables /\ movie \in Seq(Movie \cup {None}) /\ LinksHold(movie, named)
  BY DEF CatalogueInv, Tables, Typed, Related
<1>8. Tables' /\ World
  <2>1. CASE m \in Rows(movie) /\ movie[m].duration = 0
    <3>1. PICK row : row = [movie[m] EXCEPT !.duration = 1]
      OBVIOUS
    <3>2. m \in DOMAIN movie /\ movie[m] \in Movie /\ movie[m] # None
      BY <1>7, <2>1 DEF Rows
    <3>3. row \in Movie /\ row.series = movie[m].series /\ row.bought = movie[m].bought /\ row.links = movie[m].links
      BY <3>1, <3>2 DEF Movie
    <3>4. row.links \subseteq Rows(named)
      BY <1>7, <2>1, <3>3 DEF LinksHold
    <3>5. movie' = [movie EXCEPT ![m] = row]
      BY <1>4, <2>1, <3>1, <3>2
    <3> QED
      BY <1>2, <1>7, <2>1, <3>3, <3>4, <3>5, MovieWritten
  <2>2. CASE ~(m \in Rows(movie) /\ movie[m].duration = 0)
    <3>1. movie' = movie
      <4>1. CASE m \in DOMAIN movie
        BY <1>4, <2>2, <4>1 DEF Rows
      <4>2. CASE m \notin DOMAIN movie
        <5>1. PICK f : f = movie
          OBVIOUS
        <5>2. f \in Seq(Movie \cup {None}) /\ m \notin DOMAIN f
          BY <1>7, <4>2, <5>1
        <5>3. [f EXCEPT ![m] = [f[m] EXCEPT !.duration = 1]] = f
          BY ONLY <5>2
        <5> QED
          BY <1>4, <5>1, <5>3
      <4> QED
        BY <4>1, <4>2
    <3>2. Quiet /\ UNCHANGED cache /\ requests' \in Nat
      BY <1>2, <1>7, <3>1 DEF Quiet, titles, Tables, Typed
    <3> QED
      BY <1>7, <3>2, QuietWorld
  <2> QED
    BY <2>1, <2>2
<1>9. Disturb(p, t)
  BY <1>1, <1>5 DEF FillMovie
<1> QED
  BY <1>6, <1>8, <1>9, PlainStays, WriteKeeps

LEMMA StoreFacetsKeeps ==
  ASSUME CatalogueInv, NEW p \in Procs, StoreFacets(p)
  PROVE  Steps(p)
<1>1. PICK t0 : t0 = task[p]
  OBVIOUS
<1>2. /\ task[p] # None /\ t0.op = "facets" /\ t0.at = "store" /\ Quiet /\ clock' = clock /\ requests' = requests
  BY <1>1 DEF StoreFacets, At, Quiet
<1>3. DOMAIN t0 = Fields /\ Filters(t0)
  BY <1>1, <1>2, UnderWay DEF Held
<1>4. PICK entry : entry = [genres |-> t0.done, expires |-> t0.arg + TTL, read |-> t0.row]
  OBVIOUS
<1>5. facets' = [facets EXCEPT ![t0.word] = entry]
  BY <1>1, <1>4 DEF StoreFacets
<1>6. Cached'
  <2>1. entry.read \in Nat /\ entry.expires \in Nat /\ entry.expires <= entry.read + TTL
    BY <1>2, <1>3, <1>4, TTLPositive DEF Filters
  <2> QED
    BY <1>2, <1>5, <2>1 DEF Cached, CatalogueInv, Tables
<1>7. Tables' /\ World
  <2>1. Typed' /\ Posted'
    BY <1>2 DEF Quiet, CatalogueInv, Tables, Typed, Posted, titles, people, store
  <2>2. Related(series, movie, video, subtitle, named, book, comment)'
    BY <1>2 DEF Quiet, CatalogueInv, Tables, titles, people
  <2>3. World
    BY <1>2, SameLasts DEF World, Quiet, titles, people, CatalogueInv, Tables, Cached
  <2> QED
    BY <1>6, <2>1, <2>2, <2>3 DEF Tables
<1>8. PICK t : t = [t0 EXCEPT !.at = "answer"]
  OBVIOUS
<1>9. DOMAIN t = Fields /\ t.op = "facets" /\ t.at = "answer" /\ t.word = t0.word /\ t.arg = t0.arg
  BY <1>2, <1>3, <1>8 DEF Fields
<1>10. Stands(t)'
  <2>1. Filters(t)'
    BY <1>2, <1>3, <1>9 DEF Filters
  <2>2. Offered(t)'
    BY <1>9 DEF Offered
  <2> QED
    BY <1>9, <2>1, <2>2 DEF Stands, Held, Relied, Publishers
<1>11. DOMAIN task' = Procs /\ task'[p] = t /\ \A q \in Procs \ {p} : task'[q] = task[q]
  BY <1>1, <1>8 DEF StoreFacets, Goto, Proceed, CatalogueInv
<1> QED
  BY <1>2, <1>7, <1>10, <1>11, StandsAs, OthersKept DEF Steps

LEMMA TickKeeps ==
  ASSUME CatalogueInv, Tick
  PROVE  CatalogueInv'
<1>1. Quiet /\ facets' = facets /\ clock' = clock + 1 /\ task' = task /\ requests' = requests
  BY DEF Tick, Quiet
<1>2. Tables' /\ World
  <2>1. Typed' /\ Posted' /\ Cached'
    BY <1>1 DEF Quiet, CatalogueInv, Tables, Typed, Posted, Cached, titles, people, store
  <2>2. Related(series, movie, video, subtitle, named, book, comment)'
    BY <1>1 DEF Quiet, CatalogueInv, Tables, titles, people
  <2>3. World
    BY <1>1, SameLasts DEF World, Quiet, titles, people, CatalogueInv, Tables, Cached
  <2> QED
    BY <2>1, <2>2, <2>3 DEF Tables
<1>3. ASSUME NEW q \in Procs, task'[q] # None
      PROVE  Stands(task[q])'
  <2>1. PICK t : t = task[q]
    OBVIOUS
  <2>2. Kept(t, t) /\ Held(t) /\ (t.alone => Relied(t)) /\ DOMAIN t = Fields
    BY <1>1, <1>3, <2>1, UnderWay, OthersKept
  <2>3. Held(t)'
    BY <1>2, <2>2, HeldStays
  <2>4. t.alone => Relied(t)'
    BY <1>1, <2>2, ReliedStays
  <2>5. Stands(t)'
    BY <2>2, <2>3, <2>4 DEF Stands
  <2> QED
    BY <1>1, <2>1, <2>5, StandsAs
<1> QED
  BY <1>1, <1>2, <1>3 DEF CatalogueInv, Stands

LEMMA DoTitlesKeeps ==
  ASSUME CatalogueInv, NEW p \in Procs, DoTitles(p)
  PROVE  Steps(p)
BY ListPageKeeps, CountTiersKeeps, ReadTierKeeps, ScanIdsKeeps, RefetchKeeps, ReadEpisodesKeeps, ReadMostPurchasedKeeps,
   ReadVideoKeeps, ReadTracksKeeps, AnswersKeep, QueryFacetsKeeps, StoreFacetsKeeps, InsertPlaceholderKeeps, WriteMovieKeeps,
   DeleteMovieKeeps, CleanMovieKeeps, WriteSeriesKeeps, DeleteSeriesKeeps, SweepEpisodeKeeps, CountReferencesKeeps,
   ErasePictureKeeps, RecoverKeeps, FillVideoKeeps, FillMovieKeeps DEF DoTitles

-----------------------------------------------------------------------------
(* Steps that write: people, books and comments *)

LEMMA InsertNamedKeeps ==
  ASSUME CatalogueInv, NEW p \in Procs, InsertNamed(p)
  PROVE  Steps(p)
<1>1. PICK t0 : t0 = task[p]
  OBVIOUS
<1>2. task[p] # None /\ t0.op = "named"
  BY <1>1 DEF InsertNamed, At
<1>3. t0.word \in Kinds /\ t0.text \in DOMAIN Lower /\ t0.arg \in Faces
  BY <1>1, <1>2, UnderWay DEF Held
<1>4. CASE ~Free(t0.word, t0.text, None)
  <2>1. End(p) /\ Reads
    BY <1>1, <1>4 DEF InsertNamed, Reads, people
  <2> QED
    BY <2>1, EndKeeps
<1>5. CASE Free(t0.word, t0.text, None)
  <2>1. PICK row : row = [kind |-> t0.word, name |-> t0.text, face |-> t0.arg]
    OBVIOUS
  <2>2. row \in Named /\ Free(row.kind, row.name, None)
    BY <1>3, <1>5, <2>1 DEF Named, Kinds, Faces
  <2>3. /\ named' = Append(named, row) /\ Disturb(p, None)
        /\ UNCHANGED <<titles, subtitle, book, comment, store, cache, requests>>
    BY <1>1, <1>5, <2>1 DEF InsertNamed, Goes
  <2>4. Tables
    BY DEF CatalogueInv
  <2>5. Tables' /\ World
    BY ONLY <2>2, <2>3, <2>4, NamedAdded
  <2> QED
    BY <2>3, <2>5, WriteKeeps
<1> QED
  BY <1>4, <1>5

LEMMA RenameKeeps ==
  ASSUME CatalogueInv, NEW p \in Procs, Rename(p)
  PROVE  Steps(p)
<1>1. PICK t0 : t0 = task[p]
  OBVIOUS
<1>2. task[p] # None /\ t0.op = "rename" /\ t0.at = "write"
  BY <1>1 DEF Rename, At
<1>3. DOMAIN t0 = Fields /\ Renames(t0)
  BY <1>1, <1>2, UnderWay DEF Held
<1>4. CASE named[t0.id] = None \/ ~Free(t0.row.kind, t0.text, t0.id)
  <2>1. End(p) /\ Reads
    BY <1>1, <1>4 DEF Rename, Reads, people
  <2> QED
    BY <2>1, EndKeeps
<1>5. CASE ~(named[t0.id] = None \/ ~Free(t0.row.kind, t0.text, t0.id))
  <2>1. PICK i : i = t0.id
    OBVIOUS
  <2>2. PICK n : n = t0.text
    OBVIOUS
  <2>3. PICK face : face = t0.arg
    OBVIOUS
  <2>4. PICK fans : fans = (t0.row.kind = "author" /\ t0.text # t0.row.name)
    OBVIOUS
  <2>5. /\ i \in Rows(named) /\ n \in DOMAIN Lower /\ face \in Faces /\ Free(named[i].kind, n, i)
    BY <1>3, <1>5, <2>1, <2>2, <2>3 DEF Renames, Rows
  <2>6. /\ named' = [named EXCEPT ![i].name = n, ![i].face = face]
        /\ book' = [b \in DOMAIN book |-> IF book[b] # None /\ book[b].credit = i /\ fans
                                          THEN [book[b] EXCEPT !.author = n] ELSE book[b]]
        /\ UNCHANGED <<titles, subtitle, comment, store, cache, requests>>
    BY <1>1, <1>5, <2>1, <2>2, <2>3, <2>4 DEF Rename, Goes
  <2>7. Tables /\ book \in Seq(Book \cup {None})
    BY DEF CatalogueInv, Tables, Typed
  <2>8. \A b \in DOMAIN book : book[b] # None => /\ book[b] \in Book /\ [book[b] EXCEPT !.author = n] \in Book
                                                 /\ [book[b] EXCEPT !.author = n].credit = book[b].credit
    BY <2>5, <2>7 DEF Book
  <2>9. \A b \in DOMAIN book : IF book[b] = None THEN book'[b] = None ELSE book'[b] \in Book /\ book'[b].credit = book[b].credit
    BY <2>6, <2>7, <2>8
  <2>10. book' \in Seq(Book \cup {None}) /\ DOMAIN book' = DOMAIN book
    <3>1. PICK f : f = book'
      OBVIOUS
    <3>2. f \in [DOMAIN book -> Book \cup {None}]
      BY <2>6, <2>9, <3>1
    <3>3. book \in Seq(Book \cup {None})
      BY <2>7
    <3>4. f \in Seq(Book \cup {None}) /\ DOMAIN f = DOMAIN book
      BY ONLY <3>2, <3>3, TableWritten
    <3> QED
      BY <3>1, <3>4
  <2>11. \A b \in DOMAIN book : IF book[b] = None THEN book'[b] = None ELSE book'[b] # None /\ book'[b].credit = book[b].credit
    BY <2>9, NoneIsNothing
  <2>12. Tables' /\ World
    BY ONLY <2>5, <2>6, <2>7, <2>10, <2>11, NamedWritten
  <2>13. PICK t : t = [t0 EXCEPT !.at = "face", !.todo = {t0.row.face}]
    OBVIOUS
  <2>14. /\ DOMAIN t = Fields /\ t.op = "rename" /\ t.at = "face" /\ t.id = t0.id /\ t.row = t0.row /\ t.text = t0.text /\ t.arg = t0.arg
    BY <1>2, <1>3, <2>13 DEF Fields
  <2>15. Renames(t)'
    BY <1>3, <2>12, <2>14 DEF Renames, World, NamedLast, Lasts
  <2>16. Stands(t)'
    BY <2>14, <2>15 DEF Stands, Held, Relied, Publishers
  <2>17. Disturb(p, t) \/ Disturb(p, None)
    BY <1>1, <1>5, <2>13 DEF Rename
  <2> QED
    BY <2>12, <2>16, <2>17, WriteKeeps
<1> QED
  BY <1>4, <1>5

\* A picture that goes is on no table.
LEMMA PictureGoes ==
  ASSUME CatalogueInv, NEW p \in Procs, Disturb(p, None), UNCHANGED <<titles, subtitle, people, master, rendition, source>>, Goes
  PROVE  Steps(p)
<1>1. Tables' /\ World
  BY SourcesSwept DEF CatalogueInv, Goes
<1> QED
  BY <1>1, WriteKeeps

LEMMA EraseFaceKeeps ==
  ASSUME CatalogueInv, NEW p \in Procs, EraseFace(p)
  PROVE  Steps(p)
<1>1. CASE Disturb(p, None)
  BY <1>1, PictureGoes DEF EraseFace
<1>2. CASE picture' = picture /\ End(p)
  <2>1. Reads
    BY <1>2 DEF EraseFace, Reads, store
  <2> QED
    BY <1>2, <2>1, EndKeeps
<1> QED
  BY <1>1, <1>2 DEF EraseFace

LEMMA EraseCoverKeeps ==
  ASSUME CatalogueInv, NEW p \in Procs, EraseCover(p)
  PROVE  Steps(p)
<1>1. CASE Disturb(p, None)
  BY <1>1, PictureGoes DEF EraseCover
<1>2. CASE picture' = picture /\ End(p)
  <2>1. Reads
    BY <1>2 DEF EraseCover, Reads, store
  <2> QED
    BY <1>2, <2>1, EndKeeps
<1> QED
  BY <1>1, <1>2 DEF EraseCover

LEMMA DeleteNamedKeeps ==
  ASSUME CatalogueInv, NEW p \in Procs, DeleteNamed(p)
  PROVE  Steps(p)
<1>1. PICK t0 : t0 = task[p]
  OBVIOUS
<1>2. task[p] # None /\ t0.op = "removeNamed"
  BY <1>1 DEF DeleteNamed, At
<1>3. DOMAIN t0 = Fields /\ t0.id \in DOMAIN named
  BY <1>1, <1>2, UnderWay DEF Held
<1>4. PICK i : i = t0.id
  OBVIOUS
<1>5. CASE named[i] = None \/ Credited(i) # {}
  <2>1. End(p) /\ Reads
    BY <1>1, <1>4, <1>5 DEF DeleteNamed, Reads, titles, people
  <2> QED
    BY <2>1, EndKeeps
<1>6. CASE named[i] # None /\ Credited(i) = {}
  <2>1. /\ named' = [named EXCEPT ![i] = None]
        /\ movie' = [x \in DOMAIN movie |-> IF movie[x] = None THEN None ELSE [movie[x] EXCEPT !.links = @ \ {i}]]
        /\ series' = [x \in DOMAIN series |-> IF series[x] = None THEN None ELSE [series[x] EXCEPT !.links = @ \ {i}]]
        /\ book' = [x \in DOMAIN book |-> IF book[x] = None THEN None ELSE [book[x] EXCEPT !.links = @ \ {i}]]
        /\ UNCHANGED <<video, subtitle, comment, store, cache, requests>>
    BY <1>1, <1>4, <1>6 DEF DeleteNamed, Goes
  <2>2. /\ Tables /\ i \in Rows(named) /\ \A b \in Rows(book) : book[b].credit # i
    BY <1>3, <1>4, <1>6 DEF CatalogueInv, Rows, Credited
  <2>3. Tables' /\ World
    BY ONLY <2>1, <2>2, NamedGone
  <2>4. PICK t : t = [t0 EXCEPT !.at = "face", !.todo = {t0.row.face}]
    OBVIOUS
  <2>5. DOMAIN t = Fields /\ t.op = "removeNamed" /\ t.id = t0.id
    BY <1>2, <1>3, <2>4 DEF Fields
  <2>6. t.id \in DOMAIN named'
    BY <1>3, <2>3, <2>5 DEF World, NamedLast, Lasts
  <2>7. Stands(t)'
    BY <2>5, <2>6 DEF Stands, Held, Relied, Publishers
  <2>8. Disturb(p, t) \/ Disturb(p, None)
    BY <1>1, <1>4, <1>6, <2>4 DEF DeleteNamed
  <2> QED
    BY <2>3, <2>7, <2>8, WriteKeeps
<1> QED
  BY <1>5, <1>6

LEMMA CreateAuthorKeeps ==
  ASSUME CatalogueInv, NEW p \in Procs, CreateAuthor(p)
  PROVE  Steps(p)
<1>1. PICK t0 : t0 = task[p]
  OBVIOUS
<1>2. task[p] # None /\ t0.op = "book" /\ t0.at = "author"
  BY <1>1 DEF CreateAuthor, At
<1>3. DOMAIN t0 = Fields /\ Credits(t0)
  BY <1>1, <1>2, UnderWay DEF Held
<1>4. CASE ~Free("author", t0.text, None)
  <2>1. PICK t : t = [t0 EXCEPT !.at = "again"]
    OBVIOUS
  <2>2. /\ DOMAIN t = Fields /\ t.op = "book" /\ t.at = "again" /\ t.id = t0.id /\ t.arg = t0.arg /\ t.text = t0.text
    BY <1>2, <1>3, <2>1 DEF Fields
  <2>3. Credits(t) /\ Credible(t)
    BY <1>2, <1>3, <2>2 DEF Credits, Credible
  <2>4. Stands(t)
    BY <2>2, <2>3 DEF Stands, Held, Relied, Publishers
  <2>5. Proceed(p, t) /\ Reads
    BY <1>1, <1>4, <2>1 DEF CreateAuthor, Goto, Reads, people
  <2> QED
    BY <2>4, <2>5, ReadKeeps
<1>5. CASE Free("author", t0.text, None)
  <2>1. PICK row : row = [kind |-> "author", name |-> t0.text, face |-> None]
    OBVIOUS
  <2>2. PICK n : n = Len(named) + 1
    OBVIOUS
  <2>3. PICK by : by = [id |-> n, name |-> t0.text]
    OBVIOUS
  <2>4. PICK t : t = [t0 EXCEPT !.at = "write", !.first = by]
    OBVIOUS
  <2>5. row \in Named /\ Free(row.kind, row.name, None) /\ row.kind = "author" /\ row.name = t0.text
    BY <1>2, <1>3, <1>5, <2>1 DEF Named, Credits
  <2>6. /\ named' = Append(named, row) /\ Disturb(p, t)
        /\ UNCHANGED <<titles, subtitle, book, comment, store, cache, requests>>
    BY <1>1, <1>5, <2>1, <2>2, <2>3, <2>4 DEF CreateAuthor, Goes
  <2>7. Tables /\ named \in Seq(Named \cup {None})
    BY DEF CatalogueInv, Tables, Typed
  <2>8. Tables' /\ World /\ Len(named) + 1 \in DOMAIN named' /\ named'[Len(named) + 1] = row
    BY ONLY <2>5, <2>6, <2>7, NamedAdded
  <2>9. n \in Nat /\ n \in DOMAIN named' /\ named'[n] = row /\ row # None
    BY <2>2, <2>5, <2>7, <2>8, NoneIsNothing
  <2>10. by \in By /\ by.id = n /\ by.name = t0.text
    BY <1>2, <1>3, <2>3, <2>9 DEF By, Credits
  <2>11. /\ DOMAIN t = Fields /\ t.op = "book" /\ t.at = "write" /\ t.id = t0.id /\ t.arg = t0.arg /\ t.first = by
    BY <1>2, <1>3, <2>4 DEF Fields
  <2>12. Credits(t)'
    <3>1. t.id = None \/ t.id \in DOMAIN book'
      BY <1>3, <2>6, <2>11 DEF Credits
    <3> QED
      BY <1>3, <2>5, <2>9, <2>10, <2>11, <3>1 DEF Credits
  <2>13. Credible(t)'
    BY <2>5, <2>9, <2>10, <2>11 DEF Credible
  <2>14. Stands(t)'
    BY <2>11, <2>12, <2>13 DEF Stands, Held, Relied, Publishers
  <2> QED
    BY <2>6, <2>8, <2>14, WriteKeeps
<1> QED
  BY <1>4, <1>5

\* Three fields of a row are written one after the other.
Accredited(table, i, cover, author, credit) == [table EXCEPT ![i].cover = cover, ![i].author = author, ![i].credit = credit]
LEMMA CreditWritten ==
  ASSUME NEW table \in Seq(Book \cup {None}), NEW i \in DOMAIN table, table[i] \in Book, NEW cover \in Faces,
         NEW author \in DOMAIN Lower, NEW credit \in Nat \cup {None}, NEW f, f = Accredited(table, i, cover, author, credit)
  PROVE  /\ f \in Seq(Book \cup {None}) /\ DOMAIN f = DOMAIN table
         /\ f[i] # None /\ f[i].credit = credit /\ \A j \in DOMAIN table : j # i => f[j] = table[j]
<1>1. PICK r1 : r1 = [table[i] EXCEPT !.cover = cover]
  OBVIOUS
<1>2. PICK r2 : r2 = [r1 EXCEPT !.author = author]
  OBVIOUS
<1>3. PICK r3 : r3 = [r2 EXCEPT !.credit = credit]
  OBVIOUS
<1>4. r1 \in Book
  BY <1>1 DEF Book, Faces
<1>5. r2 \in Book
  BY <1>2, <1>4 DEF Book
<1>6. r3 \in Book /\ r3.credit = credit
  BY <1>3, <1>5 DEF Book
<1>7. PICK f1 : f1 = [table EXCEPT ![i].cover = cover]
  OBVIOUS
<1>8. DOMAIN f1 = DOMAIN table /\ f1[i] = r1 /\ \A j \in DOMAIN table : j # i => f1[j] = table[j]
  BY <1>1, <1>7
<1>9. PICK f2 : f2 = [f1 EXCEPT ![i].author = author]
  OBVIOUS
<1>10. DOMAIN f2 = DOMAIN table /\ f2[i] = r2 /\ \A j \in DOMAIN table : j # i => f2[j] = table[j]
  BY <1>2, <1>8, <1>9
<1>11. f = [f2 EXCEPT ![i].credit = credit]
  BY <1>7, <1>9 DEF Accredited
<1>12. DOMAIN f = DOMAIN table /\ f[i] = r3 /\ \A j \in DOMAIN table : j # i => f[j] = table[j]
  BY <1>3, <1>10, <1>11
<1>13. f \in [DOMAIN table -> Book \cup {None}]
  <2>1. \A j \in DOMAIN table : f[j] \in Book \cup {None}
    BY <1>6, <1>12
  <2>2. f1 \in [DOMAIN table -> Book \cup {None}]
    BY <1>4, <1>7, <1>8
  <2>3. f2 \in [DOMAIN table -> Book \cup {None}]
    BY <1>5, <1>9, <1>10, <2>2
  <2> QED
    BY <1>11, <1>12, <2>1, <2>3
<1>14. f \in Seq(Book \cup {None})
  BY ONLY <1>13, table \in Seq(Book \cup {None}), TableWritten
<1> QED
  BY <1>6, <1>12, <1>14, NoneIsNothing

LEMMA WriteBookKeeps ==
  ASSUME CatalogueInv, NEW p \in Procs, WriteBook(p)
  PROVE  Steps(p)
<1>1. PICK t0 : t0 = task[p]
  OBVIOUS
<1>2. task[p] # None /\ t0.op = "book" /\ t0.at = "write"
  BY <1>1 DEF WriteBook, At
<1>3. DOMAIN t0 = Fields /\ Credits(t0)
  BY <1>1, <1>2, UnderWay DEF Held
<1>4. PICK by : by = t0.first
  OBVIOUS
<1>5. PICK b : b = t0.id
  OBVIOUS
<1>6. CASE (by # None /\ named[by.id] = None) \/ (b # None /\ book[b] = None)
  <2>1. End(p) /\ Reads
    BY <1>1, <1>4, <1>5, <1>6 DEF WriteBook, Reads, people
  <2> QED
    BY <2>1, EndKeeps
<1>7. /\ Tables /\ book \in Seq(Book \cup {None}) /\ CreditsHold(book, named) /\ named \in Seq(Named \cup {None})
  BY DEF CatalogueInv, Tables, Typed, Related
<1>8. ASSUME by # None, named[by.id] # None
      PROVE  /\ by.id \in Rows(named) /\ by.id \in Nat /\ named[by.id].kind = "author" /\ by.name \in DOMAIN Lower
  <2>1. by \in By /\ by.id \in DOMAIN named /\ named[by.id].kind = "author"
    BY <1>2, <1>3, <1>4, <1>8 DEF Credits
  <2> QED
    BY <1>8, <2>1 DEF By, Rows
<1>9. CASE ~((by # None /\ named[by.id] = None) \/ (b # None /\ book[b] = None)) /\ b = None
  <2>1. by \in By /\ by # None
    BY <1>2, <1>3, <1>4, <1>5, <1>9, NoneIsNothing DEF Credits, By
  <2>2. PICK row : row = [author |-> by.name, credit |-> by.id, cover |-> t0.arg, links |-> {}]
    OBVIOUS
  <2>3. /\ book' = Append(book, row) /\ Disturb(p, None)
        /\ UNCHANGED <<titles, subtitle, named, comment, store, cache, requests>>
    BY <1>1, <1>4, <1>5, <1>9, <2>2 DEF WriteBook, Goes
  <2>4. by.id \in Rows(named) /\ by.id \in Nat /\ named[by.id].kind = "author" /\ by.name \in DOMAIN Lower
    BY <1>8, <1>9, <2>1
  <2>5. row \in Book /\ row.credit = by.id
    BY <1>3, <2>2, <2>4 DEF Book, Credits, Faces
  <2>6. PICK n : n = Len(book) + 1
    OBVIOUS
  <2>7. /\ book' \in Seq(Book \cup {None}) /\ DOMAIN book' = (DOMAIN book) \cup {n}
        /\ \A x \in DOMAIN book : book'[x] = book[x]
        /\ book'[n] = row
    <3>1. book \in Seq(Book \cup {None}) /\ row \in Book \cup {None}
      BY <1>7, <2>5
    <3> QED
      BY <2>3, <2>6, <3>1, RowAdded
  <2>8. Lasts(book, book')
    BY <2>7 DEF Lasts
  <2>9. CreditsHold(book', named)
    BY <1>7, <2>4, <2>5, <2>7 DEF CreditsHold, Rows
  <2>10. Tables' /\ World
    BY <1>7, <2>3, <2>7, <2>8, <2>9, BooksWritten
  <2> QED
    BY <2>3, <2>10, WriteKeeps
<1>10. CASE ~((by # None /\ named[by.id] = None) \/ (b # None /\ book[b] = None)) /\ b # None
  <2>1. b \in DOMAIN book /\ book[b] # None /\ book[b] \in Book
    BY <1>3, <1>5, <1>7, <1>10 DEF Credits
  <2>2. PICK author : author = IF by = None THEN book[b].author ELSE by.name
    OBVIOUS
  <2>3. PICK credit : credit = IF by = None THEN book[b].credit ELSE by.id
    OBVIOUS
  <2>4. PICK cover : cover = t0.arg
    OBVIOUS
  <2>5. author \in DOMAIN Lower /\ credit \in Nat \cup {None} /\ cover \in Faces
    BY <1>3, <1>8, <1>10, <2>1, <2>2, <2>3, <2>4 DEF Book, Credits
  <2>6. /\ book' = [book EXCEPT ![b].cover = t0.arg, ![b].author = IF by = None THEN @ ELSE by.name,
                                ![b].credit = IF by = None THEN @ ELSE by.id]
        /\ UNCHANGED <<titles, subtitle, named, comment, store, cache, requests>>
    BY <1>1, <1>4, <1>5, <1>10 DEF WriteBook, Goes
  <2>7. book' = [book EXCEPT ![b].cover = cover, ![b].author = author, ![b].credit = credit]
    <3>1. CASE by # None
      BY <2>2, <2>3, <2>4, <2>6, <3>1
    <3>2. CASE by = None
      <4>1. book' = [book EXCEPT ![b].cover = cover, ![b].author = @, ![b].credit = @]
        BY <2>4, <2>6, <3>2
      <4>2. /\ [book EXCEPT ![b].cover = cover][b].author = author
            /\ [book EXCEPT ![b].cover = cover, ![b].author = author][b].credit = credit
        BY <2>1, <2>2, <2>3, <3>2 DEF Book
      <4> QED
        BY <4>1, <4>2
    <3> QED
      BY <3>1, <3>2
  <2>8. /\ book' \in Seq(Book \cup {None}) /\ DOMAIN book' = DOMAIN book
        /\ book'[b] # None /\ book'[b].credit = credit /\ \A x \in DOMAIN book : x # b => book'[x] = book[x]
    <3>1. PICK f : f = book'
      OBVIOUS
    <3>2. f = [book EXCEPT ![b].cover = cover, ![b].author = author, ![b].credit = credit]
      BY <2>7, <3>1
    <3>3. PICK table \in Seq(Book \cup {None}) : table = book
      BY <1>7
    <3>5. /\ b \in DOMAIN table /\ table[b] \in Book
          /\ f = Accredited(table, b, cover, author, credit)
      BY <2>1, <3>2, <3>3 DEF Accredited
    <3>6. author \in DOMAIN Lower
      BY <2>5
    <3>7. credit \in Nat \cup {None}
      BY <2>5
    <3>8. cover \in Faces
      BY <2>5
    <3>9. /\ f \in Seq(Book \cup {None}) /\ DOMAIN f = DOMAIN table
          /\ f[b] # None /\ f[b].credit = credit /\ \A x \in DOMAIN table : x # b => f[x] = table[x]
      <4> HIDE DEF Accredited
      <4> QED
        BY ONLY <3>5, <3>6, <3>7, <3>8, table \in Seq(Book \cup {None}), CreditWritten
    <3>4. /\ f \in Seq(Book \cup {None}) /\ DOMAIN f = DOMAIN book
          /\ f[b] # None /\ f[b].credit = credit /\ \A x \in DOMAIN book : x # b => f[x] = book[x]
      BY <3>3, <3>9
    <3> QED
      BY <3>1, <3>4
  <2>9. Lasts(book, book')
    BY <2>1, <2>8 DEF Lasts
  <2>10. CreditsHold(book', named)
    <3>1. \A x \in Rows(book') : x \in Rows(book) /\ (x # b => book'[x] = book[x])
      BY <2>1, <2>8 DEF Rows
    <3>2. credit # None => credit \in Rows(named) /\ named[credit].kind = "author"
      BY <1>7, <1>8, <1>10, <2>1, <2>3 DEF CreditsHold, Rows
    <3> QED
      BY <1>7, <2>8, <3>1, <3>2 DEF CreditsHold
  <2>11. Tables' /\ World
    BY ONLY <1>7, <2>6, <2>8, <2>9, <2>10, BooksWritten
  <2>12. PICK t : t = [t0 EXCEPT !.at = "cover", !.todo = {t0.row.cover}]
    OBVIOUS
  <2>13. /\ DOMAIN t = Fields /\ t.op = "book" /\ t.at = "cover" /\ t.id = t0.id /\ t.arg = t0.arg
    BY <1>2, <1>3, <2>12 DEF Fields
  <2>14. Credits(t)' /\ Credible(t)'
    BY <1>3, <2>8, <2>13 DEF Credits, Credible
  <2>15. Stands(t)'
    BY <2>13, <2>14 DEF Stands, Held, Relied, Publishers
  <2>16. Disturb(p, t) \/ Disturb(p, None)
    BY <1>1, <1>4, <1>5, <1>10, <2>12 DEF WriteBook
  <2> QED
    BY <2>11, <2>15, <2>16, WriteKeeps
<1> QED
  BY <1>6, <1>9, <1>10

\* Comments that go take what answers them along.
LEMMA CommentsGone ==
  ASSUME NEW S, \A c \in Rows(comment) : comment[c].parent \in S /\ comment[c].parent # None => c \in S,
         comment \in Seq(Comment \cup {None}), RepliesHold(comment),
         comment' = [c \in DOMAIN comment |-> IF comment[c] = None \/ c \in S THEN None ELSE comment[c]]
  PROVE  comment' \in Seq(Comment \cup {None}) /\ CommentsLast /\ RepliesHold(comment')
<1>1. comment' \in Seq(Comment \cup {None}) /\ DOMAIN comment' = DOMAIN comment
  <2>1. PICK f : f = comment'
    OBVIOUS
  <2>2. f \in [DOMAIN comment -> Comment \cup {None}]
    BY <2>1
  <2>3. f \in Seq(Comment \cup {None}) /\ DOMAIN f = DOMAIN comment
    BY ONLY <2>2, comment \in Seq(Comment \cup {None}), TableWritten
  <2> QED
    BY <2>1, <2>3
<1>2. \A c \in Rows(comment') : c \in Rows(comment) /\ c \notin S /\ comment'[c] = comment[c]
  BY <1>1 DEF Rows
<1>3. \A c \in Rows(comment) \ S : c \in Rows(comment')
  BY <1>1 DEF Rows
<1>4. CommentsLast
  BY <1>1 DEF CommentsLast, Lasts
<1>5. RepliesHold(comment')
  <2>1. SUFFICES ASSUME NEW c \in Rows(comment'), comment'[c].parent # None
                 PROVE  /\ comment'[c].parent \in Rows(comment') /\ comment'[comment'[c].parent].parent = None
                        /\ comment'[comment'[c].parent].on = comment'[c].on /\ comment'[comment'[c].parent].title = comment'[c].title
    BY DEF RepliesHold
  <2>2. PICK d : d = comment[c].parent
    OBVIOUS
  <2>3. c \in Rows(comment) /\ comment'[c] = comment[c] /\ d # None /\ d \notin S
    BY <1>2, <2>1, <2>2
  <2>4. d \in Rows(comment) /\ comment[d].parent = None /\ comment[d].on = comment[c].on /\ comment[d].title = comment[c].title
    BY <2>2, <2>3 DEF RepliesHold
  <2>5. d \in Rows(comment') /\ comment'[d] = comment[d]
    BY <1>2, <1>3, <2>3, <2>4
  <2> QED
    BY <2>2, <2>3, <2>4, <2>5
<1> QED
  BY <1>1, <1>4, <1>5

LEMMA DeleteBookKeeps ==
  ASSUME CatalogueInv, NEW p \in Procs, DeleteBook(p)
  PROVE  Steps(p)
<1>1. PICK t0 : t0 = task[p]
  OBVIOUS
<1>2. task[p] # None /\ t0.op = "book" /\ t0.at = "delete"
  BY <1>1 DEF DeleteBook, At
<1>3. DOMAIN t0 = Fields /\ Credits(t0)
  BY <1>1, <1>2, UnderWay DEF Held
<1>4. PICK b : b = t0.id
  OBVIOUS
<1>5. CASE book[b] = None
  <2>1. End(p) /\ Reads
    BY <1>1, <1>4, <1>5 DEF DeleteBook, Reads, people
  <2> QED
    BY <2>1, EndKeeps
<1>6. CASE book[b] # None
  <2>1. PICK S : S = {c \in Rows(comment) : comment[c].on = "book" /\ comment[c].title = b}
    OBVIOUS
  <2>2. /\ book' = [book EXCEPT ![b] = None]
        /\ comment' = [c \in DOMAIN comment |-> IF comment[c] # None /\ comment[c].on = "book" /\ comment[c].title = b
                                                THEN None ELSE comment[c]]
        /\ UNCHANGED <<titles, subtitle, named, store, cache, requests>>
    BY <1>1, <1>4, <1>6 DEF DeleteBook, Goes
  <2>3. /\ Tables /\ book \in Seq(Book \cup {None}) /\ comment \in Seq(Comment \cup {None}) /\ RepliesHold(comment)
    BY DEF CatalogueInv, Tables, Typed, Related
  <2>4. comment' = [c \in DOMAIN comment |-> IF comment[c] = None \/ c \in S THEN None ELSE comment[c]]
    BY <2>1, <2>2 DEF Rows
  <2>5. \A c \in Rows(comment) : comment[c].parent \in S /\ comment[c].parent # None => c \in S
    BY <2>1, <2>3 DEF RepliesHold
  <2>6. comment' \in Seq(Comment \cup {None}) /\ CommentsLast /\ RepliesHold(comment')
    BY ONLY <2>3, <2>4, <2>5, CommentsGone
  <2>7. book' \in Seq(Book \cup {None}) /\ DOMAIN book' = DOMAIN book
    <3>1. None \in Book \cup {None} /\ book \in Seq(Book \cup {None})
      BY <2>3
    <3>2. /\ [book EXCEPT ![b] = None] \in Seq(Book \cup {None}) /\ DOMAIN [book EXCEPT ![b] = None] = DOMAIN book
      BY ONLY <3>1, RowWritten
    <3> QED
      BY <2>2, <3>2
  <2>8. \A x \in DOMAIN book : book'[x] \in {None, book[x]}
    BY <2>2, <2>3
  <2>9. Tables' /\ World
    BY ONLY <2>2, <2>3, <2>6, <2>7, <2>8, CommentsWritten
  <2>10. PICK t : t = [t0 EXCEPT !.at = "cover"]
    OBVIOUS
  <2>11. /\ DOMAIN t = Fields /\ t.op = "book" /\ t.at = "cover" /\ t.id = t0.id /\ t.arg = t0.arg
    BY <1>2, <1>3, <2>10 DEF Fields
  <2>12. Credits(t)' /\ Credible(t)'
    BY <1>3, <2>7, <2>11 DEF Credits, Credible
  <2>13. Stands(t)'
    BY <2>11, <2>12 DEF Stands, Held, Relied, Publishers
  <2>14. Disturb(p, t) \/ Disturb(p, None)
    BY <1>1, <1>4, <1>6, <2>10 DEF DeleteBook
  <2> QED
    BY <2>9, <2>13, <2>14, WriteKeeps
<1> QED
  BY <1>5, <1>6

LEMMA InsertCommentKeeps ==
  ASSUME CatalogueInv, NEW p \in Procs, InsertComment(p)
  PROVE  Steps(p)
<1>1. PICK t0 : t0 = task[p]
  OBVIOUS
<1>2. task[p] # None /\ t0.op = "comment" /\ t0.at = "insert"
  BY <1>1 DEF InsertComment, At
<1>3. DOMAIN t0 = Fields /\ Says(t0)
  BY <1>1, <1>2, UnderWay DEF Held
<1>4. CASE ~There(t0.word, t0.id) \/ (t0.arg # None /\ comment[t0.arg] = None)
  <2>1. End(p) /\ Reads
    BY <1>1, <1>4 DEF InsertComment, Reads, people
  <2> QED
    BY <2>1, EndKeeps
<1>5. CASE ~(~There(t0.word, t0.id) \/ (t0.arg # None /\ comment[t0.arg] = None))
  <2>1. PICK row : row = [on |-> t0.word, title |-> t0.id, parent |-> t0.arg, visible |-> TRUE, owner |-> t0.text]
    OBVIOUS
  <2>2. PICK d : d = t0.arg
    OBVIOUS
  <2>3. Tables /\ comment \in Seq(Comment \cup {None}) /\ RepliesHold(comment) /\ book \in Seq(Book \cup {None})
    BY DEF CatalogueInv, Tables, Typed, Related
  <2>4. d # None => d \in Rows(comment) /\ comment[d].parent = None /\ comment[d].on = t0.word /\ comment[d].title = t0.id
    BY <1>2, <1>3, <1>5, <2>2 DEF Says, Rows
  <2>5. d \in Nat \cup {None}
    <3>1. DOMAIN comment \subseteq Nat
      BY <2>3, TableIds
    <3> QED
      BY <2>4, <3>1 DEF Rows
  <2>6. row \in Comment /\ row.parent = d /\ row.on = t0.word /\ row.title = t0.id
    BY <1>3, <2>1, <2>2, <2>5 DEF Comment, Says
  <2>7. /\ comment' = Append(comment, row) /\ Disturb(p, None)
        /\ UNCHANGED <<titles, subtitle, named, book, store, cache, requests>>
    BY <1>1, <1>5, <2>1 DEF InsertComment, Goes
  <2>8. PICK n : n = Len(comment) + 1
    OBVIOUS
  <2>9. /\ comment' \in Seq(Comment \cup {None}) /\ DOMAIN comment' = (DOMAIN comment) \cup {n}
        /\ \A x \in DOMAIN comment : comment'[x] = comment[x]
        /\ comment'[n] = row
    <3>1. comment \in Seq(Comment \cup {None}) /\ row \in Comment \cup {None}
      BY <2>3, <2>6
    <3> QED
      BY <2>7, <2>8, <3>1, RowAdded
  <2>10. n \notin DOMAIN comment
    BY <2>3, <2>8, TableIds
  <2>11. CommentsLast
    BY <2>9 DEF CommentsLast, Lasts
  <2>12. RepliesHold(comment')
    <3>1. \A c \in Rows(comment) : c \in Rows(comment') /\ comment'[c] = comment[c]
      BY <2>9 DEF Rows
    <3>2. \A c \in Rows(comment') : c = n \/ c \in Rows(comment)
      BY <2>9 DEF Rows
    <3> QED
      BY <2>3, <2>4, <2>6, <2>9, <3>1, <3>2 DEF RepliesHold
  <2>13. DOMAIN book' = DOMAIN book /\ book' \in Seq(Book \cup {None}) /\ \A x \in DOMAIN book : book'[x] \in {None, book[x]}
    BY <2>3, <2>7
  <2>14. Tables' /\ World
    BY ONLY <2>3, <2>7, <2>9, <2>11, <2>12, <2>13, CommentsWritten
  <2> QED
    BY <2>7, <2>14, WriteKeeps
<1> QED
  BY <1>4, <1>5

LEMMA DeleteCommentKeeps ==
  ASSUME CatalogueInv, NEW p \in Procs, DeleteComment(p)
  PROVE  Steps(p)
<1>1. PICK t0 : t0 = task[p]
  OBVIOUS
<1>2. task[p] # None /\ t0.op = "removeComment"
  BY <1>1 DEF DeleteComment, At
<1>3. t0.id \in DOMAIN comment
  BY <1>1, <1>2, UnderWay DEF Held
<1>4. PICK c : c = t0.id
  OBVIOUS
<1>5. CASE comment[c] = None
  <2>1. End(p) /\ Reads
    BY <1>1, <1>4, <1>5 DEF DeleteComment, Reads, people
  <2> QED
    BY <2>1, EndKeeps
<1>6. CASE comment[c] # None
  <2>1. PICK S : S = {c} \cup {d \in Rows(comment) : comment[d].parent = c}
    OBVIOUS
  <2>2. /\ comment' = [d \in DOMAIN comment |-> IF d = c \/ (comment[d] # None /\ comment[d].parent = c) THEN None ELSE comment[d]]
        /\ Disturb(p, None)
        /\ UNCHANGED <<titles, subtitle, named, book, store, cache, requests>>
    BY <1>1, <1>4, <1>6 DEF DeleteComment, Goes
  <2>3. Tables /\ comment \in Seq(Comment \cup {None}) /\ RepliesHold(comment) /\ book \in Seq(Book \cup {None})
    BY DEF CatalogueInv, Tables, Typed, Related
  <2>4. comment' = [d \in DOMAIN comment |-> IF comment[d] = None \/ d \in S THEN None ELSE comment[d]]
    BY <2>1, <2>2 DEF Rows
  <2>5. \A d \in Rows(comment) : comment[d].parent \in S /\ comment[d].parent # None => d \in S
    <3>1. SUFFICES ASSUME NEW d \in Rows(comment), comment[d].parent \in S, comment[d].parent # None
                   PROVE  d \in S
      OBVIOUS
    <3>2. comment[comment[d].parent].parent = None
      BY <2>3, <3>1 DEF RepliesHold
    <3>3. c # None
      BY <1>3, <1>4, <2>3, TableIds, NoneIsNothing
    <3> QED
      BY <2>1, <3>1, <3>2, <3>3
  <2>6. comment' \in Seq(Comment \cup {None}) /\ CommentsLast /\ RepliesHold(comment')
    BY ONLY <2>3, <2>4, <2>5, CommentsGone
  <2>7. DOMAIN book' = DOMAIN book /\ book' \in Seq(Book \cup {None}) /\ \A x \in DOMAIN book : book'[x] \in {None, book[x]}
    BY <2>2, <2>3
  <2>8. Tables' /\ World
    BY ONLY <2>2, <2>3, <2>6, <2>7, CommentsWritten
  <2> QED
    BY <2>2, <2>8, WriteKeeps
<1> QED
  BY <1>5, <1>6

LEMMA WriteModeratedKeeps ==
  ASSUME CatalogueInv, NEW p \in Procs, WriteModerated(p)
  PROVE  Steps(p)
<1>1. PICK t0 : t0 = task[p]
  OBVIOUS
<1>2. task[p] # None /\ t0.op = "moderate"
  BY <1>1 DEF WriteModerated, At
<1>3. t0.ok \in BOOLEAN
  BY <1>1, <1>2, UnderWay DEF Held
<1>4. PICK c : c = t0.id
  OBVIOUS
<1>5. CASE comment[c] = None
  <2>1. End(p) /\ Reads
    BY <1>1, <1>4, <1>5 DEF WriteModerated, Reads, people
  <2> QED
    BY <2>1, EndKeeps
<1>6. CASE comment[c] # None
  <2>1. PICK row : row = [comment[c] EXCEPT !.visible = t0.ok]
    OBVIOUS
  <2>2. /\ comment' = [comment EXCEPT ![c] = row] /\ Disturb(p, None)
        /\ UNCHANGED <<titles, subtitle, named, book, store, cache, requests>>
    BY <1>1, <1>4, <1>6, <2>1 DEF WriteModerated, Goes
  <2>3. Tables /\ comment \in Seq(Comment \cup {None}) /\ RepliesHold(comment) /\ book \in Seq(Book \cup {None})
    BY DEF CatalogueInv, Tables, Typed, Related
  <2>4. /\ comment' \in Seq(Comment \cup {None}) /\ DOMAIN comment' = DOMAIN comment
        /\ \A d \in DOMAIN comment : IF comment[d] = None THEN comment'[d] = None
                                     ELSE /\ comment'[d] # None /\ comment'[d].parent = comment[d].parent
                                          /\ comment'[d].on = comment[d].on /\ comment'[d].title = comment[d].title
    <3>1. CASE c \in DOMAIN comment
      <4>1. comment[c] \in Comment
        BY <1>6, <2>3, <3>1
      <4>2. row \in Comment /\ row.parent = comment[c].parent /\ row.on = comment[c].on /\ row.title = comment[c].title
        BY <1>3, <2>1, <4>1 DEF Comment
      <4>3. row \in Comment \cup {None} /\ comment \in Seq(Comment \cup {None})
        BY <2>3, <4>2
      <4>4. /\ [comment EXCEPT ![c] = row] \in Seq(Comment \cup {None}) /\ DOMAIN [comment EXCEPT ![c] = row] = DOMAIN comment
        BY ONLY <4>3, RowWritten
      <4>5. row # None
        BY <4>2, NoneIsNothing
      <4> QED
        BY <1>6, <2>2, <3>1, <4>2, <4>4, <4>5
    <3>2. CASE c \notin DOMAIN comment
      <4>1. PICK f : f = comment
        OBVIOUS
      <4>2. f \in Seq(Comment \cup {None}) /\ c \notin DOMAIN f
        BY <2>3, <3>2, <4>1
      <4>3. [f EXCEPT ![c] = row] = f
        BY ONLY <4>2
      <4> QED
        BY <2>2, <2>3, <4>1, <4>3
    <3> QED
      BY <3>1, <3>2
  <2>5. CommentsLast
    BY <2>4 DEF CommentsLast, Lasts
  <2>6. RepliesHold(comment')
    BY <2>3, <2>4 DEF RepliesHold, Rows
  <2>7. DOMAIN book' = DOMAIN book /\ book' \in Seq(Book \cup {None}) /\ \A x \in DOMAIN book : book'[x] \in {None, book[x]}
    BY <2>2, <2>3
  <2>8. Tables' /\ World
    BY ONLY <2>2, <2>3, <2>4, <2>5, <2>6, <2>7, CommentsWritten
  <2> QED
    BY <2>2, <2>8, WriteKeeps
<1> QED
  BY <1>5, <1>6

LEMMA DoShelfKeeps ==
  ASSUME CatalogueInv, NEW p \in Procs, DoShelf(p)
  PROVE  Steps(p)
BY InsertNamedKeeps, RenameKeeps, EraseFaceKeeps, DeleteNamedKeeps, FindAuthorKeeps, CreateAuthorKeeps, WriteBookKeeps,
   DeleteBookKeeps, CountCoversKeeps, EraseCoverKeeps, CheckParentKeeps, InsertCommentKeeps, DeleteCommentKeeps,
   WriteModeratedKeeps, AnswersKeep DEF DoShelf

-----------------------------------------------------------------------------
(* Steps that write: subtitles *)

LEMMA PublishStands ==
  ASSUME NEW t, DOMAIN t = Fields, t.op \in Publishers, Publishes(t)', t.alone => Loads(t)'
  PROVE  Stands(t)'
BY DEF Stands, Held, Relied, Publishers

\* On to the next step, before there is anything to publish, or after.
LEMMA PublishMoves ==
  ASSUME NEW t, NEW s, Publishes(t), World, DOMAIN t = Fields,
         s.op = t.op, s.id = t.id, s.arg = t.arg, s.row = t.row, s.text = t.text, s.list = t.list,
         s.at \notin {"rows", "master", "each"}, s.at \in {"unpublish", "erase"} \/ t.at \notin {"each", "unpublish", "erase"},
         s.op = "removeSubtitle" /\ s.at # "delete" => subtitle'[s.id] = None
  PROVE  Publishes(s)'
<1>1. Publishes(t)'
  <2>1. Kept(t, t)
    BY DEF Kept
  <2> QED
    BY <2>1, PublishesStays
<1>2. t.at \notin {"each", "unpublish", "erase"} => t.list = <<>>
  BY DEF Publishes
<1> QED
  BY <1>1, <1>2 DEF Publishes

LEMMA Publisher ==
  ASSUME CatalogueInv, NEW p \in Procs, task[p] # None, NEW t, t = task[p], t.op \in Publishers
  PROVE  DOMAIN t = Fields /\ Publishes(t) /\ (t.alone => Loads(t)) /\ Tables
BY UnderWay DEF Held, Relied, CatalogueInv

LEMMA UploadSourceKeeps ==
  ASSUME CatalogueInv, NEW p \in Procs, UploadSource(p)
  PROVE  Steps(p)
<1>1. PICK t0 : t0 = task[p]
  OBVIOUS
<1>2. /\ task[p] # None /\ t0.op = "subtitle" /\ t0.at = "upload" /\ t0.op \in Publishers
      /\ UNCHANGED <<titles, subtitle, people, picture, master, rendition, cache, requests>> /\ Goes
  BY <1>1 DEF UploadSource, At, Goes, Publishers
<1>3. DOMAIN t0 = Fields /\ Publishes(t0) /\ Tables
  BY <1>1, <1>2, Publisher
<1>4. CASE source' = source /\ End(p)
  <2>1. Reads
    BY <1>2, <1>4 DEF Reads, store
  <2> QED
    BY <1>4, <2>1, EndKeeps
<1>5. PICK t : t = [t0 EXCEPT !.at = IF t0.text.default THEN "clear" ELSE "insert"]
  OBVIOUS
<1>6. CASE source' = source \cup {<<t0.arg, t0.text.key>>} /\ Disturb(p, t)
  <2>1. t0.arg \in Nat /\ t0.text.key \in Nat
    <3>1. movie \in Seq(Movie \cup {None}) /\ t0.arg \in DOMAIN movie /\ t0.text \in Subtitle
      BY <1>2, <1>3 DEF Publishes, Tables, Typed
    <3> QED
      BY <3>1, TableIds DEF Subtitle
  <2>2. source' \subseteq Nat \X Nat
    BY <1>3, <1>6, <2>1 DEF Tables, Typed
  <2>3. Tables' /\ World
    BY <1>2, <1>3, <2>2, SourcesSwept
  <2>4. /\ DOMAIN t = Fields /\ t.op = t0.op /\ t.at \in {"clear", "insert"} /\ t.id = t0.id /\ t.arg = t0.arg /\ t.row = t0.row
        /\ t.text = t0.text /\ t.list = t0.list /\ (t.at = "insert" => ~t0.text.default)
    BY <1>3, <1>5 DEF Fields
  <2>5. Publishes(t)'
    BY <1>2, <1>3, <2>3, <2>4, PublishMoves
  <2>6. Loads(t)'
    BY <1>2, <2>4 DEF Loads
  <2>7. Stands(t)'
    BY <1>2, <2>4, <2>5, <2>6, PublishStands
  <2> QED
    BY <1>6, <2>3, <2>7, WriteKeeps
<1> QED
  BY <1>1, <1>4, <1>5, <1>6 DEF UploadSource

\* Tracks change what they are called and which is the default, and stay of their video.
LEMMA TracksWritten ==
  ASSUME Tables, UNCHANGED <<titles, people, store, cache, requests>>, subtitle' \in Seq(Subtitle \cup {None}),
         DOMAIN subtitle' = DOMAIN subtitle,
         \A s \in DOMAIN subtitle : subtitle'[s] # None => subtitle[s] # None /\ subtitle'[s].video = subtitle[s].video
  PROVE  Tables' /\ World
<1>1. SubtitlesLast
  BY DEF SubtitlesLast, Lasts
<1>2. TracksHold(subtitle', video)
  BY DEF TracksHold, Tables, Related, Rows
<1> QED
  BY <1>1, <1>2, SubtitlesWritten

\* The default of some tracks is set to what it is said to be.
LEMMA DefaultsWritten ==
  ASSUME Tables, NEW S \in SUBSET Rows(subtitle), NEW mark \in [S -> BOOLEAN],
         subtitle' = [s \in DOMAIN subtitle |-> IF s \in S THEN [subtitle[s] EXCEPT !.default = mark[s]] ELSE subtitle[s]],
         UNCHANGED <<titles, people, store, cache, requests>>
  PROVE  /\ Tables' /\ World /\ DOMAIN subtitle' = DOMAIN subtitle
         /\ \A s \in DOMAIN subtitle : subtitle'[s] = None <=> subtitle[s] = None
         /\ \A s \in S : subtitle'[s].default = mark[s]
<1>1. subtitle \in Seq(Subtitle \cup {None}) /\ \A s \in S : s \in DOMAIN subtitle /\ subtitle[s] # None /\ subtitle[s] \in Subtitle
  BY DEF Tables, Typed, Rows
<1>2. ASSUME NEW s \in S
      PROVE  /\ subtitle'[s] \in Subtitle /\ subtitle'[s].video = subtitle[s].video /\ subtitle'[s].default = mark[s]
  <2>1. subtitle'[s] = [subtitle[s] EXCEPT !.default = mark[s]] /\ subtitle[s] \in Subtitle /\ mark[s] \in BOOLEAN
    BY <1>1
  <2> QED
    BY <2>1 DEF Subtitle
<1>3. \A s \in DOMAIN subtitle : s \notin S => subtitle'[s] = subtitle[s]
  OBVIOUS
<1>4. subtitle' \in Seq(Subtitle \cup {None}) /\ DOMAIN subtitle' = DOMAIN subtitle
  <2>1. PICK f : f = subtitle'
    OBVIOUS
  <2>2. f \in [DOMAIN subtitle -> Subtitle \cup {None}]
    <3>1. ASSUME NEW s \in DOMAIN subtitle
          PROVE  f[s] \in Subtitle \cup {None}
      <4>1. CASE s \in S
        BY ONLY <1>2, <2>1, <4>1
      <4>2. CASE s \notin S
        BY ONLY <1>1, <1>3, <2>1, <4>2, s \in DOMAIN subtitle
      <4> QED
        BY <4>1, <4>2
    <3>2. f = [s \in DOMAIN subtitle |-> IF s \in S THEN [subtitle[s] EXCEPT !.default = mark[s]] ELSE subtitle[s]]
      BY <2>1
    <3> QED
      BY ONLY <3>1, <3>2
  <2>3. subtitle \in Seq(Subtitle \cup {None})
    BY <1>1
  <2>4. f \in Seq(Subtitle \cup {None}) /\ DOMAIN f = DOMAIN subtitle
    BY ONLY <2>2, <2>3, TableWritten
  <2> QED
    BY <2>1, <2>4
<1>5. \A s \in DOMAIN subtitle : subtitle'[s] = None <=> subtitle[s] = None
  BY <1>1, <1>2, <1>3, NoneIsNothing
<1>6. \A s \in DOMAIN subtitle : subtitle'[s] # None => subtitle[s] # None /\ subtitle'[s].video = subtitle[s].video
  BY <1>2, <1>3, <1>5
<1>7. Tables' /\ World
  BY <1>4, <1>6, TracksWritten
<1> QED
  BY <1>2, <1>4, <1>5, <1>7

LEMMA ClearDefaultKeeps ==
  ASSUME CatalogueInv, NEW p \in Procs, ClearDefault(p)
  PROVE  Steps(p)
<1>1. PICK t0 : t0 = task[p]
  OBVIOUS
<1>2. /\ task[p] # None /\ t0.op \in {"subtitle", "updateSubtitle"} /\ t0.at = "clear" /\ t0.op \in Publishers
      /\ UNCHANGED <<titles, people, store, cache, requests>>
  BY <1>1 DEF ClearDefault, At, Writes, Goes, Publishers
<1>3. DOMAIN t0 = Fields /\ Publishes(t0) /\ Tables
  BY <1>1, <1>2, Publisher
<1>4. PICK S : S = Subtitles(t0.row) \ {t0.id}
  OBVIOUS
<1>5. PICK mark \in [S -> BOOLEAN] : mark = [s \in S |-> FALSE]
  OBVIOUS
<1>6. /\ S \in SUBSET Rows(subtitle)
      /\ subtitle' = [s \in DOMAIN subtitle |-> IF s \in S THEN [subtitle[s] EXCEPT !.default = mark[s]] ELSE subtitle[s]]
  BY <1>1, <1>4, <1>5 DEF ClearDefault, Subtitles
<1>7. /\ Tables' /\ World /\ DOMAIN subtitle' = DOMAIN subtitle
      /\ \A s \in DOMAIN subtitle : subtitle'[s] = None <=> subtitle[s] = None
      /\ \A s \in S : subtitle'[s].default = mark[s]
  BY ONLY <1>2, <1>3, <1>6, mark \in [S -> BOOLEAN], DefaultsWritten
<1>8. PICK t : t = [t0 EXCEPT !.at = IF t0.op = "subtitle" THEN "insert" ELSE "write"]
  OBVIOUS
<1>9. /\ DOMAIN t = Fields /\ t.op = t0.op /\ t.at = (IF t0.op = "subtitle" THEN "insert" ELSE "write") /\ t.id = t0.id
      /\ t.arg = t0.arg /\ t.row = t0.row /\ t.text = t0.text /\ t.list = t0.list
  BY <1>3, <1>8 DEF Fields
<1>10. Publishes(t)'
  BY <1>2, <1>3, <1>7, <1>9, PublishMoves
<1>11. \A s \in S : ~subtitle'[s].default
  BY <1>5, <1>7
<1>12. Subtitles(t0.row)' \subseteq Subtitles(t0.row)
  BY <1>7 DEF Subtitles, Rows, World, SubtitlesLast
<1>13. t0.op = "subtitle" => \A s \in Subtitles(t0.row)' : ~subtitle'[s].default
  <2>1. SUFFICES ASSUME t0.op = "subtitle", NEW s \in Subtitles(t0.row)'
                 PROVE  ~subtitle'[s].default
    OBVIOUS
  <2>2. CASE s # t0.id
    BY <1>4, <1>11, <1>12, <2>1, <2>2
  <2>3. CASE s = t0.id
    <3>1. s \in DOMAIN subtitle
      BY <1>12, <2>1 DEF Subtitles, Rows
    <3>2. subtitle \in Seq(Subtitle \cup {None}) /\ s = None
      BY <1>3, <2>1, <2>3 DEF Publishes, Tables, Typed
    <3> QED
      BY <3>1, <3>2, TableIds, NoneIsNothing
  <2> QED
    BY <2>2, <2>3
<1>14. Loads(t)'
  BY <1>4, <1>9, <1>11, <1>12, <1>13 DEF Loads
<1>15. Stands(t)'
  BY <1>2, <1>9, <1>10, <1>14, PublishStands
<1>16. Disturb(p, t)
  BY <1>1, <1>8 DEF ClearDefault
<1> QED
  BY <1>7, <1>15, <1>16, WriteKeeps

LEMMA InsertSubtitleKeeps ==
  ASSUME CatalogueInv, NEW p \in Procs, InsertSubtitle(p)
  PROVE  Steps(p)
<1>1. PICK t0 : t0 = task[p]
  OBVIOUS
<1>2. /\ task[p] # None /\ t0.op = "subtitle" /\ t0.at = "insert" /\ t0.op \in Publishers
      /\ UNCHANGED <<titles, people, store, cache, requests>> /\ Goes
  BY <1>1 DEF InsertSubtitle, At, Writes, Goes, Publishers
<1>3. DOMAIN t0 = Fields /\ Publishes(t0) /\ Tables
  BY <1>1, <1>2, Publisher
<1>4. CASE video[t0.row] = None
  <2>1. End(p) /\ Reads
    BY <1>1, <1>2, <1>4 DEF InsertSubtitle, Reads
  <2> QED
    BY <2>1, EndKeeps
<1>5. CASE video[t0.row] # None
  <2>1. PICK row : row = t0.text
    OBVIOUS
  <2>2. PICK t : t = [t0 EXCEPT !.at = "publish"]
    OBVIOUS
  <2>3. subtitle' = Append(subtitle, row) /\ Disturb(p, t)
    BY <1>1, <1>5, <2>1, <2>2 DEF InsertSubtitle
  <2>4. row \in Subtitle /\ row.video = t0.row /\ t0.row \in Rows(video)
    BY <1>2, <1>3, <1>5, <2>1 DEF Publishes, Rows
  <2>5. PICK n : n = Len(subtitle) + 1
    OBVIOUS
  <2>6. /\ subtitle' \in Seq(Subtitle \cup {None}) /\ DOMAIN subtitle' = (DOMAIN subtitle) \cup {n}
        /\ \A x \in DOMAIN subtitle : subtitle'[x] = subtitle[x]
        /\ subtitle'[n] = row
    <3>1. subtitle \in Seq(Subtitle \cup {None}) /\ row \in Subtitle \cup {None}
      BY <1>3, <2>4 DEF Tables, Typed
    <3> QED
      BY <2>3, <2>5, <3>1, RowAdded
  <2>7. SubtitlesLast
    BY <2>6 DEF SubtitlesLast, Lasts
  <2>8. TracksHold(subtitle', video)
    BY <1>3, <2>4, <2>6 DEF TracksHold, Tables, Related, Rows
  <2>9. Tables' /\ World
    BY <1>2, <1>3, <2>6, <2>7, <2>8, SubtitlesWritten
  <2>10. /\ DOMAIN t = Fields /\ t.op = t0.op /\ t.at = "publish" /\ t.id = t0.id /\ t.arg = t0.arg /\ t.row = t0.row
         /\ t.text = t0.text /\ t.list = t0.list
    BY <1>3, <2>2 DEF Fields
  <2>11. Publishes(t)'
    BY <1>2, <1>3, <2>9, <2>10, PublishMoves
  <2>12. Loads(t)'
    BY <1>2, <2>10 DEF Loads
  <2>13. Stands(t)'
    BY <1>2, <2>10, <2>11, <2>12, PublishStands
  <2> QED
    BY <2>3, <2>9, <2>13, WriteKeeps
<1> QED
  BY <1>4, <1>5

\* Two fields of a row are written one after the other.
Relabelled(table, i, label, default) == [table EXCEPT ![i].label = label, ![i].default = default]
LEMMA LabelWritten ==
  ASSUME NEW table \in Seq(Subtitle \cup {None}), NEW i \in DOMAIN table, table[i] \in Subtitle, NEW label \in Name,
         NEW default \in BOOLEAN, NEW f, f = Relabelled(table, i, label, default)
  PROVE  /\ f \in Seq(Subtitle \cup {None}) /\ DOMAIN f = DOMAIN table
         /\ f[i] # None /\ f[i].video = table[i].video /\ \A j \in DOMAIN table : j # i => f[j] = table[j]
<1>1. PICK r1 : r1 = [table[i] EXCEPT !.label = label]
  OBVIOUS
<1>2. PICK r2 : r2 = [r1 EXCEPT !.default = default]
  OBVIOUS
<1>3. r1 \in Subtitle /\ r1.video = table[i].video
  BY <1>1 DEF Subtitle
<1>4. r2 \in Subtitle /\ r2.video = table[i].video
  BY <1>2, <1>3 DEF Subtitle
<1>5. PICK f1 : f1 = [table EXCEPT ![i].label = label]
  OBVIOUS
<1>6. DOMAIN f1 = DOMAIN table /\ f1[i] = r1 /\ \A j \in DOMAIN table : j # i => f1[j] = table[j]
  BY <1>1, <1>5
<1>7. f = [f1 EXCEPT ![i].default = default]
  BY <1>5 DEF Relabelled
<1>8. DOMAIN f = DOMAIN table /\ f[i] = r2 /\ \A j \in DOMAIN table : j # i => f[j] = table[j]
  BY <1>2, <1>6, <1>7
<1>9. f \in [DOMAIN table -> Subtitle \cup {None}]
  <2>1. \A j \in DOMAIN table : f[j] \in Subtitle \cup {None}
    BY <1>4, <1>8
  <2>2. f1 \in [DOMAIN table -> Subtitle \cup {None}]
    BY <1>3, <1>5, <1>6
  <2> QED
    BY <1>7, <1>8, <2>1, <2>2
<1>10. f \in Seq(Subtitle \cup {None})
  BY ONLY <1>9, table \in Seq(Subtitle \cup {None}), TableWritten
<1> QED
  BY <1>4, <1>8, <1>10, NoneIsNothing

LEMMA WriteSubtitleKeeps ==
  ASSUME CatalogueInv, NEW p \in Procs, WriteSubtitle(p)
  PROVE  Steps(p)
<1>1. PICK t0 : t0 = task[p]
  OBVIOUS
<1>2. /\ task[p] # None /\ t0.op = "updateSubtitle" /\ t0.at = "write" /\ t0.op \in Publishers
      /\ UNCHANGED <<titles, people, store, cache, requests>> /\ Goes
  BY <1>1 DEF WriteSubtitle, At, Writes, Goes, Publishers
<1>3. DOMAIN t0 = Fields /\ Publishes(t0) /\ Tables
  BY <1>1, <1>2, Publisher
<1>4. CASE subtitle[t0.id] = None
  <2>1. End(p) /\ Reads
    BY <1>1, <1>2, <1>4 DEF WriteSubtitle, Reads
  <2> QED
    BY <2>1, EndKeeps
<1>5. CASE subtitle[t0.id] # None
  <2>1. PICK i : i = t0.id
    OBVIOUS
  <2>2. PICK label : label = t0.text.label
    OBVIOUS
  <2>3. PICK default : default = t0.text.default
    OBVIOUS
  <2>4. PICK t : t = [t0 EXCEPT !.at = "publish"]
    OBVIOUS
  <2>5. subtitle' = Relabelled(subtitle, i, label, default) /\ Disturb(p, t)
    BY <1>1, <1>5, <2>1, <2>2, <2>3, <2>4 DEF WriteSubtitle, Relabelled
  <2>6. /\ i \in DOMAIN subtitle /\ subtitle[i] # None /\ label \in Name /\ default \in BOOLEAN
        /\ subtitle \in Seq(Subtitle \cup {None})
    BY <1>2, <1>3, <1>5, <2>1, <2>2, <2>3 DEF Publishes, OfVideo, Tables, Typed
  <2>7. /\ subtitle' \in Seq(Subtitle \cup {None}) /\ DOMAIN subtitle' = DOMAIN subtitle
        /\ subtitle'[i].video = subtitle[i].video /\ \A j \in DOMAIN subtitle : j # i => subtitle'[j] = subtitle[j]
    <3>1. PICK table \in Seq(Subtitle \cup {None}) : table = subtitle
      BY <2>6
    <3>2. PICK f : f = subtitle'
      OBVIOUS
    <3>3. i \in DOMAIN table /\ table[i] \in Subtitle /\ f = Relabelled(table, i, label, default)
      BY <2>5, <2>6, <3>1, <3>2
    <3>4. label \in Name
      BY <2>6
    <3>5. default \in BOOLEAN
      BY <2>6
    <3>6. /\ f \in Seq(Subtitle \cup {None}) /\ DOMAIN f = DOMAIN table
          /\ f[i] # None /\ f[i].video = table[i].video /\ \A j \in DOMAIN table : j # i => f[j] = table[j]
      BY ONLY <3>3, <3>4, <3>5, table \in Seq(Subtitle \cup {None}), LabelWritten
    <3> QED
      BY <3>1, <3>2, <3>6
  <2>8. \A s \in DOMAIN subtitle : subtitle'[s] # None => subtitle[s] # None /\ subtitle'[s].video = subtitle[s].video
    BY <2>6, <2>7
  <2>9. Tables' /\ World
    BY <1>2, <1>3, <2>7, <2>8, TracksWritten
  <2>10. /\ DOMAIN t = Fields /\ t.op = t0.op /\ t.at = "publish" /\ t.id = t0.id /\ t.arg = t0.arg /\ t.row = t0.row
         /\ t.text = t0.text /\ t.list = t0.list
    BY <1>3, <2>4 DEF Fields
  <2>11. Publishes(t)'
    BY <1>2, <1>3, <2>9, <2>10, PublishMoves
  <2>12. Loads(t)'
    BY <1>2, <2>10 DEF Loads
  <2>13. Stands(t)'
    BY <1>2, <2>10, <2>11, <2>12, PublishStands
  <2> QED
    BY <2>5, <2>9, <2>13, WriteKeeps
<1> QED
  BY <1>4, <1>5

LEMMA SetDefaultKeeps ==
  ASSUME CatalogueInv, NEW p \in Procs, SetDefault(p)
  PROVE  Steps(p)
<1>1. PICK t0 : t0 = task[p]
  OBVIOUS
<1>2. /\ task[p] # None /\ t0.op = "setDefault" /\ t0.at = "write" /\ t0.op \in Publishers
      /\ UNCHANGED <<titles, people, store, cache, requests>> /\ Goes
  BY <1>1 DEF SetDefault, At, Writes, Goes, Publishers
<1>3. DOMAIN t0 = Fields /\ Publishes(t0) /\ Tables
  BY <1>1, <1>2, Publisher
<1>4. CASE subtitle[t0.id] = None
  <2>1. End(p) /\ Reads
    BY <1>1, <1>2, <1>4 DEF SetDefault, Reads
  <2> QED
    BY <2>1, EndKeeps
<1>5. CASE subtitle[t0.id] # None
  <2>1. PICK S : S = Subtitles(t0.row)
    OBVIOUS
  <2>2. PICK mark \in [S -> BOOLEAN] : mark = [s \in S |-> s = t0.id]
    OBVIOUS
  <2>3. PICK t : t = [t0 EXCEPT !.at = "publish"]
    OBVIOUS
  <2>4. subtitle' = [s \in DOMAIN subtitle |-> IF s \in Subtitles(t0.row) THEN [subtitle[s] EXCEPT !.default = s = t0.id] ELSE subtitle[s]]
    BY <1>1, <1>5 DEF SetDefault
  <2>5. /\ S \in SUBSET Rows(subtitle) /\ Disturb(p, t)
        /\ subtitle' = [s \in DOMAIN subtitle |-> IF s \in S THEN [subtitle[s] EXCEPT !.default = mark[s]] ELSE subtitle[s]]
    BY <1>1, <1>5, <2>1, <2>2, <2>3, <2>4 DEF SetDefault, Subtitles
  <2>6. /\ Tables' /\ World /\ DOMAIN subtitle' = DOMAIN subtitle
        /\ \A s \in DOMAIN subtitle : subtitle'[s] = None <=> subtitle[s] = None
        /\ \A s \in S : subtitle'[s].default = mark[s]
    BY ONLY <1>2, <1>3, <2>5, mark \in [S -> BOOLEAN], DefaultsWritten
  <2>7. /\ DOMAIN t = Fields /\ t.op = t0.op /\ t.at = "publish" /\ t.id = t0.id /\ t.arg = t0.arg /\ t.row = t0.row
        /\ t.text = t0.text /\ t.list = t0.list
    BY <1>3, <2>3 DEF Fields
  <2>8. Publishes(t)'
    BY <1>2, <1>3, <2>6, <2>7, PublishMoves
  <2>9. Loads(t)'
    BY <1>2, <2>7 DEF Loads
  <2>10. Stands(t)'
    BY <1>2, <2>7, <2>8, <2>9, PublishStands
  <2> QED
    BY <2>5, <2>6, <2>10, WriteKeeps
<1> QED
  BY <1>4, <1>5

\* A master names no track of a video that is not READY.
LEMMA NamesNone ==
  ASSUME Tables, NEW s \in Rows(subtitle), ~video[subtitle[s].video].ready, NEW m \in DOMAIN movie, master[m] # None
  PROVE  \A i \in DOMAIN master[m].media : master[m].media[i].id # s
<1>1. m \in Rows(master)
  <2>1. movie \in Seq(Movie \cup {None}) /\ master \in Seq(Master \cup {None}) /\ Len(master) = Len(movie)
    BY DEF Tables, Typed
  <2> QED
    BY <2>1, TableIds DEF Rows
<1>2. Advertises(master[m], video, subtitle)
  BY <1>1 DEF Tables, Posted
<1> QED
  BY <1>2 DEF Advertises

LEMMA DeleteSubtitleKeeps ==
  ASSUME CatalogueInv, NEW p \in Procs, DeleteSubtitle(p)
  PROVE  Steps(p)
<1>1. PICK t0 : t0 = task[p]
  OBVIOUS
<1>2. /\ task[p] # None /\ t0.op = "removeSubtitle" /\ t0.at = "delete" /\ t0.op \in Publishers
      /\ UNCHANGED <<titles, people, store, cache, requests>> /\ Goes
  BY <1>1 DEF DeleteSubtitle, At, Writes, Goes, Publishers
<1>3. DOMAIN t0 = Fields /\ Publishes(t0) /\ Tables
  BY <1>1, <1>2, Publisher
<1>4. CASE subtitle[t0.id] = None
  <2>1. End(p) /\ Reads
    BY <1>1, <1>2, <1>4 DEF DeleteSubtitle, Reads
  <2> QED
    BY <2>1, EndKeeps
<1>5. CASE subtitle[t0.id] # None
  <2>1. PICK t : t = [t0 EXCEPT !.at = "publish"]
    OBVIOUS
  <2>2. subtitle' = [subtitle EXCEPT ![t0.id] = None] /\ Disturb(p, t)
    BY <1>1, <1>5, <2>1 DEF DeleteSubtitle
  <2>3. /\ t0.id \in Rows(subtitle) /\ subtitle[t0.id].video = t0.row /\ subtitle \in Seq(Subtitle \cup {None})
        /\ None \in Subtitle \cup {None}
    BY <1>2, <1>3, <1>5 DEF Publishes, OfVideo, Tables, Typed, Rows
  <2>4. subtitle' \in Seq(Subtitle \cup {None}) /\ DOMAIN subtitle' = DOMAIN subtitle
    BY <2>2, <2>3, RowWritten
  <2>5. /\ subtitle'[t0.id] = None
        /\ \A s \in DOMAIN subtitle : subtitle'[s] # None => subtitle[s] # None /\ subtitle'[s].video = subtitle[s].video
    BY <2>2, <2>3 DEF Rows
  <2>6. Tables' /\ World
    BY <1>2, <1>3, <2>4, <2>5, TracksWritten
  <2>7. /\ DOMAIN t = Fields /\ t.op = t0.op /\ t.at = "publish" /\ t.id = t0.id /\ t.arg = t0.arg /\ t.row = t0.row
        /\ t.text = t0.text /\ t.list = t0.list
    BY <1>3, <2>1 DEF Fields
  <2>8. Publishes(t)'
    BY <1>2, <1>3, <2>5, <2>6, <2>7, PublishMoves
  <2>9. /\ movie' = movie /\ master' = master /\ video' = video
    BY <1>2 DEF titles, store
  <2>10. t0.row \in Rows(video) /\ t0.arg \in DOMAIN movie
    BY <1>3, <2>3 DEF Tables, Related, TracksHold, Publishes
  <2>11. ~video[t0.row].ready => Unnamed(t)'
    BY <1>3, <2>3, <2>7, <2>9, <2>10, NamesNone DEF Unnamed
  <2>12. Loads(t)'
    BY <1>2, <2>7, <2>9, <2>10, <2>11 DEF Loads, Rows
  <2>13. Stands(t)'
    BY <1>2, <2>7, <2>8, <2>12, PublishStands
  <2> QED
    BY <2>2, <2>6, <2>13, WriteKeeps
<1> QED
  BY <1>4, <1>5

LEMMA UnpublishKeeps ==
  ASSUME CatalogueInv, NEW p \in Procs, Unpublish(p)
  PROVE  Steps(p)
<1>1. PICK t0 : t0 = task[p]
  OBVIOUS
<1>2. /\ task[p] # None /\ t0.op = "removeSubtitle" /\ t0.at = "unpublish" /\ t0.op \in Publishers
      /\ UNCHANGED <<titles, subtitle, people, picture, master, source, cache, requests>> /\ Goes
  BY <1>1 DEF Unpublish, At, Goes, Publishers
<1>3. DOMAIN t0 = Fields /\ Publishes(t0) /\ Tables
  BY <1>1, <1>2, Publisher
<1>4. PICK t : t = [t0 EXCEPT !.at = "erase"]
  OBVIOUS
<1>5. /\ DOMAIN t = Fields /\ t.op = t0.op /\ t.at = "erase" /\ t.id = t0.id /\ t.arg = t0.arg /\ t.row = t0.row
      /\ t.text = t0.text /\ t.list = t0.list
  BY <1>3, <1>4 DEF Fields
<1>6. Tables' /\ World
  BY <1>2, <1>3, SourcesSwept
<1>7. subtitle'[t0.id] = None
  BY <1>2, <1>3 DEF Publishes
<1>8. Publishes(t)'
  BY <1>2, <1>3, <1>5, <1>6, <1>7, PublishMoves
<1>9. Loads(t)'
  BY <1>2, <1>5 DEF Loads
<1>10. Stands(t)'
  BY <1>2, <1>5, <1>8, <1>9, PublishStands
<1>11. CASE Disturb(p, t)
  BY <1>6, <1>10, <1>11, WriteKeeps
<1>12. CASE rendition' = rendition /\ Proceed(p, t)
  <2>1. Reads
    BY <1>2, <1>12 DEF Reads, store
  <2>2. Publishes(t)
    BY <1>2, <1>3, <1>5 DEF Publishes
  <2>3. Loads(t)
    BY <1>2, <1>5 DEF Loads
  <2>4. Stands(t)
    BY <1>2, <1>5, <2>2, <2>3 DEF Stands, Held, Relied, Publishers
  <2> QED
    BY <1>12, <2>1, <2>4, ReadKeeps
<1> QED
  BY <1>1, <1>4, <1>11, <1>12 DEF Unpublish

LEMMA EraseSourceKeeps ==
  ASSUME CatalogueInv, NEW p \in Procs, EraseSource(p)
  PROVE  Steps(p)
<1>1. UNCHANGED <<titles, subtitle, people, picture, master, rendition, cache, requests>> /\ Goes /\ Tables
  BY DEF EraseSource, Goes, CatalogueInv
<1>2. CASE source' = source /\ End(p)
  <2>1. Reads
    BY <1>1, <1>2 DEF Reads, store
  <2> QED
    BY <1>2, <2>1, EndKeeps
<1>3. CASE source' \subseteq source /\ Disturb(p, None)
  <2>1. Tables' /\ World
    BY <1>1, <1>3, SourcesSwept
  <2> QED
    BY <1>3, <2>1, WriteKeeps
<1> QED
  BY <1>2, <1>3 DEF EraseSource

LEMMA TailFacts ==
  ASSUME NEW S, NEW list \in Seq(S), list # <<>>
  PROVE  /\ Head(list) \in S /\ 1 \in DOMAIN list /\ Head(list) = list[1] /\ Tail(list) \in Seq(S)
         /\ \A i \in DOMAIN Tail(list) : i + 1 \in DOMAIN list /\ Tail(list)[i] = list[i + 1]
OBVIOUS

LEMMA WriteRenditionKeeps ==
  ASSUME CatalogueInv, NEW p \in Procs, WriteRendition(p)
  PROVE  Steps(p)
<1>1. PICK t0 : t0 = task[p]
  OBVIOUS
<1>2. /\ task[p] # None /\ t0.op \in Publishers /\ t0.at = "each" /\ t0.rows # <<>>
      /\ UNCHANGED <<titles, subtitle, people, picture, master, source, cache, requests>> /\ Goes
  BY <1>1 DEF WriteRendition, Publishing, Goes, Publishers
<1>3. DOMAIN t0 = Fields /\ Publishes(t0) /\ (t0.alone => Loads(t0)) /\ Tables
  BY <1>1, <1>2, Publisher
<1>4. PICK rows \in Seq([id : Nat, row : Subtitle]) : rows = t0.rows
  BY <1>2, <1>3 DEF Publishes
<1>5. PICK r \in [id : Nat, row : Subtitle] : r = Head(rows)
  BY <1>2, <1>4, TailFacts
<1>6. PICK rest \in Seq([id : Nat, row : Subtitle]) : rest = Tail(rows)
  BY <1>2, <1>4, TailFacts
<1>7. /\ OfVideo(r.id, t0.row) /\ (t0.op = "removeSubtitle" => r.id # t0.id)
      /\ \A i \in DOMAIN rest : OfVideo(rest[i].id, t0.row) /\ (t0.op = "removeSubtitle" => rest[i].id # t0.id)
  <2>1. \A i \in DOMAIN rows : OfVideo(rows[i].id, t0.row) /\ (t0.op = "removeSubtitle" => rows[i].id # t0.id)
    BY <1>2, <1>3, <1>4 DEF Publishes
  <2>2. 1 \in DOMAIN rows /\ r = rows[1] /\ \A i \in DOMAIN rest : i + 1 \in DOMAIN rows /\ rest[i] = rows[i + 1]
    <3>1. rows # <<>> /\ r = Head(rows) /\ rest = Tail(rows)
      BY <1>2, <1>4, <1>5, <1>6
    <3> QED
      BY ONLY <3>1, rows \in Seq([id : Nat, row : Subtitle]), TailFacts
  <2> QED
    BY <2>1, <2>2
<1>8. PICK next : next = [t0 EXCEPT !.rows = rest]
  OBVIOUS
<1>9. /\ DOMAIN next = Fields /\ next.op = t0.op /\ next.at = "each" /\ next.id = t0.id /\ next.arg = t0.arg /\ next.row = t0.row
      /\ next.text = t0.text /\ next.list = t0.list /\ next.first = t0.first /\ next.rows = rest /\ next.alone = t0.alone
  BY <1>2, <1>3, <1>8 DEF Fields
<1>10. Publishes(next)
  BY <1>2, <1>3, <1>7, <1>9 DEF Publishes
<1>11. next.alone => Loads(next)
  BY <1>2, <1>3, <1>9 DEF Loads
<1>12. CASE rendition' = rendition /\ Proceed(p, next)
  <2>1. Reads
    BY <1>2, <1>12 DEF Reads, store
  <2>2. Stands(next)
    BY <1>2, <1>9, <1>10, <1>11 DEF Stands, Held, Relied, Publishers
  <2> QED
    BY <1>12, <2>1, <2>2, ReadKeeps
<1>13. PICK line : line = [id |-> r.id, label |-> r.row.label, language |-> r.row.language, default |-> r.row.default]
  OBVIOUS
<1>14. line \in Rendered /\ line.id = r.id
  BY <1>13 DEF Rendered, Subtitle
<1>15. PICK list \in Seq(Rendered) : list = t0.list
  BY <1>3 DEF Publishes
<1>16. PICK longer \in Seq(Rendered) : longer = Append(list, line)
  <2>1. line \in Rendered
    BY <1>14
  <2>2. Append(list, line) \in Seq(Rendered)
    BY ONLY <2>1, list \in Seq(Rendered), RowAdded
  <2> QED
    BY <2>2
<1>17. \A i \in DOMAIN longer : (i \in DOMAIN list /\ longer[i] = list[i]) \/ longer[i] = line
  <2>1. line \in Rendered
    BY <1>14
  <2>2. /\ DOMAIN Append(list, line) = (DOMAIN list) \cup {Len(list) + 1}
        /\ \A i \in DOMAIN list : Append(list, line)[i] = list[i]
        /\ Append(list, line)[Len(list) + 1] = line
    BY ONLY <2>1, list \in Seq(Rendered), RowAdded
  <2>3. longer = Append(list, line)
    BY <1>16
  <2> QED
    BY ONLY <2>2, <2>3
<1>18. PICK t : t = [next EXCEPT !.list = longer]
  OBVIOUS
<1>19. /\ DOMAIN t = Fields /\ t.op = t0.op /\ t.at = "each" /\ t.id = t0.id /\ t.arg = t0.arg /\ t.row = t0.row
       /\ t.text = t0.text /\ t.list = longer /\ t.first = t0.first /\ t.rows = rest /\ t.alone = t0.alone
  BY <1>9, <1>18 DEF Fields
<1>20. CASE rendition' = rendition \cup {<<t0.arg, r.id>>} /\ Disturb(p, t)
  <2>1. Tables' /\ World
    BY <1>2, <1>3, SourcesSwept
  <2>2. \A i \in DOMAIN longer : OfVideo(longer[i].id, t0.row) /\ (t0.op = "removeSubtitle" => longer[i].id # t0.id)
    <3>1. \A i \in DOMAIN list : OfVideo(list[i].id, t0.row) /\ (t0.op = "removeSubtitle" => list[i].id # t0.id)
      BY <1>3, <1>15 DEF Publishes
    <3> QED
      BY <1>7, <1>14, <1>17, <3>1
  <2>3. Publishes(t)
    BY <1>10, <1>9, <1>19, <2>2 DEF Publishes
  <2>4. Publishes(t)'
    <3>1. Kept(t, t)
      BY <1>19 DEF Kept
    <3> QED
      BY <2>1, <2>3, <3>1, PublishesStays
  <2>5. t.alone => Loads(t)'
    <3>1. SUFFICES ASSUME t.alone PROVE Loads(t)'
      OBVIOUS
    <3>2. t0.first = master[t0.arg] /\ \A i \in DOMAIN list : <<t0.arg, list[i].id>> \in rendition
      BY <1>2, <1>3, <1>15, <1>19, <3>1 DEF Loads
    <3>3. \A i \in DOMAIN longer : <<t0.arg, longer[i].id>> \in rendition'
      BY <1>14, <1>17, <1>20, <3>2
    <3> QED
      BY <1>2, <1>19, <3>2, <3>3 DEF Loads
  <2>6. Stands(t)'
    BY <1>2, <1>19, <2>4, <2>5, PublishStands
  <2> QED
    BY <1>20, <2>1, <2>6, WriteKeeps
<1>21. \/ rendition' = rendition /\ Proceed(p, next)
       \/ rendition' = rendition \cup {<<t0.arg, r.id>>} /\ Disturb(p, t)
  <2>1. \/ rendition' = rendition /\ Proceed(p, [t0 EXCEPT !.rows = Tail(@)])
        \/ /\ rendition' = rendition \cup {<<t0.arg, Head(t0.rows).id>>}
           /\ Disturb(p, [[t0 EXCEPT !.rows = Tail(@)] EXCEPT !.list = Append(@, [id |-> Head(t0.rows).id, label |-> Head(t0.rows).row.label,
                language |-> Head(t0.rows).row.language, default |-> Head(t0.rows).row.default])])
    BY <1>1 DEF WriteRendition
  <2>2. [t0 EXCEPT !.rows = Tail(@)] = next
    BY <1>4, <1>6, <1>8
  <2>3. Head(t0.rows) = r
    BY <1>4, <1>5
  <2>4. [next EXCEPT !.list = Append(@, line)] = t
    <3>1. next.list = list
      BY <1>9, <1>15
    <3>2. [next EXCEPT !.list = Append(@, line)] = [next EXCEPT !.list = Append(next.list, line)]
      OBVIOUS
    <3> QED
      BY <1>16, <1>18, <3>1, <3>2
  <2> QED
    BY <1>13, <2>1, <2>2, <2>3, <2>4
<1> QED
  BY <1>12, <1>20, <1>21

-----------------------------------------------------------------------------
(* What is written in the master *)

LEMMA Least ==
  ASSUME NEW S \in SUBSET Nat, IsFiniteSet(S), S # {}
  PROVE  \E n \in S : \A k \in S : n <= k
<1>1. LinesUp(Rising(S), S)
  BY NumbersLineUp
<1>2. Cardinality(S) \in Nat /\ Cardinality(S) # 0
  BY FS_CardinalityType, FS_EmptySet
<1>3. 1 \in 1 .. Cardinality(S)
  BY <1>2
<1>4. PICK n \in S : Places(Rising(S), S)[n] = 1
  BY ONLY <1>1, <1>3, IsFiniteSet(S), PlaceTaken
<1>5. ASSUME NEW k \in S, k < n
      PROVE  FALSE
  <2>1. <<k, n>> \in Rising(S)
    BY <1>5 DEF Rising
  <2>2. Places(Rising(S), S)[k] < Places(Rising(S), S)[n]
    BY ONLY <1>1, <2>1, IsFiniteSet(S), n \in S, k \in S, PlacesRise
  <2>3. Places(Rising(S), S)[k] \in 1 .. Cardinality(S)
    <3>1. Places(Rising(S), S) \in [S -> 1 .. Cardinality(S)]
      BY ONLY <1>1, IsFiniteSet(S), PlacesType
    <3> HIDE DEF Places
    <3> QED
      BY <3>1
  <2> HIDE DEF Places
  <2> QED
    BY <1>2, <1>4, <2>2, <2>3
<1> QED
  BY <1>5

LEMMA Numbered ==
  ASSUME NEW base \in Name, NEW n \in Nat
  PROVE  Append(base, Number(n)) \in Name /\ \A k \in Nat : Append(base, Number(k)) = Append(base, Number(n)) => k = n
<1>1. Number(n) \in [word : STRING, number : Nat]
  BY WordsAreStrings DEF Number
<1>2. Append(base, Number(n)) \in Name
  BY <1>1 DEF Name
<1>3. \A k \in Nat : Append(base, Number(k))[Len(base) + 1] = Number(k)
  BY DEF Name
<1>4. \A k \in Nat : Number(k).number = k
  BY DEF Number
<1> QED
  BY <1>2, <1>3, <1>4

\* There are more numbers to try than names before.
LEMMA NumberFits ==
  ASSUME NEW i \in Nat \ {0}, NEW f, NEW base \in Name, NEW taken, \A x \in taken : \E j \in 1 .. i - 1 : x = f[j]
  PROVE  \E n \in 2 .. i + 1 : Append(base, Number(n)) \notin taken
<1>1. SUFFICES ASSUME \A n \in 2 .. i + 1 : Append(base, Number(n)) \in taken
               PROVE  FALSE
  OBVIOUS
<1>2. PICK h : h = [n \in 2 .. i + 1 |-> CHOOSE j \in 1 .. i - 1 : f[j] = Append(base, Number(n))]
  OBVIOUS
<1>3. \A n \in 2 .. i + 1 : h[n] \in 1 .. i - 1 /\ f[h[n]] = Append(base, Number(n))
  BY <1>1, <1>2
<1>4. h \in [2 .. i + 1 -> 1 .. i - 1]
  BY <1>2, <1>3
<1>5. /\ IsFiniteSet(2 .. i + 1) /\ Cardinality(2 .. i + 1) = i
      /\ IsFiniteSet(1 .. i - 1) /\ Cardinality(1 .. i - 1) = i - 1
  <2>1. /\ IsFiniteSet(2 .. i + 1) /\ Cardinality(2 .. i + 1) = IF 2 > i + 1 THEN 0 ELSE (i + 1) - 2 + 1
        /\ IsFiniteSet(1 .. i - 1) /\ Cardinality(1 .. i - 1) = IF 1 > i - 1 THEN 0 ELSE (i - 1) - 1 + 1
    BY FS_Interval
  <2> QED
    BY <2>1
<1>6. Cardinality(1 .. i - 1) < Cardinality(2 .. i + 1)
  BY <1>5
<1>7. \E x, y \in 2 .. i + 1 : x # y /\ h[x] = h[y]
  BY ONLY <1>4, <1>5, <1>6, FS_PigeonHole
<1>8. PICK x \in 2 .. i + 1, y \in 2 .. i + 1 : x # y /\ h[x] = h[y]
  BY <1>7
<1>9. Append(base, Number(x)) = Append(base, Number(y))
  BY <1>3, <1>8
<1> QED
  BY <1>8, <1>9, Numbered

LEMMA FreeNameFacts ==
  ASSUME NEW i \in Nat \ {0}, NEW f, NEW base \in Name, NEW taken, \A x \in taken : \E j \in 1 .. i - 1 : x = f[j]
  PROVE  FreeName(base, taken, i + 1) \in Name /\ FreeName(base, taken, i + 1) \notin taken
<1> DEFINE Fits(n) == Append(base, Number(n)) \notin taken
           First(n) == Fits(n) /\ \A k \in 2 .. n - 1 : ~Fits(k)
<1>1. CASE base \notin taken
  BY <1>1 DEF FreeName
<1>2. CASE base \in taken
  <2>1. PICK S : S = {n \in 2 .. i + 1 : Fits(n)}
    OBVIOUS
  <2>2. S \in SUBSET Nat /\ S # {} /\ IsFiniteSet(S)
    <3>1. IsFiniteSet(2 .. i + 1)
      BY FS_Interval
    <3>2. S \in SUBSET (2 .. i + 1)
      BY <2>1
    <3>3. \E n \in 2 .. i + 1 : Fits(n)
      BY ONLY i \in Nat \ {0}, base \in Name, \A x \in taken : \E j \in 1 .. i - 1 : x = f[j], NumberFits
    <3> QED
      BY <2>1, <3>1, <3>2, <3>3, FS_Subset
  <2>3. PICK n \in S : \A k \in S : n <= k
    BY <2>2, Least
  <2>4. n \in 2 .. i + 1 /\ First(n)
    <3> HIDE DEF Fits
    <3> QED
      BY <2>1, <2>3
  <2>5. PICK m : m = CHOOSE z \in 2 .. i + 1 : First(z)
    OBVIOUS
  <2>6. m \in 2 .. i + 1 /\ First(m)
    <3> HIDE DEF First
    <3> QED
      BY <2>4, <2>5, Zenon
  <2>7. FreeName(base, taken, i + 1) = Append(base, Number(m))
    <3>1. FreeName(base, taken, i + 1) = Append(base, Number(CHOOSE z \in 2 .. i + 1 : First(z)))
      BY <1>2, Zenon DEF FreeName
    <3> QED
      BY <2>5, <3>1, Zenon
  <2>8. m \in Nat /\ Append(base, Number(m)) \notin taken
    BY <2>6
  <2>9. Append(base, Number(m)) \in Name
    BY ONLY <2>8, base \in Name, Numbered
  <2> QED
    BY <2>7, <2>8, <2>9
<1> QED
  BY <1>1, <1>2

\* Names given one after the other, up to the m-th.
NamedUpTo(r, f, m) ==
    /\ f \in [1 .. m -> Name]
    /\ \A i \in 1 .. m : f[i] = FreeName(BaseName(r[i]), {f[j] : j \in 1 .. i - 1}, i + 1)

LEMMA BaseNameType ==
  ASSUME NEW r \in Rendered
  PROVE  BaseName(r) \in Name
<1>1. r.id \in Nat /\ r.label \in Name /\ r.language \in Name
  BY DEF Rendered
<1>2. <<Word("id"), Number(r.id)>> \in Name
  BY <1>1, NamesOfWords
<1> QED
  BY <1>1, <1>2 DEF BaseName

LEMMA NamedNext ==
  ASSUME NEW r \in Seq(Rendered), NEW m \in Nat, m + 1 \in DOMAIN r, NEW f, NamedUpTo(r, f, m)
  PROVE  \E g : NamedUpTo(r, g, m + 1)
<1>1. PICK taken : taken = {f[j] : j \in 1 .. m}
  OBVIOUS
<1>2. PICK base : base = BaseName(r[m + 1])
  OBVIOUS
<1>3. PICK new : new = FreeName(base, taken, m + 2)
  OBVIOUS
<1>4. new \in Name
  <2>1. PICK i \in Nat \ {0} : i = m + 1
    OBVIOUS
  <2>2. base \in Name
    <3>1. r[m + 1] \in Rendered
      OBVIOUS
    <3> QED
      BY <1>2, <3>1, BaseNameType
  <2>3. \A x \in taken : \E j \in 1 .. i - 1 : x = f[j]
    BY <1>1, <2>1
  <2>4. FreeName(base, taken, i + 1) \in Name
    BY ONLY <2>2, <2>3, i \in Nat \ {0}, FreeNameFacts
  <2>5. i + 1 = m + 2
    BY <2>1
  <2> QED
    BY <1>3, <2>4, <2>5
<1>5. PICK g : g = [i \in 1 .. m + 1 |-> IF i <= m THEN f[i] ELSE new]
  OBVIOUS
<1>6. g \in [1 .. m + 1 -> Name]
  BY <1>4, <1>5 DEF NamedUpTo
<1>7. \A i \in 1 .. m : g[i] = f[i]
  BY <1>5
<1>8. g[m + 1] = new
  BY <1>5
<1>9. \A i \in 1 .. m + 1 : {g[j] : j \in 1 .. i - 1} = {f[j] : j \in 1 .. i - 1}
  <2>1. ASSUME NEW i \in 1 .. m + 1 PROVE {g[j] : j \in 1 .. i - 1} = {f[j] : j \in 1 .. i - 1}
    <3>1. \A j \in 1 .. i - 1 : g[j] = f[j]
      BY <1>7
    <3> QED
      BY <3>1
  <2> QED
    BY <2>1
<1>10. ASSUME NEW i \in 1 .. m + 1
       PROVE  g[i] = FreeName(BaseName(r[i]), {g[j] : j \in 1 .. i - 1}, i + 1)
  <2>1. {g[j] : j \in 1 .. i - 1} = {f[j] : j \in 1 .. i - 1}
    BY <1>9
  <2>2. CASE i \in 1 .. m
    <3>1. f[i] = FreeName(BaseName(r[i]), {f[j] : j \in 1 .. i - 1}, i + 1)
      BY <2>2 DEF NamedUpTo
    <3> QED
      BY <1>7, <2>1, <2>2, <3>1
  <2>3. CASE i = m + 1
    <3>1. {f[j] : j \in 1 .. i - 1} = taken
      BY <1>1, <2>3
    <3>2. i + 1 = m + 2
      BY <2>3
    <3> QED
      BY <1>2, <1>3, <1>8, <2>1, <2>3, <3>1, <3>2
  <2> QED
    BY <2>2, <2>3
<1> QED
  BY <1>6, <1>10 DEF NamedUpTo

LEMMA NamesExist ==
  ASSUME NEW r \in Seq(Rendered)
  PROVE  \E f : NamedUpTo(r, f, Len(r))
<1> DEFINE Given(m) == \E f : NamedUpTo(r, f, m)
<1>1. Given(0)
  <2>1. PICK f : f = [i \in 1 .. 0 |-> <<>>]
    OBVIOUS
  <2>2. NamedUpTo(r, f, 0)
    BY <2>1 DEF NamedUpTo
  <2> QED
    BY <2>2
<1>2. ASSUME NEW m \in Nat, m + 1 \in DOMAIN r, Given(m)
      PROVE  Given(m + 1)
  <2>1. PICK f : NamedUpTo(r, f, m)
    BY <1>2
  <2> QED
    BY <1>2, <2>1, NamedNext
<1> HIDE DEF Given
<1>3. PICK S : S = {m \in 0 .. Len(r) : ~Given(m)}
  OBVIOUS
<1>4. S = {}
  <2>1. SUFFICES ASSUME S # {} PROVE FALSE
    OBVIOUS
  <2>2. S \in SUBSET Nat /\ IsFiniteSet(S)
    <3>1. Len(r) \in Int /\ 0 \in Int /\ 0 .. Len(r) \subseteq Nat
      OBVIOUS
    <3>2. IsFiniteSet(0 .. Len(r))
      BY ONLY <3>1, FS_Interval
    <3>3. S \in SUBSET (0 .. Len(r))
      BY <1>3
    <3> QED
      BY ONLY <3>1, <3>2, <3>3, FS_Subset
  <2>3. PICK n \in S : \A k \in S : n <= k
    BY ONLY <2>1, <2>2, Least
  <2>4. n \in 1 .. Len(r) /\ ~Given(n)
    BY <1>1, <1>3
  <2>5. Given(n - 1)
    BY <1>3, <2>3, <2>4
  <2>6. n - 1 \in Nat /\ (n - 1) + 1 = n /\ n \in DOMAIN r
    BY <2>4
  <2> QED
    BY <1>2, <2>4, <2>5, <2>6
<1>5. Given(Len(r))
  BY <1>3, <1>4
<1> QED
  BY <1>5 DEF Given

LEMMA UniqueNamesFacts ==
  ASSUME NEW r \in Seq(Rendered), NEW names, names = UniqueNames(r)
  PROVE  names \in [DOMAIN r -> Name] /\ \A i, j \in DOMAIN r : names[i] = names[j] => i = j
<1>1. PICK f : NamedUpTo(r, f, Len(r))
  BY NamesExist
<1>2. DOMAIN r = 1 .. Len(r) /\ Len(r) \in Nat
  OBVIOUS
<1>3. f = [i \in DOMAIN r |-> FreeName(BaseName(r[i]), {f[j] : j \in 1 .. i - 1}, i + 1)]
  BY <1>1, <1>2 DEF NamedUpTo
<1>4. names = CHOOSE g : g = [i \in DOMAIN r |-> FreeName(BaseName(r[i]), {g[j] : j \in 1 .. i - 1}, i + 1)]
  BY Zenon DEF UniqueNames
<1> DEFINE Given(g) == g = [i \in DOMAIN r |-> FreeName(BaseName(r[i]), {g[j] : j \in 1 .. i - 1}, i + 1)]
<1>5. Given(names)
  <2>1. Given(f)
    BY <1>3
  <2>2. names = CHOOSE g : Given(g)
    BY <1>4
  <2> HIDE DEF Given
  <2> QED
    BY <2>1, <2>2, Zenon
<1>6. DOMAIN names = DOMAIN r /\ \A i \in DOMAIN r : names[i] = FreeName(BaseName(r[i]), {names[j] : j \in 1 .. i - 1}, i + 1)
  BY <1>5
<1> HIDE DEF Given
<1>7. ASSUME NEW i \in DOMAIN r
      PROVE  names[i] \in Name /\ \A j \in 1 .. i - 1 : names[j] # names[i]
  <2>1. PICK taken : taken = {names[j] : j \in 1 .. i - 1}
    OBVIOUS
  <2>2. PICK base \in Name : base = BaseName(r[i])
    <3>1. r[i] \in Rendered
      OBVIOUS
    <3> QED
      BY <3>1, BaseNameType
  <2>3. PICK n \in Nat \ {0} : n = i
    BY <1>2
  <2>4. \A x \in taken : \E j \in 1 .. n - 1 : x = names[j]
    BY <2>1, <2>3
  <2>5. FreeName(base, taken, n + 1) \in Name /\ FreeName(base, taken, n + 1) \notin taken
    BY ONLY <2>4, base \in Name, n \in Nat \ {0}, FreeNameFacts
  <2>6. names[i] = FreeName(base, taken, n + 1)
    BY <1>6, <2>1, <2>2, <2>3
  <2>7. names[i] \in Name /\ names[i] \notin taken
    BY <2>5, <2>6
  <2> QED
    BY <2>1, <2>7
<1>8. names \in [DOMAIN r -> Name]
  <2>1. names = [i \in DOMAIN r |-> names[i]]
    BY <1>5 DEF Given
  <2> QED
    BY <1>7, <2>1
<1>9. ASSUME NEW i \in DOMAIN r, NEW j \in DOMAIN r, names[i] = names[j]
      PROVE  i = j
  <2>1. i \in Nat \ {0} /\ j \in Nat \ {0}
    BY <1>2
  <2>2. ~(i < j) /\ ~(j < i)
    <3>1. i < j => i \in 1 .. j - 1
      BY <2>1
    <3>2. j < i => j \in 1 .. i - 1
      BY <2>1
    <3> QED
      BY <1>7, <1>9, <3>1, <3>2
  <2> QED
    BY <2>1, <2>2
<1> QED
  BY <1>8, <1>9

\* What a publish writes: the lines of the tracks that were rendered, each named for itself.
LEMMA Rewritten ==
  ASSUME NEW text, NEW r \in Seq(Rendered), NEW new, new = rewriteMasterPlaylist(text, r)
  PROVE  /\ DOMAIN new.media = DOMAIN r /\ \A i \in DOMAIN r : new.media[i].id = r[i].id
         /\ new # text => /\ new \in Master
                          /\ \A i, j \in DOMAIN r : new.media[i].name = new.media[j].name => i = j
                          /\ \A i, j \in DOMAIN r : new.media[i].default /\ new.media[j].default => i = j
<1>1. PICK names : names = UniqueNames(r)
  OBVIOUS
<1>2. names \in [DOMAIN r -> Name] /\ \A i, j \in DOMAIN r : names[i] = names[j] => i = j
  BY <1>1, UniqueNamesFacts
<1>3. PICK media : media = [i \in DOMAIN r |-> [id |-> r[i].id, name |-> names[i], language |-> r[i].language, default |-> IsDefault(r, i)]]
  OBVIOUS
<1>4. new = IF r = <<>> /\ text.media = <<>> /\ ~text.tagged THEN text ELSE [media |-> media, tagged |-> r # <<>>]
  BY <1>1, <1>3 DEF rewriteMasterPlaylist
<1>5. CASE r = <<>> /\ text.media = <<>> /\ ~text.tagged
  BY <1>4, <1>5
<1>6. CASE ~(r = <<>> /\ text.media = <<>> /\ ~text.tagged)
  <2>1. new = [media |-> media, tagged |-> r # <<>>]
    BY <1>4, <1>6
  <2>2. new.media = media /\ new.tagged = (r # <<>>)
    BY <2>1
  <2>3. DOMAIN r = 1 .. Len(r) /\ Len(r) \in Nat /\ \A i \in DOMAIN r : r[i].id \in Nat /\ r[i].language \in Name /\ r[i].default \in BOOLEAN
    <3>1. \A i \in DOMAIN r : r[i] \in Rendered
      OBVIOUS
    <3> QED
      BY <3>1 DEF Rendered
  <2>4. /\ DOMAIN media = DOMAIN r
        /\ \A i \in DOMAIN r : /\ media[i] = [id |-> r[i].id, name |-> names[i], language |-> r[i].language, default |-> IsDefault(r, i)]
                               /\ media[i].id = r[i].id /\ media[i].name = names[i] /\ media[i].default = IsDefault(r, i)
    BY <1>3
  <2>5. \A i \in DOMAIN r : IsDefault(r, i) \in BOOLEAN
    BY <2>3 DEF IsDefault
  <2>6. \A i \in DOMAIN r : media[i] \in Line
    BY <1>2, <2>3, <2>4, <2>5 DEF Line
  <2>7. media \in Seq(Line)
    <3>1. media \in [1 .. Len(r) -> Line]
      <4>1. media = [i \in DOMAIN r |-> media[i]]
        BY <1>3
      <4> QED
        BY <2>3, <2>6, <4>1
    <3>2. Len(r) \in Nat
      BY <2>3
    <3> QED
      BY ONLY <3>1, <3>2, ListOf
  <2>8. new \in Master
    BY <2>1, <2>7 DEF Master
  <2>9. ASSUME NEW i \in DOMAIN r, NEW j \in DOMAIN r, IsDefault(r, i), IsDefault(r, j)
        PROVE  i = j
    <3>1. i \in Nat \ {0} /\ j \in Nat \ {0}
      BY <2>3
    <3>2. (i < j => i \in 1 .. j - 1) /\ (j < i => j \in 1 .. i - 1)
      BY <3>1
    <3>3. ~(i < j) /\ ~(j < i)
      BY <2>9, <3>2 DEF IsDefault
    <3> QED
      BY <3>1, <3>3
  <2>10. \A i, j \in DOMAIN r : new.media[i].name = new.media[j].name => i = j
    BY <1>2, <2>2, <2>4
  <2>11. \A i, j \in DOMAIN r : new.media[i].default /\ new.media[j].default => i = j
    BY <2>2, <2>4, <2>9
  <2> QED
    BY <2>2, <2>4, <2>8, <2>10, <2>11
<1> QED
  BY <1>5, <1>6

LEMMA RewrittenAdvertises ==
  ASSUME Tables, NEW text, NEW r \in Seq(Rendered), NEW new, new = rewriteMasterPlaylist(text, r), new # text,
         NEW v, \A i \in DOMAIN r : OfVideo(r[i].id, v), video[v] # None => video[v].ready
  PROVE  new \in Master /\ Advertises(new, video, subtitle)
<1>1. /\ DOMAIN new.media = DOMAIN r /\ \A i \in DOMAIN r : new.media[i].id = r[i].id
      /\ new \in Master
      /\ \A i, j \in DOMAIN r : new.media[i].name = new.media[j].name => i = j
      /\ \A i, j \in DOMAIN r : new.media[i].default /\ new.media[j].default => i = j
  BY Rewritten
<1>2. ASSUME NEW i \in DOMAIN r
      PROVE  r[i].id \in DOMAIN subtitle /\ (r[i].id \in Rows(subtitle) => video[subtitle[r[i].id].video].ready)
  <2>1. OfVideo(r[i].id, v)
    OBVIOUS
  <2>2. r[i].id \in Rows(subtitle) => v \in Rows(video) /\ subtitle[r[i].id].video = v
    BY <2>1 DEF Tables, Related, TracksHold, OfVideo, Rows
  <2> QED
    BY <2>1, <2>2 DEF OfVideo, Rows
<1> QED
  BY <1>1, <1>2 DEF Advertises

LEMMA WriteMasterKeeps ==
  ASSUME CatalogueInv, NEW p \in Procs, WriteMaster(p)
  PROVE  Steps(p)
<1>1. PICK t0 : t0 = task[p]
  OBVIOUS
<1>2. /\ task[p] # None /\ t0.op \in Publishers /\ t0.at = "each"
      /\ UNCHANGED <<titles, subtitle, people, picture, rendition, source, cache, requests>> /\ Goes
  BY <1>1 DEF WriteMaster, Publishing, Goes, Publishers
<1>3. DOMAIN t0 = Fields /\ Publishes(t0) /\ (t0.alone => Loads(t0)) /\ Tables
  BY <1>1, <1>2, Publisher
<1>4. PICK list \in Seq(Rendered) : list = t0.list
  BY <1>3 DEF Publishes
<1>5. PICK new : new = rewriteMasterPlaylist(t0.first, list)
  OBVIOUS
<1>6. \/ new = t0.first /\ Proceed(p, AfterPublish(t0, TRUE)) /\ UNCHANGED master
      \/ new # t0.first /\ Proceed(p, AfterPublish(t0, FALSE)) /\ UNCHANGED master
      \/ new # t0.first /\ master' = [master EXCEPT ![t0.arg] = new] /\ Disturb(p, AfterPublish(t0, TRUE))
  BY <1>1, <1>4, <1>5 DEF WriteMaster
<1>7. /\ DOMAIN new.media = DOMAIN list /\ \A i \in DOMAIN list : new.media[i].id = list[i].id
      /\ \A i \in DOMAIN list : OfVideo(list[i].id, t0.row) /\ (t0.op = "removeSubtitle" => list[i].id # t0.id)
  <2>1. DOMAIN new.media = DOMAIN list /\ \A i \in DOMAIN list : new.media[i].id = list[i].id
    <3>1. PICK text : text = t0.first
      OBVIOUS
    <3>2. new = rewriteMasterPlaylist(text, list)
      BY <1>5, <3>1
    <3> QED
      BY ONLY <3>2, list \in Seq(Rendered), Rewritten
  <2> QED
    BY <1>3, <1>4, <2>1 DEF Publishes
<1>8. t0.op = "removeSubtitle" => \A i \in DOMAIN new.media : new.media[i].id # t0.id
  BY <1>7
<1>9. PICK t1 : t1 = [t0 EXCEPT !.at = "unpublish"]
  OBVIOUS
<1>10. PICK t2 : t2 = [t0 EXCEPT !.at = "erase"]
  OBVIOUS
<1>11. /\ AfterPublish(t0, TRUE) = IF t0.op = "removeSubtitle" THEN t1 ELSE None
       /\ AfterPublish(t0, FALSE) = IF t0.op = "removeSubtitle" THEN t2 ELSE None
  BY <1>9, <1>10 DEF AfterPublish
<1>12. /\ DOMAIN t1 = Fields /\ t1.op = t0.op /\ t1.at = "unpublish" /\ t1.id = t0.id /\ t1.arg = t0.arg /\ t1.row = t0.row
       /\ t1.text = t0.text /\ t1.list = t0.list /\ t1.alone = t0.alone
  BY <1>3, <1>9 DEF Fields
<1>13. /\ DOMAIN t2 = Fields /\ t2.op = t0.op /\ t2.at = "erase" /\ t2.id = t0.id /\ t2.arg = t0.arg /\ t2.row = t0.row
       /\ t2.text = t0.text /\ t2.list = t0.list /\ t2.alone = t0.alone
  BY <1>3, <1>10 DEF Fields
<1>14. t0.op = "removeSubtitle" => Publishes(t1) /\ Publishes(t2)
  BY <1>2, <1>3, <1>12, <1>13 DEF Publishes
<1>15. CASE new = t0.first /\ Proceed(p, AfterPublish(t0, TRUE)) /\ UNCHANGED master
  <2>1. Reads
    BY <1>2, <1>15 DEF Reads, store
  <2>2. CASE t0.op = "removeSubtitle"
    <3>1. t1.alone => Loads(t1)
      <4>1. t0.alone => new = master[t0.arg]
        BY <1>2, <1>3, <1>15 DEF Loads
      <4> QED
        BY <1>8, <1>12, <2>2, <4>1 DEF Loads, Unnamed
    <3>2. Stands(t1)
      BY <1>2, <1>12, <1>14, <2>2, <3>1 DEF Stands, Held, Relied, Publishers
    <3>3. Proceed(p, t1)
      BY <1>11, <1>15, <2>2
    <3> QED
      BY <2>1, <3>2, <3>3, ReadKeeps
  <2>3. CASE t0.op # "removeSubtitle"
    BY <1>11, <1>15, <2>1, <2>3, EndKeeps DEF End
  <2> QED
    BY <2>2, <2>3
<1>16. CASE new # t0.first /\ Proceed(p, AfterPublish(t0, FALSE)) /\ UNCHANGED master
  <2>1. Reads
    BY <1>2, <1>16 DEF Reads, store
  <2>2. CASE t0.op = "removeSubtitle"
    <3>1. Loads(t2)
      BY <1>13, <2>2 DEF Loads
    <3>2. Stands(t2)
      BY <1>2, <1>13, <1>14, <2>2, <3>1 DEF Stands, Held, Relied, Publishers
    <3>3. Proceed(p, t2)
      BY <1>11, <1>16, <2>2
    <3> QED
      BY <2>1, <3>2, <3>3, ReadKeeps
  <2>3. CASE t0.op # "removeSubtitle"
    BY <1>11, <1>16, <2>1, <2>3, EndKeeps DEF End
  <2> QED
    BY <2>2, <2>3
<1>17. CASE new # t0.first /\ master' = [master EXCEPT ![t0.arg] = new] /\ Disturb(p, AfterPublish(t0, TRUE))
  <2>1. new \in Master /\ Advertises(new, video, subtitle)
    <3>1. PICK text : text = t0.first
      OBVIOUS
    <3>2. PICK v : v = t0.row
      OBVIOUS
    <3>3. Tables /\ new = rewriteMasterPlaylist(text, list) /\ new # text
      BY <1>3, <1>5, <1>17, <3>1
    <3>4. \A i \in DOMAIN list : OfVideo(list[i].id, v)
      BY <1>7, <3>2
    <3>5. video[v] # None => video[v].ready
      BY <1>2, <1>3, <3>2 DEF Publishes
    <3> QED
      BY ONLY <3>3, <3>4, <3>5, list \in Seq(Rendered), RewrittenAdvertises
  <2>2. PICK table \in Seq(Master \cup {None}) : table = master
    BY <1>3 DEF Tables, Typed
  <2>3. PICK x : x = t0.arg
    OBVIOUS
  <2>4. x \in DOMAIN table
    <3>1. movie \in Seq(Movie \cup {None}) /\ x \in DOMAIN movie /\ Len(table) = Len(movie)
      BY <1>3, <2>2, <2>3 DEF Tables, Typed, Publishes
    <3> QED
      BY <3>1, <2>2, TableIds
  <2>5. new \in Master \cup {None}
    BY <2>1
  <2>6. PICK f : f = [table EXCEPT ![x] = new]
    OBVIOUS
  <2>7. f \in Seq(Master \cup {None}) /\ Len(f) = Len(table) /\ DOMAIN f = DOMAIN table
    <3>1. /\ [table EXCEPT ![x] = new] \in Seq(Master \cup {None}) /\ Len([table EXCEPT ![x] = new]) = Len(table)
          /\ DOMAIN [table EXCEPT ![x] = new] = DOMAIN table
      <4>1. PICK S : S = Master \cup {None}
        OBVIOUS
      <4>2. PICK rows \in Seq(S) : rows = table
        BY <4>1
      <4>3. PICK r \in S : r = new
        BY <2>5, <4>1
      <4>4. /\ [rows EXCEPT ![x] = r] \in Seq(S) /\ Len([rows EXCEPT ![x] = r]) = Len(rows)
            /\ DOMAIN [rows EXCEPT ![x] = r] = DOMAIN rows
        BY ONLY r \in S, rows \in Seq(S), RowWritten
      <4> QED
        BY <4>1, <4>2, <4>3, <4>4
    <3> QED
      BY ONLY <2>6, <3>1
  <2>8. f[x] = new /\ \A m \in DOMAIN table : m # x => f[m] = table[m]
    BY <2>4, <2>6
  <2>9. master' = f
    BY <1>17, <2>2, <2>3, <2>6
  <2>10. \A m \in Rows(f) : Advertises(f[m], video, subtitle)
    <3>1. ASSUME NEW m \in Rows(f) PROVE Advertises(f[m], video, subtitle)
      <4>1. CASE m = x
        BY <2>1, <2>8, <4>1
      <4>2. CASE m # x
        <5>1. m \in Rows(master) /\ f[m] = master[m]
          BY <2>2, <2>7, <2>8, <3>1, <4>2 DEF Rows
        <5> QED
          BY <1>3, <5>1 DEF Tables, Posted
      <4> QED
        BY <4>1, <4>2
    <3> QED
      BY <3>1
  <2>11. /\ master' \in Seq(Master \cup {None}) /\ Len(master') = Len(master)
         /\ \A m \in Rows(master') : Advertises(master'[m], video, subtitle)
    BY <2>2, <2>7, <2>9, <2>10
  <2>12. source' \in SUBSET (Nat \X Nat)
    BY <1>2, <1>3 DEF Tables, Typed
  <2>13. Tables' /\ World
    BY <1>2, <1>3, <2>11, <2>12, StoreWritten
  <2>14. CASE t0.op = "removeSubtitle"
    <3>1. Publishes(t1)'
      <4>1. Kept(t1, t1)
        BY <1>12 DEF Kept
      <4> QED
        BY <1>14, <2>13, <2>14, <4>1, PublishesStays
    <3>2. master'[x] = new
      BY <2>8, <2>9
    <3>3. Loads(t1)'
      BY <1>8, <1>12, <2>3, <2>14, <3>2 DEF Loads, Unnamed
    <3>4. Stands(t1)'
      BY <1>2, <1>12, <3>1, <3>3, PublishStands
    <3>5. Disturb(p, t1)
      BY <1>11, <1>17, <2>14
    <3> QED
      BY <2>13, <3>4, <3>5, WriteKeeps
  <2>15. CASE t0.op # "removeSubtitle"
    <3>1. Disturb(p, None)
      BY <1>11, <1>17, <2>15
    <3> QED
      BY <2>13, <3>1, WriteKeeps
  <2> QED
    BY <2>14, <2>15
<1> QED
  BY <1>6, <1>15, <1>16, <1>17

LEMMA DoSubtitlesKeeps ==
  ASSUME CatalogueInv, NEW p \in Procs, DoSubtitles(p)
  PROVE  Steps(p)
BY UploadSourceKeeps, ClearDefaultKeeps, InsertSubtitleKeeps, WriteSubtitleKeeps, SetDefaultKeeps, DeleteSubtitleKeeps,
   ReadReadyKeeps, ReadRowsKeeps, ReadMasterKeeps, WriteRenditionKeeps, WriteMasterKeeps, UnpublishKeeps, EraseSourceKeeps
   DEF DoSubtitles

-----------------------------------------------------------------------------
(* In every step *)

LEMMA InitKeeps ==
  ASSUME Init
  PROVE  CatalogueInv
<1>1. PICK s \in Start : /\ series = s.series /\ movie = s.movie /\ video = s.video /\ subtitle = s.subtitle
                         /\ named = s.named /\ book = s.book /\ comment = s.comment
                         /\ master = s.master /\ source = s.source /\ requests = s.requests
  BY DEF Init
<1>2. Typed /\ Related(series, movie, video, subtitle, named, book, comment) /\ Posted
  BY <1>1, StartIsSound DEF Typed, Posted
<1>3. Cached
  BY DEF Init, Cached
<1>4. DOMAIN task = Procs /\ \A p \in Procs : task[p] = None
  BY DEF Init
<1> QED
  BY <1>2, <1>3, <1>4 DEF CatalogueInv, Tables

\* What the rows say of each other, and what every request has and relies on, in every step.
THEOREM CatalogueHolds == Spec => []CatalogueInv
<1>1. Init => CatalogueInv
  BY InitKeeps
<1>2. CatalogueInv /\ [Next]_vars => CatalogueInv'
  <2>1. SUFFICES ASSUME CatalogueInv, [Next]_vars PROVE CatalogueInv'
    OBVIOUS
  <2>2. ASSUME NEW p \in Procs, AskTitles(p) \/ AskShelf(p) \/ AskSubtitles(p) \/ DoTitles(p) \/ DoShelf(p) \/ DoSubtitles(p)
        PROVE  CatalogueInv'
    <3>1. Steps(p)
      BY <2>1, <2>2, AskTitlesKeeps, AskShelfKeeps, AskSubtitlesKeeps, DoTitlesKeeps, DoShelfKeeps, DoSubtitlesKeeps
    <3> QED
      BY <2>1, <3>1, StepKeeps
  <2>3. CASE Tick
    BY <2>1, <2>3, TickKeeps
  <2>4. CASE UNCHANGED vars
    <3>1. Quiet /\ UNCHANGED cache /\ requests' = requests /\ task' = task
      BY <2>4 DEF vars, Quiet, titles, people, store, cache
    <3>2. Tables'
      BY <2>1, <3>1, QuietWorld DEF CatalogueInv, Tables, Typed
    <3>3. ASSUME NEW p \in Procs, task'[p] # None PROVE Stands(task[p])'
      <4>1. PICK t : t = task[p]
        OBVIOUS
      <4>2. Stands(t)
        BY <2>1, <3>1, <3>3, <4>1 DEF CatalogueInv, Stands
      <4>3. Stands(t)'
        BY <3>1, <4>2, QuietStands
      <4> QED
        BY <3>1, <4>1, <4>3, StandsAs
    <3> QED
      BY <2>1, <3>1, <3>2, <3>3 DEF CatalogueInv, Stands
  <2> QED
    BY <2>1, <2>2, <2>3, <2>4 DEF Next
<1> QED
  BY <1>1, <1>2, PTL DEF Spec

\* Whatever requests run between each other, the rows that are stored are of their types and
\* refer to rows that are there, a reply answers a comment of its own title, no master names
\* two tracks alike or marks two as the default, and a clean-up reported complete is.
THEOREM RowsSound == Spec => []RowsAreSound
<1>1. CatalogueInv => RowsAreSound
  <2>1. SUFFICES ASSUME CatalogueInv PROVE RowsAreSound
    OBVIOUS
  <2>2. TypeOK
    <3>1. Typed /\ Related(series, movie, video, subtitle, named, book, comment)
      BY <2>1 DEF CatalogueInv, Tables
    <3>2. /\ \A s \in Rows(series) : series[s] \in Series
          /\ \A m \in Rows(movie) : movie[m] \in Movie
          /\ \A v \in Rows(video) : video[v] \in Video
          /\ \A i \in Rows(named) : named[i] \in Named
          /\ \A b \in Rows(book) : book[b] \in Book
      BY <3>1 DEF Typed, Rows
    <3>3. /\ \A s \in Rows(series) : Linked(series[s].links)
          /\ \A m \in Rows(movie) : Linked(movie[m].links) /\ (movie[m].series # None => movie[m].series \in Rows(series))
      BY <3>1 DEF Related, LinksHold, EpisodesHold, Linked
    <3>4. /\ \A v \in Rows(video) : video[v].movie \in Rows(movie)
          /\ \A s \in Rows(subtitle) : subtitle[s].video \in Rows(video)
      BY <3>1 DEF Related, FilesHold, TracksHold
    <3>5. /\ \A b \in Rows(book) : book[b].credit # None => book[b].credit \in Rows(named)
          /\ \A c \in Rows(comment) : comment[c].parent # None => comment[c].parent \in Rows(comment)
      BY <3>1 DEF Related, CreditsHold, RepliesHold
    <3>6. \A i \in Rows(named) : Free(named[i].kind, named[i].name, i)
      BY <3>1 DEF Related, NamesHold, Free, Kin
    <3> QED
      BY <3>2, <3>3, <3>4, <3>5, <3>6 DEF TypeOK
  <2>3. ThreadsAreFlat
    BY <2>1 DEF CatalogueInv, Tables, Related, RepliesHold, ThreadsAreFlat
  <2>4. NamesDiffer /\ OneDefault
    <3>1. ASSUME NEW m \in Rows(movie), master[m] # None
          PROVE  Advertises(master[m], video, subtitle)
      <4>1. movie \in Seq(Movie \cup {None}) /\ master \in Seq(Master \cup {None}) /\ Len(master) = Len(movie)
        BY <2>1 DEF CatalogueInv, Tables, Typed
      <4>2. m \in Rows(master)
        BY <3>1, <4>1, TableIds DEF Rows
      <4> QED
        BY <2>1, <4>2 DEF CatalogueInv, Tables, Posted
    <3> QED
      BY <3>1 DEF NamesDiffer, OneDefault, Advertises
  <2>5. CompleteIsComplete
    <3>1. SUFFICES ASSUME NEW p \in Procs, At(p, "removeSeries", "report"), task[p].ok, task[p].alone, NEW m \in task[p].done
                   PROVE  master[m] = None /\ Under(m) = {} /\ \A x \in source : x[1] # m
      BY DEF CompleteIsComplete
    <3>2. task[p] # None /\ task[p].op = "removeSeries" /\ task[p].at = "report"
      BY <3>1 DEF At
    <3>3. ClearsShow(task[p]) /\ Cleared(task[p])
      BY <2>1, <3>1, <3>2 DEF CatalogueInv, Held, Relied
    <3>4. task[p].todo = {}
      BY <3>2, <3>3 DEF ClearsShow
    <3> QED
      BY <3>1, <3>2, <3>3, <3>4 DEF Cleared
  <2> QED
    BY <2>2, <2>3, <2>4, <2>5 DEF RowsAreSound
<1> QED
  BY <1>1, CatalogueHolds, PTL

\* The order of a list is one.
LEMMA AheadLinesUp ==
  ASSUME Tables, NEW q \in Queries
  PROVE  LinesUp(Ahead(q), Found(q))
<1>1. Found(q) \in SUBSET Nat
  BY FoundIds
<1>2. ASSUME NEW i \in Found(q)
      PROVE  Rank(q, i) \in Nat
  <2>1. CASE SortOf(q) \notin {"viewed", "bought"}
    BY <2>1 DEF Rank
  <2>2. CASE SortOf(q) \in {"viewed", "bought"}
    <3>1. i \in Rows(movie)
      BY <2>2, QueryFacts DEF Found, Matching
    <3>2. movie[i].views \in Nat /\ movie[i].bought \in Nat
      BY <3>1 DEF Tables, Typed, Rows, Movie
    <3> QED
      BY <2>2, <3>2 DEF Rank, Times
  <2> QED
    BY <2>1, <2>2
<1>3. ASSUME NEW x \in Found(q), NEW y \in Found(q)
      PROVE  <<x, y>> \in Ahead(q) <=> Rank(q, x) > Rank(q, y) \/ (Rank(q, x) = Rank(q, y) /\ x > y)
  BY DEF Ahead
<1>4. \A x \in Found(q) : x \in Nat /\ Rank(q, x) \in Nat
  BY <1>1, <1>2
<1> QED
  BY <1>3, <1>4 DEF LinesUp

\* A list that is answered is the page that was asked for.
LEMMA PageShown ==
  ASSUME CatalogueInv
  PROVE  PageIsSlice
<1> DEFINE Before(q, i, j) == Rank(q, i) > Rank(q, j) \/ (Rank(q, i) = Rank(q, j) /\ i > j)
<1>1. ASSUME NEW p \in Procs, Answer(p, "list"), task[p].alone, NEW q, q = task[p].query, NEW want, want = [i \in 1 .. q.limit |-> Offset(q) + i]
      PROVE  /\ task[p].total = Cardinality(Found(q))
             /\ \A i \in Found(q) :
                   (\E k \in DOMAIN task[p].list : task[p].list[k] = i)
                     <=> (\E k \in DOMAIN want : want[k] = 1 + Cardinality({j \in Found(q) : Before(q, j, i)}))
             /\ \A k \in 1 .. Len(task[p].list) - 1 : Before(q, task[p].list[k], task[p].list[k + 1])
  <2>1. PICK list : list = task[p].list
    OBVIOUS
  <2>2. /\ q \in Queries /\ task[p].total = Cardinality(Found(q))
        /\ CutOf(Ahead(q), Found(q), Offset(q), q.limit, list)
    BY <1>1, <2>1 DEF CatalogueInv, Answer, Held, Browses, Relied, Pages
  <2>3. PICK S : S = Found(q)
    OBVIOUS
  <2>4. PICK R : R = Ahead(q)
    OBVIOUS
  <2>5. LinesUp(R, S) /\ IsFiniteSet(S) /\ Cardinality(S) \in Nat
    BY <2>2, <2>3, <2>4, FoundIds, AheadLinesUp DEF CatalogueInv
  <2>6. q.limit \in Nat /\ Offset(q) \in Nat
    BY <2>2, QueryFacts
  <2>7. PICK skip \in Nat : skip = Offset(q)
    BY <2>6
  <2>8. PICK take \in Nat : take = q.limit
    BY <2>6
  <2>9. CutOf(R, S, skip, take, list)
    BY <2>2, <2>3, <2>4, <2>7, <2>8
  <2>10. /\ list \in Seq(S) /\ Len(list) \in Nat /\ DOMAIN list = 1 .. Len(list)
         /\ \A k : k \in DOMAIN list <=> k \in 1 .. take /\ skip + k <= Cardinality(S)
         /\ \A k \in DOMAIN list : list[k] \in S /\ Places(R, S)[list[k]] = skip + k
    BY ONLY <2>9, CutFacts
  <2>11. \A i, j \in S : <<i, j>> \in R <=> Before(q, i, j)
    BY <2>3, <2>4 DEF Ahead
  <2>12. \A i \in S : Places(R, S)[i] = 1 + Cardinality({j \in S : Before(q, j, i)})
    <3>1. \A i \in S : {j \in S : <<j, i>> \in R} = {j \in S : Before(q, j, i)}
      BY <2>11
    <3> QED
      BY <3>1 DEF Places
  <2>13. Places(R, S) \in [S -> 1 .. Cardinality(S)]
    BY ONLY <2>5, PlacesType
  <2>14. \A x, y \in S : Places(R, S)[x] = Places(R, S)[y] => x = y
    BY ONLY <2>5, PlacesFilled
  <2>15. ASSUME NEW i \in S
         PROVE  (\E k \in DOMAIN list : list[k] = i) <=> (\E k \in DOMAIN want : want[k] = Places(R, S)[i])
    <3> HIDE DEF Places
    <3>1. DOMAIN want = 1 .. take /\ \A k \in 1 .. take : want[k] = skip + k
      BY <1>1, <2>7, <2>8
    <3>2. ASSUME NEW k \in DOMAIN list, list[k] = i
          PROVE  \E n \in DOMAIN want : want[n] = Places(R, S)[i]
      BY <2>10, <3>1, <3>2
    <3>3. ASSUME NEW k \in DOMAIN want, want[k] = Places(R, S)[i]
          PROVE  \E n \in DOMAIN list : list[n] = i
      <4>1. Places(R, S)[i] = skip + k /\ k \in 1 .. take /\ skip + k <= Cardinality(S)
        BY <2>5, <2>13, <3>1, <3>3
      <4>2. k \in DOMAIN list
        BY <2>10, <4>1
      <4>3. list[k] \in S /\ Places(R, S)[list[k]] = Places(R, S)[i]
        BY <2>10, <4>1, <4>2
      <4> QED
        BY <2>14, <4>2, <4>3
    <3> QED
      BY <3>2, <3>3
  <2>16. ASSUME NEW k \in 1 .. Len(list) - 1
         PROVE  Before(q, list[k], list[k + 1])
    <3>1. k \in DOMAIN list /\ k + 1 \in DOMAIN list
      BY <2>10
    <3>2. PICK x \in S : x = list[k]
      BY <2>10, <3>1
    <3>3. PICK y \in S : y = list[k + 1]
      BY <2>10, <3>1
    <3>4. Places(R, S)[x] = skip + k /\ Places(R, S)[y] = skip + (k + 1)
      BY <2>10, <3>1, <3>2, <3>3
    <3>5. Places(R, S)[x] < Places(R, S)[y]
      <4> HIDE DEF Places
      <4> QED
        BY <3>4
    <3>6. <<x, y>> \in R
      BY ONLY <2>5, <3>5, x \in S, y \in S, PlacesRise
    <3> QED
      BY <2>11, <3>2, <3>3, <3>6
  <2> HIDE DEF Before, Places
  <2>17. ASSUME NEW i \in Found(q)
         PROVE  (\E k \in DOMAIN task[p].list : task[p].list[k] = i)
                  <=> (\E k \in DOMAIN want : want[k] = 1 + Cardinality({j \in Found(q) : Before(q, j, i)}))
    <3>1. Places(R, S)[i] = 1 + Cardinality({j \in Found(q) : Before(q, j, i)})
      BY <2>3, <2>12
    <3>2. (\E k \in DOMAIN list : list[k] = i) <=> (\E k \in DOMAIN want : want[k] = Places(R, S)[i])
      BY <2>3, <2>15
    <3> QED
      BY <2>1, <3>1, <3>2
  <2>18. \A k \in 1 .. Len(task[p].list) - 1 : Before(q, task[p].list[k], task[p].list[k + 1])
    BY <2>1, <2>16
  <2> QED
    BY <2>2, <2>17, <2>18
<1> QED
  BY <1>1 DEF PageIsSlice, Rank

\* The filter value g of a kind of title, alone, as a member asks for it.
Filtering(kind, g) == [of |-> kind, role |-> "USER", status |-> None, series |-> None, access |-> None, genres |-> {g},
                       low |-> None, high |-> None, search |-> FALSE, sort |-> "recent", page |-> 1, limit |-> 1]
LEMMA FilterFinds ==
  ASSUME NEW g, NEW kind \in {"movie", "series"},
         IF kind = "movie" THEN \E m \in Rows(movie) : Public(m) /\ movie[m].genre = g
         ELSE \E s \in Rows(series) : series[s].status = "PUBLISHED" /\ series[s].genre = g
  PROVE  Found(Filtering(kind, g)) # {}
<1>1. PICK q : q = Filtering(kind, g)
  OBVIOUS
<1>2. /\ q.of = kind /\ q.role = "USER" /\ q.access = None /\ q.genres = {g} /\ q.low = None /\ q.high = None /\ q.search = FALSE
  BY <1>1 DEF Filtering
<1>3. OneOf(q.genres, g)
  BY <1>2 DEF OneOf
<1>4. CASE kind = "movie"
  <2>1. PICK m \in Rows(movie) : Public(m) /\ movie[m].genre = g
    BY <1>4
  <2>2. MovieMatches(q, m)
    BY <1>2, <1>3, <2>1 DEF MovieMatches
  <2>3. m \in Found(q)
    BY <1>2, <1>4, <2>1, <2>2 DEF Found, Matching
  <2> QED
    BY <1>1, <2>3
<1>5. CASE kind = "series"
  <2>1. PICK s \in Rows(series) : series[s].status = "PUBLISHED" /\ series[s].genre = g
    BY <1>5
  <2>2. SeriesMatches(q, s)
    BY <1>2, <1>3, <2>1 DEF SeriesMatches
  <2>3. s \in Found(q)
    BY <1>2, <1>5, <2>1, <2>2 DEF Found, Matching
  <2> QED
    BY <1>1, <2>3
<1> QED
  BY <1>4, <1>5

\* As long as nothing was written meanwhile, a list is the page that was asked for and counts
\* what matches, a member is shown published titles only, an episode only with its show, and a
\* filter value that is offered finds something; what is cached expires in time.
THEOREM AnswersRight == Spec => []AnswersAreRight
<1>1. CatalogueInv => AnswersAreRight
  <2>1. SUFFICES ASSUME CatalogueInv PROVE AnswersAreRight
    OBVIOUS
  <2>2. HiddenShowsNoEpisode
    <3>1. SUFFICES ASSUME NEW p \in Procs, Answer(p, "title"), task[p].alone, task[p].word = "USER", NEW k \in DOMAIN task[p].list
                   PROVE  LET m == task[p].list[k]
                          IN  /\ movie[m].status = "PUBLISHED"
                              /\ movie[m].series # None => series[movie[m].series].status = "PUBLISHED"
      BY DEF HiddenShowsNoEpisode
    <3>2. ShownTo(task[p]) /\ task[p].at = "answer"
      BY <2>1, <3>1 DEF CatalogueInv, Relied, Answer
    <3> QED
      BY <3>1, <3>2 DEF ShownTo
  <2>3. FacetsAreFresh
    BY <2>1 DEF CatalogueInv, Tables, Cached, FacetsAreFresh
  <2>4. FacetsLeadSomewhere
    <3>1. SUFFICES ASSUME NEW p \in Procs, At(p, "facets", "store"), task[p].alone, NEW g \in task[p].done
                   PROVE  Found(Filtering(task[p].word, g)) # {}
      BY DEF FacetsLeadSomewhere, Filtering
    <3>2. Offered(task[p]) /\ task[p].at = "store" /\ task[p].word \in {"movie", "series"}
      BY <2>1, <3>1 DEF CatalogueInv, Relied, Held, Filters, At
    <3> QED
      BY <3>1, <3>2, FilterFinds DEF Offered
  <2> QED
    BY <2>1, <2>2, <2>3, <2>4, PageShown DEF AnswersAreRight
<1> QED
  BY <1>1, CatalogueHolds, PTL
=============================================================================
