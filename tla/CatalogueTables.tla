--------------------------- MODULE CatalogueTables ---------------------------
(***************************************************************************)
(* The rows and objects behind what can be watched and read (movies and    *)
(* their videos and subtitles, series, people and shelves, books as works, *)
(* comments), and the requests that work on them.  Ids are handed out in   *)
(* order, so that a higher id is the newer row.                            *)
(***************************************************************************)
EXTENDS Naturals, Sequences, FiniteSets

CONSTANTS
    Procs,          \* requests in progress at the same time
    None,
    Lower,          \* Lower[n]: a name or a genre in lower case
    Queries,        \* the catalogue queries clients send
    Pictures,       \* keys under images/, uploaded before the rows that use them
    TTL,            \* FACETS_TTL_MS
    MaxClock,       \* bound
    MaxRows,        \* bound: rows ever created, of each kind
    MaxRequests,    \* bound: requests let in
    Start           \* the catalogues to start from, each with the requests let in

VARIABLES
    series,         \* the Series rows, oldest first; None once deleted
    movie,          \* the Movie rows; an episode is a movie with a series
    video,          \* the Video rows
    subtitle,       \* the Subtitle rows
    named,          \* the Actor, Category, BookCategory and BookAuthor rows
    book,           \* the Book rows
    comment,        \* the Comment rows
    picture,        \* the objects under images/
    master,         \* master[m]: the subtitle lines of videos/<m>/hls/master.m3u8, None without it
    rendition,      \* the objects under videos/<m>/hls/subs, <<movie, subtitle>>
    source,         \* the objects under subtitles/<m>, <<movie, key>>
    facets,         \* MoviesService.facetsCache and SeriesService's
    clock,
    task,           \* task[p]: what p is doing, or None
    doors,          \* the kinds of request let in; never changes
    requests

titles == <<series, movie, video>>
people == <<named, book, comment>>
store == <<picture, master, rendition, source>>
cache == <<facets, clock>>
vars == <<series, movie, video, subtitle, named, book, comment, picture, master, rendition, source, facets, clock,
          task, doors, requests>>

Movie == [series : Nat \cup {None}, status : {"DRAFT", "UPLOADING", "PUBLISHED", "ARCHIVED"},
          access : {"FREE", "SUBSCRIPTION"}, genre : DOMAIN Lower, found : {"title", "text", "no"},
          duration : Nat, views : Nat, bought : Nat, pictures : SUBSET Pictures, links : SUBSET Nat]
Series == [status : {"DRAFT", "PUBLISHED", "UNPUBLISHED"}, access : {"FREE", "SUBSCRIPTION"},
           genre : DOMAIN Lower, found : {"title", "text", "no"}, pictures : SUBSET Pictures, links : SUBSET Nat]
Video == [movie : Nat, ready : BOOLEAN, duration : Nat]
\* What a track is called: a list of words and numbers.
Name == Seq([word : STRING, number : Nat])
Word(w) == [word |-> w, number |-> 0]
Number(n) == [word |-> "", number |-> n]
Subtitle == [video : Nat, label : Name, language : Name, ass : BOOLEAN, default : BOOLEAN,
             key : Nat]
Named == [kind : {"actor", "category", "bookCategory", "author"}, name : DOMAIN Lower, face : Pictures \cup {None}]
Book == [author : DOMAIN Lower, credit : Nat \cup {None}, cover : Pictures \cup {None}, links : SUBSET Nat]
Comment == [on : {"movie", "series", "book"}, title : Nat, parent : Nat \cup {None}, visible : BOOLEAN, owner : STRING]
\* A line of the subtitle group, and what a master playlist says of subtitles.
Line == [id : Nat, name : Name, language : Name, default : BOOLEAN]
Master == [media : Seq(Line), tagged : BOOLEAN]

\* The rows of a table that are there.
Rows(table) == {i \in DOMAIN table : table[i] # None}
Episodes(s) == {m \in Rows(movie) : movie[m].series = s}
Videos(m) == {v \in Rows(video) : video[v].movie = m}
Subtitles(v) == {s \in Rows(subtitle) : subtitle[s].video = v}

\* The ids of S in an order, and the part of a list that skip and take ask for.
Ranked(S, Before(_, _)) == [i \in 1 .. Cardinality(S) |-> CHOOSE x \in S : Cardinality({y \in S : Before(y, x)}) = i - 1]
SetToList(S) == CHOOSE list \in [1 .. Cardinality(S) -> S] : {list[i] : i \in DOMAIN list} = S
\* What is left of a list, in its order.
Those(list, S) ==
    LET Before(i, j) == i < j
        places == Ranked({k \in DOMAIN list : list[k] \in S}, Before)
    IN  [i \in DOMAIN places |-> list[places[i]]]
Slice(list, skip, take) == SubSeq(list, skip + 1, IF skip + take < Len(list) THEN skip + take ELSE Len(list))

-----------------------------------------------------------------------------
(* Requests *)

Idle == [op |-> "", at |-> "", id |-> None, arg |-> None, row |-> None, word |-> None, query |-> None, list |-> <<>>,
         first |-> None, second |-> None, total |-> 0, todo |-> {}, done |-> {}, rows |-> <<>>, text |-> None,
         ok |-> TRUE, alone |-> TRUE]
Proceed(p, t) == task' = [task EXCEPT ![p] = t]
Goto(p, at) == Proceed(p, [task[p] EXCEPT !.at = at])
End(p) == Proceed(p, None)
At(p, op, at) == task[p] # None /\ task[p].op = op /\ task[p].at = at
\* The same, by a step that writes rows or objects: whoever is under way is no longer alone.
Disturb(p, t) == task' = [q \in Procs |-> IF q = p THEN t
                                          ELSE IF task[q] = None THEN None ELSE [task[q] EXCEPT !.alone = FALSE]]
Ask(p, t) ==
    /\ task[p] = None /\ requests < MaxRequests
    /\ t.op \in doors
    /\ Proceed(p, t)
    /\ requests' = requests + 1
    /\ UNCHANGED <<titles, subtitle, people, store, cache, doors>>
\* A request of a single query.
Once(p, op) ==
    /\ task[p] = None /\ requests < MaxRequests
    /\ op \in doors
    /\ Disturb(p, None)
    /\ requests' = requests + 1
    /\ UNCHANGED <<cache, doors>>
Answer(p, op) == task[p] # None /\ task[p].op = op /\ task[p].at = "answer"
\* A step of a request that reads, or that writes some of the tables or objects.
Goes == UNCHANGED <<cache, doors, requests>>
Reads == UNCHANGED <<titles, subtitle, people, store>> /\ Goes

-----------------------------------------------------------------------------
(* What the schema takes along with a row *)

\* Movies that are gone: their videos, subtitles and comments, with the replies.
Gone(movies, others) ==
    LET films == {v \in Rows(video) : video[v].movie \in movies}
        said == {c \in Rows(comment) : \/ comment[c].on = "movie" /\ comment[c].title \in movies
                                       \/ <<comment[c].on, comment[c].title>> \in others}
    IN  /\ movie' = [m \in DOMAIN movie |-> IF m \in movies THEN None ELSE movie[m]]
        /\ video' = [v \in DOMAIN video |-> IF v \in films THEN None ELSE video[v]]
        /\ subtitle' = [s \in DOMAIN subtitle |-> IF subtitle[s] # None /\ subtitle[s].video \in films THEN None ELSE subtitle[s]]
        /\ comment' = [c \in DOMAIN comment |-> IF c \in said \/ (comment[c] # None /\ comment[c].parent \in said)
                                                THEN None ELSE comment[c]]
=============================================================================
