------------------------------ MODULE Catalogue ------------------------------
(***************************************************************************)
(* What can be watched and read, as one system: every request of Titles,   *)
(* Shelf and Subtitles, step by step and interleaved.                      *)
(***************************************************************************)
EXTENDS Titles, Shelf, Subtitles

\* None is no number and no row, and what is written in words is a string.
ASSUME NoneIsNothing ==
    /\ None \notin Nat /\ None \notin Series /\ None \notin Movie /\ None \notin Video /\ None \notin Subtitle
    /\ None \notin Named /\ None \notin Book /\ None \notin Comment /\ None \notin Master
    /\ None \notin [id : Nat, name : DOMAIN Lower]
ASSUME WordsAreStrings == {"ann", "bob", "english", "en", "id", ""} \subseteq STRING
\* What the query DTOs let through; viewers and buyers are counted of movies only.
ASSUME QueriesAreValid ==
    \A q \in Queries : /\ q.of \in {"movie", "series"} /\ q.page \in Nat \ {0} /\ q.limit \in Nat \ {0}
                       /\ q.sort \in {"recent", "relevance"} \/ (q.of = "movie" /\ q.sort \in {"viewed", "bought"})
\* The foreign keys and unique columns of the schema.
LinksHold(table, na) == \A i \in Rows(table) : table[i].links \subseteq Rows(na)
EpisodesHold(mo, se) == \A m \in Rows(mo) : mo[m].series # None => mo[m].series \in Rows(se)
FilesHold(vi, mo) == \A v \in Rows(vi) : vi[v].movie \in Rows(mo)
TracksHold(su, vi) == \A s \in Rows(su) : su[s].video \in Rows(vi)
NamesHold(na) == \A i, j \in Rows(na) : na[i].kind = na[j].kind /\ na[i].name = na[j].name => i = j
CreditsHold(bo, na) == \A b \in Rows(bo) : bo[b].credit # None => bo[b].credit \in Rows(na) /\ na[bo[b].credit].kind = "author"
\* A reply answers a comment of the same title that is no reply.
RepliesHold(co) ==
    \A c \in Rows(co) : co[c].parent # None =>
        LET d == co[c].parent IN d \in Rows(co) /\ co[d].parent = None /\ co[d].on = co[c].on /\ co[d].title = co[c].title
\* What was ever bought is no episode: the seed writes the purchases.
FilmsWereBought(mo) == \A m \in Rows(mo) : mo[m].bought > 0 => mo[m].series = None
Related(se, mo, vi, su, na, bo, co) ==
    /\ LinksHold(se, na) /\ LinksHold(mo, na) /\ EpisodesHold(mo, se) /\ FilesHold(vi, mo) /\ TracksHold(su, vi)
    /\ NamesHold(na) /\ CreditsHold(bo, na) /\ RepliesHold(co) /\ FilmsWereBought(mo)
\* The subtitle lines of a master: no two of a name, one default, tracks that were there once,
\* none of a video that is not READY.
Advertises(text, vi, su) ==
    \A i, j \in DOMAIN text.media :
        /\ text.media[i].name = text.media[j].name => i = j
        /\ text.media[i].default /\ text.media[j].default => i = j
        /\ text.media[i].id \in DOMAIN su
        /\ text.media[i].id \in Rows(su) => vi[su[text.media[i].id].video].ready
\* The catalogues to start from: typed rows whose references hold, and masters as publishing
\* leaves them.
ASSUME StartIsSound ==
    \A s \in Start :
        /\ s.series \in Seq(Series \cup {None}) /\ s.movie \in Seq(Movie \cup {None}) /\ s.video \in Seq(Video \cup {None})
        /\ s.subtitle \in Seq(Subtitle \cup {None}) /\ s.named \in Seq(Named \cup {None}) /\ s.book \in Seq(Book \cup {None})
        /\ s.comment \in Seq(Comment \cup {None}) /\ s.master \in Seq(Master \cup {None}) /\ Len(s.master) = Len(s.movie)
        /\ s.requests \in Nat /\ s.source \subseteq Nat \X Nat
        /\ Related(s.series, s.movie, s.video, s.subtitle, s.named, s.book, s.comment)
        /\ \A m \in Rows(s.master) : Advertises(s.master[m], s.video, s.subtitle)

Init ==
    /\ \E s \in Start : /\ series = s.series /\ movie = s.movie /\ video = s.video /\ subtitle = s.subtitle
                        /\ named = s.named /\ book = s.book /\ comment = s.comment
                        /\ picture = Pictures /\ master = s.master /\ rendition = s.rendition /\ source = s.source
                        /\ doors = s.doors /\ requests = s.requests
    /\ facets = [k \in {"movie", "series"} |-> None] /\ clock = 0
    /\ task = [p \in Procs |-> None]

Roles == {"USER", "ADMIN"}
Names == DOMAIN Lower
Statuses == {"PUBLISHED", "ARCHIVED"}

AskTitles(p) ==
    \/ \E q \in Queries : AskList(p, q)
    \/ \E m \in Rows(movie), role \in Roles : AskTitle(p, m, role)
    \/ \E s \in Rows(series), role \in Roles : AskEpisodes(p, s, role)
    \/ AskMostPurchased(p, 2)
    \/ \E m \in Rows(movie), role \in Roles, subscribed \in BOOLEAN : AskStream(p, m, role, subscribed)
    \/ \E k \in {"movie", "series"} : AskFacets(p, k)
    \/ \E g \in Names, used \in {{}, Pictures}, links \in {{}, Kin("actor")} : CreateMovie(p, g, used, links) \/ CreateSeries(p, g, used, links)
    \/ \E s \in Rows(series) : AskPlaceholder(p, s)
    \/ \E m \in Rows(movie) : AskRemoveMovie(p, m) \/ AskUpdateMovie(p, m, "duration", 3)
    \/ \E m \in Rows(movie), status \in Statuses : AskUpdateMovie(p, m, "status", status)
    \/ \E m \in Rows(movie), links \in {{}, Kin("actor")} : AskUpdateMovie(p, m, "links", links)
    \/ \E m \in Rows(movie), used \in {{}, Pictures} : AskUpdateMovie(p, m, "pictures", used)
    \/ \E s \in Rows(series), status \in {"PUBLISHED", "UNPUBLISHED"} : AskUpdateSeries(p, s, "status", status)
    \/ \E s \in Rows(series), used \in {{}, Pictures} : AskUpdateSeries(p, s, "pictures", used)
    \/ \E s \in Rows(series) : AskRemoveSeries(p, s)
    \/ AskBackfill(p)
DoTitles(p) ==
    \/ ListPage(p) \/ CountTiers(p) \/ ReadTier(p) \/ ScanIds(p) \/ Refetch(p)
    \/ ReadEpisodes(p) \/ ReadMostPurchased(p) \/ ReadVideo(p) \/ ReadTracks(p) \/ Answered(p)
    \/ QueryFacets(p) \/ StoreFacets(p)
    \/ InsertPlaceholder(p) \/ WriteMovie(p) \/ DeleteMovie(p) \/ CleanMovie(p)
    \/ WriteSeries(p) \/ DeleteSeries(p) \/ SweepEpisode(p) \/ CountReferences(p) \/ ErasePicture(p) \/ Report(p)
    \/ Recover(p) \/ FillVideo(p) \/ FillMovie(p)

AskShelf(p) ==
    \/ \E k \in {"actor", "author"}, n \in Names, face \in Pictures \cup {None} : AskCreateNamed(p, k, n, face)
    \/ \E i \in Rows(named), n \in Names, face \in Pictures \cup {None} : AskRename(p, i, n, face)
    \/ \E i \in Rows(named) : AskRemoveNamed(p, i)
    \/ \E b \in Rows(book) \cup {None}, a \in Kin("author"), cover \in Pictures \cup {None} : AskBook(p, b, a, None, cover)
    \/ \E b \in Rows(book) \cup {None}, n \in Names : AskBook(p, b, None, n, None)
    \/ \E b \in Rows(book), cover \in Pictures \cup {None} : AskBook(p, b, None, None, cover)
    \/ \E b \in Rows(book) : AskRemoveBook(p, b)
    \/ \E m \in Rows(movie), c \in Rows(comment) \cup {None}, by \in {"ann", "bob"} : AskComment(p, "movie", m, c, by)
    \/ \E s \in Rows(series), by \in {"ann", "bob"} : AskComment(p, "series", s, None, by)
    \/ \E c \in Rows(comment), by \in {"ann", "bob"}, moderates \in BOOLEAN : AskRemoveComment(p, c, by, moderates)
    \/ \E m \in Rows(movie) : AskThread(p, "movie", m)
    \/ \E c \in Rows(comment), visible \in BOOLEAN : AskModerate(p, c, visible)
    \/ \E status \in {None, "VISIBLE", "HIDDEN"} : AskComments(p, status)
DoShelf(p) ==
    \/ InsertNamed(p) \/ Rename(p) \/ EraseFace(p) \/ DeleteNamed(p)
    \/ FindAuthor(p) \/ CreateAuthor(p) \/ WriteBook(p) \/ DeleteBook(p) \/ CountCovers(p) \/ EraseCover(p)
    \/ CheckParent(p) \/ InsertComment(p) \/ DeleteComment(p) \/ WriteModerated(p) \/ ShowThread(p)

Labels == {<<Word("english")>>, <<Word("english"), Number(2)>>, <<>>}
AskSubtitles(p) ==
    \/ \E v \in Rows(video), default \in BOOLEAN : AskSubtitle(p, v, <<Word("english")>>, FALSE, default)
    \/ \E v \in Rows(video) : AskSubtitle(p, v, <<>>, TRUE, FALSE)
    \/ \E v \in Rows(video) : AskExistingKey(p, v, <<Word("english")>>) \/ AskRepublish(p, v)
    \/ \E s \in Rows(subtitle), label \in Labels, default \in BOOLEAN : AskUpdateSubtitle(p, s, label, default)
    \/ \E s \in Rows(subtitle) : AskRemoveSubtitle(p, s) \/ AskSetDefault(p, s)
DoSubtitles(p) ==
    \/ UploadSource(p) \/ ClearDefault(p) \/ InsertSubtitle(p) \/ WriteSubtitle(p) \/ SetDefault(p) \/ DeleteSubtitle(p)
    \/ ReadReady(p) \/ ReadRows(p) \/ ReadMaster(p) \/ WriteRendition(p) \/ WriteMaster(p) \/ Unpublish(p) \/ EraseSource(p)

Next ==
    \/ \E p \in Procs : AskTitles(p) \/ AskShelf(p) \/ AskSubtitles(p) \/ DoTitles(p) \/ DoShelf(p) \/ DoSubtitles(p)
    \/ Tick
Spec == Init /\ [][Next]_vars

-----------------------------------------------------------------------------
(* Properties *)

\* Every row has the type its table declares, and what a row refers to is there: no
\* sequence of deletions leaves a dangling foreign key.
TypeOK ==
    /\ \A s \in Rows(series) : series[s] \in Series /\ Linked(series[s].links)
    /\ \A m \in Rows(movie) : /\ movie[m] \in Movie /\ Linked(movie[m].links)
                              /\ movie[m].series # None => movie[m].series \in Rows(series)
    /\ \A v \in Rows(video) : video[v] \in Video /\ video[v].movie \in Rows(movie)
    /\ \A s \in Rows(subtitle) : subtitle[s].video \in Rows(video)
    /\ \A i \in Rows(named) : named[i] \in Named /\ Free(named[i].kind, named[i].name, i)
    /\ \A b \in Rows(book) : book[b] \in Book /\ (book[b].credit # None => book[b].credit \in Rows(named))
    /\ \A c \in Rows(comment) : comment[c].parent # None => comment[c].parent \in Rows(comment)

\* A list is the page that was asked for: the titles that match, the best tier first, newer
\* before older, cut at skip and take; the total counts them all (findAll, findRelevancePage,
\* findAggregateOrderedPage), as long as nothing was written meanwhile.
PageIsSlice ==
    \A p \in Procs : Answer(p, "list") /\ task[p].alone =>
        LET q == task[p].query
            Rank(i) == IF SortOf(q) = "relevance" THEN IF Titled(q, i) THEN 1 ELSE 0
                       ELSE IF SortOf(q) \in {"viewed", "bought"} THEN Times(q, i) ELSE 0
            Before(i, j) == Rank(i) > Rank(j) \/ (Rank(i) = Rank(j) /\ i > j)
            want == [i \in 1 .. q.limit |-> Offset(q) + i]
        IN  /\ task[p].total = Cardinality(Found(q))
            /\ \A i \in Found(q) :
                  LET place == 1 + Cardinality({j \in Found(q) : Before(j, i)})
                  IN  (\E k \in DOMAIN task[p].list : task[p].list[k] = i) <=> (\E k \in DOMAIN want : want[k] = place)
            /\ \A k \in 1 .. Len(task[p].list) - 1 : Before(task[p].list[k], task[p].list[k + 1])

\* What one request shows a member is published, and an episode only with its show
\* (findByIdOrThrow, findViewableOrThrow, getEpisodes).
HiddenShowsNoEpisode ==
    \A p \in Procs : Answer(p, "title") /\ task[p].alone /\ task[p].word = "USER" =>
        \A k \in DOMAIN task[p].list : LET m == task[p].list[k]
            IN  /\ movie[m].status = "PUBLISHED"
                /\ movie[m].series # None => series[movie[m].series].status = "PUBLISHED"

\* Filter values are never served for longer than FACETS_TTL_MS after they were read.
FacetsAreFresh == \A k \in DOMAIN facets : facets[k] # None => facets[k].expires <= facets[k].read + TTL

\* Every genre offered leads a member somewhere, as of the read (getFacets, buildMovieWhere,
\* buildSeriesWhere).
FacetsLeadSomewhere ==
    \A p \in Procs : At(p, "facets", "store") /\ task[p].alone =>
        \A g \in task[p].done :
            LET q == [of |-> task[p].word, role |-> "USER", status |-> None, series |-> None, access |-> None, genres |-> {g},
                      low |-> None, high |-> None, search |-> FALSE, sort |-> "recent", page |-> 1, limit |-> 1]
            IN  Found(q) # {}

\* A runtime somebody entered is never overwritten by one that was measured
\* (fillMovieDurationIfUnknown against a concurrent update).
HumanRuntimeStays ==
    [][\A m \in DOMAIN movie : (movie[m] # None /\ movie[m].duration = 3) => (movie'[m] = None \/ movie'[m].duration = 3)]_vars

\* The clean-up after a show never takes a picture another title shows: nothing changes
\* between counting the references and erasing (isImageKeyStillReferenced).
GuardSpares ==
    [][\A p \in Procs : ErasePicture(p) /\ task[p].alone =>
         \A k \in picture \ picture' : /\ \A m \in Rows(movie) : k \notin movie[m].pictures
                                      /\ \A s \in Rows(series) : k \notin series[s].pictures]_vars

\* A clean-up reported complete left nothing of the episodes that were read (remove of series).
CompleteIsComplete ==
    \A p \in Procs : At(p, "removeSeries", "report") /\ task[p].ok /\ task[p].alone =>
        \A m \in task[p].done : master[m] = None /\ Under(m) = {} /\ \A x \in source : x[1] # m

\* Replies go one level deep and stay on the title of what they answer (create of comments).
ThreadsAreFlat ==
    \A c \in Rows(comment) : comment[c].parent # None =>
        LET d == comment[c].parent IN comment[d].parent = None /\ comment[d].on = comment[c].on /\ comment[d].title = comment[c].title

\* No request that was disturbed takes this step.
Undisturbed == \A p \in Procs : task[p] # None /\ ~task[p].alone => task'[p] = task[p]

\* Books carry their author's name and no two authors differ by case only; a request that runs
\* alone keeps it so (create and update of books and of authors).
Tidy == /\ \A b \in Rows(book) : book[b].credit # None => book[b].author = named[book[b].credit].name
        /\ \A i, j \in Kin("author") : Lower[named[i].name] = Lower[named[j].name] => i = j
AuthorsTidyAlone == [][Undisturbed /\ Tidy => Tidy']_vars

\* No two tracks of a master share a name and at most one is the default, whatever the rows
\* say and however publishes interleave (uniqueNames, rewriteMasterPlaylist).
NamesDiffer ==
    \A m \in Rows(movie) : master[m] # None =>
        \A i, j \in DOMAIN master[m].media : master[m].media[i].name = master[m].media[j].name => i = j
OneDefault ==
    \A m \in Rows(movie) : master[m] # None =>
        \A i, j \in DOMAIN master[m].media : master[m].media[i].default /\ master[m].media[j].default => i = j

\* What a master names is there to load: no request that runs alone breaks it, not even one
\* whose objects fail half way (publishForVideo before unpublishSubtitle).
Sound == \A m \in Rows(movie) : master[m] # None => \A i \in DOMAIN master[m].media : <<m, master[m].media[i].id>> \in rendition
AdvertisedAlone == [][Undisturbed /\ Sound => Sound']_vars

\* At most one row of a video is the default; a request that runs alone keeps it so
\* (clearExistingDefault, setDefault).
OneMarked == \A s, t \in Rows(subtitle) : subtitle[s].video = subtitle[t].video /\ subtitle[s].default /\ subtitle[t].default => s = t
RowDefaultAlone == [][Undisturbed /\ OneMarked => OneMarked']_vars

-----------------------------------------------------------------------------
(* What is claimed, by subject *)

\* What viewers are answered is what matches, current, and theirs to see.
AnswersAreRight == PageIsSlice /\ HiddenShowsNoEpisode /\ FacetsAreFresh /\ FacetsLeadSomewhere
\* What is written stays well formed, however requests interleave.
RowsAreSound == TypeOK /\ ThreadsAreFlat /\ NamesDiffer /\ OneDefault /\ CompleteIsComplete
\* What a step of one request may never undo: of anybody's, or of a request alone.
StepsKeepRules == HumanRuntimeStays /\ GuardSpares /\ AuthorsTidyAlone /\ AdvertisedAlone /\ RowDefaultAlone
=============================================================================
