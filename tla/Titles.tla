------------------------------- MODULE Titles -------------------------------
(***************************************************************************)
(* Movies and series: browsing, filter values, editing and deleting them   *)
(* with their pictures, and runtimes (MoviesService, SeriesService,        *)
(* VideosService, VideoDurationService).                                   *)
(***************************************************************************)
EXTENDS CatalogueTables

ASSUME TTLPositive == TTL \in Nat \ {0}

Public(m) == movie[m].status = "PUBLISHED" /\ movie[m].series = None
Linked(links) == links \subseteq Rows(named)

-----------------------------------------------------------------------------
(* What a query asks for *)

\* facetStringFilter: one value in any case, several to the letter.
OneOf(values, v) ==
    \/ values = {}
    \/ Cardinality(values) = 1 /\ \E w \in values : Lower[w] = Lower[v]
    \/ v \in values
\* numberRange: bounds the wrong way round are put right.
InRange(low, high, n) ==
    LET swapped == low # None /\ high # None /\ low > high
        from == IF swapped THEN high ELSE low
        to == IF swapped THEN low ELSE high
    IN  (from = None \/ from <= n) /\ (to = None \/ n <= to)

\* buildMovieWhere: an unknown runtime, 0, matches no range of runtimes.
MovieMatches(q, m) ==
    /\ IF q.role = "USER" THEN Public(m)
       ELSE (q.status = None \/ movie[m].status = q.status) /\ movie[m].series = q.series
    /\ q.access = None \/ movie[m].access = q.access
    /\ OneOf(q.genres, movie[m].genre)
    /\ (q.low = None /\ q.high = None) \/ (movie[m].duration > 0 /\ InRange(q.low, q.high, movie[m].duration))

\* buildSeriesWhere.
SeriesMatches(q, s) ==
    /\ q.access = None \/ series[s].access = q.access
    /\ IF q.role = "USER" THEN series[s].status = "PUBLISHED" ELSE q.status = None \/ series[s].status = q.status
    /\ OneOf(q.genres, series[s].genre)

\* The term, looked for in the title or in the description.
Titled(q, i) == (IF q.of = "movie" THEN movie[i] ELSE series[i]).found = "title"
Described(q, i) == (IF q.of = "movie" THEN movie[i] ELSE series[i]).found = "text"
Matching(q) == IF q.of = "movie" THEN {m \in Rows(movie) : MovieMatches(q, m)} ELSE {s \in Rows(series) : SeriesMatches(q, s)}
Found(q) == {i \in Matching(q) : q.search => Titled(q, i) \/ Described(q, i)}
Newer(i, j) == i > j
\* findAll: relevance needs a term.
SortOf(q) == IF q.sort = "relevance" /\ ~q.search THEN "recent" ELSE q.sort
Offset(q) == (q.page - 1) * q.limit

-----------------------------------------------------------------------------
(* Browsing *)

AskList(p, q) ==
    Ask(p, [Idle EXCEPT !.op = "list", !.query = q,
                        !.at = CASE SortOf(q) = "relevance" -> "count" [] SortOf(q) \in {"viewed", "bought"} -> "scan"
                                 [] OTHER -> "list"])

\* findAll: the page and the count in one transaction.
ListPage(p) ==
    LET q == task[p].query
        all == Ranked(Found(q), Newer)
    IN  /\ At(p, "list", "list")
        /\ Proceed(p, [task[p] EXCEPT !.at = "answer", !.list = Slice(all, Offset(q), q.limit), !.total = Len(all)])
        /\ Reads

\* findRelevancePage: the tiers are counted together, then read one by one.
Tier(q, n) == Ranked({i \in Matching(q) : IF n = 1 THEN Titled(q, i) ELSE Described(q, i)}, Newer)
CountTiers(p) ==
    /\ At(p, "list", "count")
    /\ Proceed(p, [task[p] EXCEPT !.at = "tiers", !.row = Len(Tier(task[p].query, 1)),
                                  !.total = Len(Tier(task[p].query, 1)) + Len(Tier(task[p].query, 2))])
    /\ Reads

AtLeast0(n, m) == IF n < m THEN 0 ELSE n - m

\* A slip: the second tier starts over on every page.
SliceFromTheStart(offset, limit, count1) ==
    LET take1 == IF limit < AtLeast0(count1, offset) THEN limit ELSE AtLeast0(count1, offset)
    IN  [skip1 |-> IF offset < count1 THEN offset ELSE count1, take1 |-> take1, skip2 |-> 0, take2 |-> limit - take1]

\* computeTwoTierSlice.
TwoTierSlice(offset, limit, count1) ==
    LET take1 == IF limit < AtLeast0(count1, offset) THEN limit ELSE AtLeast0(count1, offset)
    IN  [skip1 |-> IF offset < count1 THEN offset ELSE count1, take1 |-> take1,
         skip2 |-> AtLeast0(offset, count1), take2 |-> limit - take1]

ReadTier(p) ==
    LET q == task[p].query
        cut == TwoTierSlice(Offset(q), q.limit, task[p].row)
        t == task[p]
    IN  /\ At(p, "list", "tiers")
        /\ \/ t.first = None /\ Proceed(p, [t EXCEPT !.first = Slice(Tier(q, 1), cut.skip1, cut.take1)])
           \/ t.second = None /\ Proceed(p, [t EXCEPT !.second = Slice(Tier(q, 2), cut.skip2, cut.take2)])
           \/ t.first # None /\ t.second # None /\ Proceed(p, [t EXCEPT !.at = "answer", !.list = t.first \o t.second])
        /\ Reads

\* findAggregateOrderedPage: viewers or buyers are counted, the ids sorted, the page read again.
Times(q, m) == IF SortOf(q) = "viewed" THEN movie[m].views ELSE movie[m].bought
ScanIds(p) ==
    LET q == task[p].query
        More(m, n) == Times(q, m) > Times(q, n) \/ (Times(q, m) = Times(q, n) /\ Newer(m, n))
        all == Ranked(Found(q), More)
    IN  /\ At(p, "list", "scan")
        /\ Proceed(p, [task[p] EXCEPT !.at = "refetch", !.list = Slice(all, Offset(q), q.limit), !.total = Len(all)])
        /\ Reads

Refetch(p) ==
    /\ At(p, "list", "refetch")
    /\ Proceed(p, [task[p] EXCEPT !.at = "answer", !.list = Those(task[p].list, Rows(movie))])
    /\ Reads

\* A slip: the show is not asked.
SeenAlone(m, role) == role = "USER" => movie[m].status = "PUBLISHED"

\* findByIdOrThrow: a member sees what is published, an episode with its show.
SeenBy(m, role) ==
    role = "USER" => /\ movie[m].status = "PUBLISHED"
                     /\ movie[m].series # None => series[movie[m].series].status = "PUBLISHED"
AskTitle(p, m, role) ==
    /\ m \in Rows(movie) /\ SeenBy(m, role)
    /\ Ask(p, [Idle EXCEPT !.op = "title", !.at = "answer", !.word = role, !.list = <<m>>])

\* findViewableOrThrow, then the episodes (getEpisodes, getPlayerEpisodes, getSeasons).
AskEpisodes(p, s, role) ==
    /\ s \in Rows(series) /\ (role = "USER" => series[s].status = "PUBLISHED")
    /\ Ask(p, [Idle EXCEPT !.op = "title", !.at = "episodes", !.word = role, !.id = s])

Oldest(i, j) == i < j
ReadEpisodes(p) ==
    /\ At(p, "title", "episodes")
    /\ Proceed(p, [task[p] EXCEPT !.at = "answer",
                     !.list = Ranked({m \in Episodes(task[p].id) : task[p].word = "USER" => movie[m].status = "PUBLISHED"}, Oldest)])
    /\ Reads

\* getMostPurchased: the ids by purchases, then those that are published.
AskMostPurchased(p, limit) ==
    LET More(m, n) == movie[m].bought > movie[n].bought \/ (movie[m].bought = movie[n].bought /\ m < n)
    IN  Ask(p, [Idle EXCEPT !.op = "title", !.at = "most", !.word = "USER",
                            !.list = Slice(Ranked({m \in Rows(movie) : movie[m].bought > 0}, More), 0, limit)])
ReadMostPurchased(p) ==
    /\ At(p, "title", "most")
    /\ Proceed(p, [task[p] EXCEPT !.at = "answer", !.list = Those(task[p].list, {m \in Rows(movie) : movie[m].status = "PUBLISHED"})])
    /\ Reads

\* getStreamInfo: the title, the subscription if it takes one, the video, its subtitles.
AskStream(p, m, role, subscribed) ==
    LET access == IF movie[m].series # None THEN series[movie[m].series].access ELSE movie[m].access
    IN  /\ m \in Rows(movie)
        /\ role = "USER" /\ access = "SUBSCRIPTION" => subscribed
        /\ Ask(p, [Idle EXCEPT !.op = "stream", !.at = "video", !.id = m])
ReadVideo(p) ==
    LET v == {w \in Videos(task[p].id) : \A x \in Videos(task[p].id) : x <= w}
    IN  /\ At(p, "stream", "video")
        /\ IF \E w \in v : video[w].ready THEN Proceed(p, [task[p] EXCEPT !.at = "tracks", !.row = CHOOSE w \in v : TRUE]) ELSE End(p)
        /\ Reads
ReadTracks(p) ==
    /\ At(p, "stream", "tracks")
    /\ Proceed(p, [task[p] EXCEPT !.at = "answer", !.done = Subtitles(task[p].row)])
    /\ Reads

Answered(p) == (Answer(p, "list") \/ Answer(p, "title") \/ Answer(p, "stream") \/ Answer(p, "facets")) /\ End(p) /\ Reads

-----------------------------------------------------------------------------
(* Filter values, cached (getFacets of movies and of series) *)

AskFacets(p, kind) ==
    LET fresh == facets[kind] # None /\ facets[kind].expires > clock
    IN  Ask(p, [Idle EXCEPT !.op = "facets", !.word = kind, !.arg = clock, !.at = IF fresh THEN "answer" ELSE "query",
                            !.done = IF fresh THEN facets[kind].genres ELSE {}])

\* A slip: whatever is published, the episodes too.
QueryEverything(p) ==
    /\ At(p, "facets", "query")
    /\ Proceed(p, [task[p] EXCEPT !.at = "store", !.row = clock,
                     !.done = IF task[p].word = "movie" THEN {movie[m].genre : m \in {m \in Rows(movie) : movie[m].status = "PUBLISHED"}}
                              ELSE {series[s].genre : s \in {s \in Rows(series) : series[s].status = "PUBLISHED"}}])
    /\ Reads

\* One transaction over what members can browse.
QueryFacets(p) ==
    /\ At(p, "facets", "query")
    /\ Proceed(p, [task[p] EXCEPT !.at = "store", !.row = clock,
                     !.done = IF task[p].word = "movie" THEN {movie[m].genre : m \in {m \in Rows(movie) : Public(m)}}
                              ELSE {series[s].genre : s \in {s \in Rows(series) : series[s].status = "PUBLISHED"}}])
    /\ Reads

\* A slip: the minute counts from when the answer came back.
StoreFromNow(p) ==
    /\ At(p, "facets", "store")
    /\ facets' = [facets EXCEPT ![task[p].word] = [genres |-> task[p].done, expires |-> clock + TTL, read |-> task[p].row]]
    /\ Goto(p, "answer")
    /\ UNCHANGED <<titles, subtitle, people, store, clock, doors, requests>>

\* The minute counts from when the request came in.
StoreFacets(p) ==
    /\ At(p, "facets", "store")
    /\ facets' = [facets EXCEPT ![task[p].word] = [genres |-> task[p].done, expires |-> task[p].arg + TTL, read |-> task[p].row]]
    /\ Goto(p, "answer")
    /\ UNCHANGED <<titles, subtitle, people, store, clock, doors, requests>>

Tick ==
    /\ "facets" \in doors /\ clock < MaxClock
    /\ clock' = clock + 1
    /\ UNCHANGED <<titles, subtitle, people, store, facets, task, doors, requests>>

-----------------------------------------------------------------------------
(* Movies *)

NewMovie ==[series |-> None, status |-> "DRAFT", access |-> "SUBSCRIPTION", genre |-> None, found |-> "no",
             duration |-> 0, views |-> 0, bought |-> 0, pictures |-> {}, links |-> {}]
AddMovie(row) ==
    /\ Len(movie) < MaxRows
    /\ movie' = Append(movie, row)
    /\ master' = Append(master, None)

CreateMovie(p, g, used, links) ==
    /\ Once(p, "createMovie")
    /\ Linked(links)
    /\ AddMovie([NewMovie EXCEPT !.genre = g, !.duration = 2, !.pictures = used, !.links = links])
    /\ UNCHANGED <<series, video, subtitle, people, picture, rendition, source>>

\* createUploadPlaceholder: an episode inherits from the show that was read.
AskPlaceholder(p, s) ==
    /\ s \in Rows(series)
    /\ Ask(p, [Idle EXCEPT !.op = "placeholder", !.at = "insert", !.id = s, !.word = series[s].genre])
InsertPlaceholder(p) ==
    /\ At(p, "placeholder", "insert")
    /\ IF series[task[p].id] = None THEN End(p) /\ UNCHANGED <<movie, master>>
       ELSE /\ AddMovie([NewMovie EXCEPT !.series = task[p].id, !.status = "UPLOADING", !.genre = task[p].word])
            /\ Disturb(p, None)
    /\ UNCHANGED <<series, video, subtitle, people, picture, rendition, source>> /\ Goes

\* update: the row is read for the audit, then the fields that were sent are written.
AskUpdateMovie(p, m, field, value) ==
    /\ m \in Rows(movie)
    /\ Ask(p, [Idle EXCEPT !.op = "updateMovie", !.at = "write", !.id = m, !.word = field,
                           !.arg = IF field = "duration" THEN value ELSE None, !.text = IF field = "status" THEN value ELSE None,
                           !.todo = IF field \in {"pictures", "links"} THEN value ELSE {}])
WriteMovie(p) ==
    LET t == task[p]
        row == movie[t.id]
    IN  /\ At(p, "updateMovie", "write")
        /\ IF row = None \/ (t.word = "links" /\ ~Linked(t.todo)) THEN End(p) /\ UNCHANGED movie
           ELSE /\ movie' = [movie EXCEPT ![t.id] =
                               CASE t.word = "status" -> [row EXCEPT !.status = t.text]
                                 [] t.word = "duration" -> [row EXCEPT !.duration = t.arg]
                                 [] t.word = "pictures" -> [row EXCEPT !.pictures = t.todo]
                                 [] t.word = "links" -> [row EXCEPT !.links = t.todo]]
                /\ Disturb(p, None)
        /\ UNCHANGED <<series, video, subtitle, people, store>> /\ Goes

\* remove: the row first, then the two prefixes and the pictures; the first failure ends it.
AskRemoveMovie(p, m) ==
    /\ m \in Rows(movie)
    /\ Ask(p, [Idle EXCEPT !.op = "removeMovie", !.at = "delete", !.id = m, !.todo = movie[m].pictures])
DeleteMovie(p) ==
    LET m == task[p].id
    IN  /\ At(p, "removeMovie", "delete")
        /\ IF movie[m] = None THEN End(p) /\ UNCHANGED <<movie, video, subtitle, comment>>
           ELSE Gone({m}, {}) /\ Disturb(p, [task[p] EXCEPT !.at = "videos"])
        /\ UNCHANGED <<series, named, book, store>> /\ Goes

\* deleteByPrefix of videos/<m>/ and of subtitles/<m>/.
Under(m) == {r \in rendition : r[1] = m}
SweepVideos(m) == master' = [master EXCEPT ![m] = None] /\ rendition' = rendition \ Under(m)
SweepSources(m) == source' = {r \in source : r[1] # m}
CleanMovie(p) ==
    LET t == task[p]
    IN  /\ \/ At(p, "removeMovie", "videos") /\ SweepVideos(t.id) /\ Disturb(p, [t EXCEPT !.at = "sources"]) /\ UNCHANGED <<source, picture>>
           \/ At(p, "removeMovie", "sources") /\ SweepSources(t.id) /\ Disturb(p, [t EXCEPT !.at = "pictures"]) /\ UNCHANGED <<master, rendition, picture>>
           \/ /\ At(p, "removeMovie", "pictures") /\ t.todo # {}
              /\ \E k \in t.todo : picture' = picture \ {k} /\ Disturb(p, [t EXCEPT !.todo = @ \ {k}])
              /\ UNCHANGED <<master, rendition, source>>
           \/ At(p, "removeMovie", "pictures") /\ t.todo = {} /\ End(p) /\ UNCHANGED store
           \/ \E at \in {"videos", "sources", "pictures"} : At(p, "removeMovie", at) /\ End(p) /\ UNCHANGED store
        /\ UNCHANGED <<titles, subtitle, people>> /\ Goes

-----------------------------------------------------------------------------
(* Series *)

CreateSeries(p, g, used, links) ==
    /\ Once(p, "createSeries")
    /\ Linked(links) /\ Len(series) < MaxRows
    /\ series' = Append(series, [status |-> "DRAFT", access |-> "SUBSCRIPTION", genre |-> g, found |-> "no", pictures |-> used, links |-> links])
    /\ UNCHANGED <<movie, video, subtitle, people, store>>

\* update and updateStatus.
AskUpdateSeries(p, s, field, value) ==
    /\ s \in Rows(series)
    /\ Ask(p, [Idle EXCEPT !.op = "updateSeries", !.at = "write", !.id = s, !.word = field,
                           !.text = IF field = "status" THEN value ELSE None, !.todo = IF field = "pictures" THEN value ELSE {}])
WriteSeries(p) ==
    LET t == task[p]
        row == series[t.id]
    IN  /\ At(p, "updateSeries", "write")
        /\ IF row = None THEN End(p) /\ UNCHANGED series
           ELSE /\ series' = [series EXCEPT ![t.id] = IF t.word = "status" THEN [row EXCEPT !.status = t.text]
                                                      ELSE [row EXCEPT !.pictures = t.todo]]
                /\ Disturb(p, None)
        /\ UNCHANGED <<movie, video, subtitle, people, store>> /\ Goes

\* remove: the episodes as they were read, the rows, then the objects one by one.
AskRemoveSeries(p, s) ==
    /\ s \in Rows(series)
    /\ Ask(p, [Idle EXCEPT !.op = "removeSeries", !.at = "delete", !.id = s, !.done = Episodes(s),
                           !.todo = {<<"videos", m>> : m \in Episodes(s)} \cup {<<"sources", m>> : m \in Episodes(s)},
                           !.list = SetToList(series[s].pictures \cup UNION {movie[m].pictures : m \in Episodes(s)})])
DeleteSeries(p) ==
    LET s == task[p].id
    IN  /\ At(p, "removeSeries", "delete")
        /\ IF series[s] = None THEN End(p) /\ UNCHANGED <<titles, subtitle, comment>>
           ELSE /\ series' = [series EXCEPT ![s] = None]
                /\ Gone(Episodes(s), {<<"series", s>>})
                /\ Disturb(p, [task[p] EXCEPT !.at = "prefixes"])
        /\ UNCHANGED <<named, book, store>> /\ Goes

\* A slip: a failure is not noted.
SweepEpisodeQuietly(p) ==
    /\ At(p, "removeSeries", "prefixes")
    /\ \/ task[p].todo = {} /\ Goto(p, "pictures") /\ UNCHANGED store
       \/ \E x \in task[p].todo :
             LET t == [task[p] EXCEPT !.todo = @ \ {x}]
             IN  \/ x[1] = "videos" /\ SweepVideos(x[2]) /\ UNCHANGED <<source, picture>> /\ Disturb(p, t)
                 \/ x[1] = "sources" /\ SweepSources(x[2]) /\ UNCHANGED <<master, rendition, picture>> /\ Disturb(p, t)
                 \/ UNCHANGED store /\ Proceed(p, t)
    /\ UNCHANGED <<titles, subtitle, people>> /\ Goes

\* Each prefix; one that fails is noted and the rest go on.
SweepEpisode(p) ==
    /\ At(p, "removeSeries", "prefixes")
    /\ \/ task[p].todo = {} /\ Goto(p, "pictures") /\ UNCHANGED store
       \/ \E x \in task[p].todo :
             LET t == [task[p] EXCEPT !.todo = @ \ {x}]
             IN  \/ x[1] = "videos" /\ SweepVideos(x[2]) /\ UNCHANGED <<source, picture>> /\ Disturb(p, t)
                 \/ x[1] = "sources" /\ SweepSources(x[2]) /\ UNCHANGED <<master, rendition, picture>> /\ Disturb(p, t)
                 \/ UNCHANGED store /\ Proceed(p, [t EXCEPT !.ok = FALSE])
    /\ UNCHANGED <<titles, subtitle, people>> /\ Goes

\* A slip: only movies are counted.
UsedByMovie(k) == \E m \in Rows(movie) : k \in movie[m].pictures

\* isImageKeyStillReferenced.
StillReferenced(k) == (\E m \in Rows(movie) : k \in movie[m].pictures) \/ (\E s \in Rows(series) : k \in series[s].pictures)
CountReferences(p) ==
    LET t == task[p]
    IN  /\ At(p, "removeSeries", "pictures")
        /\ IF t.list = <<>> THEN Goto(p, "report")
           ELSE IF StillReferenced(Head(t.list)) THEN Proceed(p, [t EXCEPT !.list = Tail(@)])
           ELSE Goto(p, "erase")
        /\ Reads
ErasePicture(p) ==
    LET t == [task[p] EXCEPT !.at = "pictures", !.list = Tail(@)]
    IN  /\ At(p, "removeSeries", "erase")
        /\ \/ picture' = picture \ {Head(task[p].list)} /\ Disturb(p, t)
           \/ picture' = picture /\ Proceed(p, [t EXCEPT !.ok = FALSE])
        /\ UNCHANGED <<titles, subtitle, people, master, rendition, source>> /\ Goes

\* storageCleanup: complete or partial.
Report(p) == At(p, "removeSeries", "report") /\ End(p) /\ Reads

-----------------------------------------------------------------------------
(* Runtimes (VideoDurationService) *)

ReadyVideos(m) == {v \in Videos(m) : video[v].ready}
AskBackfill(p) ==
    Ask(p, [Idle EXCEPT !.op = "backfill", !.at = "recover",
                        !.list = Ranked({m \in Rows(movie) : movie[m].duration = 0 /\ ReadyVideos(m) # {}}, Oldest)])

\* recoverHlsDurationSeconds: it may find nothing.
Recover(p) ==
    LET t == task[p]
    IN  /\ At(p, "backfill", "recover")
        /\ \/ t.list = <<>> /\ End(p)
           \/ t.list # <<>> /\ Proceed(p, [t EXCEPT !.list = Tail(@)])
           \/ t.list # <<>> /\ master[Head(t.list)] # None /\ Goto(p, "video")
        /\ Reads

FillVideo(p) ==
    LET ready == ReadyVideos(Head(task[p].list))
    IN  /\ At(p, "backfill", "video")
        /\ video' = [v \in DOMAIN video |-> IF v \in ready /\ (\A w \in ready : w <= v) /\ video[v].duration = 0
                                            THEN [video[v] EXCEPT !.duration = 1] ELSE video[v]]
        /\ Disturb(p, [task[p] EXCEPT !.at = "movie"])
        /\ UNCHANGED <<series, movie, subtitle, people, store>> /\ Goes

\* A slip: the row was unknown when it was listed.
FillRegardless(p) ==
    LET m == Head(task[p].list)
    IN  /\ At(p, "backfill", "movie")
        /\ movie' = IF movie[m] # None THEN [movie EXCEPT ![m].duration = 1] ELSE movie
        /\ Disturb(p, [task[p] EXCEPT !.at = "recover", !.list = Tail(@)])
        /\ UNCHANGED <<series, video, subtitle, people, store>> /\ Goes

\* fillMovieDurationIfUnknown.
FillMovie(p) ==
    LET m == Head(task[p].list)
    IN  /\ At(p, "backfill", "movie")
        /\ movie' = IF movie[m] # None /\ movie[m].duration = 0 THEN [movie EXCEPT ![m].duration = 1] ELSE movie
        /\ Disturb(p, [task[p] EXCEPT !.at = "recover", !.list = Tail(@)])
        /\ UNCHANGED <<series, video, subtitle, people, store>> /\ Goes
=============================================================================
