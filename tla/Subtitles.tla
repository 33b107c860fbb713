------------------------------ MODULE Subtitles ------------------------------
(***************************************************************************)
(* The subtitle tracks of a video and their HLS renditions: the rows       *)
(* (SubtitlesService), the objects players load and the lines of the       *)
(* master playlist that point at them (HlsSubtitlesService,                *)
(* hls-subtitle-manifest).  Names are kept in lower case, word by word.    *)
(***************************************************************************)
EXTENDS CatalogueTables

RowOf(v, label, language, ass, default, key) ==
    [video |-> v, label |-> label, language |-> language, ass |-> ass, default |-> default, key |-> key]
Writes == UNCHANGED <<titles, people, store>> /\ Goes

-----------------------------------------------------------------------------
(* The master playlist *)

\* A label that is blank gives way to the language, then to the id.
BaseName(r) == IF r.label # <<>> THEN r.label ELSE IF r.language # <<>> THEN r.language ELSE <<Word("id"), Number(r.id)>>

\* A slip: a name is numbered by how often it was asked for.
NamesByCount(renditions) ==
    [i \in DOMAIN renditions |->
        LET base == BaseName(renditions[i])
            before == {j \in 1 .. i - 1 : BaseName(renditions[j]) = base}
        IN  IF before = {} THEN base ELSE Append(base, Number(Cardinality(before) + 1))]

\* A name that is taken gets the first number that makes it free.
FreeName(base, taken, tries) ==
    LET Fits(n) == Append(base, Number(n)) \notin taken
    IN  IF base \notin taken THEN base
        ELSE Append(base, Number(CHOOSE n \in 2 .. tries : Fits(n) /\ \A k \in 2 .. n - 1 : ~Fits(k)))
UniqueNames(renditions) ==
    LET name[i \in DOMAIN renditions] == FreeName(BaseName(renditions[i]), {name[j] : j \in 1 .. i - 1}, i + 1)
    IN  name

\* A slip: whatever the rows say.
DefaultAsMarked(renditions, i) == renditions[i].default

\* At most one, the first that is marked.
IsDefault(renditions, i) == renditions[i].default /\ \A j \in 1 .. i - 1 : ~renditions[j].default

\* Every trace of a subtitle group goes, then the group is written anew.
rewriteMasterPlaylist(text, renditions) ==
    LET names == UniqueNames(renditions)
        line(i) == [id |-> renditions[i].id, name |-> names[i], language |-> renditions[i].language,
                    default |-> IsDefault(renditions, i)]
    IN  IF renditions = <<>> /\ text.media = <<>> /\ ~text.tagged THEN text
        ELSE [media |-> [i \in DOMAIN renditions |-> line(i)], tagged |-> renditions # <<>>]

-----------------------------------------------------------------------------
(* Rows *)

\* create: the source is uploaded under a key of its own, the default taken away, the row inserted.
AskSubtitle(p, v, label, ass, default) ==
    /\ v \in Rows(video)
    /\ Ask(p, [Idle EXCEPT !.op = "subtitle", !.at = "upload", !.row = v, !.arg = video[v].movie,
                           !.text = RowOf(v, label, <<Word("en")>>, ass, default, requests + 1)])
UploadSource(p) ==
    LET t == task[p]
    IN  /\ At(p, "subtitle", "upload")
        /\ \/ /\ source' = source \cup {<<t.arg, t.text.key>>}
              /\ Disturb(p, [t EXCEPT !.at = IF t.text.default THEN "clear" ELSE "insert"])
           \/ source' = source /\ End(p)
        /\ UNCHANGED <<titles, subtitle, people, picture, master, rendition>> /\ Goes

\* clearExistingDefault.
ClearDefault(p) ==
    LET t == task[p]
    IN  /\ At(p, "subtitle", "clear") \/ At(p, "updateSubtitle", "clear")
        /\ subtitle' = [s \in DOMAIN subtitle |-> IF s \in Subtitles(t.row) \ {t.id} THEN [subtitle[s] EXCEPT !.default = FALSE]
                                                  ELSE subtitle[s]]
        /\ Disturb(p, [t EXCEPT !.at = IF t.op = "subtitle" THEN "insert" ELSE "write"])
        /\ Writes
InsertSubtitle(p) ==
    LET t == task[p]
    IN  /\ At(p, "subtitle", "insert")
        /\ IF video[t.row] = None THEN End(p) /\ UNCHANGED subtitle
           ELSE /\ Len(subtitle) < MaxRows
                /\ subtitle' = Append(subtitle, t.text)
                /\ Disturb(p, [t EXCEPT !.at = "publish"])
        /\ Writes

\* createFromExistingKey: the object came with a bundle.
AskExistingKey(p, v, label) ==
    /\ v \in Rows(video)
    /\ \E x \in source : /\ x[1] = video[v].movie /\ \A s \in Rows(subtitle) : subtitle[s].key # x[2]
                         /\ Ask(p, [Idle EXCEPT !.op = "subtitle", !.at = "insert", !.row = v, !.arg = x[1],
                                                !.text = RowOf(v, label, <<Word("en")>>, FALSE, FALSE, x[2])])

\* A slip: the default that was there stays.
AskUpdateOnly(p, s, label, default) ==
    /\ s \in Rows(subtitle)
    /\ Ask(p, [Idle EXCEPT !.op = "updateSubtitle", !.at = "write", !.id = s, !.row = subtitle[s].video, !.arg = video[subtitle[s].video].movie,
                           !.text = [label |-> label, default |-> default]])

\* update: the default of the others is taken away before this one is written.
AskUpdateSubtitle(p, s, label, default) ==
    /\ s \in Rows(subtitle)
    /\ Ask(p, [Idle EXCEPT !.op = "updateSubtitle", !.at = IF default THEN "clear" ELSE "write", !.id = s, !.row = subtitle[s].video,
                           !.arg = video[subtitle[s].video].movie, !.text = [label |-> label, default |-> default]])
WriteSubtitle(p) ==
    LET t == task[p]
    IN  /\ At(p, "updateSubtitle", "write")
        /\ IF subtitle[t.id] = None THEN End(p) /\ UNCHANGED subtitle
           ELSE /\ subtitle' = [subtitle EXCEPT ![t.id].label = t.text.label, ![t.id].default = t.text.default]
                /\ Disturb(p, [t EXCEPT !.at = "publish"])
        /\ Writes

\* setDefault: both writes in one transaction, which fails when the row is gone.
AskSetDefault(p, s) ==
    /\ s \in Rows(subtitle)
    /\ Ask(p, [Idle EXCEPT !.op = "setDefault", !.at = "write", !.id = s, !.row = subtitle[s].video, !.arg = video[subtitle[s].video].movie])
SetDefault(p) ==
    LET t == task[p]
    IN  /\ At(p, "setDefault", "write")
        /\ IF subtitle[t.id] = None THEN End(p) /\ UNCHANGED subtitle
           ELSE /\ subtitle' = [s \in DOMAIN subtitle |-> IF s \in Subtitles(t.row) THEN [subtitle[s] EXCEPT !.default = s = t.id]
                                                          ELSE subtitle[s]]
                /\ Disturb(p, [t EXCEPT !.at = "publish"])
        /\ Writes

\* remove: the row and the video it is of, the row deleted, the manifest, then the objects.
AskRemoveSubtitle(p, s) ==
    /\ s \in Rows(subtitle)
    /\ Ask(p, [Idle EXCEPT !.op = "removeSubtitle", !.at = "delete", !.id = s, !.row = subtitle[s].video,
                           !.arg = video[subtitle[s].video].movie, !.total = subtitle[s].key])
DeleteSubtitle(p) ==
    LET t == task[p]
    IN  /\ At(p, "removeSubtitle", "delete")
        /\ IF subtitle[t.id] = None THEN End(p) /\ UNCHANGED subtitle
           ELSE subtitle' = [subtitle EXCEPT ![t.id] = None] /\ Disturb(p, [t EXCEPT !.at = "publish"])
        /\ Writes

\* republish, republishForMovie.
AskRepublish(p, v) ==
    /\ v \in Rows(video)
    /\ Ask(p, [Idle EXCEPT !.op = "republish", !.at = "publish", !.row = v, !.arg = video[v].movie])

-----------------------------------------------------------------------------
(* Publishing (publishForVideo) *)

\* A slip: the objects go whether or not the manifest was rewritten.
EraseAnyway(t, ok) == IF t.op = "removeSubtitle" THEN [t EXCEPT !.at = "unpublish"] ELSE None

\* publishQuietly: only remove goes on, and takes the objects only when the manifest no longer names them.
AfterPublish(t, ok) ==
    IF t.op = "removeSubtitle" THEN [t EXCEPT !.at = IF ok THEN "unpublish" ELSE "erase"] ELSE None

Publishing(p, at) == task[p] # None /\ task[p].at = at /\ task[p].op \in {"subtitle", "updateSubtitle", "setDefault", "removeSubtitle", "republish"}

ReadReady(p) ==
    LET v == task[p].row
    IN  /\ Publishing(p, "publish")
        /\ IF video[v] = None \/ ~video[v].ready THEN Proceed(p, AfterPublish(task[p], TRUE)) ELSE Goto(p, "rows")
        /\ Reads

\* The rows, the oldest first, and the master as it is.
ReadRows(p) ==
    LET Older(i, j) == i < j
        ids == Ranked(Subtitles(task[p].row), Older)
    IN  /\ Publishing(p, "rows")
        /\ Proceed(p, [task[p] EXCEPT !.at = "master", !.rows = [i \in DOMAIN ids |-> [id |-> ids[i], row |-> subtitle[ids[i]]]]])
        /\ Reads
ReadMaster(p) ==
    /\ Publishing(p, "master")
    /\ \/ Proceed(p, AfterPublish(task[p], FALSE))
       \/ master[task[p].arg] # None /\ Proceed(p, [task[p] EXCEPT !.at = "each", !.first = master[task[p].arg]])
    /\ Reads

\* writeRendition: a styled track is left out, and so is one that cannot be read or written.
WriteRendition(p) ==
    LET t == task[p]
        r == Head(t.rows)
        next == [t EXCEPT !.rows = Tail(@)]
    IN  /\ Publishing(p, "each") /\ t.rows # <<>>
        /\ \/ rendition' = rendition /\ Proceed(p, next)
           \/ /\ ~r.row.ass /\ <<t.arg, r.row.key>> \in source
              /\ rendition' = rendition \cup {<<t.arg, r.id>>}
              /\ Disturb(p, [next EXCEPT !.list = Append(@, [id |-> r.id, label |-> r.row.label, language |-> r.row.language, default |-> r.row.default])])
        /\ UNCHANGED <<titles, subtitle, people, picture, master, source>> /\ Goes
WriteMaster(p) ==
    LET t == task[p]
        text == rewriteMasterPlaylist(t.first, t.list)
    IN  /\ Publishing(p, "each") /\ t.rows = <<>>
        /\ \/ text = t.first /\ Proceed(p, AfterPublish(t, TRUE)) /\ UNCHANGED master
           \/ text # t.first /\ Proceed(p, AfterPublish(t, FALSE)) /\ UNCHANGED master
           \/ text # t.first /\ master' = [master EXCEPT ![t.arg] = text] /\ Disturb(p, AfterPublish(t, TRUE))
        /\ UNCHANGED <<titles, subtitle, people, picture, rendition, source>> /\ Goes

\* unpublishSubtitle and the source, both best effort.
Unpublish(p) ==
    LET t == [task[p] EXCEPT !.at = "erase"]
    IN  /\ At(p, "removeSubtitle", "unpublish")
        /\ \/ rendition' = rendition \ {<<t.arg, t.id>>} /\ Disturb(p, t)
           \/ rendition' = rendition /\ Proceed(p, t)
        /\ UNCHANGED <<titles, subtitle, people, picture, master, source>> /\ Goes
EraseSource(p) ==
    LET t == task[p]
    IN  /\ At(p, "removeSubtitle", "erase")
        /\ \/ source' = source \ {<<t.arg, t.total>>} /\ Disturb(p, None)
           \/ source' = source /\ End(p)
        /\ UNCHANGED <<titles, subtitle, people, picture, master, rendition>> /\ Goes
=============================================================================
