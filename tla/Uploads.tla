------------------------------ MODULE Uploads ------------------------------
(***************************************************************************)
(* From a file to a playable title (UploadsService, ProcessingService,     *)
(* the status side of VideosService and MoviesService, the scratch sweep   *)
(* of UploadCleanupService): chunked sessions, the transcoding pipeline    *)
(* that runs in the background, its restart after a failure or a crash,    *)
(* the finalization of a bundle transcoded elsewhere, and an administrator *)
(* who changes or deletes the title meanwhile.  Database rows, objects of  *)
(* the store, files on the scratch disk and the process' own memory are    *)
(* written by different steps; a restart forgets the memory alone.         *)
(***************************************************************************)
EXTENDS Naturals, Sequences, FiniteSets

CONSTANTS
    Movies,
    Tiers,          \* the renditions the source is tall enough for, numbered upwards
    Files,          \* what a client may send: [movie, asset], asset None for a video to transcode
    Chunks,         \* the chunks of a file
    Bundle,         \* the files a client sends as Multipart does
    AdminStatuses,  \* the statuses an administrator chooses
    Procs,          \* requests and background runs in progress at the same time
    None,
    MaxVideos,      \* bound: Video rows ever created
    MaxSessions,    \* bound: UploadSession rows ever created
    MaxRequests,    \* bound: requests let in, and restarts
    Start           \* the titles, videos, objects and files to start from

VARIABLES
    movie,          \* movie[m]: the status of the row, or None without the row
    video,          \* the Video rows, oldest first; None once deleted
    session,        \* the UploadSession rows, oldest first; None once deleted
    store,          \* store[m]: the objects under the prefixes of m
    chunks,         \* chunks[i]: the chunk files of session i, or None without its directory
    scratch,        \* scratch[m]: the pipeline's local files
    cold,           \* the scratch directories nothing was added to for a day
    active,         \* ProcessingService.activeVideoIds, in memory
    task,           \* task[p]: what p is doing, or None
    requests,
    stranded,       \* history: the videos whose request broke off while they were UPLOADING
    unsent          \* history: the renditions sent to the store in part, or whose sending broke off

tables == <<movie, video, session>>
disk == <<chunks, scratch, cold>>
Past == <<requests, stranded, unsent>>
vars == <<movie, video, session, store, chunks, scratch, cold, active, task, requests, stranded, unsent>>

Cron == "cron"
Workers == Procs \cup {Cron}
MovieStatus == {"DRAFT", "PROCESSING", "PUBLISHED", "ARCHIVED", "UPLOADING", "FAILED", "READY_TO_PUBLISH"}
VideoStatus == {"UPLOADING", "PROCESSING", "READY", "FAILED"}

\* The objects of a title; a rendition is a playlist and its segments.
Original == <<"original", 0>>
Master == <<"master", 0>>
Index(t) == <<"index", t>>
Segments(t) == <<"segments", t>>
Assets == {Original, Master} \cup {Index(t) : t \in Tiers} \cup {Segments(t) : t \in Tiers}
ASSUME FilesKnown == Files \subseteq [movie : Movies, asset : Assets \cup {None}] /\ Bundle \subseteq Assets
\* Renditions have heights: of several one is the tallest.
ASSUME TiersNumbered == \A T \in SUBSET Tiers : T = {} \/ \E t \in T : \A u \in T : u <= t

Video == [movie : Movies, status : VideoStatus, archived : BOOLEAN, renditions : SUBSET Tiers]
Session == [file : Files, status : {"IN_PROGRESS", "COMPLETED", "FAILED"}, age : 0 .. 2]
FinalizableMovieStatuses == {"UPLOADING", "FAILED"}

\* What is under way: the call, where it stands, the rows it knows, and what it read.
TaskOver(ops, steps, todos, seens) ==
    [op : ops, at : steps, movie : Movies \cup {None}, session : Nat \cup {None}, todo : todos,
     video : Nat \cup {None}, seen : seens \cup {None}]
FileTask == TaskOver({"init", "complete", "delete"},
                     {"find", "resume", "insert", "dir", "check", "merge", "put", "create", "close", "clean", "start", "wipe"},
                     SUBSET Files, {})
RunTask == TaskOver({"run", "reprocess"},
                    {"claim", "fetch", "mark", "archive", "path", "tier", "encode", "push", "master", "tidy", "ready",
                     "publish", "failed", "draft", "discard"},
                    SUBSET Tiers, BOOLEAN)
FinalizeTask == TaskOver({"finalize"}, {"load", "verify", "reject", "create", "ready", "flip"},
                         SUBSET Tiers, FinalizableMovieStatuses)
Places == ({"uploads"} \X Nat) \cup ({"videos"} \X Movies)
SweepTask == TaskOver({"sweep"}, {"list", "rm"}, SUBSET Places, {})
Request == FileTask \cup RunTask \cup FinalizeTask

ASSUME NoneIsNoValue ==
    /\ None \notin Nat /\ None \notin Video /\ None \notin Session /\ None \notin Request /\ None \notin SweepTask
    /\ \A C \in SUBSET Chunks : C # None
ASSUME BoundIsNatural == MaxVideos \in Nat
ASSUME CronIsNoRequest == Cron \notin Procs

Row(v) == video[v] # None
\* findLatestForMovie.
Videos(m) == {v \in DOMAIN video : Row(v) /\ video[v].movie = m}
Latest(m) == IF Videos(m) = {} THEN None ELSE CHOOSE v \in Videos(m) : \A w \in Videos(m) : w <= v
InProgress(i) == session[i] # None /\ session[i].status = "IN_PROGRESS"
\* StorageService.uploadSessionDir, videoDir.
Dir(i) == <<"uploads", i>>
ScratchDir(m) == <<"videos", m>>

-----------------------------------------------------------------------------
(* Requests *)

Proceed(p, t) == task' = [task EXCEPT ![p] = t]
Goto(p, at) == Proceed(p, [task[p] EXCEPT !.at = at])
End(p) == Proceed(p, None)
At(p, op, at) == task[p] # None /\ task[p].op = op /\ task[p].at = at
Ask(p, op, at, m, i, todo) ==
    /\ task[p] = None /\ requests < MaxRequests
    /\ Proceed(p, [op |-> op, at |-> at, movie |-> m, session |-> i, todo |-> todo, video |-> None, seen |-> None])
    /\ requests' = requests + 1
    /\ UNCHANGED <<tables, store, disk, active, stranded, unsent>>

\* A request that ends before the run starts or the bundle is finished leaves its
\* video behind.
Strand(ends) ==
    stranded' = stranded \cup {v \in DOMAIN video : /\ Row(v) /\ video[v].status = "UPLOADING"
                                                   /\ \E p \in ends : task[p] # None /\ task[p].video = v}

\* The database, the disk or the store fails under a request, which has no handler:
\* what is written stays, and nothing takes it further.
Throw(p) ==
    /\ task[p] # None
    /\ task[p].op \in {"init", "complete", "finalize", "delete"} \/ At(p, "reprocess", "claim")
    /\ Strand({p})
    /\ End(p)
    /\ UNCHANGED <<tables, store, disk, active, requests, unsent>>

\* A file of a bundle lands in the store; its segments are for the client to send.
Land(m, o) ==
    /\ store' = [store EXCEPT ![m] = @ \cup {o}]
    /\ unsent' = unsent \cup {<<m, t>> : t \in {t \in Tiers : o = Index(t) /\ Segments(t) \notin store[m]}}

\* initUpload
AskInit(p, f) == movie[f.movie] # None /\ Ask(p, "init", "find", f.movie, None, {f})
FileOf(p) == CHOOSE f \in task[p].todo : TRUE

FindSession(p) ==
    LET found == {i \in DOMAIN session : InProgress(i) /\ session[i].file = FileOf(p)}
    IN  /\ At(p, "init", "find")
        /\ IF found = {} THEN Goto(p, "insert")
           ELSE Proceed(p, [task[p] EXCEPT !.at = "resume", !.session = CHOOSE i \in found : \A j \in found : j <= i])
        /\ UNCHANGED <<tables, store, disk, active, Past>>

\* The session handed back to be resumed, with the chunks on disk.
Resume(p) ==
    /\ At(p, "init", "resume")
    /\ End(p)
    /\ UNCHANGED <<tables, store, disk, active, Past>>

\* A slip: the directory is only heard of once it is made.
InsertSessionAlone(p) ==
    /\ At(p, "init", "insert")
    /\ session' = Append(session, [file |-> FileOf(p), status |-> "IN_PROGRESS", age |-> 0])
    /\ End(p)
    /\ UNCHANGED <<movie, video, store, chunks, scratch, cold, active, Past>>

\* The row, unless the foreign key refuses it.
InsertSession(p) ==
    /\ At(p, "init", "insert")
    /\ IF movie[task[p].movie] = None
       THEN End(p) /\ UNCHANGED <<session, chunks>>
       ELSE /\ Len(session) < MaxSessions
            /\ session' = Append(session, [file |-> FileOf(p), status |-> "IN_PROGRESS", age |-> 0])
            /\ chunks' = Append(chunks, None)
            /\ Proceed(p, [task[p] EXCEPT !.at = "dir", !.session = Len(session')])
    /\ UNCHANGED <<movie, video, store, scratch, cold, active, Past>>

\* ensureDir, and the row's tempDir after it.
MakeDir(p) ==
    /\ At(p, "init", "dir")
    /\ chunks' = [chunks EXCEPT ![task[p].session] = {}]
    /\ End(p)
    /\ UNCHANGED <<tables, store, scratch, cold, active, Past>>

\* saveChunk: an active session, and a directory to write to.
SaveChunk(i, c) ==
    /\ InProgress(i) /\ chunks[i] # None
    /\ c \notin chunks[i]
    /\ chunks' = [chunks EXCEPT ![i] = @ \cup {c}]
    /\ cold' = cold \ {Dir(i)}
    /\ UNCHANGED <<tables, store, scratch, active, task, Past>>

\* completeUpload: a call that finds one for the same session under way joins it.
AskComplete(p, i) ==
    /\ \A q \in Procs : task[q] # None => ~(task[q].op = "complete" /\ task[q].session = i)
    /\ Ask(p, "complete", "check", None, i, {})

CheckChunks(p) ==
    LET i == task[p].session
    IN  /\ At(p, "complete", "check")
        /\ IF InProgress(i) /\ chunks[i] = Chunks
           THEN Proceed(p, [task[p] EXCEPT !.at = "merge", !.movie = session[i].file.movie, !.todo = {session[i].file}])
           ELSE End(p)
        /\ UNCHANGED <<tables, store, disk, active, Past>>

\* mergeChunks: into the movie's scratch directory, or beside the chunks.
Merge(p) ==
    LET m == task[p].movie
    IN  /\ At(p, "complete", "merge")
        /\ IF chunks[task[p].session] # Chunks THEN End(p) /\ UNCHANGED <<scratch, cold>>
           ELSE IF FileOf(p).asset # None THEN Goto(p, "put") /\ UNCHANGED <<scratch, cold>>
           ELSE /\ scratch' = [scratch EXCEPT ![m] = @ \cup {"input"}]
                /\ cold' = cold \ {ScratchDir(m)}
                /\ Goto(p, "create")
        /\ UNCHANGED <<tables, store, chunks, active, Past>>

\* A file of a bundle that comes in chunks goes straight to its object.
PutMerged(p) ==
    /\ At(p, "complete", "put")
    /\ Land(task[p].movie, FileOf(p).asset)
    /\ Goto(p, "close")
    /\ UNCHANGED <<tables, disk, active, requests, stranded>>

\* VideosService.create; the foreign key refuses a video without its movie.
CreateVideo(p) ==
    LET m == task[p].movie
    IN  /\ At(p, "complete", "create") \/ At(p, "finalize", "create")
        /\ IF movie[m] = None THEN End(p) /\ UNCHANGED video
           ELSE /\ Len(video) < MaxVideos
                /\ video' = Append(video, [movie |-> m, status |-> "UPLOADING", renditions |-> {},
                                           archived |-> task[p].op = "finalize"])
                /\ Proceed(p, [task[p] EXCEPT !.video = Len(video'),
                                              !.at = IF task[p].op = "finalize" THEN "ready" ELSE "close"])
        /\ UNCHANGED <<movie, session, store, disk, active, Past>>

CloseSession(p) ==
    LET i == task[p].session
    IN  /\ At(p, "complete", "close")
        /\ IF session[i] = None THEN End(p) /\ UNCHANGED session
           ELSE session' = [session EXCEPT ![i].status = "COMPLETED"] /\ Goto(p, "clean")
        /\ UNCHANGED <<movie, video, store, disk, active, Past>>

\* A slip: every session is taken for one of a bundle.
CleanChunksOnly(p) ==
    /\ At(p, "complete", "clean")
    /\ chunks' = [chunks EXCEPT ![task[p].session] = None]
    /\ End(p)
    /\ UNCHANGED <<tables, store, scratch, cold, active, Past>>

CleanChunks(p) ==
    /\ At(p, "complete", "clean")
    /\ chunks' = [chunks EXCEPT ![task[p].session] = None]
    /\ IF FileOf(p).asset # None THEN End(p) ELSE Goto(p, "start")
    /\ UNCHANGED <<tables, store, scratch, cold, active, Past>>

\* processVideo is called and not awaited: the request is answered, the run goes on.
Run(p) == Proceed(p, [task[p] EXCEPT !.op = "run", !.at = "mark", !.session = None, !.todo = Tiers])
StartRun(p) ==
    /\ At(p, "complete", "start")
    /\ active' = active \cup {task[p].video}
    /\ Run(p)
    /\ UNCHANGED <<tables, store, disk, Past>>

-----------------------------------------------------------------------------
(* ProcessingService.runPipeline *)

\* The process is gone, and with it all it remembered.
Forget == task' = [p \in Workers |-> None] /\ active' = {} /\ Strand(Procs)

\* markProcessing stands outside the handler's try: if it fails, be it for want of the
\* row, the run is an unhandled rejection, and Node stops.
MarkProcessing(p) ==
    LET v == task[p].video
    IN  /\ At(p, "run", "mark")
        /\ \/ Forget /\ UNCHANGED video
           \/ /\ Row(v)
              /\ video' = [video EXCEPT ![v].status = "PROCESSING"]
              /\ Goto(p, "archive")
              /\ UNCHANGED <<active, stranded>>
        /\ UNCHANGED <<movie, session, store, disk, requests, unsent>>

\* A step of the run fails when what it reads is not there; the database, ffmpeg, the
\* disk and the store may fail of themselves.
Fail(p) == Goto(p, "failed") /\ UNCHANGED <<tables, store, disk>>

\* probeVideo, then the original goes to the store unless it is there.
Archive(p) ==
    LET m == task[p].movie
    IN  /\ At(p, "run", "archive")
        /\ \/ Fail(p)
           \/ /\ "input" \in scratch[m]
              /\ store' = [store EXCEPT ![m] = @ \cup {Original}]
              /\ Goto(p, "path")
              /\ UNCHANGED <<tables, disk>>
        /\ UNCHANGED <<active, Past>>

RecordPath(p) ==
    LET v == task[p].video
    IN  /\ At(p, "run", "path")
        /\ \/ Fail(p)
           \/ /\ Row(v)
              /\ video' = [video EXCEPT ![v].archived = TRUE]
              /\ Goto(p, "tier")
              /\ UNCHANGED <<movie, session, store, disk>>
        /\ UNCHANGED <<active, Past>>

\* The tallest rendition left: one whose playlist is in the store is skipped.
Tier(p) == CHOOSE t \in task[p].todo : \A u \in task[p].todo : u <= t
NextTier(p) ==
    LET m == task[p].movie
        t == Tier(p)
    IN  /\ At(p, "run", "tier")
        /\ \/ Fail(p)
           \/ /\ IF task[p].todo = {} THEN Goto(p, "master")
                 ELSE IF Index(t) \in store[m] THEN Proceed(p, [task[p] EXCEPT !.todo = @ \ {t}])
                 ELSE Goto(p, "encode")
              /\ UNCHANGED <<tables, store, disk>>
        /\ UNCHANGED <<active, Past>>

\* transcodeToHls into a directory cleared before.
Encode(p) ==
    LET m == task[p].movie
    IN  /\ At(p, "run", "encode")
        /\ \/ Fail(p)
           \/ /\ "input" \in scratch[m]
              /\ scratch' = [scratch EXCEPT ![m] = @ \cup {"tier"}]
              /\ Goto(p, "push")
              /\ UNCHANGED <<tables, store, chunks, cold>>
        /\ UNCHANGED <<active, Past>>

\* A slip: the playlist, which is written last, is taken for the sign that all is sent.
PushUntilPlaylist(p) ==
    LET m == task[p].movie
        t == Tier(p)
    IN  /\ At(p, "run", "push")
        /\ \/ Fail(p) /\ unsent' = unsent \cup {<<m, t>>}
           \/ /\ "tier" \in scratch[m]
              /\ \E o \in {Index(t), Segments(t)} : store' = [store EXCEPT ![m] = @ \cup {o}]
              /\ IF Index(t) \in store'[m]
                 THEN Proceed(p, [task[p] EXCEPT !.at = "tier", !.todo = @ \ {t}]) /\ unsent' = unsent \ {<<m, t>>}
                 ELSE unsent' = unsent \cup {<<m, t>>} /\ UNCHANGED task
              /\ UNCHANGED <<tables, disk>>
        /\ UNCHANGED <<active, requests, stranded>>

\* uploadDirectory: several workers, so the playlist may land before or after the
\* segments, and a failure may leave either alone.
Push(p) ==
    LET m == task[p].movie
        t == Tier(p)
    IN  /\ At(p, "run", "push")
        /\ \/ Fail(p) /\ unsent' = unsent \cup {<<m, t>>}
           \/ /\ "tier" \in scratch[m]
              /\ \E o \in {Index(t), Segments(t)} : store' = [store EXCEPT ![m] = @ \cup {o}]
              /\ IF {Index(t), Segments(t)} \subseteq store'[m]
                 THEN Proceed(p, [task[p] EXCEPT !.at = "tier", !.todo = @ \ {t}]) /\ unsent' = unsent \ {<<m, t>>}
                 ELSE unsent' = unsent \cup {<<m, t>>} /\ UNCHANGED task
              /\ UNCHANGED <<tables, disk>>
        /\ UNCHANGED <<active, requests, stranded>>

\* The other workers of an uploadDirectory that failed are not stopped: what they had
\* in hand may still land.
Straggle(m, t) ==
    /\ <<m, t>> \in unsent
    /\ \E o \in {Index(t), Segments(t)} \ store[m] : store' = [store EXCEPT ![m] = @ \cup {o}]
    /\ UNCHANGED <<tables, disk, active, task, Past>>

PutMaster(p) ==
    LET m == task[p].movie
    IN  /\ At(p, "run", "master")
        /\ \/ Fail(p)
           \/ /\ store' = [store EXCEPT ![m] = @ \cup {Master}]
              /\ Goto(p, "tidy")
              /\ UNCHANGED <<tables, disk>>
        /\ UNCHANGED <<active, Past>>

\* cleanupScratch, before the row says READY and after it says FAILED; what it cannot
\* remove it leaves, and never throws.
CleanScratch(p) ==
    /\ At(p, "run", "tidy") \/ At(p, "run", "discard")
    /\ \E left \in {{}, {"input"}, {"input", "tier"}} : scratch' = [scratch EXCEPT ![task[p].movie] = @ \cap left]
    /\ IF task[p].at = "tidy" THEN Goto(p, "ready") /\ UNCHANGED active
       ELSE End(p) /\ active' = active \ {task[p].video}
    /\ UNCHANGED <<tables, store, chunks, cold, Past>>

\* markReady, of the run and of a finalized bundle.
MarkReady(p) ==
    LET v == task[p].video
    IN  /\ At(p, "run", "ready") \/ At(p, "finalize", "ready")
        /\ \/ /\ Row(v)
              /\ video' = [video EXCEPT ![v].status = "READY",
                                        ![v].renditions = IF task[p].op = "run" THEN Tiers ELSE task[p].todo]
              /\ Goto(p, IF task[p].op = "run" THEN "publish" ELSE "flip")
              /\ UNCHANGED <<movie, session, store, disk>>
           \/ task[p].op = "run" /\ Fail(p)
        /\ UNCHANGED <<active, Past>>

\* The title is published, whatever status it has by now.  A failure here ends in the
\* handler too, which makes a READY video FAILED.
Publish(p) ==
    LET m == task[p].movie
    IN  /\ At(p, "run", "publish")
        /\ \/ Fail(p) /\ UNCHANGED active
           \/ /\ movie[m] # None
              /\ movie' = [movie EXCEPT ![m] = "PUBLISHED"]
              /\ End(p)
              /\ active' = active \ {task[p].video}
              /\ UNCHANGED <<video, session, store, disk>>
        /\ UNCHANGED Past

\* The handler: the video FAILED, the title back to DRAFT.  No exception leaves it, not
\* even when this cannot be written, for want of the row or otherwise.
MarkFailed(p) ==
    LET v == task[p].video
    IN  /\ At(p, "run", "failed")
        /\ \/ Goto(p, "discard") /\ UNCHANGED video
           \/ Row(v) /\ video' = [video EXCEPT ![v].status = "FAILED"] /\ Goto(p, "draft")
        /\ UNCHANGED <<movie, session, store, disk, active, Past>>

BackToDraft(p) ==
    LET m == task[p].movie
    IN  /\ At(p, "run", "draft")
        /\ movie' \in {movie, [movie EXCEPT ![m] = IF @ = None THEN None ELSE "DRAFT"]}
        /\ Goto(p, "discard")
        /\ UNCHANGED <<video, session, store, disk, active, Past>>

-----------------------------------------------------------------------------
(* reprocessVideo *)

AskReprocess(p, m) == Ask(p, "reprocess", "claim", m, None, {})

\* A slip: the status is checked and the claim is not.
ClaimUnreserved(p) ==
    LET v == Latest(task[p].movie)
    IN  /\ At(p, "reprocess", "claim")
        /\ IF v # None /\ video[v].status \in {"FAILED", "PROCESSING"} /\ ~(video[v].status = "PROCESSING" /\ v \in active)
           THEN /\ active' = active \cup {v}
                /\ Proceed(p, [task[p] EXCEPT !.at = "fetch", !.video = v, !.seen = video[v].archived])
           ELSE End(p) /\ UNCHANGED active
        /\ UNCHANGED <<tables, store, disk, Past>>

\* A failed video, or one that is PROCESSING and nobody works on; reserve checks and
\* adds without an await in between.
Claim(p) ==
    LET v == Latest(task[p].movie)
    IN  /\ At(p, "reprocess", "claim")
        /\ IF v # None /\ video[v].status \in {"FAILED", "PROCESSING"} /\ v \notin active
           THEN /\ active' = active \cup {v}
                /\ Proceed(p, [task[p] EXCEPT !.at = "fetch", !.video = v, !.seen = video[v].archived])
           ELSE End(p) /\ UNCHANGED active
        /\ UNCHANGED <<tables, store, disk, Past>>

\* A slip: the claim is kept when the original cannot be had.
FetchOriginalHolding(p) ==
    LET m == task[p].movie
    IN  /\ At(p, "reprocess", "fetch")
        /\ IF ~task[p].seen /\ "input" \in scratch[m]
           THEN Run(p) /\ UNCHANGED <<scratch, cold>>
           ELSE IF task[p].seen /\ Original \in store[m]
           THEN /\ scratch' = [scratch EXCEPT ![m] = @ \cup {"input"}]
                /\ cold' = cold \ {ScratchDir(m)}
                /\ Run(p)
           ELSE End(p) /\ UNCHANGED <<scratch, cold>>
        /\ UNCHANGED <<tables, store, chunks, active, Past>>

\* resolveOriginalForReprocessing: the local file, or the archived object brought
\* back; without either, or when the download fails, the claim is released.
FetchOriginal(p) ==
    LET m == task[p].movie
    IN  /\ At(p, "reprocess", "fetch")
        /\ IF ~task[p].seen /\ "input" \in scratch[m]
           THEN Run(p) /\ UNCHANGED <<scratch, cold, active>>
           ELSE \/ /\ task[p].seen /\ Original \in store[m]
                   /\ scratch' = [scratch EXCEPT ![m] = @ \cup {"input"}]
                   /\ cold' = cold \ {ScratchDir(m)}
                   /\ Run(p) /\ UNCHANGED active
                \/ End(p) /\ active' = active \ {task[p].video} /\ UNCHANGED <<scratch, cold>>
        /\ UNCHANGED <<tables, store, chunks, Past>>

-----------------------------------------------------------------------------
(* finalizeExternalUpload *)

\* The files the client lists: `wanted` renditions, none of them for a bundle that
\* breaks the folder contract.  A call for a movie being finalized joins that one.
AskFinalize(p, m, wanted) ==
    /\ \A q \in Procs : task[q] # None => ~(task[q].op = "finalize" /\ task[q].movie = m)
    /\ Ask(p, "finalize", "load", m, None, wanted)

\* Only UPLOADING and FAILED are acted on; READY_TO_PUBLISH is answered from the
\* latest video and nothing is written.
LoadMovie(p) ==
    LET m == task[p].movie
    IN  /\ At(p, "finalize", "load")
        /\ IF movie[m] \in FinalizableMovieStatuses
           THEN Proceed(p, [task[p] EXCEPT !.at = IF task[p].todo = {} THEN "reject" ELSE "verify", !.seen = movie[m]])
           ELSE End(p)
        /\ UNCHANGED <<tables, store, disk, active, Past>>

\* A slip: the client's word for the playlists is enough.
VerifyOriginal(p) ==
    /\ At(p, "finalize", "verify")
    /\ Goto(p, IF Original \in store[task[p].movie] THEN "create" ELSE "reject")
    /\ UNCHANGED <<tables, store, disk, active, Past>>

\* The original, the master and each listed playlist must be in the store.
VerifyObjects(p) ==
    LET m == task[p].movie
        required == {Original, Master} \cup {Index(t) : t \in task[p].todo}
    IN  /\ At(p, "finalize", "verify")
        /\ Goto(p, IF required \subseteq store[m] THEN "create" ELSE "reject")
        /\ UNCHANGED <<tables, store, disk, active, Past>>

\* A slip: the last status is written without looking at the one in the row.
SettleUnconditionally(p) ==
    LET m == task[p].movie
    IN  /\ At(p, "finalize", "reject") \/ At(p, "finalize", "flip")
        /\ movie' = [movie EXCEPT ![m] = IF @ = None THEN None
                                         ELSE IF task[p].at = "flip" THEN "READY_TO_PUBLISH" ELSE "FAILED"]
        /\ End(p)
        /\ UNCHANGED <<video, session, store, disk, active, Past>>

\* markMovieFailed and the last flip: a compare-and-set on the status read at the start.
Settle(p) ==
    LET m == task[p].movie
    IN  /\ At(p, "finalize", "reject") \/ At(p, "finalize", "flip")
        /\ movie' = [movie EXCEPT ![m] = IF @ # task[p].seen THEN @
                                         ELSE IF task[p].at = "flip" THEN "READY_TO_PUBLISH" ELSE "FAILED"]
        /\ End(p)
        /\ UNCHANGED <<video, session, store, disk, active, Past>>

-----------------------------------------------------------------------------
(* Everybody else *)

\* The small files of a bundle, and the large one, arrive as in Multipart.
Deliver(m, o) ==
    /\ movie[m] # None /\ o \notin store[m]
    /\ Land(m, o)
    /\ UNCHANGED <<tables, disk, active, task, requests, stranded>>

\* MoviesService.update
SetStatus(m, status) ==
    /\ movie[m] \notin {None, status} /\ requests < MaxRequests
    /\ movie' = [movie EXCEPT ![m] = status]
    /\ requests' = requests + 1
    /\ UNCHANGED <<video, session, store, disk, active, task, stranded, unsent>>

\* MoviesService.remove: the row and all that hangs on it, then the objects.
DeleteMovie(p, m) ==
    /\ movie[m] # None /\ task[p] = None /\ requests < MaxRequests
    /\ movie' = [movie EXCEPT ![m] = None]
    /\ video' = [v \in DOMAIN video |-> IF Row(v) /\ video[v].movie = m THEN None ELSE video[v]]
    /\ session' = [i \in DOMAIN session |-> IF session[i] # None /\ session[i].file.movie = m THEN None ELSE session[i]]
    /\ Proceed(p, [op |-> "delete", at |-> "wipe", movie |-> m, session |-> None, todo |-> {}, video |-> None, seen |-> None])
    /\ requests' = requests + 1
    /\ UNCHANGED <<store, disk, active, stranded, unsent>>

Wipe(p) ==
    /\ At(p, "delete", "wipe")
    /\ store' = [store EXCEPT ![task[p].movie] = {}]
    /\ End(p)
    /\ UNCHANGED <<tables, disk, active, Past>>

\* sweepStaleLocalScratch: the directories a row still owns are read first (a
\* session that may be resumed, a title with a video PROCESSING), then what nothing
\* was added to for a day is removed, one directory after the other.
Owned ==
    {Dir(i) : i \in {i \in DOMAIN session : InProgress(i) /\ session[i].age < 2}}
    \cup {ScratchDir(video[v].movie) : v \in {v \in DOMAIN video : Row(v) /\ video[v].status = "PROCESSING"}}
Directories == {Dir(i) : i \in {i \in DOMAIN chunks : chunks[i] # None}} \cup {ScratchDir(m) : m \in {m \in Movies : scratch[m] # {}}}

StartSweep ==
    /\ task[Cron] = None /\ cold \cap (Directories \ Owned) # {}     \* otherwise it removes nothing
    /\ Proceed(Cron, [op |-> "sweep", at |-> "list", movie |-> None, session |-> None, video |-> None, seen |-> None,
                      todo |-> Owned])
    /\ UNCHANGED <<tables, store, disk, active, Past>>

ListScratch ==
    /\ At(Cron, "sweep", "list")
    /\ Proceed(Cron, [task[Cron] EXCEPT !.at = "rm", !.todo = Directories \ @])
    /\ UNCHANGED <<tables, store, disk, active, Past>>

\* A slip: the owners are asked, the directory's own age is not.
SweepDirectoryAnyAge ==
    /\ At(Cron, "sweep", "rm")
    /\ IF task[Cron].todo \cap Directories = {} THEN End(Cron) /\ UNCHANGED <<chunks, scratch>>
       ELSE \E d \in task[Cron].todo \cap Directories :
              /\ chunks' = [i \in DOMAIN chunks |-> IF Dir(i) = d THEN None ELSE chunks[i]]
              /\ scratch' = [m \in Movies |-> IF ScratchDir(m) = d THEN {} ELSE scratch[m]]
              /\ Proceed(Cron, [task[Cron] EXCEPT !.todo = @ \ {d}])
    /\ UNCHANGED <<tables, store, cold, active, Past>>

\* A directory that cannot be removed is left and logged.
SweepDirectory ==
    /\ At(Cron, "sweep", "rm")
    /\ IF task[Cron].todo \cap Directories \cap cold = {} THEN End(Cron) /\ UNCHANGED <<chunks, scratch>>
       ELSE \E d \in task[Cron].todo \cap Directories \cap cold :
              /\ \/ /\ chunks' = [i \in DOMAIN chunks |-> IF Dir(i) = d THEN None ELSE chunks[i]]
                    /\ scratch' = [m \in Movies |-> IF ScratchDir(m) = d THEN {} ELSE scratch[m]]
                 \/ UNCHANGED <<chunks, scratch>>
              /\ Proceed(Cron, [task[Cron] EXCEPT !.todo = @ \ {d}])
    /\ UNCHANGED <<tables, store, cold, active, Past>>

\* A request lasts minutes; a transcode may last longer.
DayPasses ==
    /\ \A p \in Workers : task[p] = None \/ At(p, "run", "encode")
    /\ session' = [i \in DOMAIN session |->
                     IF InProgress(i) /\ session[i].age < 2 THEN [session[i] EXCEPT !.age = @ + 1] ELSE session[i]]
    /\ cold' = Directories
    /\ <<session, cold>>' # <<session, cold>>
    /\ UNCHANGED <<movie, video, store, chunks, scratch, active, task, Past>>

Restart ==
    /\ requests < MaxRequests
    /\ \E p \in Workers : task[p] # None
    /\ Forget
    /\ requests' = requests + 1
    /\ UNCHANGED <<tables, store, disk, unsent>>

-----------------------------------------------------------------------------

\* What the process may find: a title whose last run failed or was cut off has a
\* video, one that has none may be waiting for its bundle.
ASSUME StartIsSound ==
    \A s \in Start :
       /\ s.movie \in [Movies -> MovieStatus \cup {None}]
       /\ s.video \in Seq(Video \cup {None}) /\ Len(s.video) <= MaxVideos
       /\ \A v \in DOMAIN s.video : s.video[v] # None =>
             s.video[v].status \in {"PROCESSING", "FAILED"} /\ s.movie[s.video[v].movie] # None
       /\ s.session \in Seq(Session \cup {None})
       /\ s.chunks \in Seq({None} \cup SUBSET Chunks) /\ Len(s.chunks) = Len(s.session)
       /\ s.store \in [Movies -> SUBSET Assets]
       /\ s.scratch \in [Movies -> SUBSET {"input", "tier"}]

Init ==
    /\ \E s \in Start :
          /\ movie = s.movie /\ video = s.video /\ session = s.session
          /\ store = s.store /\ chunks = s.chunks /\ scratch = s.scratch
    /\ cold = {} /\ active = {}
    /\ task = [p \in Workers |-> None]
    /\ requests = 0 /\ stranded = {}
    /\ unsent = {mt \in Movies \X Tiers : Index(mt[2]) \in store[mt[1]] /\ Segments(mt[2]) \notin store[mt[1]]}

Receive(p) ==
    \/ \E f \in Files : AskInit(p, f)
    \/ \E i \in DOMAIN session : AskComplete(p, i)
    \/ \E m \in Movies : AskReprocess(p, m) \/ DeleteMovie(p, m) \/ \E wanted \in SUBSET Tiers : AskFinalize(p, m, wanted)
Upload(p) ==
    \/ FindSession(p) \/ Resume(p) \/ InsertSession(p) \/ MakeDir(p)
    \/ CheckChunks(p) \/ Merge(p) \/ PutMerged(p) \/ CreateVideo(p) \/ CloseSession(p) \/ CleanChunks(p) \/ StartRun(p)
Pipeline(p) ==
    \/ MarkProcessing(p) \/ Archive(p) \/ RecordPath(p) \/ NextTier(p) \/ Encode(p) \/ Push(p) \/ PutMaster(p)
    \/ CleanScratch(p) \/ MarkReady(p) \/ Publish(p) \/ MarkFailed(p) \/ BackToDraft(p)
Reprocess(p) == Claim(p) \/ FetchOriginal(p)
Finalize(p) == LoadMovie(p) \/ VerifyObjects(p) \/ Settle(p)
Handle(p) == Upload(p) \/ Pipeline(p) \/ Reprocess(p) \/ Finalize(p) \/ Wipe(p)

Next ==
    \/ \E p \in Procs : Receive(p) \/ Handle(p) \/ Throw(p)
    \/ \E i \in DOMAIN session, c \in Chunks : SaveChunk(i, c)
    \/ \E m \in Movies : \/ \E o \in Bundle : Deliver(m, o)
                         \/ \E t \in Tiers : Straggle(m, t)
                         \/ \E status \in AdminStatuses : SetStatus(m, status)
    \/ StartSweep \/ ListScratch \/ SweepDirectory \/ DayPasses \/ Restart

Spec == Init /\ [][Next]_vars /\ \A p \in Procs : WF_vars(Pipeline(p) \/ Reprocess(p))

-----------------------------------------------------------------------------
(* Properties *)

TypeOK ==
    /\ movie \in [Movies -> MovieStatus \cup {None}]
    /\ video \in Seq(Video \cup {None}) /\ Len(video) <= MaxVideos
    /\ session \in Seq(Session \cup {None})
    /\ chunks \in Seq({None} \cup SUBSET Chunks) /\ Len(chunks) = Len(session)
    /\ store \in [Movies -> SUBSET Assets]
    /\ scratch \in [Movies -> SUBSET {"input", "tier"}]
    /\ active \subseteq DOMAIN video
    /\ \A p \in Procs : task[p] \in Request \cup {None}
    /\ task[Cron] \in SweepTask \cup {None}
    /\ stranded \subseteq DOMAIN video /\ unsent \subseteq Movies \X Tiers

\* Through failures, restarts, two uploads of one title and a bundle finalized over
\* a transcode, a title keeps to its lifecycle: READY never says more than the store
\* holds, but for the segments of a rendition somebody broke off sending, the pipeline
\* publishes only what can be played, a finalize that ends late takes nothing back from
\* an administrator, and a deleted title stays deleted.
Playable(m) == {v \in Videos(m) : video[v].status = "READY"}
Playlists(renditions) == {Original, Master} \cup {Index(t) : t \in renditions}
Content(renditions) == Playlists(renditions) \cup {Segments(t) : t \in renditions}
Offered == [m \in Movies |-> UNION {Content(video[v].renditions) : v \in Playable(m)}]
Partial == [m \in Movies |-> {Segments(t) : t \in {t \in Tiers : <<m, t>> \in unsent}}]
Lifecycle == INSTANCE TitleLifecycle
    WITH status <- movie, stored <- store, Statuses <- MovieStatus, offered <- Offered, partial <- Partial
ASSUME LifecycleStatuses == Lifecycle!StatusesKnown
ImplementsLifecycle == Lifecycle!Spec

\* The same of the objects alone: whatever a READY video names, segments included, is in
\* the store, unless it belongs to a rendition whose sending broke off, is under way or
\* is left to a client; and a deleted title offers nothing.
ReadyIsBacked == Lifecycle!OfferIsBacked

\* What the pipeline's comment says of a retry: only renditions that were sent to the
\* end are skipped, so that whatever a READY video names is in the store.
OfferedIsComplete == \A m \in Movies : Offered[m] \subseteq store[m]

\* The in-memory claim is what tells a running transcode from an orphaned one: it is
\* always somebody's, so it is given back on every way out, ...
Claims(p) == IF task[p] # None /\ (task[p].op = "run" \/ At(p, "reprocess", "fetch")) THEN {task[p].video} ELSE {}
ClaimIsHeld == active = UNION {Claims(p) : p \in Procs}
\* ... and nobody else's: no two runs write the files of one video.
OneRunPerVideo == \A p, q \in Procs : p # q => Claims(p) \cap Claims(q) = {}

\* Claims and rows tell the truth about what is going on.
ClaimsAreKept == TypeOK /\ ClaimIsHeld /\ OneRunPerVideo

\* A video that is still UPLOADING is in the hands of a request that will start its run
\* or finish its bundle, or that request threw or died: no path through it forgets the
\* video.  (Nothing picks up a stranded one: a reprocess refuses it.)
UploadingIsWorkedOn ==
    \A v \in DOMAIN video :
        Row(v) /\ video[v].status = "UPLOADING"
            => v \in stranded \/ \E p \in Procs : task[p] # None /\ task[p].video = v

\* The scratch sweep reads its owners once and the directories later: it never takes
\* the chunks of an upload the client could still go on with.
SweepSparesResumable ==
    [][\A i \in DOMAIN session :
          chunks[i] # None /\ chunks'[i] = None /\ InProgress(i) /\ session[i].age < 2
              => \E p \in Procs : task[p] # None /\ task[p].session = i]_vars

\* Every claim is released in the end: a run that lost its row, its files or ffmpeg
\* ends as well.
RunsEnd == \A v \in 1 .. MaxVideos : v \in active ~> v \notin active
=============================================================================
