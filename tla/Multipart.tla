----------------------------- MODULE Multipart -----------------------------
(***************************************************************************)
(* Uploads that go from the browser straight into the object store         *)
(* (MultipartUploadService, UploadCleanupService's first sweep): the one   *)
(* large file of a bundle as a multipart upload of the store with a        *)
(* MultipartUploadSession row beside it, the small files as single         *)
(* presigned PUTs.  Store and database are written by different steps, and *)
(* a crash or the nightly sweep may come between any two.                  *)
(***************************************************************************)
EXTENDS Naturals, Sequences, FiniteSets

CONSTANTS
    Movies,         \* the owning rows (a series episode is a movie)
    Assets,         \* the files of a bundle, by the object they become
    Large,          \* the one above the multipart threshold
    Parts,          \* the parts it is sent in
    Procs,          \* requests and background runs in progress at the same time
    None,
    MaxUploads,     \* bound: multipart uploads ever started
    MaxRequests,    \* bound: requests let in
    MaxCrashes      \* bound: restarts of the process

ASSUME LargeIsAsset == Large \in Assets
ASSUME PartsKnown == IsFiniteSet(Parts) /\ Parts # {}
ASSUME BoundIsNatural == MaxUploads \in Nat

VARIABLES
    movie,          \* movie[m]: the status of the row, or None without the row
    store,          \* store[m]: the objects under the prefixes of m
    upload,         \* the store's multipart uploads, oldest first
    session,        \* the MultipartUploadSession rows, oldest first
    task,           \* task[p]: what p is doing, or None
    requests,
    crashes

multipartVars == <<movie, store, upload, session, task, requests, crashes>>

Cron == "cron"      \* the scheduled job
Workers == Procs \cup {Cron}

\* ABANDONED_SESSION_AGE_MS: two days.
Abandoned == 2

Upload == [movie : Movies, parts : SUBSET Parts, open : BOOLEAN, age : 0 .. Abandoned]
Session == [movie : Movies, upload : 1 .. MaxUploads, age : 0 .. Abandoned,
            status : {"IN_PROGRESS", "COMPLETED", "FAILED"}]

InProgress(j) == session[j].status = "IN_PROGRESS"
\* The rows findMany returns for a cutoff of two days.
Stale(ms) == {j \in DOMAIN session : InProgress(j) /\ session[j].movie \in ms /\ session[j].age = Abandoned}

-----------------------------------------------------------------------------
(* Requests *)

Proceed(p, t) == task' = [task EXCEPT ![p] = t]
Goto(p, at) == Proceed(p, [task[p] EXCEPT !.at = at])
End(p) == Proceed(p, None)
At(p, op, at) == task[p] # None /\ task[p].op = op /\ task[p].at = at

\* A request is let in; who may ask is Access' business.
Ask(p, t) ==
    /\ task[p] = None /\ requests < MaxRequests
    /\ Proceed(p, t)
    /\ requests' = requests + 1

AskInit(p, m) ==
    /\ movie[m] # None /\ Len(upload) < MaxUploads
    /\ Ask(p, [op |-> "init", at |-> "find", movie |-> m, session |-> None, todo |-> {}, upload |-> None])
    /\ UNCHANGED <<movie, store, upload, session, crashes>>

\* The newest session in progress for this object, if there is one.
FindSession(p) ==
    /\ At(p, "init", "find")
    /\ LET found == {j \in DOMAIN session : InProgress(j) /\ session[j].movie = task[p].movie}
       IN  IF found = {} THEN Goto(p, "stale")
           ELSE Proceed(p, [task[p] EXCEPT !.at = "list",
                                           !.session = CHOOSE j \in found : \A i \in found : i <= j])
    /\ UNCHANGED <<movie, store, upload, session, requests, crashes>>

\* listUploadedPartsIfLive: an upload the store still has is resumed, one it does
\* not know any more makes the row stale.
ListParts(p) ==
    /\ At(p, "init", "list")
    /\ IF upload[session[task[p].session].upload].open THEN End(p) ELSE Goto(p, "fail")
    /\ UNCHANGED <<movie, store, upload, session, requests, crashes>>

FailStale(p) ==
    /\ At(p, "init", "fail")
    /\ session' = [session EXCEPT ![task[p].session].status = "FAILED"]
    /\ Goto(p, "stale")
    /\ UNCHANGED <<movie, store, upload, requests, crashes>>

\* The abandoned rows, of one object before a new upload or of all of them at night.
ReadStale(p) ==
    /\ \/ At(p, "init", "stale")
       \/ At(p, "sweep", "stale")
    /\ Proceed(p, [task[p] EXCEPT !.at = "abort",
                                  !.todo = Stale(IF task[p].op = "init" THEN {task[p].movie} ELSE Movies)])
    /\ UNCHANGED <<movie, store, upload, session, requests, crashes>>

\* abortMultipartUpload: an upload that is already gone is no error.
AbortStale(p) ==
    /\ task[p] # None /\ task[p].op \in {"init", "sweep"} /\ task[p].at = "abort"
    /\ IF task[p].todo = {}
       THEN /\ Goto(p, IF task[p].op = "init" THEN "create" ELSE "uploads")
            /\ UNCHANGED upload
       ELSE \E j \in task[p].todo :
              /\ upload' = [upload EXCEPT ![session[j].upload].open = FALSE]
              /\ Proceed(p, [task[p] EXCEPT !.at = "mark", !.session = j, !.todo = @ \ {j}])
    /\ UNCHANGED <<movie, store, session, requests, crashes>>

MarkAborted(p) ==
    /\ task[p] # None /\ task[p].at = "mark" /\ task[p].op \in {"init", "sweep", "abort"}
    /\ session' = [session EXCEPT ![task[p].session].status = "FAILED"]
    /\ IF task[p].op = "abort" THEN End(p) ELSE Goto(p, "abort")
    /\ UNCHANGED <<movie, store, upload, requests, crashes>>

\* createMultipartUpload, and the row after it: between the two the store holds an
\* upload the database knows nothing about.
CreateUpload(p) ==
    /\ At(p, "init", "create") /\ Len(upload) < MaxUploads
    /\ upload' = Append(upload, [movie |-> task[p].movie, parts |-> {}, open |-> TRUE, age |-> 0])
    /\ Proceed(p, [task[p] EXCEPT !.at = "insert", !.upload = Len(upload')])
    /\ UNCHANGED <<movie, store, session, requests, crashes>>

InsertSession(p) ==
    /\ At(p, "init", "insert")
    /\ session' = Append(session, [movie |-> task[p].movie, upload |-> task[p].upload, age |-> 0,
                                   status |-> "IN_PROGRESS"])
    /\ End(p)
    /\ UNCHANGED <<movie, store, upload, requests, crashes>>

\* A part arrives over a presigned URL of getPartUrls; the service is not asked.
PutPart(j, n) ==
    LET i == session[j].upload
    IN  /\ upload[i].open /\ n \notin upload[i].parts
        /\ upload' = [upload EXCEPT ![i].parts = @ \cup {n}]
        /\ UNCHANGED <<movie, store, session, task, requests, crashes>>

\* getActiveSessionOrThrow and the number of parts the client lists.
AskComplete(p, j) ==
    /\ InProgress(j)
    /\ Ask(p, [op |-> "assemble", at |-> "assemble", session |-> j])
    /\ UNCHANGED <<movie, store, upload, session, crashes>>

\* A slip: an upload the store no longer has is taken for one completed earlier.
AssembleTrusting(p) ==
    LET j == task[p].session
        i == session[j].upload
    IN  /\ At(p, "assemble", "assemble")
        /\ IF upload[i].open /\ upload[i].parts = Parts
           THEN /\ store' = [store EXCEPT ![session[j].movie] = @ \cup {Large}]
                /\ upload' = [upload EXCEPT ![i].open = FALSE]
                /\ Goto(p, "close")
           ELSE /\ IF upload[i].open THEN End(p) ELSE Goto(p, "close")
                /\ UNCHANGED <<store, upload>>
        /\ UNCHANGED <<movie, session, requests, crashes>>

\* completeMultipartUpload: the store puts the object together, or refuses because
\* a part is missing or it knows no such upload.
Assemble(p) ==
    LET j == task[p].session
        i == session[j].upload
    IN  /\ At(p, "assemble", "assemble")
        /\ IF upload[i].open /\ upload[i].parts = Parts
           THEN /\ store' = [store EXCEPT ![session[j].movie] = @ \cup {Large}]
                /\ upload' = [upload EXCEPT ![i].open = FALSE]
                /\ Goto(p, "close")
           ELSE /\ End(p)
                /\ UNCHANGED <<store, upload>>
        /\ UNCHANGED <<movie, session, requests, crashes>>

CloseSession(p) ==
    /\ At(p, "assemble", "close")
    /\ session' = [session EXCEPT ![task[p].session].status = "COMPLETED"]
    /\ End(p)
    /\ UNCHANGED <<movie, store, upload, requests, crashes>>

\* abortMultipart asks for the row only, whatever its status.
AskAbort(p, j) ==
    /\ Ask(p, [op |-> "abort", at |-> "abort", session |-> j])
    /\ UNCHANGED <<movie, store, upload, session, crashes>>

AbortUpload(p) ==
    /\ At(p, "abort", "abort")
    /\ upload' = [upload EXCEPT ![session[task[p].session].upload].open = FALSE]
    /\ Goto(p, "mark")
    /\ UNCHANGED <<movie, store, session, requests, crashes>>

\* presignBatch and the browser's PUT: no row, and no state but the object.
AskPut(p, m, a) ==
    /\ movie[m] # None /\ a \in Assets \ ({Large} \cup store[m])
    /\ Ask(p, [op |-> "put", at |-> "put", movie |-> m, asset |-> a])
    /\ UNCHANGED <<movie, store, upload, session, crashes>>

PutAsset(p) ==
    /\ At(p, "put", "put")
    /\ store' = [store EXCEPT ![task[p].movie] = @ \cup {task[p].asset}]
    /\ End(p)
    /\ UNCHANGED <<movie, upload, session, requests, crashes>>

-----------------------------------------------------------------------------
(* The nightly sweep *)

StartSweep ==
    /\ task[Cron] = None
    /\ \/ Stale(Movies) # {}                                    \* otherwise it changes nothing
       \/ \E i \in DOMAIN upload : upload[i].open /\ upload[i].age = Abandoned
    /\ Proceed(Cron, [op |-> "sweep", at |-> "stale", session |-> None, todo |-> {}])
    /\ UNCHANGED <<movie, store, upload, session, requests, crashes>>

\* listInProgressMultipartUploads, with the age each upload has at this moment.
ListUploads ==
    /\ At(Cron, "sweep", "uploads")
    /\ Proceed(Cron, [task[Cron] EXCEPT !.at = "known",
                        !.todo = {<<i, upload[i].age>> : i \in {i \in DOMAIN upload : upload[i].open}}])
    /\ UNCHANGED <<movie, store, upload, session, requests, crashes>>

\* A slip: an upload without a row is an orphan, however young.
ReadKnownAnyAge ==
    /\ At(Cron, "sweep", "known")
    /\ LET known == {session[j].upload : j \in DOMAIN session}
       IN  Proceed(Cron, [task[Cron] EXCEPT !.at = "reap", !.todo = {u[1] : u \in {u \in @ : u[1] \notin known}}])
    /\ UNCHANGED <<movie, store, upload, session, requests, crashes>>

\* The rows of those uploads: what has none and is two days old is an orphan.
ReadKnown ==
    /\ At(Cron, "sweep", "known")
    /\ LET known == {session[j].upload : j \in DOMAIN session}
       IN  Proceed(Cron, [task[Cron] EXCEPT !.at = "reap",
                            !.todo = {u[1] : u \in {u \in @ : u[1] \notin known /\ u[2] = Abandoned}}])
    /\ UNCHANGED <<movie, store, upload, session, requests, crashes>>

\* A slip: the reverse sweep is left out, rows are all it knows.
ReapNothing ==
    /\ At(Cron, "sweep", "reap")
    /\ End(Cron)
    /\ UNCHANGED <<movie, store, upload, session, requests, crashes>>

Reap ==
    /\ At(Cron, "sweep", "reap")
    /\ IF task[Cron].todo = {}
       THEN End(Cron) /\ UNCHANGED upload
       ELSE \E i \in task[Cron].todo :
              /\ upload' = [upload EXCEPT ![i].open = FALSE]
              /\ Proceed(Cron, [task[Cron] EXCEPT !.todo = @ \ {i}])
    /\ UNCHANGED <<movie, store, session, requests, crashes>>

-----------------------------------------------------------------------------

\* A slip: the age is counted on.
OlderUncapped(s) == [i \in DOMAIN s |-> [s[i] EXCEPT !.age = @ + 1]]

\* A request lasts minutes, never a day.
Older(s) == [i \in DOMAIN s |-> [s[i] EXCEPT !.age = IF @ < Abandoned THEN @ + 1 ELSE @]]

DayPasses ==
    /\ \A p \in Workers : task[p] = None
    /\ Older(upload) # upload \/ Older(session) # session
    /\ upload' = Older(upload) /\ session' = Older(session)
    /\ UNCHANGED <<movie, store, task, requests, crashes>>

\* The process stops and starts again: what was under way is forgotten.
Restart ==
    /\ crashes < MaxCrashes
    /\ \E p \in Workers : task[p] # None
    /\ task' = [p \in Workers |-> None]
    /\ crashes' = crashes + 1
    /\ UNCHANGED <<movie, store, upload, session, requests>>

InitMultipart(p) ==
    \/ FindSession(p) \/ ListParts(p) \/ FailStale(p) \/ ReadStale(p) \/ AbortStale(p)
    \/ MarkAborted(p) \/ CreateUpload(p) \/ InsertSession(p)
SweepStep == ReadStale(Cron) \/ AbortStale(Cron) \/ MarkAborted(Cron) \/ ListUploads \/ ReadKnown \/ Reap
Receive(p) ==
    \/ \E m \in Movies : AskInit(p, m) \/ \E a \in Assets : AskPut(p, m, a)
    \/ \E j \in DOMAIN session : AskComplete(p, j) \/ AskAbort(p, j)
Handle(p) == InitMultipart(p) \/ Assemble(p) \/ CloseSession(p) \/ AbortUpload(p) \/ PutAsset(p)

MultipartNext ==
    \/ \E p \in Procs : Receive(p) \/ Handle(p)
    \/ \E j \in DOMAIN session, n \in Parts : PutPart(j, n)
    \/ StartSweep \/ SweepStep \/ DayPasses \/ Restart

MultipartInit ==
    /\ movie = [m \in Movies |-> "UPLOADING"]
    /\ store = [m \in Movies |-> {}]
    /\ upload = <<>> /\ session = <<>>
    /\ task = [p \in Workers |-> None]
    /\ requests = 0 /\ crashes = 0

MultipartSpec ==
    /\ MultipartInit /\ [][MultipartNext]_multipartVars
    /\ WF_multipartVars(StartSweep) /\ WF_multipartVars(SweepStep)
    /\ \A p \in Procs : WF_multipartVars(Handle(p))

-----------------------------------------------------------------------------
(* Properties *)

MultipartTypeOK ==
    /\ upload \in Seq(Upload) /\ Len(upload) <= MaxUploads
    /\ session \in Seq(Session)
    /\ store \in [Movies -> SUBSET Assets]

\* Whatever the sweep, an abort, a crash or a second request does in between, a
\* session the client was told is COMPLETED has its object in the store.
CompletedIsStored ==
    \A j \in DOMAIN session :
        session[j].status = "COMPLETED" /\ movie[session[j].movie] # None => Large \in store[session[j].movie]
SessionsAreTrue == MultipartTypeOK /\ CompletedIsStored

\* The sweep of one night reads rows and uploads at different moments: it still
\* never takes away an upload younger than two days, the one just created whose row
\* is not inserted yet included.
SweepSparesYoung ==
    [][\A i \in DOMAIN upload :
          upload[i].open /\ ~upload'[i].open /\ upload[i].age < Abandoned
              => \E p \in Procs : \/ At(p, "assemble", "assemble") /\ session[task[p].session].upload = i
                                  \/ At(p, "abort", "abort") /\ session[task[p].session].upload = i]_multipartVars

\* Every upload that is left open, by a client that gave up or by a crash before its
\* row was written, is in the end completed or aborted.
LeftoversReclaimed ==
    \A i \in 1 .. MaxUploads :
        (i \in DOMAIN upload /\ upload[i].open /\ upload[i].age = Abandoned)
            ~> (i \in DOMAIN upload /\ ~upload[i].open)
=============================================================================
