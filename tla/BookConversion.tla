--------------------------- MODULE BookConversion ---------------------------
(***************************************************************************)
(* From a chapter's PDF to its pages (BookProcessingService, and           *)
(* startProcessing of BooksService): the claim in memory, the run in the   *)
(* background with its pool of workers, and what is left of it when it     *)
(* fails.  A worker whose run has failed goes on until its files are gone. *)
(* Every call of the database, the store or a converter may throw.         *)
(***************************************************************************)
EXTENDS BookTables

Status(c) == chapter[c].status
\* A write to a chapter row, by id.
Patch(c, row) == chapter' = [chapter EXCEPT ![c] = row]
Keeps == UNCHANGED <<edition, part, section, mark, requests, rest>>

\* The browser sends a PDF to the chapter's key.
PutPdf(c, n) ==
    /\ "upload" \in doors /\ requests < MaxRequests
    /\ type = "PDF" /\ c \in Rows(chapter) /\ n # pdf[c]
    /\ pdf' = [pdf EXCEPT ![c] = n]
    /\ requests' = requests + 1
    /\ UNCHANGED <<contents, page, object, claimed, task, rest>>

AskStart(p, c) ==
    /\ type = "PDF" /\ c \in Rows(chapter)
    /\ Ask(p, [Idle EXCEPT !.op = "start", !.at = "claim", !.id = c])

\* A slip: the release in the handler covers the refusal as well.
ClaimAndRelease(p) ==
    LET c == task[p].id
    IN  /\ At(p, "start", "claim")
        /\ IF c \in claimed THEN End(p) /\ claimed' = claimed \ {c}
           ELSE claimed' = claimed \cup {c} /\ Goto(p, "size")
        /\ UNCHANGED <<contents, pages, requests, rest>>

\* reserve: checked and added without an await in between.
Claim(p) ==
    LET c == task[p].id
    IN  /\ At(p, "start", "claim")
        /\ IF c \in claimed THEN End(p) /\ UNCHANGED claimed
           ELSE claimed' = claimed \cup {c} /\ Goto(p, "size")
        /\ UNCHANGED <<contents, pages, requests, rest>>

\* A slip: the claim outlives a request that is refused.
SizeUpHolding(p) ==
    LET c == task[p].id
    IN  /\ At(p, "start", "size")
        /\ IF pdf[c] = 0 \/ chapter[c] = None THEN End(p)
           ELSE Proceed(p, [task[p] EXCEPT !.op = "run", !.at = "load"])
        /\ UNCHANGED <<contents, pages, claimed, requests, rest>>

\* objectSize and the row's pdfKey; whatever throws, the claim is released, else
\* processChapter is called and not awaited.
SizeUp(p) ==
    LET c == task[p].id
    IN  /\ At(p, "start", "size")
        /\ \/ End(p) /\ claimed' = claimed \ {c}
           \/ /\ pdf[c] > 0 /\ chapter[c] # None
              /\ Proceed(p, [task[p] EXCEPT !.op = "run", !.at = "load"]) /\ UNCHANGED claimed
        /\ UNCHANGED <<contents, pages, requests, rest>>

-----------------------------------------------------------------------------
(* runPipeline *)

\* What an update of a row that is gone does, and what any step does that throws.
Fail(p) == Goto(p, "failed") /\ UNCHANGED <<chapter, pages>>

\* The row; without it there is nothing to do.
Load(p) ==
    /\ At(p, "run", "load")
    /\ Fail(p) \/ Goto(p, IF chapter[task[p].id] = None THEN "over" ELSE "mark")
    /\ Reads

MarkProcessing(p) ==
    LET c == task[p].id
    IN  /\ At(p, "run", "mark")
        /\ \/ Fail(p) /\ UNCHANGED stranded
           \/ /\ chapter[c] # None
              /\ Patch(c, [chapter[c] EXCEPT !.status = "PROCESSING"]) /\ Disturb(p, [task[p] EXCEPT !.at = "fetch"])
              /\ stranded' = stranded \ {c} /\ UNCHANGED pages
        /\ UNCHANGED <<edition, part, section, mark, claimed, requests, type, doors, crashes>>

\* downloadFile and probePdf.
Fetch(p) ==
    LET c == task[p].id
    IN  /\ At(p, "run", "fetch")
        /\ \/ Fail(p)
           \/ pdf[c] > 0 /\ Proceed(p, [task[p] EXCEPT !.at = "done", !.seen = pdf[c]]) /\ UNCHANGED <<chapter, pages>>
        /\ UNCHANGED claimed /\ Keeps

\* The pages that made it through an earlier run.
ReadDone(p) ==
    /\ At(p, "run", "done")
    /\ Fail(p) \/ Proceed(p, [task[p] EXCEPT !.at = "count", !.done = Pages(task[p].id)])
    /\ Reads

\* The workers start on the first pages.
FirstPages(pending) ==
    [h \in Hands |-> IF h > Cardinality(pending) THEN None
                     ELSE [at |-> "render", page |-> CHOOSE n \in pending : Cardinality({k \in pending : k <= n}) = h]]
Count(p) ==
    LET c == task[p].id  t == task[p]
        pending == (1 .. t.seen) \ t.done
    IN  /\ At(p, "run", "count")
        /\ \/ Fail(p)
           \/ /\ chapter[c] # None
              /\ Patch(c, [chapter[c] EXCEPT !.pageCount = t.seen, !.processed = Cardinality(t.done)])
                /\ Proceed(p, [t EXCEPT !.at = "work", !.hands = FirstPages(pending),
                                     !.todo = {n \in pending : Cardinality({k \in pending : k <= n}) > Cardinality(Hands)}])
                /\ UNCHANGED pages
        /\ UNCHANGED claimed /\ Keeps

\* The workers of p, those of a run that is over among them.
Working(p) == task[p] # None /\ task[p].op = "run" /\ task[p].at \in {"work", "failed", "over", "left"}
Busy(p) == task[p].hands # <<>> /\ \E h \in Hands : task[p].hands[h] # None
HandAt(p, h, at) == Working(p) /\ task[p].hands # <<>> /\ task[p].hands[h] # None /\ task[p].hands[h].at = at
Hand(p, h, s) == [task[p] EXCEPT !.hands[h] = s]
\* A worker that throws: the first one fails the run, the others are not heard.
Throw(p, h) == Proceed(p, [Hand(p, h, None) EXCEPT !.at = IF @ = "work" THEN "failed" ELSE @])

\* renderPdfPageToPng: the scratch directory goes with the run.
Render(p, h) ==
    /\ HandAt(p, h, "render")
    /\ \/ Throw(p, h)
       \/ task[p].at # "left" /\ Proceed(p, Hand(p, h, [task[p].hands[h] EXCEPT !.at = "upload"]))
    /\ Reads

\* A slip: the row comes before the bytes.
UploadLate(p, h) ==
    LET c == task[p].id  n == task[p].hands[h].page
    IN  /\ HandAt(p, h, "upload")
        /\ IF chapter[c] = None \/ <<c, n>> \in page THEN Throw(p, h) /\ UNCHANGED page
           ELSE page' = page \cup {<<c, n>>} /\ Proceed(p, Hand(p, h, [page |-> n, at |-> "count"]))
        /\ UNCHANGED <<contents, object, pdf, claimed, requests, rest>>

Upload(p, h) ==
    LET c == task[p].id  n == task[p].hands[h].page
    IN  /\ HandAt(p, h, "upload")
        /\ \/ Throw(p, h) /\ UNCHANGED object
           \/ object' = object \cup {<<c, n>>} /\ Proceed(p, Hand(p, h, [page |-> n, at |-> "row"]))
        /\ UNCHANGED <<contents, page, pdf, claimed, requests, rest>>

\* The row after the bytes, for a chapter that is there and a page that has none yet.
InsertPage(p, h) ==
    LET c == task[p].id  n == task[p].hands[h].page
    IN  /\ HandAt(p, h, "row")
        /\ \/ Throw(p, h) /\ UNCHANGED page
           \/ /\ chapter[c] # None /\ <<c, n>> \notin page
              /\ page' = page \cup {<<c, n>>} /\ Proceed(p, Hand(p, h, [page |-> n, at |-> "count"]))
        /\ UNCHANGED <<contents, object, pdf, claimed, requests, rest>>

\* processedPages, one more; the worker shifts from the queue again, whether its run
\* still stands or not.
CountPage(p, h) ==
    LET c == task[p].id  n == CHOOSE n \in task[p].todo : \A k \in task[p].todo : n <= k
        next == IF task[p].todo = {} THEN Hand(p, h, None)
                ELSE [Hand(p, h, [page |-> n, at |-> "render"]) EXCEPT !.todo = @ \ {n}]
    IN  /\ HandAt(p, h, "count")
        /\ \/ Throw(p, h) /\ UNCHANGED chapter
           \/ chapter[c] # None /\ Patch(c, [chapter[c] EXCEPT !.processed = @ + 1]) /\ Proceed(p, next)
        /\ UNCHANGED <<pages, claimed>> /\ Keeps

\* A slip: a run is done when its queue is empty.
ReadyEarly(p) ==
    LET c == task[p].id
    IN  /\ At(p, "run", "work") /\ task[p].todo = {}
        /\ IF chapter[c] = None THEN Fail(p)
           ELSE Patch(c, [chapter[c] EXCEPT !.status = "READY"]) /\ Goto(p, "over") /\ UNCHANGED pages
        /\ UNCHANGED claimed /\ Keeps

\* Promise.all: every worker is back.
Ready(p) ==
    LET c == task[p].id
    IN  /\ At(p, "run", "work") /\ task[p].todo = {} /\ ~Busy(p)
        /\ \/ Fail(p)
           \/ chapter[c] # None /\ Patch(c, [chapter[c] EXCEPT !.status = "READY"]) /\ Goto(p, "over") /\ UNCHANGED pages
        /\ UNCHANGED claimed /\ Keeps

\* A slip: the failure is logged and the row is left as it was.
OnlyLogged(p) ==
    /\ At(p, "run", "failed")
    /\ Goto(p, "over")
    /\ Reads

\* The handler: FAILED, unless the chapter is gone; a failure that cannot be recorded
\* is logged, and the row stays as it was.
MarkFailed(p) ==
    LET c == task[p].id
    IN  /\ At(p, "run", "failed")
        /\ \/ /\ chapter[c] # None /\ Patch(c, [chapter[c] EXCEPT !.status = "FAILED"])
              /\ Disturb(p, [task[p] EXCEPT !.at = "over"]) /\ UNCHANGED stranded
           \/ stranded' = stranded \cup {c} /\ Goto(p, "over") /\ UNCHANGED chapter
        /\ UNCHANGED <<edition, part, section, mark, pages, claimed, requests, type, doors, crashes>>

\* The scratch directory and the claim are given up; workers may be left behind.
Release(p) ==
    /\ At(p, "run", "over")
    /\ claimed' = claimed \ {task[p].id}
    /\ IF Busy(p) THEN Goto(p, "left") ELSE End(p)
    /\ UNCHANGED <<contents, pages, requests, rest>>

\* The last of them is gone.
Leave(p) == At(p, "run", "left") /\ ~Busy(p) /\ End(p) /\ Reads

\* The process stops and starts; the claims are gone with it.
Restart ==
    /\ crashes < MaxCrashes
    /\ crashes' = crashes + 1
    /\ task' = [p \in Procs |-> None]
    /\ claimed' = {} /\ stranded' = stranded \cup claimed
    /\ UNCHANGED <<contents, pages, requests, type, doors>>
=============================================================================
