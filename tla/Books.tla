-------------------------------- MODULE Books --------------------------------
(***************************************************************************)
(* A book at work: its staff, its readers and the conversion of its PDFs   *)
(* (BooksService and BookProcessingService over the rows of BookTables).   *)
(***************************************************************************)
EXTENDS BookContents, BookConversion, SequencesExt

ASSUME HandsNumbered == IsFiniteSet(Hands) /\ Hands = 1 .. Cardinality(Hands)

ASSUME PagesAreCounted == MaxPages \in Nat
\* None is no row, no number and no worker.
ASSUME NoneIsNothing ==
    /\ None \notin Nat /\ None \notin Edition /\ None \notin Part /\ None \notin Chapter /\ None \notin Section
    /\ \A n \in 1 .. MaxPages, at \in {"render", "upload", "row", "count"} : [at |-> at, page |-> n] # None

Orders(ids) == {list \in [1 .. Cardinality(ids) -> ids] : IsInjective(list)}

Init ==
    \E s \in Start :
        /\ type = s.type /\ edition = s.edition /\ part = s.part /\ chapter = s.chapter /\ section = s.section
        /\ mark = s.mark /\ page = s.page /\ object = s.page /\ pdf = s.pdf /\ doors = s.doors
        /\ claimed = {} /\ task = [p \in Procs |-> None] /\ requests = s.requests /\ crashes = s.crashes
        /\ stranded = {c \in Rows(chapter) : chapter[c].status = "PROCESSING"}

Arrive(p) ==
    \/ \E l \in Languages : AskAddEdition(p, l)
    \/ \E e \in Rows(edition) :
          \/ AskRemoveEdition(p, e) \/ AskCreatePart(p, e)
          \/ \E s \in {"DRAFT", "PUBLISHED"} : AskStatus(p, e, s)
          \/ \E x \in Parts(e) \cup {None} : AskCreateChapter(p, e, x)
          \/ \E list \in Orders(Chapters(e)) : AskReorder(p, e, list)
          \/ \E list \in Orders(Parts(e)) : AskReorderParts(p, e, list)
          \/ \E staff \in BOOLEAN : AskContents(p, e, staff)
          \/ \E c \in Rows(chapter) \cup {None}, s \in Rows(section) \cup {None} : AskMark(p, e, c, s)
    \/ \E c \in Rows(chapter) :
          \/ AskDeleteChapter(p, c) \/ AskStart(p, c)
          \/ \E x \in Rows(part) \cup {None} : AskMove(p, c, x)
          \/ \E n \in (1 .. MaxPages) \cup {None} : AskCreateSection(p, c, n)
          \/ \E list \in Orders(Sections(c)) : AskReorderSections(p, c, list)
    \/ \E x \in Rows(part) : AskDeletePart(p, x)
    \/ \E s \in Rows(section) : AskDeleteSection(p, s) \/ \E n \in 1 .. MaxPages : AskMoveSection(p, s, n)

Edit(p) ==
    \/ InsertEdition(p) \/ AllowStatus(p) \/ WriteStatus(p) \/ CountEditions(p) \/ DeleteEdition(p)
    \/ ReadParts(p) \/ ReadChapters(p) \/ Renumber(p)
    \/ InsertChapter(p) \/ MoveChapter(p) \/ DeleteChapter(p) \/ Clean(p) \/ CleanDocuments(p) \/ WriteOrder(p)
    \/ InsertPart(p) \/ WritePartOrder(p) \/ DeletePart(p)
    \/ InsertSection(p) \/ MoveSection(p) \/ ReadSections(p) \/ ResortSections(p) \/ WriteSectionOrder(p) \/ DeleteSection(p)
    \/ Mark(p) \/ ReadContents(p) \/ Answer(p)

Convert(p) ==
    \/ Claim(p) \/ SizeUp(p)
    \/ Load(p) \/ MarkProcessing(p) \/ Fetch(p) \/ ReadDone(p) \/ Count(p)
    \/ \E h \in Hands : Render(p, h) \/ Upload(p, h) \/ InsertPage(p, h) \/ CountPage(p, h)
    \/ Ready(p) \/ MarkFailed(p) \/ Release(p) \/ Leave(p)

Next ==
    \/ \E p \in Procs : Arrive(p) \/ Edit(p) \/ Convert(p)
    \/ \E c \in Rows(chapter), n \in 1 .. MaxPages : PutPdf(c, n)
    \/ Restart

\* What is under way takes its next step: the event loop runs, and each query and each
\* call of the store or of a converter returns or throws.
Fairness == \A p \in Procs : WF_vars(Convert(p))
Spec == Init /\ [][Next]_vars /\ Fairness

-----------------------------------------------------------------------------
(* Properties *)

\* The rows of four tables, each pointing to rows that are there.
Linked(ed, pt, ch, sc) ==
    /\ \A e \in Rows(ed) : ed[e] \in Edition
    /\ \A x \in Rows(pt) : pt[x] \in Part /\ pt[x].edition \in Rows(ed)
    /\ \A c \in Rows(ch) :
          /\ ch[c] \in Chapter /\ ch[c].edition \in Rows(ed)
          /\ ch[c].part = None \/ (ch[c].part \in Rows(pt) /\ pt[ch[c].part].edition = ch[c].edition)
    /\ \A s \in Rows(sc) : sc[s] \in Section /\ sc[s].chapter \in Rows(ch)
\* Every row is of its table's type and points to rows that are there; a page is one of a
\* chapter that is there.
TypeOK ==
    /\ Linked(edition, part, chapter, section)
    /\ page \subseteq Rows(chapter) \X (1 .. MaxPages)
    /\ claimed \subseteq DOMAIN chapter

\* The contents a reader is shown hold every chapter that was read, once, numbered
\* 1..n, the unparted ones first and each part in one piece in the order of the
\* parts, even when the chapters and the parts were read at different moments
\* (canonicalChapterOrder, "rather than vanishing").
TreeIsWhole ==
    \A p \in Procs : task[p] # None /\ Answered(p) =>
        LET rows == task[p].rows  parts == task[p].parts
            N(c) == Number(parts, rows, c)
            G(c) == IF rows[c].part \in DOMAIN parts THEN PartNumber(parts, rows[c].part) ELSE 0
        IN  /\ Listed(parts, rows) = DOMAIN rows
            /\ {N(c) : c \in DOMAIN rows} = 1 .. Cardinality(DOMAIN rows)
            /\ \A c, d \in DOMAIN rows : N(c) < N(d) => G(c) <= G(d)

\* The page ranges shown for the sections of a PDF chapter run forwards, end inside
\* the chapter once it is converted, and do not run into the next section's, also
\* after a shorter PDF took the place of a longer one (numberSections).
RangesForward ==
    \A p \in Procs : task[p] # None /\ Answered(p) => \A c \in DOMAIN task[p].rows :
        LET S == task[p].sections[c]
            n == task[p].rows[c].pageCount
            Paged == {s \in DOMAIN S : S[s].page # None}
        IN  \A s \in Paged :
              /\ StartPage(S, s, n) <= EndPage(S, s, n)
              /\ n > 0 => EndPage(S, s, n) <= n
              /\ \A r \in Paged : SectionNumber(S, s) < SectionNumber(S, r) =>
                    \/ EndPage(S, s, n) < StartPage(S, r, n)
                    \/ StartPage(S, s, n) = StartPage(S, r, n)

\* The bookmarks of four tables, each in a place that is there.
Agrees(ed, ch, sc, mk) ==
    \A e \in Rows(ed) : mk[e] # None =>
        /\ mk[e].section # None => mk[e].section \in Rows(sc) /\ mk[e].chapter = sc[mk[e].section].chapter
        /\ mk[e].chapter # None => mk[e].chapter \in Rows(ch) /\ ch[mk[e].chapter].edition = e
\* A bookmark in a section is in that section's chapter, and both are of the
\* bookmark's edition, whatever was deleted since (updateReadingProgress: "a
\* consistent (chapter, section) pair").
BookmarkAgrees == Agrees(edition, chapter, section, mark)

Canonical(e) ==
    LET parts == [x \in Parts(e) |-> part[x]]
        rows == [c \in Chapters(e) |-> chapter[c]]
    IN  ReadingOrder(parts, rows) = <<>>
\* The order a client sent is kept within each group.
Honoured(p) ==
    LET list == task[p].list
    IN  task[p].op = "reorder" => \A i, j \in DOMAIN list : i < j =>
            \/ chapter'[list[i]].part # chapter'[list[j]].part
            \/ chapter'[list[i]].order < chapter'[list[j]].order
SortedByPage(c) ==
    \A s, r \in Sections(c) : PageOrZero(section[s]) < PageOrZero(section[r]) => section[s].order < section[r].order

\* A request that moves chapters or parts and that no other write came between leaves
\* the stored order canonical (normalizeReadingOrder: "Every mutation that can break
\* the grouping ends here") and keeps the order it was sent; one that places a
\* section leaves the sections in page order.
SettlesAlone ==
    [][\A p \in Procs :
         /\ Renumber(p) /\ task[p].alone => Honoured(p) /\ \A e \in DOMAIN edition : e = task[p].edition => Canonical(e)'
         /\ ResortSections(p) /\ task[p].alone => \A c \in DOMAIN chapter : c = task[p].id => SortedByPage(c)']_vars

\* A language that goes live by a request that found it not live, and that no other
\* write came between, holds a chapter a reader can open: text, or a PDF with every
\* page (assertStatusChangeAllowed).
LiveHasContent ==
    [][\A e \in Rows(edition) : edition'[e] # None /\ edition[e].status # "PUBLISHED" /\ edition'[e].status = "PUBLISHED" =>
         \E p \in Procs : /\ At(p, "status", "write") /\ task'[p] = None
                          /\ task[p].alone /\ task[p].was # "PUBLISHED" => \E c \in Chapters(e) : type = "PDF" =>
                                chapter[c].pageCount > 0 /\ \A n \in 1 .. chapter[c].pageCount : <<c, n>> \in page]_vars

\* A page row stands for bytes in the store: "its existence is the resume marker, so
\* it must never precede the bytes" (convertPage), and a deletion takes the row first.
PageHasBytes == page \subseteq object

\* The READY chapters of a PDF book have their pages.
Whole(ch, pg) ==
    \A c \in Rows(ch) : ch[c].status = "READY" => ch[c].pageCount > 0 /\ \A n \in 1 .. ch[c].pageCount : <<c, n>> \in pg
\* A PDF chapter that is READY has pages, and every one up to its pageCount, whatever
\* failed, was retried or was left behind by an earlier run.
ReadyIsComplete == type = "PDF" => Whole(chapter, page)

\* At most one request or run holds a chapter, and it holds the claim (reserve: "of N
\* simultaneous start requests exactly one gets true").
Holds(p, c) == task[p] # None /\ task[p].id = c
               /\ (At(p, "start", "size") \/ (task[p].op = "run" /\ task[p].at # "left"))
OneRunPerChapter ==
    \A c \in DOMAIN chapter : /\ \A p, q \in Procs : Holds(p, c) /\ Holds(q, c) => p = q
                              /\ \A p \in Procs : Holds(p, c) => c \in claimed

\* A chapter that says PROCESSING is claimed, or its last run ended without a word: the
\* process stopped, or the failure could not be recorded.  It is "unambiguously orphaned
\* and safe to retry" (activeChapterIds) whichever of the two it was.
ProcessingIsClaimedOrStranded ==
    \A c \in Rows(chapter) : chapter[c].status = "PROCESSING" => c \in claimed \/ c \in stranded

\* The books to start from are such books: of the table's types, with what readers and
\* conversions rely on.
ASSUME StartIsSound ==
    \A s \in Start :
        /\ s.edition \in Seq(Edition \cup {None}) /\ s.part \in Seq(Part \cup {None})
        /\ s.chapter \in Seq(Chapter \cup {None}) /\ s.section \in Seq(Section \cup {None})
        /\ s.mark \in Seq([chapter : Nat \cup {None}, section : Nat \cup {None}] \cup {None})
        /\ Len(s.mark) = Len(s.edition)
        /\ Linked(s.edition, s.part, s.chapter, s.section)
        /\ \A i \in Rows(s.section) : s.section[i].page \in (1 .. MaxPages) \cup {None}
        /\ Agrees(s.edition, s.chapter, s.section, s.mark)
        /\ s.page \subseteq Rows(s.chapter) \X (1 .. MaxPages)
        /\ s.pdf \in Seq(0 .. MaxPages) /\ Len(s.pdf) = Len(s.chapter)
        /\ s.type = "PDF" => Whole(s.chapter, s.page)
        /\ s.crashes \in Nat

\* Every claim is given up: a conversion ends READY or FAILED, or with the process,
\* and the chapter can be started again.
ClaimsEnd == \A c \in 1 .. MaxRows : (c \in claimed) ~> (c \notin claimed)

-----------------------------------------------------------------------------
(* What is claimed, by subject *)

\* What a reader is shown hangs together.
ContentsAreWhole == TypeOK /\ TreeIsWhole /\ RangesForward /\ BookmarkAgrees
\* What a conversion leaves behind is what its rows say, and nobody else's.
ConversionIsSafe == PageHasBytes /\ ReadyIsComplete /\ OneRunPerChapter /\ ProcessingIsClaimedOrStranded
\* A change that no other write came between leaves the contents in order.
ChangesKeepOrder == SettlesAlone /\ LiveHasContent
=============================================================================
