---------------------------- MODULE BookContents ----------------------------
(***************************************************************************)
(* Editions, parts, chapters, sections and the bookmark (BooksService).    *)
(* A request reads what it checks when it is let in; what it reads again,  *)
(* and each write, is a step of its own.  Only the writes of one list run  *)
(* in a transaction.                                                       *)
(***************************************************************************)
EXTENDS BookTables

\* Chapters that are gone, with what the schema takes along: their sections and pages
\* go, a bookmark keeps its row and loses its place.
Without(gone) ==
    LET lost == {s \in Rows(section) : section[s].chapter \in gone}
    IN  /\ chapter' = [c \in DOMAIN chapter |-> IF c \in gone THEN None ELSE chapter[c]]
        /\ section' = [s \in DOMAIN section |-> IF s \in lost THEN None ELSE section[s]]
        /\ page' = {r \in page : r[1] \notin gone}
        /\ mark' = [e \in DOMAIN mark |->
                      IF mark[e] = None \/ edition'[e] = None THEN None
                      ELSE [chapter |-> IF mark[e].chapter \in gone THEN None ELSE mark[e].chapter,
                            section |-> IF mark[e].section \in lost THEN None ELSE mark[e].section]]

\* editionOrThrow, assertChapterInEdition, partOrThrow: the row, of this edition.
HasChapter(e, c) == c \in Rows(chapter) /\ chapter[c].edition = e
HasPart(e, x) == x \in Rows(part) /\ part[x].edition = e

-----------------------------------------------------------------------------
(* Editions *)

AskAddEdition(p, l) ==
    /\ Rows(edition) # {}
    /\ \A e \in Rows(edition) : edition[e].language # l
    /\ Ask(p, [Idle EXCEPT !.op = "addEdition", !.at = "insert", !.word = l])

\* The unique index on book and language has the last word.
InsertEdition(p) ==
    /\ At(p, "addEdition", "insert")
    /\ IF \E e \in Rows(edition) : edition[e].language = task[p].word THEN UNCHANGED <<edition, mark>>
       ELSE /\ Len(edition) < MaxRows
            /\ edition' = Append(edition, [language |-> task[p].word, status |-> "DRAFT", published |-> FALSE])
            /\ mark' = Append(mark, None)
    /\ End(p)
    /\ UNCHANGED <<part, chapter, section, pages>> /\ Writes

\* updateEdition: the row is read, then the READY chapters are counted.
AskStatus(p, e, s) ==
    /\ e \in Rows(edition)
    /\ Ask(p, [Idle EXCEPT !.op = "status", !.at = "count", !.edition = e, !.word = s, !.was = edition[e].status])

\* A slip: any chapter will do.
AllowStatusEmpty(p) ==
    /\ At(p, "status", "count")
    /\ IF task[p].word = "PUBLISHED" /\ task[p].was # "PUBLISHED" /\ Chapters(task[p].edition) = {} THEN End(p)
       ELSE Goto(p, "write")
    /\ Reads

\* assertStatusChangeAllowed.
AllowStatus(p) ==
    LET ready == {c \in Chapters(task[p].edition) : chapter[c].status = "READY"}
    IN  /\ At(p, "status", "count")
        /\ IF task[p].word = "PUBLISHED" /\ task[p].was # "PUBLISHED" /\ ready = {} THEN End(p)
           ELSE Goto(p, "write")
        /\ Reads

WriteStatus(p) ==
    LET e == task[p].edition
    IN  /\ At(p, "status", "write")
        /\ edition' = IF edition[e] = None THEN edition
                      ELSE [edition EXCEPT ![e].status = task[p].word,
                                           ![e].published = @ \/ task[p].word = "PUBLISHED"]
        /\ End(p)
        /\ UNCHANGED <<part, chapter, section, mark, pages>> /\ Writes

AskRemoveEdition(p, e) ==
    /\ e \in Rows(edition)
    /\ Ask(p, [Idle EXCEPT !.op = "removeEdition", !.at = "count", !.edition = e])

CountEditions(p) ==
    /\ At(p, "removeEdition", "count")
    /\ IF Cardinality(Rows(edition)) <= 1 THEN End(p) ELSE Goto(p, "delete")
    /\ Reads

DeleteEdition(p) ==
    LET e == task[p].edition
    IN  /\ At(p, "removeEdition", "delete")
        /\ IF edition[e] = None THEN End(p) /\ UNCHANGED <<contents, page>>
           ELSE /\ edition' = [edition EXCEPT ![e] = None]
                /\ part' = [x \in DOMAIN part |-> IF HasPart(e, x) THEN None ELSE part[x]]
                /\ Without(Chapters(e))
                /\ Disturb(p, [task[p] EXCEPT !.at = "clean",
                                              !.todo = Chapters(e)])
        /\ UNCHANGED <<object, pdf>> /\ Writes

-----------------------------------------------------------------------------
(* The reading order *)

Planned == {"create", "move", "reorder", "reorderParts", "deletePart"}
\* normalizeReadingOrder begins; what it reads is filled in.
Regroup(p) == [task[p] EXCEPT !.at = "plan"]

\* The parts and the chapters are read side by side.
ReadParts(p) ==
    /\ \E o \in Planned : At(p, o, "plan")
    /\ task[p].parts = None
    /\ Proceed(p, [task[p] EXCEPT !.parts = [x \in Parts(task[p].edition) |-> part[x]]])
    /\ Reads

ReadChapters(p) ==
    /\ \E o \in Planned : At(p, o, "plan")
    /\ task[p].rows = None
    /\ Proceed(p, [task[p] EXCEPT !.rows = [c \in Chapters(task[p].edition) |-> chapter[c]]])
    /\ Reads

\* A slip: the rows keep the order they were created in.
RenumberNothing(p) ==
    /\ \E o \in Planned : At(p, o, "plan")
    /\ task[p].parts # None /\ task[p].rows # None
    /\ End(p)
    /\ Reads

\* The rows that moved, in one transaction: a row that is gone undoes it.
Renumber(p) ==
    LET order == ReadingOrder(task[p].parts, task[p].rows)
    IN  /\ \E o \in Planned : At(p, o, "plan")
        /\ task[p].parts # None /\ task[p].rows # None
        /\ IF order = <<>> \/ ~(DOMAIN order \subseteq Rows(chapter)) THEN End(p) /\ UNCHANGED chapter
           ELSE /\ chapter' = [c \in DOMAIN chapter |-> IF c \in DOMAIN order THEN [chapter[c] EXCEPT !.order = order[c]]
                                                        ELSE chapter[c]]
                /\ Disturb(p, None)
        /\ UNCHANGED <<edition, part, section, mark, pages>> /\ Writes

-----------------------------------------------------------------------------
(* Chapters *)

AskCreateChapter(p, e, x) ==
    /\ e \in Rows(edition) /\ (x = None \/ HasPart(e, x))
    /\ Ask(p, [Idle EXCEPT !.op = "create", !.at = "insert", !.edition = e, !.arg = x,
                           !.seen = AfterLast(chapter, Chapters(e))])

\* The order was read before; the foreign keys want the edition and the part.
InsertChapter(p) ==
    LET e == task[p].edition  x == task[p].arg
    IN  /\ At(p, "create", "insert")
        /\ IF edition[e] = None \/ (x # None /\ part[x] = None) THEN End(p) /\ UNCHANGED <<chapter, pdf>>
           ELSE /\ Len(chapter) < MaxRows
                /\ chapter' = Append(chapter, [edition |-> e, part |-> x, order |-> task[p].seen, pageCount |-> 0, processed |-> 0,
                                               status |-> IF type = "EDITOR" THEN "READY" ELSE "DRAFT"])
                /\ pdf' = Append(pdf, 0)
                /\ Disturb(p, IF x = None THEN None ELSE Regroup(p))
        /\ UNCHANGED <<edition, part, section, mark, page, object>> /\ Writes

\* A slip: the part is not asked for its edition.
AskMoveAnywhere(p, c, x) ==
    /\ c \in Rows(chapter) /\ (x = None \/ x \in Rows(part))
    /\ Ask(p, [Idle EXCEPT !.op = "move", !.at = "write", !.edition = chapter[c].edition, !.id = c, !.arg = x,
                           !.seen = chapter[c].part])

AskMove(p, c, x) ==
    /\ c \in Rows(chapter) /\ (x = None \/ HasPart(chapter[c].edition, x))
    /\ Ask(p, [Idle EXCEPT !.op = "move", !.at = "write", !.edition = chapter[c].edition, !.id = c, !.arg = x,
                           !.seen = chapter[c].part])

MoveChapter(p) ==
    LET c == task[p].id  x == task[p].arg
    IN  /\ At(p, "move", "write")
        /\ IF chapter[c] = None \/ (x # None /\ part[x] = None) THEN End(p) /\ UNCHANGED chapter
           ELSE /\ chapter' = [chapter EXCEPT ![c].part = x]
                /\ Disturb(p, IF x = task[p].seen THEN None ELSE Regroup(p))
        /\ UNCHANGED <<edition, part, section, mark, pages>> /\ Writes

AskDeleteChapter(p, c) ==
    /\ c \in Rows(chapter)
    /\ Ask(p, [Idle EXCEPT !.op = "deleteChapter", !.at = "delete", !.id = c])

DeleteChapter(p) ==
    LET c == task[p].id
    IN  /\ At(p, "deleteChapter", "delete")
        /\ IF chapter[c] = None THEN End(p) /\ UNCHANGED <<contents, page>>
           ELSE /\ UNCHANGED edition
                /\ Without({c})
                /\ Disturb(p, [task[p] EXCEPT !.at = "clean", !.todo = {c}])
        /\ UNCHANGED <<part, object, pdf>> /\ Writes

\* deleteByPrefix, the pages and then the documents; it may fail, which is only logged.
Clean(p) ==
    /\ At(p, "deleteChapter", "clean") \/ At(p, "removeEdition", "clean")
    /\ \/ UNCHANGED <<object, pdf>> /\ End(p)
       \/ /\ object' = {r \in object : r[1] \notin task[p].todo}
          /\ Goto(p, "documents")
          /\ UNCHANGED pdf
    /\ UNCHANGED <<contents, page>> /\ Writes

CleanDocuments(p) ==
    /\ At(p, "deleteChapter", "documents") \/ At(p, "removeEdition", "documents")
    /\ pdf' \in {pdf, [c \in DOMAIN pdf |-> IF c \in task[p].todo THEN 0 ELSE pdf[c]]}
    /\ End(p)
    /\ UNCHANGED <<contents, page, object>> /\ Writes

\* Every id of the list, each once.
Complete(list, ids) == Len(list) = Cardinality(ids) /\ {list[i] : i \in DOMAIN list} = ids
Place(list, i) == CHOOSE n \in DOMAIN list : list[n] = i
Renumbered(table, list) == [i \in DOMAIN table |-> IF \E n \in DOMAIN list : list[n] = i
                                                   THEN [table[i] EXCEPT !.order = Place(list, i)] ELSE table[i]]
AllThere(table, list) == \A n \in DOMAIN list : table[list[n]] # None

AskReorder(p, e, list) ==
    /\ e \in Rows(edition) /\ Complete(list, Chapters(e))
    /\ Ask(p, [Idle EXCEPT !.op = "reorder", !.at = "write", !.edition = e, !.list = list])

WriteOrder(p) ==
    /\ At(p, "reorder", "write")
    /\ IF AllThere(chapter, task[p].list)
       THEN chapter' = Renumbered(chapter, task[p].list) /\ Disturb(p, Regroup(p))
       ELSE End(p) /\ UNCHANGED chapter
    /\ UNCHANGED <<edition, part, section, mark, pages>> /\ Writes

-----------------------------------------------------------------------------
(* Parts *)

AskCreatePart(p, e) ==
    /\ e \in Rows(edition)
    /\ Ask(p, [Idle EXCEPT !.op = "createPart", !.at = "insert", !.edition = e, !.seen = AfterLast(part, Parts(e))])

InsertPart(p) ==
    LET e == task[p].edition
    IN  /\ At(p, "createPart", "insert")
        /\ IF edition[e] = None THEN End(p) /\ UNCHANGED part
           ELSE /\ Len(part) < MaxRows
                /\ part' = Append(part, [edition |-> e, order |-> task[p].seen])
                /\ Disturb(p, None)
        /\ UNCHANGED <<edition, chapter, section, mark, pages>> /\ Writes

AskReorderParts(p, e, list) ==
    /\ e \in Rows(edition) /\ Complete(list, Parts(e))
    /\ Ask(p, [Idle EXCEPT !.op = "reorderParts", !.at = "write", !.edition = e, !.list = list])

WritePartOrder(p) ==
    /\ At(p, "reorderParts", "write")
    /\ IF AllThere(part, task[p].list)
       THEN part' = Renumbered(part, task[p].list) /\ Disturb(p, Regroup(p))
       ELSE End(p) /\ UNCHANGED part
    /\ UNCHANGED <<edition, chapter, section, mark, pages>> /\ Writes

AskDeletePart(p, x) ==
    /\ x \in Rows(part)
    /\ Ask(p, [Idle EXCEPT !.op = "deletePart", !.at = "delete", !.edition = part[x].edition, !.id = x])

\* The chapters stay, unparted.
DeletePart(p) ==
    LET x == task[p].id
    IN  /\ At(p, "deletePart", "delete")
        /\ IF part[x] = None THEN End(p) /\ UNCHANGED <<part, chapter>>
           ELSE /\ part' = [part EXCEPT ![x] = None]
                /\ chapter' = [c \in DOMAIN chapter |-> IF chapter[c] # None /\ chapter[c].part = x
                                                        THEN [chapter[c] EXCEPT !.part = None] ELSE chapter[c]]
                /\ Disturb(p, Regroup(p))
        /\ UNCHANGED <<edition, section, mark, pages>> /\ Writes

-----------------------------------------------------------------------------
(* Sections *)

\* assertSectionShape: a page the chapter has, that no other section starts on.
ShapeAllowed(c, s, n) ==
    IF type = "EDITOR" THEN n = None
    ELSE /\ n # None /\ n <= AtLeast(chapter[c].pageCount, 1)
         /\ \A r \in Sections(c) \ {s} : section[r].page # n

AskCreateSection(p, c, n) ==
    /\ c \in Rows(chapter) /\ ShapeAllowed(c, None, n)
    /\ Ask(p, [Idle EXCEPT !.op = "createSection", !.at = "insert", !.id = c, !.arg = n,
                           !.seen = AfterLast(section, Sections(c))])

InsertSection(p) ==
    LET c == task[p].id
    IN  /\ At(p, "createSection", "insert")
        /\ IF chapter[c] = None THEN End(p) /\ UNCHANGED section
           ELSE /\ Len(section) < MaxRows
                /\ section' = Append(section, [chapter |-> c, order |-> task[p].seen, page |-> task[p].arg])
                /\ Disturb(p, IF type = "EDITOR" THEN None ELSE [task[p] EXCEPT !.at = "sort"])
        /\ UNCHANGED <<edition, part, chapter, mark, pages>> /\ Writes

\* updateSection: a new start page.
AskMoveSection(p, s, n) ==
    /\ s \in Rows(section) /\ type = "PDF" /\ section[s].page # n /\ ShapeAllowed(section[s].chapter, s, n)
    /\ Ask(p, [Idle EXCEPT !.op = "moveSection", !.at = "write", !.id = section[s].chapter, !.seen = s, !.arg = n])

MoveSection(p) ==
    LET s == task[p].seen
    IN  /\ At(p, "moveSection", "write")
        /\ IF section[s] = None THEN End(p) /\ UNCHANGED section
           ELSE section' = [section EXCEPT ![s].page = task[p].arg] /\ Disturb(p, [task[p] EXCEPT !.at = "sort"])
        /\ UNCHANGED <<edition, part, chapter, mark, pages>> /\ Writes

\* resortPdfSections: the sections are read, then those that moved are written.
ReadSections(p) ==
    /\ At(p, "createSection", "sort") \/ At(p, "moveSection", "sort")
    /\ Proceed(p, [task[p] EXCEPT !.at = "resort", !.sections = [s \in Sections(task[p].id) |-> section[s]]])
    /\ Reads

ResortSections(p) ==
    LET read == task[p].sections
        moved == {s \in DOMAIN read : read[s].order # SectionNumber(read, s)}
    IN  /\ At(p, "createSection", "resort") \/ At(p, "moveSection", "resort")
        /\ IF moved = {} \/ ~(moved \subseteq Rows(section)) THEN End(p) /\ UNCHANGED section
           ELSE /\ section' = [s \in DOMAIN section |-> IF s \in moved THEN [section[s] EXCEPT !.order = SectionNumber(read, s)]
                                                        ELSE section[s]]
                /\ Disturb(p, None)
        /\ UNCHANGED <<edition, part, chapter, mark, pages>> /\ Writes

AskReorderSections(p, c, list) ==
    /\ c \in Rows(chapter) /\ type = "EDITOR" /\ Complete(list, Sections(c))
    /\ Ask(p, [Idle EXCEPT !.op = "reorderSections", !.at = "write", !.id = c, !.list = list])

WriteSectionOrder(p) ==
    /\ At(p, "reorderSections", "write")
    /\ IF AllThere(section, task[p].list)
       THEN section' = Renumbered(section, task[p].list) /\ Disturb(p, None)
       ELSE End(p) /\ UNCHANGED section
    /\ UNCHANGED <<edition, part, chapter, mark, pages>> /\ Writes

AskDeleteSection(p, s) ==
    /\ s \in Rows(section)
    /\ Ask(p, [Idle EXCEPT !.op = "deleteSection", !.at = "delete", !.id = s])

DeleteSection(p) ==
    LET s == task[p].id
    IN  /\ At(p, "deleteSection", "delete")
        /\ IF section[s] = None THEN End(p) /\ UNCHANGED <<section, mark>>
           ELSE /\ section' = [section EXCEPT ![s] = None]
                /\ mark' = [e \in DOMAIN mark |-> IF mark[e] # None /\ mark[e].section = s
                                                  THEN [mark[e] EXCEPT !.section = None] ELSE mark[e]]
                /\ Disturb(p, None)
        /\ UNCHANGED <<edition, part, chapter, pages>> /\ Writes

-----------------------------------------------------------------------------
(* Readers *)

\* assertEditionVisible, for a reader or for the staff.
Visible(e, staff) == e \in Rows(edition) /\ (staff \/ edition[e].status = "PUBLISHED")

\* updateReadingProgress: a chapter of the edition, a section of it, or neither.
AskMark(p, e, c, s) ==
    /\ Visible(e, FALSE)
    /\ c = None \/ HasChapter(e, c)
    /\ s = None \/ (s \in Rows(section) /\ HasChapter(e, section[s].chapter) /\ c \in {None, section[s].chapter})
    /\ Ask(p, [Idle EXCEPT !.op = "mark", !.at = "upsert", !.edition = e, !.id = c, !.seen = s,
                           !.arg = IF s = None THEN None ELSE section[s].chapter])

\* A slip: the client names the chapter, or nobody does.
MarkAsAsked(p) ==
    LET e == task[p].edition  c == task[p].id  s == task[p].seen
    IN  /\ At(p, "mark", "upsert")
        /\ mark' = IF edition[e] # None /\ (c = None \/ chapter[c] # None) /\ (s = None \/ section[s] # None)
                   THEN [mark EXCEPT ![e] = [chapter |-> c, section |-> s]] ELSE mark
        /\ End(p)
        /\ UNCHANGED <<edition, part, chapter, section, pages>> /\ Writes

\* A section implies its chapter; the foreign keys want both.
Mark(p) ==
    LET e == task[p].edition  s == task[p].seen
        c == IF task[p].id # None THEN task[p].id ELSE task[p].arg
    IN  /\ At(p, "mark", "upsert")
        /\ mark' = IF edition[e] # None /\ (c = None \/ chapter[c] # None) /\ (s = None \/ section[s] # None)
                   THEN [mark EXCEPT ![e] = [chapter |-> c, section |-> s]] ELSE mark
        /\ End(p)
        /\ UNCHANGED <<edition, part, chapter, section, pages>> /\ Writes

\* getContents, getChapters: the chapters, then their sections and the parts side by side.
AskContents(p, e, staff) ==
    /\ Visible(e, staff)
    /\ Ask(p, [Idle EXCEPT !.op = "contents", !.at = "read", !.edition = e])

ReadContents(p) ==
    LET e == task[p].edition
    IN  /\ At(p, "contents", "read")
        /\ \/ task[p].rows = None /\ Proceed(p, [task[p] EXCEPT !.rows = [c \in Chapters(e) |-> chapter[c]]])
           \/ /\ task[p].rows # None /\ task[p].parts = None
              /\ Proceed(p, [task[p] EXCEPT !.parts = [x \in Parts(e) |-> part[x]]])
           \/ /\ task[p].rows # None /\ task[p].sections = None
              /\ Proceed(p, [task[p] EXCEPT !.sections = [c \in DOMAIN task[p].rows |-> [s \in Sections(c) |-> section[s]]]])
        /\ Reads

\* The tree is built of what was read.
Answered(p) == At(p, "contents", "read") /\ task[p].rows # None /\ task[p].parts # None /\ task[p].sections # None
Answer(p) == Answered(p) /\ End(p) /\ Reads
=============================================================================
