----------------------------- MODULE BookTables -----------------------------
(***************************************************************************)
(* The rows and objects of one book, the requests that work on them, and   *)
(* the numbering of its contents (book-numbering.ts).  Ids are handed out  *)
(* in order, so that a lower id is the older row.                          *)
(***************************************************************************)
EXTENDS Naturals, Sequences, FiniteSets

CONSTANTS
    Procs,          \* requests and conversions in progress at the same time
    Hands,          \* PAGE_CONCURRENCY: the workers of one conversion
    Languages,
    None,
    MaxPages,       \* bound: pages of a PDF
    MaxRows,        \* bound: rows ever created, of each kind
    MaxRequests,    \* bound: requests let in
    MaxCrashes,     \* bound: restarts of the process
    Start           \* the books to start from, each with the requests let in

VARIABLES
    type,           \* EDITOR or PDF, for good
    edition,        \* the BookEdition rows, oldest first; None once deleted
    part,           \* the BookPart rows
    chapter,        \* the BookChapter rows
    section,        \* the BookSection rows
    mark,           \* mark[e]: the reader's bookmark in edition e, or None
    page,           \* the BookPage rows, <<chapter, number>>
    object,         \* the converted pages in the store, <<chapter, number>>
    pdf,            \* pdf[c]: the pages of the PDF uploaded for chapter c, 0 without one
    claimed,        \* BookProcessingService.activeChapterIds, in memory
    task,           \* task[p]: what p is doing, or None
    doors,          \* the kinds of request let in; never changes
    requests,
    crashes,
    stranded        \* history: the chapters whose last run ended without a word

contents == <<edition, part, chapter, section, mark>>
pages == <<page, object, pdf>>
rest == <<type, doors, crashes, stranded>>
vars == <<type, edition, part, chapter, section, mark, page, object, pdf, claimed, task, doors, requests, crashes, stranded>>

Edition == [language : Languages, status : {"DRAFT", "READY", "PUBLISHED"}, published : BOOLEAN]
Part == [edition : Nat, order : Nat]
Chapter == [edition : Nat, part : Nat \cup {None}, order : Nat,
            status : {"DRAFT", "PROCESSING", "READY", "FAILED"}, pageCount : Nat, processed : Nat]
Section == [chapter : Nat, order : Nat, page : Nat \cup {None}]

\* The rows of a table that are there.
Rows(table) == {i \in DOMAIN table : table[i] # None}
Chapters(e) == {c \in Rows(chapter) : chapter[c].edition = e}
Parts(e) == {x \in Rows(part) : part[x].edition = e}
Sections(c) == {s \in Rows(section) : section[s].chapter = c}
Pages(c) == {n \in 1 .. MaxPages : <<c, n>> \in page}
\* order of the last row, and one more.
AfterLast(table, ids) == IF ids = {} THEN 1 ELSE 1 + table[CHOOSE i \in ids : \A j \in ids : table[j].order <= table[i].order].order

-----------------------------------------------------------------------------
(* Numbering, of rows as they were read: parts and rows are functions of ids *)

byPosition(a, i, b, j) == a.order < b.order \/ (a.order = b.order /\ i < j)
PartNumber(parts, x) == 1 + Cardinality({y \in DOMAIN parts : byPosition(parts[y], y, parts[x], x)})

\* A slip: a part that was not read is a part all the same.
UnpartedByNull(parts, rows, c) == rows[c].part = None

\* A chapter whose part is not among those read counts as unparted.
Unparted(parts, rows, c) == rows[c].part = None \/ rows[c].part \notin DOMAIN parts

\* canonicalChapterOrder: the unparted chapters, then each part's.
Listed(parts, rows) == {c \in DOMAIN rows : Unparted(parts, rows, c) \/ rows[c].part \in DOMAIN parts}
GroupOf(parts, rows, c) == IF Unparted(parts, rows, c) THEN 0 ELSE PartNumber(parts, rows[c].part)
\* numberChapters.
Number(parts, rows, c) ==
    LET g == GroupOf(parts, rows, c)
        Before(d) == LET h == GroupOf(parts, rows, d) IN h < g \/ (h = g /\ byPosition(rows[d], d, rows[c], c))
    IN  1 + Cardinality({d \in Listed(parts, rows) : Before(d)})

\* normalizeReadingOrder: the rows to write, with the order each gets.
ReadingOrder(parts, rows) ==
    LET number == [c \in Listed(parts, rows) |-> Number(parts, rows, c)]
    IN  [c \in {c \in DOMAIN number : rows[c].order # number[c]} |-> number[c]]

\* numberSections: those of one chapter, by their page first if any has one.
PageOrZero(s) == IF s.page = None THEN 0 ELSE s.page
SectionBefore(a, i, b, j) ==
    \/ PageOrZero(a) < PageOrZero(b)
    \/ PageOrZero(a) = PageOrZero(b) /\ byPosition(a, i, b, j)
SectionNumber(sections, s) == 1 + Cardinality({r \in DOMAIN sections : SectionBefore(sections[r], r, sections[s], s)})
Clamp(n, pageCount) == IF pageCount > 0 /\ pageCount < n THEN pageCount ELSE n
StartPage(sections, s, pageCount) == Clamp(sections[s].page, pageCount)
AtLeast(n, low) == IF n < low THEN low ELSE n

\* A slip: the page before the next section, whatever it is.
EndPageUnchecked(sections, s, pageCount) ==
    LET next == {r \in DOMAIN sections : SectionNumber(sections, r) = SectionNumber(sections, s) + 1}
    IN  IF next = {} THEN AtLeast(pageCount, StartPage(sections, s, pageCount))
        ELSE StartPage(sections, CHOOSE r \in next : TRUE, pageCount) - 1

EndPage(sections, s, pageCount) ==
    LET first == StartPage(sections, s, pageCount)
        next == {r \in DOMAIN sections : SectionNumber(sections, r) = SectionNumber(sections, s) + 1}
    IN  IF next = {} THEN AtLeast(pageCount, first)
        ELSE AtLeast(StartPage(sections, CHOOSE r \in next : TRUE, pageCount) - 1, first)

-----------------------------------------------------------------------------
(* Requests *)

Idle == [op |-> "", at |-> "", edition |-> None, id |-> None, arg |-> None, word |-> None, was |-> None, list |-> <<>>,
         alone |-> TRUE, hands |-> <<>>, todo |-> {}, done |-> {}, parts |-> None, rows |-> None, sections |-> None, seen |-> None]
Proceed(p, t) == task' = [task EXCEPT ![p] = t]
Goto(p, at) == Proceed(p, [task[p] EXCEPT !.at = at])
End(p) == Proceed(p, None)
At(p, op, at) == task[p] # None /\ task[p].op = op /\ task[p].at = at
\* The same, by a step that writes parts, chapters or sections: whoever is under way
\* is no longer alone.
Disturb(p, t) == task' = [q \in Procs |-> IF q = p THEN t
                                          ELSE IF task[q] = None THEN None ELSE [task[q] EXCEPT !.alone = FALSE]]
Ask(p, t) ==
    /\ task[p] = None /\ requests < MaxRequests
    /\ t.op \in doors
    /\ Proceed(p, t)
    /\ requests' = requests + 1
    /\ UNCHANGED <<contents, pages, claimed, rest>>
\* A step of a request that reads, or that writes the tables or the objects.
Reads == UNCHANGED <<contents, pages, claimed, requests, rest>>
Writes == UNCHANGED <<claimed, requests, rest>>
=============================================================================
