------------------------------ MODULE MCBooks ------------------------------
(* Small instances of Books for TLC: one book, seen at seven kinds of work. *)
EXTENDS Books, TLC

Lang(l, status) == [language |-> l, status |-> status, published |-> status = "PUBLISHED"]
Row(x, order, status, n) ==
    [edition |-> 1, part |-> x, order |-> order, status |-> status, pageCount |-> n, processed |-> n]
Sect(c, order, n) == [chapter |-> c, order |-> order, page |-> n]
Book(t, chapters, sections, files, doing, spent) ==
    [type |-> t, edition |-> <<Lang("en", "DRAFT")>>, part |-> <<>>, chapter |-> chapters, section |-> sections,
     mark |-> <<None>>, page |-> {<<1, n>> : n \in 1 .. chapters[1].pageCount}, pdf |-> files, doors |-> doing, requests |-> spent,
     crashes |-> IF "start" \in doing THEN 0 ELSE MaxCrashes]
Written(doing, spent) ==
    [Book("EDITOR", <<Row(None, 1, "READY", 0), Row(1, 2, "READY", 0), Row(2, 3, "READY", 0)>>, <<>>, <<0, 0, 0>>, doing, spent)
       EXCEPT !.part = <<[edition |-> 1, order |-> 1], [edition |-> 1, order |-> 2]>>]

\* Chapters and parts regrouped; the same while a reader asks for the contents; bookmarks
\* and what they stand on; sections of a PDF that was longer once; languages; conversions.
Regrouping == Written({"create", "move", "reorder", "reorderParts", "deletePart", "createPart"}, 1)
Reading == Written({"contents", "move", "deletePart", "deleteChapter", "create"}, 1)
Bookmarked ==
    [Book("EDITOR", <<Row(None, 1, "READY", 0), Row(None, 2, "READY", 0)>>,
          <<Sect(1, 1, None), Sect(1, 2, None), Sect(2, 1, None)>>, <<0, 0>>,
          {"mark", "deleteSection", "deleteChapter", "createSection", "reorderSections", "removeEdition", "move"}, 0)
       EXCEPT !.edition = <<Lang("en", "PUBLISHED"), Lang("my", "DRAFT")>>, !.part = <<[edition |-> 2, order |-> 1]>>, !.mark = <<None, None>>]
Shortened ==
    Book("PDF", <<Row(None, 1, "READY", 2)>>, <<Sect(1, 1, 1), Sect(1, 2, 2), Sect(1, 3, 3)>>, <<2>>,
         {"contents", "createSection", "moveSection", "deleteSection"}, 0)
Released ==
    Book("PDF", <<Row(None, 1, "READY", 1), Row(None, 2, "DRAFT", 0)>>, <<>>, <<2, 0>>,
         {"addEdition", "status", "removeEdition", "start", "deleteChapter"}, 1)
Uploaded(status, n, m, spent) ==
    Book("PDF", <<Row(None, 1, status, n)>>, <<>>, <<m>>, {"upload", "start", "deleteChapter"}, spent)
Beginnings == {Regrouping, Reading, Bookmarked, Shortened, Released, Uploaded("DRAFT", 0, 2, 1), Uploaded("READY", 2, 2, 0)}
=============================================================================
