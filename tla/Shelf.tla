-------------------------------- MODULE Shelf --------------------------------
(***************************************************************************)
(* People and shelves (ActorsService, CategoriesService,                   *)
(* BookCategoriesService, BookAuthorsService), books as works with the     *)
(* author's name copied onto them (BooksService), and comments.            *)
(***************************************************************************)
EXTENDS CatalogueTables

Kin(k) == {i \in Rows(named) : named[i].kind = k}
\* The unique index on the name of each table is to the letter.
Free(k, n, but) == \A i \in Kin(k) \ {but} : named[i].name # n
\* findByNameInsensitive: findFirst may give any of them.
Namesakes(n) == {i \in Kin("author") : Lower[named[i].name] = Lower[n]}

\* A slip: an author's name is asked for to the letter.
AvailableExactly(k, n, but) == Free(k, n, but)

\* assertNameAvailable: an author's in any case.
Available(k, n, but) == IF k = "author" THEN Namesakes(n) \subseteq {but} ELSE Free(k, n, but)

-----------------------------------------------------------------------------
(* Rows with a name *)

AskCreateNamed(p, k, n, face) ==
    /\ Available(k, n, None)
    /\ Ask(p, [Idle EXCEPT !.op = "named", !.at = "insert", !.word = k, !.text = n, !.arg = face])
InsertNamed(p) ==
    LET t == task[p]
    IN  /\ At(p, "named", "insert")
        /\ IF ~Free(t.word, t.text, None) THEN End(p) /\ UNCHANGED named
           ELSE /\ Len(named) < MaxRows
                /\ named' = Append(named, [kind |-> t.word, name |-> t.text, face |-> t.arg])
                /\ Disturb(p, None)
        /\ UNCHANGED <<titles, subtitle, book, comment, store>> /\ Goes

\* update: the row as it was, the name asked for, then the write; of an author, with the
\* books that carry the name in one transaction.
AskRename(p, i, n, face) ==
    /\ i \in Rows(named) /\ Available(named[i].kind, n, i)
    /\ Ask(p, [Idle EXCEPT !.op = "rename", !.at = "write", !.id = i, !.text = n, !.row = named[i], !.arg = face])

\* A slip: the books keep the name they had.
RenameOnly(p) ==
    LET t == task[p]
    IN  /\ At(p, "rename", "write")
        /\ IF named[t.id] = None \/ ~Free(t.row.kind, t.text, t.id) THEN End(p) /\ UNCHANGED <<named, book>>
           ELSE /\ named' = [named EXCEPT ![t.id].name = t.text, ![t.id].face = t.arg]
                /\ book' = book
                /\ Disturb(p, IF t.row.face \notin {None, t.arg} THEN [t EXCEPT !.at = "face", !.todo = {t.row.face}] ELSE None)
        /\ UNCHANGED <<titles, subtitle, comment, store>> /\ Goes

Rename(p) ==
    LET t == task[p]
        fansOut == t.row.kind = "author" /\ t.text # t.row.name
    IN  /\ At(p, "rename", "write")
        /\ IF named[t.id] = None \/ ~Free(t.row.kind, t.text, t.id) THEN End(p) /\ UNCHANGED <<named, book>>
           ELSE /\ named' = [named EXCEPT ![t.id].name = t.text, ![t.id].face = t.arg]
                /\ book' = [b \in DOMAIN book |-> IF book[b] # None /\ book[b].credit = t.id /\ fansOut
                                                  THEN [book[b] EXCEPT !.author = t.text] ELSE book[b]]
                /\ Disturb(p, IF t.row.face \notin {None, t.arg} THEN [t EXCEPT !.at = "face", !.todo = {t.row.face}] ELSE None)
        /\ UNCHANGED <<titles, subtitle, comment, store>> /\ Goes

\* deleteImage, unguarded and best effort: a face that was replaced, or whose row is gone.
EraseFace(p) ==
    /\ At(p, "rename", "face") \/ At(p, "removeNamed", "face")
    /\ \/ picture' = picture \ task[p].todo /\ Disturb(p, None)
       \/ picture' = picture /\ End(p)
    /\ UNCHANGED <<titles, subtitle, people, master, rendition, source>> /\ Goes

\* remove: an author only when no book was counted.
Credited(i) == {b \in Rows(book) : book[b].credit = i}
AskRemoveNamed(p, i) ==
    /\ i \in Rows(named) /\ (named[i].kind = "author" => Credited(i) = {})
    /\ Ask(p, [Idle EXCEPT !.op = "removeNamed", !.at = "delete", !.id = i, !.row = named[i]])

\* A slip: the books lose their author.
DeleteUnderBooks(p) ==
    LET i == task[p].id
    IN  /\ At(p, "removeNamed", "delete")
        /\ named' = [named EXCEPT ![i] = None]
        /\ Disturb(p, IF task[p].row.face = None THEN None ELSE [task[p] EXCEPT !.at = "face", !.todo = {task[p].row.face}])
        /\ UNCHANGED <<titles, subtitle, book, comment, store>> /\ Goes

\* The foreign key of Book.authorId refuses; the joins of the others go along.
DeleteNamed(p) ==
    LET i == task[p].id
        Unlinked(table) == [x \in DOMAIN table |-> IF table[x] = None THEN None ELSE [table[x] EXCEPT !.links = @ \ {i}]]
    IN  /\ At(p, "removeNamed", "delete")
        /\ IF named[i] = None \/ Credited(i) # {} THEN End(p) /\ UNCHANGED <<named, movie, series, book>>
           ELSE /\ named' = [named EXCEPT ![i] = None]
                /\ movie' = Unlinked(movie) /\ series' = Unlinked(series) /\ book' = Unlinked(book)
                /\ Disturb(p, IF task[p].row.face = None THEN None ELSE [task[p] EXCEPT !.at = "face", !.todo = {task[p].row.face}])
        /\ UNCHANGED <<video, subtitle, comment, store>> /\ Goes

-----------------------------------------------------------------------------
(* Books as works *)

\* create (no id) or update: the author by id, by name, or left alone; and the cover.
AskBook(p, b, author, name, cover) ==
    /\ b = None \/ b \in Rows(book)
    /\ b = None => author # None \/ name # None
    /\ author # None => author \in Kin("author") /\ name = None
    /\ Ask(p, [Idle EXCEPT !.op = "book", !.id = b, !.text = name, !.arg = cover,
                           !.at = IF name # None THEN "find" ELSE "write",
                           !.first = IF author = None THEN None ELSE [id |-> author, name |-> named[author].name],
                           !.row = IF b = None THEN None ELSE book[b]])

\* findOrCreateByName: found, or created; the loser of the index reads the winner again.
FindAuthor(p) ==
    LET t == task[p]
    IN  /\ At(p, "book", "find") \/ At(p, "book", "again")
        /\ \/ \E i \in Namesakes(t.text) : Proceed(p, [t EXCEPT !.at = "write", !.first = [id |-> i, name |-> named[i].name]])
           \/ Namesakes(t.text) = {} /\ t.at = "find" /\ Goto(p, "author")
           \/ Namesakes(t.text) = {} /\ t.at = "again" /\ End(p)
        /\ Reads
CreateAuthor(p) ==
    LET t == task[p]
    IN  /\ At(p, "book", "author")
        /\ IF ~Free("author", t.text, None) THEN Goto(p, "again") /\ UNCHANGED named
           ELSE /\ Len(named) < MaxRows
                /\ named' = Append(named, [kind |-> "author", name |-> t.text, face |-> None])
                /\ Disturb(p, [t EXCEPT !.at = "write", !.first = [id |-> Len(named) + 1, name |-> t.text]])
        /\ UNCHANGED <<titles, subtitle, book, comment, store>> /\ Goes

\* authorData: the link and the copied name together; the foreign key wants the author.
WriteBook(p) ==
    LET t == task[p]
        by == t.first
        old == t.row
    IN  /\ At(p, "book", "write")
        /\ IF (by # None /\ named[by.id] = None) \/ (t.id # None /\ book[t.id] = None) THEN End(p) /\ UNCHANGED book
           ELSE IF t.id = None
           THEN /\ Len(book) < MaxRows
                /\ book' = Append(book, [author |-> by.name, credit |-> by.id, cover |-> t.arg, links |-> {}])
                /\ Disturb(p, None)
           ELSE /\ book' = [book EXCEPT ![t.id].cover = t.arg, ![t.id].author = IF by = None THEN @ ELSE by.name,
                                        ![t.id].credit = IF by = None THEN @ ELSE by.id]
                /\ Disturb(p, IF old.cover \notin {None, t.arg} THEN [t EXCEPT !.at = "cover", !.todo = {old.cover}] ELSE None)
        /\ UNCHANGED <<titles, subtitle, named, comment, store>> /\ Goes

AskRemoveBook(p, b) ==
    /\ b \in Rows(book)
    /\ Ask(p, [Idle EXCEPT !.op = "book", !.at = "delete", !.id = b, !.todo = {book[b].cover} \ {None}])
DeleteBook(p) ==
    LET b == task[p].id
    IN  /\ At(p, "book", "delete")
        /\ IF book[b] = None THEN End(p) /\ UNCHANGED <<book, comment>>
           ELSE /\ book' = [book EXCEPT ![b] = None]
                /\ comment' = [c \in DOMAIN comment |-> IF comment[c] # None /\ comment[c].on = "book" /\ comment[c].title = b
                                                        THEN None ELSE comment[c]]
                /\ Disturb(p, IF task[p].todo = {} THEN None ELSE [task[p] EXCEPT !.at = "cover"])
        /\ UNCHANGED <<titles, subtitle, named, store>> /\ Goes

\* deleteCoverObject: only when no book refers to it any more.
CountCovers(p) ==
    /\ At(p, "book", "cover")
    /\ IF \E b \in Rows(book) : book[b].cover \in task[p].todo THEN End(p) ELSE Goto(p, "erase")
    /\ Reads
EraseCover(p) ==
    /\ At(p, "book", "erase")
    /\ \/ picture' = picture \ task[p].todo /\ Disturb(p, None)
       \/ picture' = picture /\ End(p)
    /\ UNCHANGED <<titles, subtitle, people, master, rendition, source>> /\ Goes

-----------------------------------------------------------------------------
(* Comments *)

There(on, x) == CASE on = "movie" -> x \in Rows(movie) [] on = "series" -> x \in Rows(series) [] on = "book" -> x \in Rows(book)

\* A slip: a reply may be replied to.
MayAnswerAny(c, on, x) == c \in Rows(comment) /\ comment[c].on = on /\ comment[c].title = x

\* A reply answers a comment on the same title that is no reply itself.
MayAnswer(c, on, x) == c \in Rows(comment) /\ comment[c].parent = None /\ comment[c].on = on /\ comment[c].title = x

\* create: the target, then the parent, then the row.
AskComment(p, on, x, parent, by) ==
    /\ There(on, x)
    /\ Ask(p, [Idle EXCEPT !.op = "comment", !.word = on, !.id = x, !.arg = parent, !.text = by,
                           !.at = IF parent = None THEN "insert" ELSE "parent"])
CheckParent(p) ==
    /\ At(p, "comment", "parent")
    /\ IF MayAnswer(task[p].arg, task[p].word, task[p].id) THEN Goto(p, "insert") ELSE End(p)
    /\ Reads
InsertComment(p) ==
    LET t == task[p]
    IN  /\ At(p, "comment", "insert")
        /\ IF ~There(t.word, t.id) \/ (t.arg # None /\ comment[t.arg] = None) THEN End(p) /\ UNCHANGED comment
           ELSE /\ Len(comment) < MaxRows
                /\ comment' = Append(comment, [on |-> t.word, title |-> t.id, parent |-> t.arg, visible |-> TRUE, owner |-> t.text])
                /\ Disturb(p, None)
        /\ UNCHANGED <<titles, subtitle, named, book, store>> /\ Goes

\* remove: the author, or a moderator; the replies go along.
AskRemoveComment(p, c, by, moderates) ==
    /\ c \in Rows(comment) /\ (comment[c].owner = by \/ moderates)
    /\ Ask(p, [Idle EXCEPT !.op = "removeComment", !.at = "delete", !.id = c])
DeleteComment(p) ==
    LET c == task[p].id
    IN  /\ At(p, "removeComment", "delete")
        /\ IF comment[c] = None THEN End(p) /\ UNCHANGED comment
           ELSE /\ comment' = [d \in DOMAIN comment |-> IF d = c \/ (comment[d] # None /\ comment[d].parent = c) THEN None ELSE comment[d]]
                /\ Disturb(p, None)
        /\ UNCHANGED <<titles, subtitle, named, book, store>> /\ Goes

\* moderateComment: hidden, or shown again; what answers it keeps its own status.
AskModerate(p, c, visible) ==
    /\ c \in Rows(comment)
    /\ Ask(p, [Idle EXCEPT !.op = "moderate", !.at = "write", !.id = c, !.ok = visible])
WriteModerated(p) ==
    LET c == task[p].id
    IN  /\ At(p, "moderate", "write")
        /\ IF comment[c] = None THEN End(p) /\ UNCHANGED comment
           ELSE comment' = [comment EXCEPT ![c].visible = task[p].ok] /\ Disturb(p, None)
        /\ UNCHANGED <<titles, subtitle, named, book, store>> /\ Goes

\* comments: the moderators' list, hidden ones included, newest first.
AskComments(p, status) ==
    LET all == {c \in Rows(comment) : status = None \/ comment[c].visible = (status = "VISIBLE")}
    IN  Ask(p, [Idle EXCEPT !.op = "thread", !.at = "answer", !.word = "moderator", !.done = all])

\* findForTitle: what is visible, on both levels.
AskThread(p, on, x) ==
    LET top == {c \in Rows(comment) : comment[c].on = on /\ comment[c].title = x /\ comment[c].parent = None /\ comment[c].visible}
    IN  Ask(p, [Idle EXCEPT !.op = "thread", !.at = "answer", !.id = x, !.word = on,
                            !.done = top \cup {c \in Rows(comment) : comment[c].parent \in top /\ comment[c].visible}])
ShowThread(p) == Answer(p, "thread") /\ End(p) /\ Reads
=============================================================================
