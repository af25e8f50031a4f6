----------------------------- MODULE ReadProgress -----------------------------
(***************************************************************************)
(* Reading progress: book_read_progress, written by Komga trackers and     *)
(* page clients, and book_page_progress, inferred from the pages sent.     *)
(* Both keep the series of their book in a column of their own, which the  *)
(* scanner, when it moves a book to another series, does not know of.      *)
(*                                                                         *)
(* A handler takes its copy of the book's row first and writes with it     *)
(* later; the writes are single statements or one transaction.             *)
(***************************************************************************)
EXTENDS Naturals

CONSTANTS
    Books,       \* book IDs, numbers from 1; a book's ID is its number_sort
    Series,      \* series IDs
    Calls,       \* handlers of progress requests
    Pages,       \* pages of a book
    MaxChanges,  \* bound: changes of the catalog
    None         \* no series

VARIABLES
    known,     \* the series table
    book,      \* the series of each book, None: no such book
    progress,  \* book_read_progress by book
    loaded,    \* book_page_progress by book
    call,
    strict,    \* history: the PUT that was the last write, if it was
    changes

vars == <<known, book, progress, loaded, call, strict, changes>>

(* Rows: page 0 for NULL; exists FALSE for no row. *)
NoProgress == [exists |-> FALSE, series |-> None, completed |-> FALSE, page |-> 0]
NoLoaded   == [series |-> None, last |-> 0, max |-> 0, count |-> 0]
NoPut      == [series |-> None, upto |-> 0]
Idle       == [pc |-> "idle", book |-> 0, series |-> None, completed |-> FALSE, page |-> 0]

ProgressRow == [exists : BOOLEAN, series : Series \cup {None}, completed : BOOLEAN, page : 0..Pages]
LoadedRow   == [series : Series \cup {None}, last : 0..Pages, max : 0..Pages, count : {0, Pages}]
CallState   == [pc : {"idle", "patch", "delete", "sent", "put"}, book : Books \cup {0},
                series : Series \cup {None}, completed : BOOLEAN, page : 0..Pages]

TypeOK ==
    /\ known \in SUBSET Series
    /\ book \in [Books -> Series \cup {None}]
    /\ progress \in [Books -> ProgressRow]
    /\ loaded \in [Books -> LoadedRow]
    /\ call \in [Calls -> CallState]
    /\ strict \in [series : Series \cup {None}, upto : Books \cup {0}]
    /\ changes \in 0..MaxChanges

Init ==
    /\ known = Series
    /\ book \in [Books -> Series]
    /\ progress = [b \in Books |-> NoProgress]
    /\ loaded = [b \in Books |-> NoLoaded]
    /\ call = [c \in Calls |-> Idle]
    /\ strict = NoPut
    /\ changes = 0

-----------------------------------------------------------------------------
(* The scanner's writes, with the foreign keys of the two tables: a row    *)
(* goes with its book, and with the series its own column names.           *)

Change == changes < MaxChanges /\ changes' = changes + 1 /\ strict' = NoPut /\ UNCHANGED call

Cascade ==
    /\ progress' = [b \in Books |-> IF book'[b] = None \/ progress[b].series \notin known'
                                    THEN NoProgress ELSE progress[b]]
    /\ loaded' = [b \in Books |-> IF book'[b] = None \/ loaded[b].series \notin known'
                                  THEN NoLoaded ELSE loaded[b]]

(* A new book, or one that moved: only its own row is updated. *)
ScanBook(b, s) ==
    /\ Change /\ book[b] # s
    /\ known' = known \cup {s}
    /\ book' = [book EXCEPT ![b] = s]
    /\ UNCHANGED <<progress, loaded>>

DropBook(b) ==
    /\ Change /\ book[b] # None
    /\ book' = [book EXCEPT ![b] = None]
    /\ UNCHANGED known
    /\ Cascade

DropSeries(s) ==
    /\ Change /\ s \in known
    /\ known' = known \ {s}
    /\ book' = [b \in Books |-> IF book[b] = s THEN None ELSE book[b]]
    /\ Cascade

-----------------------------------------------------------------------------
(* The handlers.                                                           *)

(* BookByID, or SeriesByID for the tracker's PUT. *)
Start(c, b, pc, completed, page) ==
    /\ call[c].pc = "idle" /\ book[b] # None
    /\ call' = [call EXCEPT ![c] = [pc |-> pc, book |-> b, series |-> book[b],
                                    completed |-> completed, page |-> page]]
    /\ UNCHANGED <<known, book, progress, loaded, strict, changes>>

(* completed or page is given; completed without a page keeps the page. *)
StartPatch(c, b, completed, page) == Start(c, b, "patch", completed, page)
StartDelete(c, b)                 == Start(c, b, "delete", FALSE, 0)
SendPage(c, b, page)              == page > 0 /\ Start(c, b, "sent", FALSE, page)

StartPut(c, s, upto) ==
    /\ call[c].pc = "idle" /\ s \in known
    /\ call' = [call EXCEPT ![c] = [pc |-> "put", book |-> upto, series |-> s,
                                    completed |-> FALSE, page |-> 0]]
    /\ UNCHANGED <<known, book, progress, loaded, strict, changes>>

Answer(c) == call' = [call EXCEPT ![c] = Idle]

(* The foreign keys of an INSERT or an upsert. *)
Allowed(d) == book[d.book] # None /\ d.series \in known

UpdateBookReadProgress(c) ==
    LET d == call[c]  old == progress[d.book] IN
    /\ d.pc = "patch" /\ Allowed(d)
    /\ progress' = [progress EXCEPT ![d.book] =
           [exists |-> TRUE, series |-> d.series, completed |-> d.completed,
            page |-> IF d.page > 0 THEN d.page ELSE old.page]]
    /\ strict' = NoPut
    /\ Answer(c)
    /\ UNCHANGED <<known, book, loaded, changes>>

DeleteBookReadProgress(c) ==
    /\ call[c].pc = "delete"
    /\ progress' = [progress EXCEPT ![call[c].book] = NoProgress]
    /\ strict' = NoPut
    /\ Answer(c)
    /\ UNCHANGED <<known, book, loaded, changes>>

RecordBookPageProgress(c) ==
    LET d == call[c]  old == loaded[d.book] IN
    /\ d.pc = "sent" /\ Allowed(d)
    /\ loaded' = [loaded EXCEPT ![d.book] =
           [series |-> d.series, last |-> d.page, max |-> IF d.page > old.max THEN d.page ELSE old.max,
            count |-> Pages]]
    /\ Answer(c)
    /\ UNCHANGED <<known, book, progress, strict, changes>>

(* One transaction: the rows of the series above the mark are deleted, the *)
(* books up to it are completed.                                           *)
UpdateSeriesReadProgress(c) ==
    LET s == call[c].series  upto == call[c].book IN
    /\ call[c].pc = "put"
    /\ progress' = [b \in Books |->
           IF book[b] = s /\ b > upto /\ progress[b].series = s THEN NoProgress
           ELSE IF book[b] = s /\ b <= upto
           THEN [progress[b] EXCEPT !.exists = TRUE, !.series = s, !.completed = TRUE]
           ELSE progress[b]]
    /\ strict' = [series |-> s, upto |-> upto]
    /\ Answer(c)
    /\ UNCHANGED <<known, book, loaded, changes>>

(* A foreign key, the database or the client refuses. *)
Fail(c) ==
    /\ call[c].pc # "idle"
    /\ Answer(c)
    /\ UNCHANGED <<known, book, progress, loaded, strict, changes>>

-----------------------------------------------------------------------------
Next ==
    \/ \E b \in Books, s \in Series : ScanBook(b, s)
    \/ \E b \in Books : DropBook(b)
    \/ \E s \in Series : DropSeries(s)
    \/ \E c \in Calls :
          \/ \E b \in Books, completed \in BOOLEAN, page \in 0..Pages : StartPatch(c, b, completed, page)
          \/ \E b \in Books : StartDelete(c, b)
          \/ \E b \in Books, page \in 1..Pages : SendPage(c, b, page)
          \/ \E s \in Series, upto \in Books \cup {0} : StartPut(c, s, upto)
          \/ UpdateBookReadProgress(c) \/ DeleteBookReadProgress(c) \/ RecordBookPageProgress(c)
          \/ UpdateSeriesReadProgress(c) \/ Fail(c)

Spec == Init /\ [][Next]_vars

-----------------------------------------------------------------------------
(* The tracker's view of a series, and the read_status filters.            *)

BooksOf(s)  == {b \in Books : book[b] = s}
Read(b)     == progress[b].exists /\ progress[b].completed
Reading(b)  == progress[b].exists /\ ~progress[b].completed

(* SeriesReadProgress: the last book up to which every one is read. *)
Continuous(s)     == {b \in BooksOf(s) : \A a \in BooksOf(s) : a <= b => Read(a)}
LastContinuous(s) == IF Continuous(s) = {} THEN 0
                     ELSE CHOOSE b \in Continuous(s) : \A a \in Continuous(s) : a <= b

SeriesRead(s)       == BooksOf(s) # {} /\ \A b \in BooksOf(s) : Read(b)
SeriesInProgress(s) == (\E b \in BooksOf(s) : progress[b].exists) /\ (\E b \in BooksOf(s) : ~Read(b))
SeriesUnread(s)     == ~ \E b \in BooksOf(s) : progress[b].exists

-----------------------------------------------------------------------------
(* Properties.                                                             *)

(* The rows of both tables point to a book and a series that exist, as     *)
(* their foreign keys say, whatever the copies were that they were written *)
(* with.                                                                   *)
RowsHaveParents ==
    /\ \A b \in Books : progress[b].exists => book[b] # None /\ progress[b].series \in known
    /\ \A b \in Books : loaded[b].max > 0 => book[b] # None /\ loaded[b].series \in known
    /\ \A b \in Books : book[b] # None => book[b] \in known

(* Every series has exactly one read_status: the three filters, written as *)
(* three unrelated conditions of SQL, neither overlap nor leave one out.   *)
StatusPartition ==
    \A s \in Series :
        /\ SeriesRead(s) \/ SeriesInProgress(s) \/ SeriesUnread(s)
        /\ ~(SeriesRead(s) /\ SeriesInProgress(s))
        /\ ~(SeriesRead(s) /\ SeriesUnread(s))
        /\ ~(SeriesInProgress(s) /\ SeriesUnread(s))

-----------------------------------------------------------------------------
(* What the repository says and the code does not do.                      *)

(* "The server strictly overrides the read state of the books of the       *)
(* series with this value, forwards and backwards" (docs/ARCHITECTURE.md): *)
(* right after the tracker's PUT the books it counts as read are those up  *)
(* to its mark.                                                            *)
PutIsStrict ==
    strict.series # None => \A b \in BooksOf(strict.series) : Read(b) <=> b <= strict.upto
=============================================================================
