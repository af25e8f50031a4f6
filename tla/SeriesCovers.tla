----------------------------- MODULE SeriesCovers -----------------------------
(***************************************************************************)
(* The covers of series: one JPEG file and one row of series_thumbnails    *)
(* per series, made from page 1 of its first book.  Generate, Get,         *)
(* HasValid, SeriesStats and Clear share one RWMutex; the catalog they     *)
(* look at is changed by scans and deletions that do not take it.          *)
(*                                                                         *)
(* Every statement is a step, and so is every file operation that another  *)
(* process of the house can see.  A picture is the book and the version    *)
(* whose first page it shows.                                              *)
(***************************************************************************)
EXTENDS Naturals

CONSTANTS
    Series,       \* series IDs
    Books,        \* book IDs, ordered as number_sort orders the books of a series
    Gens,         \* GenerateWithOptions calls: page readers and cover jobs
    Looks,        \* Get, HasValid and SeriesStats calls
    Clearer,      \* the admin's Clear
    MaxChanges,   \* bound: changes of the catalog
    MaxRestarts,  \* bound: process restarts
    None          \* no series, no book

ASSUME CoverAssumption ==
    /\ Books \subseteq Nat
    /\ MaxChanges \in Nat /\ MaxRestarts \in Nat
    /\ None \notin Series \cup Books \cup Gens \cup Looks \cup {Clearer}
    /\ Gens \cap Looks = {} /\ Clearer \notin Gens \cup Looks

VARIABLES
    known,     \* the series table
    book,      \* the books table: series and version; series None: no such book
    row,       \* series_thumbnails, by series
    file,      \* the cover files, by series (the name is a hash of the series ID)
    torn,      \* history: series whose last generation died between file and row
    owner,     \* operationMu: who has called Lock and got past other writers
    sharers,   \* operationMu: who holds it shared
    inflight,  \* Service.inflight
    gen, look, clearing,  \* the calls under way
    changes, restarts

catalog == <<known, book>>
covers  == <<row, file, torn>>
lock    == <<owner, sharers>>
bounds  == <<changes, restarts>>
vars    == <<catalog, covers, lock, inflight, gen, look, clearing, bounds>>

-----------------------------------------------------------------------------
(* Records.                                                                *)

Versions == 0..MaxChanges
Picture  == [book : Books, version : Versions]
NoPicture == [book |-> None, version |-> 0]  \* no row, no file, no book
Cover    == Picture \cup {NoPicture}

GenAt(l, force, s, page) ==
    [pc |-> l, claimed |-> FALSE, force |-> force, series |-> s, page |-> page, first |-> NoPicture]
LookAt(l, s) == [pc |-> l, series |-> s, first |-> NoPicture, item |-> NoPicture]
IdleGen  == GenAt("idle", FALSE, None, NoPicture)
IdleLook == LookAt("idle", None)

GenState ==
    [pc : {"idle", "claim", "jobFirst", "jobBook", "lock", "wait", "first", "book", "row", "file", "insert"},
     claimed : BOOLEAN, force : BOOLEAN, series : Series \cup {None}, page : Cover, first : Cover]
LookState ==
    [pc : {"idle", "wait", "first", "book", "row", "file", "removeFile", "deleteRow"},
     series : Series \cup {None}, first : Cover, item : Cover]

(* ORDER BY number_sort LIMIT 1: the first book of a series, if it has one. *)
FirstBook(s) == {b \in Books : book[b].series = s /\ \A c \in Books : book[c].series = s => b <= c}

(* BookByID: the book as it is now, wherever it is now. *)
BookByID(b) == IF book[b].series = None THEN NoPicture ELSE [book |-> b, version |-> book[b].version]

TypeOK ==
    /\ known \in SUBSET Series
    /\ book \in [Books -> [series : Series \cup {None}, version : Versions]]
    /\ row \in [Series -> Cover]
    /\ file \in [Series -> Cover]
    /\ torn \subseteq Series
    /\ owner \in Gens \cup Looks \cup {Clearer, None}
    /\ sharers \in SUBSET Looks
    /\ inflight \in SUBSET Series
    /\ gen \in [Gens -> GenState]
    /\ look \in [Looks -> LookState]
    /\ clearing \in {"idle", "wait", "files", "rows"}
    /\ changes \in 0..MaxChanges
    /\ restarts \in 0..MaxRestarts

(* A process before this one has left covers of books that are there. *)
Init ==
    /\ known = Series
    /\ book \in [Books -> [series : Series, version : {0}]]
    /\ row \in [Series -> {NoPicture} \cup [book : Books, version : {0}]]
    /\ file = row
    /\ torn = {}
    /\ owner = None
    /\ sharers = {}
    /\ inflight = {}
    /\ gen = [g \in Gens |-> IdleGen]
    /\ look = [k \in Looks |-> IdleLook]
    /\ clearing = "idle"
    /\ changes = 0
    /\ restarts = 0

-----------------------------------------------------------------------------
(* The catalog changes under the covers.  A version is the file's ID, size,*)
(* SHA1 and time; a row goes with its series or its source book (foreign   *)
(* keys), its file stays.                                                  *)

Change == changes < MaxChanges /\ changes' = changes + 1 /\ UNCHANGED restarts
Cascade(gone) ==
    row' = [s \in Series |-> IF row[s].book \in gone \/ s \notin known' THEN NoPicture ELSE row[s]]

(* A scan finds the book: new, moved or replaced by another file content. *)
ScanBook(b, s, replaced) ==
    /\ Change
    /\ known' = known \cup {s}
    /\ book' = [book EXCEPT ![b] = [series |-> s,
                                    version |-> IF replaced THEN changes + 1 ELSE @.version]]
    /\ UNCHANGED <<covers, lock, inflight, gen, look, clearing>>

DropBook(b) ==
    /\ Change
    /\ book' = [book EXCEPT ![b].series = None]
    /\ UNCHANGED known
    /\ Cascade({b})
    /\ UNCHANGED <<file, torn, lock, inflight, gen, look, clearing>>

DropSeries(s) ==
    LET gone == {b \in Books : book[b].series = s} IN
    /\ Change
    /\ known' = known \ {s}
    /\ book' = [b \in Books |-> IF b \in gone THEN [book[b] EXCEPT !.series = None] ELSE book[b]]
    /\ Cascade(gone)
    /\ UNCHANGED <<file, torn, lock, inflight, gen, look, clearing>>

-----------------------------------------------------------------------------
(* operationMu.  Lock first shuts out other writers and new readers, then  *)
(* waits for the readers inside to leave (sync.RWMutex).                   *)

Announce(a) == owner = None /\ owner' = a /\ UNCHANGED sharers
Drained     == sharers = {}

-----------------------------------------------------------------------------
(* Who has a page for a cover: a reader of page 1, or a cover job.         *)

(* komgaPageImage read the book and its page 1, at the version it had. *)
ReadPage(g, b) ==
    /\ gen[g].pc = "idle" /\ book[b].series # None
    /\ gen' = [gen EXCEPT ![g] = GenAt("claim", FALSE, book[b].series, BookByID(b))]
    /\ UNCHANGED <<catalog, covers, lock, inflight, look, clearing, bounds>>

(* MaybeGenerate: nothing while another reader's cover of the series is    *)
(* being made.                                                             *)
Claim(g) ==
    LET s == gen[g].series IN
    /\ gen[g].pc = "claim"
    /\ \/ s \in inflight /\ gen' = [gen EXCEPT ![g] = IdleGen] /\ UNCHANGED inflight
       \/ /\ s \notin inflight
          /\ inflight' = inflight \cup {s}
          /\ gen' = [gen EXCEPT ![g] = [@ EXCEPT !.pc = "lock", !.claimed = TRUE]]
    /\ UNCHANGED <<catalog, covers, lock, look, clearing, bounds>>

(* A batch or maintenance job takes the series' first book and its page 1; *)
(* without force it has asked HasValid before, which is a call of Looks.   *)
StartJob(g, s, force) ==
    /\ gen[g].pc = "idle"
    /\ gen' = [gen EXCEPT ![g] = GenAt("jobFirst", force, s, NoPicture)]
    /\ UNCHANGED <<catalog, covers, lock, inflight, look, clearing, bounds>>

JobFirst(g) ==
    /\ gen[g].pc = "jobFirst"
    /\ \/ \E b \in FirstBook(gen[g].series) :
             gen' = [gen EXCEPT ![g] = [@ EXCEPT !.pc = "jobBook", !.first = BookByID(b)]]
       \/ gen' = [gen EXCEPT ![g] = IdleGen]
    /\ UNCHANGED <<catalog, covers, lock, inflight, look, clearing, bounds>>

JobBook(g) ==
    LET b == gen[g].first.book IN
    /\ gen[g].pc = "jobBook"
    /\ \/ /\ book[b].series # None
          /\ gen' = [gen EXCEPT ![g] = GenAt("lock", @.force, book[b].series, BookByID(b))]
       \/ gen' = [gen EXCEPT ![g] = IdleGen]
    /\ UNCHANGED <<catalog, covers, lock, inflight, look, clearing, bounds>>

-----------------------------------------------------------------------------
(* GenerateWithOptions.                                                    *)

GenLock(g) ==
    /\ gen[g].pc = "lock"
    /\ Announce(g)
    /\ gen' = [gen EXCEPT ![g].pc = "wait"]
    /\ UNCHANGED <<catalog, covers, inflight, look, clearing, bounds>>

GenEnter(g) ==
    /\ gen[g].pc = "wait" /\ Drained
    /\ gen' = [gen EXCEPT ![g].pc = "first"]
    /\ UNCHANGED <<catalog, covers, lock, inflight, look, clearing, bounds>>

(* Fault: the claim is only released by a cover that was made. *)
GenReturnClaimed(g) ==
    /\ owner' = None
    /\ inflight' = IF gen[g].claimed /\ gen[g].pc = "insert" THEN inflight \ {gen[g].series}
                   ELSE inflight
    /\ gen' = [gen EXCEPT ![g] = IdleGen]
    /\ UNCHANGED sharers

(* Every return: the lock, then the claim, by the deferred calls. *)
GenReturn(g) ==
    /\ owner' = None
    /\ inflight' = IF gen[g].claimed THEN inflight \ {gen[g].series} ELSE inflight
    /\ gen' = [gen EXCEPT ![g] = IdleGen]
    /\ UNCHANGED sharers

(* A statement, the decoder or the disk refuses, or the time is up. *)
GenFails(g) ==
    /\ gen[g].pc \in {"first", "book", "row", "file"}
    /\ GenReturn(g)
    /\ UNCHANGED <<catalog, covers, look, clearing, bounds>>

GenFirst(g) ==
    /\ gen[g].pc = "first"
    /\ \E b \in FirstBook(gen[g].series) : gen' = [gen EXCEPT ![g] = [@ EXCEPT !.pc = "book", !.first = BookByID(b)]]
    /\ UNCHANGED <<catalog, covers, lock, inflight, look, clearing, bounds>>

(* Fault: any book of the series will do. *)
GenBookAny(g) ==
    /\ gen[g].pc = "book"
    /\ gen' = [gen EXCEPT ![g] = [@ EXCEPT !.pc = "row", !.first = BookByID(gen[g].first.book)]]
    /\ BookByID(gen[g].first.book) # NoPicture
    /\ UNCHANGED <<catalog, covers, lock, inflight, look, clearing, bounds>>

(* The page must be the first book's; the version is the one it has now. *)
GenBook(g) ==
    LET first == BookByID(gen[g].first.book) IN
    /\ gen[g].pc = "book" /\ first # NoPicture
    /\ \/ /\ first.book = gen[g].page.book
          /\ gen' = [gen EXCEPT ![g] = [@ EXCEPT !.pc = "row", !.first = first]]
          /\ UNCHANGED <<lock, inflight>>
       \/ first.book # gen[g].page.book /\ GenReturn(g)
    /\ UNCHANGED <<catalog, covers, look, clearing, bounds>>

(* metadata and Stat: files only change under the lock. *)
GenRow(g) ==
    LET s == gen[g].series IN
    LET same == row[s] = gen[g].first /\ file[s] # NoPicture IN
    /\ gen[g].pc = "row"
    /\ \/ same /\ ~gen[g].force /\ GenReturn(g)
       \/ /\ ~same \/ gen[g].force
          /\ gen' = [gen EXCEPT ![g].pc = "file"]
          /\ UNCHANGED <<lock, inflight>>
    /\ UNCHANGED <<catalog, covers, look, clearing, bounds>>

(* writeAtomic: a temporary file is renamed. *)
GenFile(g) ==
    /\ gen[g].pc = "file"
    /\ file' = [file EXCEPT ![gen[g].series] = gen[g].page]
    /\ gen' = [gen EXCEPT ![g].pc = "insert"]
    /\ UNCHANGED <<catalog, row, torn, lock, inflight, look, clearing, bounds>>

GenInsert(g) ==
    LET s == gen[g].series IN
    /\ gen[g].pc = "insert"
    /\ \/ /\ s \in known /\ book[gen[g].first.book].series # None
          /\ row' = [row EXCEPT ![s] = gen[g].first]
          /\ UNCHANGED file
       \/ file' = [file EXCEPT ![s] = NoPicture] /\ UNCHANGED row  \* the INSERT fails
    /\ torn' = torn \ {s}
    /\ GenReturn(g)
    /\ UNCHANGED <<catalog, look, clearing, bounds>>

-----------------------------------------------------------------------------
(* Get holds the lock shared, HasValid and SeriesStats exclusively.        *)

Entered(k, s, shared) ==
    look' = [look EXCEPT ![k] = LookAt(IF shared THEN "first" ELSE "wait", s)]

(* Fault: Get takes no lock at all. *)
LookLockNone(k, s, shared) ==
    /\ look[k].pc = "idle"
    /\ IF shared THEN UNCHANGED lock ELSE Announce(k)
    /\ Entered(k, s, shared)
    /\ UNCHANGED <<catalog, covers, inflight, gen, clearing, bounds>>

LookLock(k, s, shared) ==
    /\ look[k].pc = "idle"
    /\ IF shared THEN owner = None /\ sharers' = sharers \cup {k} /\ UNCHANGED owner
                 ELSE Announce(k)
    /\ Entered(k, s, shared)
    /\ UNCHANGED <<catalog, covers, inflight, gen, clearing, bounds>>

LookEnter(k) ==
    /\ look[k].pc = "wait" /\ Drained
    /\ look' = [look EXCEPT ![k].pc = "first"]
    /\ UNCHANGED <<catalog, covers, lock, inflight, gen, clearing, bounds>>

LookReturn(k) ==
    /\ look' = [look EXCEPT ![k] = IdleLook]
    /\ owner' = IF owner = k THEN None ELSE owner
    /\ sharers' = sharers \ {k}
LookGoto(k, l) == look' = [look EXCEPT ![k].pc = l] /\ UNCHANGED lock

(* No first book, no row, or an error: there is no cover. *)
LookFails(k) ==
    /\ look[k].pc \in {"first", "book", "row", "file"}
    /\ LookReturn(k)
    /\ UNCHANGED <<catalog, covers, inflight, gen, clearing, bounds>>

LookFirst(k) ==
    /\ look[k].pc = "first"
    /\ \E b \in FirstBook(look[k].series) : look' = [look EXCEPT ![k] = [@ EXCEPT !.pc = "book", !.first = BookByID(b)]]
    /\ UNCHANGED <<catalog, covers, lock, inflight, gen, clearing, bounds>>

LookBook(k) ==
    LET first == BookByID(look[k].first.book) IN
    /\ look[k].pc = "book" /\ first # NoPicture
    /\ look' = [look EXCEPT ![k] = [@ EXCEPT !.pc = "row", !.first = first]]
    /\ UNCHANGED <<catalog, covers, lock, inflight, gen, clearing, bounds>>

(* A row of another book or version is stale: file and row are deleted. *)
LookRow(k) ==
    LET item == row[look[k].series] IN
    /\ look[k].pc = "row" /\ item # NoPicture
    /\ look' = [look EXCEPT ![k] = [@ EXCEPT
                  !.item = item, !.pc = IF item = look[k].first THEN "file" ELSE "removeFile"]]
    /\ UNCHANGED <<catalog, covers, lock, inflight, gen, clearing, bounds>>

(* The picture is served; a row without its file is deleted. *)
LookFile(k) ==
    /\ look[k].pc = "file"
    /\ IF file[look[k].series] # NoPicture THEN LookReturn(k) ELSE LookGoto(k, "removeFile")
    /\ UNCHANGED <<catalog, covers, inflight, gen, clearing, bounds>>

RemoveFile(k) ==
    /\ look[k].pc = "removeFile"
    /\ file' = [file EXCEPT ![look[k].series] = NoPicture]
    /\ LookGoto(k, "deleteRow")
    /\ UNCHANGED <<catalog, row, torn, inflight, gen, clearing, bounds>>

(* The error of the DELETE is ignored. *)
DeleteRow(k) ==
    /\ look[k].pc = "deleteRow"
    /\ row' \in {row, [row EXCEPT ![look[k].series] = NoPicture]}
    /\ LookReturn(k)
    /\ UNCHANGED <<catalog, file, torn, inflight, gen, clearing, bounds>>

-----------------------------------------------------------------------------
(* Clear, and a new process.                                               *)

ClearLock ==
    /\ clearing = "idle"
    /\ Announce(Clearer)
    /\ clearing' = "wait"
    /\ UNCHANGED <<catalog, covers, inflight, gen, look, bounds>>

ClearEnter ==
    /\ clearing = "wait" /\ Drained
    /\ clearing' = "files"
    /\ UNCHANGED <<catalog, covers, lock, inflight, gen, look, bounds>>

(* RemoveAll stops at the first file it cannot remove. *)
ClearFiles ==
    /\ clearing = "files"
    /\ \E gone \in SUBSET Series :
          /\ file' = [s \in Series |-> IF s \in gone THEN NoPicture ELSE file[s]]
          /\ \/ gone = Series /\ clearing' = "rows" /\ UNCHANGED lock
             \/ clearing' = "idle" /\ owner' = None /\ UNCHANGED sharers
    /\ UNCHANGED <<catalog, row, torn, inflight, gen, look, bounds>>

ClearRows ==
    /\ clearing = "rows"
    /\ row' \in {row, [s \in Series |-> NoPicture]}
    /\ clearing' = "idle"
    /\ owner' = None
    /\ UNCHANGED <<catalog, file, torn, sharers, inflight, gen, look, bounds>>

(* cleanupOrphans removes files that no row names; its errors are logged. *)
Restart ==
    /\ restarts < MaxRestarts
    /\ restarts' = restarts + 1
    /\ \E orphans \in SUBSET {s \in Series : row[s] = NoPicture} :
          file' = [s \in Series |-> IF s \in orphans THEN NoPicture ELSE file[s]]
    /\ torn' = torn \cup {gen[g].series : g \in {h \in Gens : gen[h].pc = "insert"}}
    /\ owner' = None
    /\ sharers' = {}
    /\ inflight' = {}
    /\ gen' = [g \in Gens |-> IdleGen]
    /\ look' = [k \in Looks |-> IdleLook]
    /\ clearing' = "idle"
    /\ UNCHANGED <<catalog, row, changes>>

-----------------------------------------------------------------------------
CatalogStep ==
    \/ \E b \in Books, s \in Series, replaced \in BOOLEAN : ScanBook(b, s, replaced)
    \/ \E b \in Books : DropBook(b)
    \/ \E s \in Series : DropSeries(s)

GenStart(g) ==
    \/ \E b \in Books : ReadPage(g, b)
    \/ \E s \in Series, force \in BOOLEAN : StartJob(g, s, force)
GenStep(g) ==
    \/ Claim(g) \/ JobFirst(g) \/ JobBook(g) \/ GenEnter(g)
    \/ GenFails(g) \/ GenFirst(g) \/ GenBook(g) \/ GenRow(g) \/ GenFile(g) \/ GenInsert(g)

LookStep(k) ==
    \/ LookEnter(k) \/ LookFails(k) \/ LookFirst(k) \/ LookBook(k) \/ LookRow(k) \/ LookFile(k)
    \/ RemoveFile(k) \/ DeleteRow(k)

Next ==
    \/ CatalogStep
    \/ \E g \in Gens : GenStart(g) \/ GenLock(g) \/ GenStep(g)
    \/ \E k \in Looks : LookStep(k) \/ \E s \in Series, shared \in BOOLEAN : LookLock(k, s, shared)
    \/ ClearLock \/ ClearEnter \/ ClearFiles \/ ClearRows
    \/ Restart

Spec == Init /\ [][Next]_vars

(* A goroutine that can run is run, and a writer that waits for others is  *)
(* not overtaken for ever (the starvation mode of sync.Mutex).             *)
FairSpec ==
    /\ Spec
    /\ \A g \in Gens : WF_vars(GenStep(g)) /\ SF_vars(GenLock(g))
    /\ \A k \in Looks : WF_vars(LookStep(k))
    /\ WF_vars(ClearEnter \/ ClearFiles \/ ClearRows)

-----------------------------------------------------------------------------
(* Properties.                                                             *)

(* What Get and HasValid judged stale, or without a file, is what they     *)
(* delete: no cover made in the meantime goes with it.  A scan may have    *)
(* taken the row away already.                                             *)
JudgedRowUnchanged ==
    \A k \in Looks : look[k].pc \in {"file", "removeFile", "deleteRow"} =>
        row[look[k].series] \in {look[k].item, NoPicture}

(* The picture Get is about to serve shows the book its row names, which   *)
(* was the series' first book when Get looked.  Only a crash between the   *)
(* rename of the file and the INSERT can put the two apart, and only until *)
(* the next INSERT for that series.                                        *)
ServesItsBook ==
    \A k \in Looks : look[k].pc = "file" /\ look[k].series \notin torn =>
        \/ file[look[k].series] = NoPicture
        \/ file[look[k].series].book = look[k].first.book

(* The claim of a series is given back, however its generation ends: no    *)
(* series is left without covers until the next start.                     *)
ClaimsAreReleased == \A s \in Series : s \in inflight ~> s \notin inflight

(* operationMu: who holds it, and that its holders exclude one another. *)
LockAgrees ==
    /\ \A g \in Gens : gen[g].pc \in {"wait", "first", "book", "row", "file", "insert"} <=> owner = g
    /\ \A g \in Gens : gen[g].pc \in {"first", "book", "row", "file", "insert"} => sharers = {}
    /\ \A k \in Looks : look[k].pc # "idle" <=> (owner = k \/ k \in sharers)
    /\ \A k \in Looks : owner = k /\ look[k].pc # "wait" => sharers = {}
    /\ \A k \in sharers : look[k].pc # "wait"
    /\ clearing # "idle" <=> owner = Clearer
    /\ clearing \in {"files", "rows"} => sharers = {}

-----------------------------------------------------------------------------
(* What the repository says and the code does not do.                      *)

(* "After the first book changes the old cover becomes invalid by itself"  *)
(* (README.md): a cover that Get takes for valid shows the page of the     *)
(* version its row names.                                                  *)
ServesItsVersion ==
    \A k \in Looks : look[k].pc = "file" /\ look[k].series \notin torn /\ file[look[k].series] # NoPicture =>
        file[look[k].series].version = look[k].first.version
=============================================================================
