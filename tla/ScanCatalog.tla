----------------------------- MODULE ScanCatalog -----------------------------
(***************************************************************************)
(* What the scans of one library do to its series and books, and to the    *)
(* staging tables, while files move on the remote side, the library is     *)
(* edited or deleted, the scan is canceled or fails, and the process dies. *)
(*                                                                         *)
(* Module ScanQueue shows that one scan of a library runs at a time, and   *)
(* that the job's mode is a copy which the library's may have left behind. *)
(* A step here is a remote call or a transaction of the scan; a directory  *)
(* is listed by as many calls as it has pages.                             *)
(***************************************************************************)
EXTENDS Naturals, FiniteSets

CONSTANTS
    Files,       \* comic files, numbered in natural-sort order of their names
    Dirs,        \* remote directories
    Root,        \* root_cid of the library
    Children,    \* subdirectories, by directory
    Rank,        \* the order of names in which the remote side lists
    PageSize,    \* entries a listing call returns at most (1150)
    None,        \* no directory
    MaxRuns,     \* bound: scans
    MaxMoves,    \* bound: remote moves, additions and removals of a file
    MaxEdits,    \* bound: mode changes, deletions and re-creations of the library
    MaxRestarts  \* bound: process restarts

ASSUME CatalogAssumption ==
    /\ Files \subseteq Nat /\ IsFiniteSet(Files)
    /\ Root \in Dirs /\ IsFiniteSet(Dirs) /\ Files \cap Dirs = {}
    /\ Rank \in [Files \cup Dirs -> Nat]
    /\ \A x, y \in Files \cup Dirs : Rank[x] = Rank[y] => x = y
    /\ PageSize \in Nat \ {0}
    /\ Children \in [Dirs -> SUBSET Dirs]
    /\ None \notin Dirs
    /\ {MaxRuns, MaxMoves, MaxEdits, MaxRestarts} \subseteq Nat

(* The library is the tree under its root: who starts there and follows    *)
(* subdirectories has seen every directory.                                *)
ASSUME TreeAssumption ==
    \A D \in SUBSET Dirs : Root \in D /\ (\A d \in D : Children[d] \subseteq D) => D = Dirs

VARIABLES
    place,         \* the remote tree: the directory of each file
    library,       \* the libraries row: does it exist, one_shot
    series, books, \* the tables, with the run that last saw each row
    staged,        \* scan_series_staging and scan_books_staging
    status,        \* scan_runs.status, by run
    cancel,        \* cancel_requested of the current run
    scan,          \* the worker's job and where the scan stands
    before,        \* history: the catalog as the current run found it
    settled,       \* history: files that have not moved since the run started
    torn,          \* history: directories a file left between two pages of their listing
    moves, edits, restarts

catalog == <<series, books>>
history == <<before, settled, torn>>
bounds  == <<moves, edits, restarts>>
vars    == <<place, library, catalog, staged, status, cancel, scan, history, bounds>>

RunIds == 0..MaxRuns

(* A directory's series has the directory's CID, a one-shot's a CID made   *)
(* from its file.                                                          *)
DirCID(d)     == <<"dir", d>>
OneShotCID(f) == <<"file", f>>
CIDs == {DirCID(d) : d \in Dirs} \cup {OneShotCID(f) : f \in Files}

SeriesRow == [cid : CIDs, oneShot : BOOLEAN, seen : RunIds]
BookRow   == [file : Files, cid : CIDs, number : Nat \ {0}, seen : RunIds]
Tables    == [series : SUBSET SeriesRow, books : SUBSET BookRow]
NoStaging == [series |-> {}, books |-> {}]
Entry     == [at : Nat, item : Files \cup Dirs]
NoDirs    == [d \in Dirs |-> 0]
IdleScan  == [pc |-> "idle", run |-> 0, oneShot |-> FALSE, staged |-> FALSE, todo |-> NoDirs,
              dir |-> None, offset |-> 0, out |-> {}, outcome |-> "none"]

(* todo is the queue of directories, which may hold one twice; out is what *)
(* the pages of dir have shown so far, each entry with its place in there. *)
ScanState ==
    [pc : {"idle", "conversion", "list", "page", "save", "progress", "commit", "discard", "finish"},
     run : RunIds, oneShot : BOOLEAN, staged : BOOLEAN, todo : [Dirs -> Nat],
     dir : Dirs \cup {None}, offset : Nat, out : SUBSET Entry,
     outcome : {"none", "success", "failed", "canceled"}]

TypeOK ==
    /\ place \in [Files -> Dirs \cup {None}]
    /\ library \in [exists : BOOLEAN, oneShot : BOOLEAN]
    /\ series \subseteq SeriesRow /\ books \subseteq BookRow
    /\ staged \in Tables
    /\ status \in [RunIds -> {"none", "running", "success", "failed", "canceled", "gone"}]
    /\ cancel \in BOOLEAN
    /\ scan \in ScanState
    /\ scan.pc \in {"page", "save"} => scan.dir \in Dirs
    /\ IsFiniteSet(scan.out)
    /\ before \in Tables
    /\ settled \subseteq Files /\ torn \subseteq Dirs
    /\ moves \in 0..MaxMoves /\ edits \in 0..MaxEdits /\ restarts \in 0..MaxRestarts

-----------------------------------------------------------------------------
(* The remote side's view of a directory, in its order of names.           *)

Comics(d) == {f \in Files : place[f] = d}
Items(d)  == Comics(d) \cup Children[d]

Position(x, d)  == Cardinality({y \in Items(d) : Rank[y] < Rank[x]})
Listing(d)      == {[at |-> Position(x, d), item |-> x] : x \in Items(d)}
Page(d, offset) == {e \in Listing(d) : e.at >= offset /\ e.at < offset + PageSize}

Seen(out) == {e.item : e \in out}

-----------------------------------------------------------------------------
(* What a directory listed as out becomes, in either mode.                 *)

FoundFiles(out) == Seen(out) \cap Files

SeriesFound(oneShot, d, out, run) ==
    {[cid |-> c, oneShot |-> oneShot, seen |-> run] :
        c \in IF oneShot THEN {OneShotCID(f) : f \in FoundFiles(out)}
              ELSE {DirCID(e) : e \in IF FoundFiles(out) = {} THEN {} ELSE {d}}}

(* Fault: the loop's index without the + 1. *)
BooksFoundFromZero(oneShot, d, out, run) ==
    {[file |-> f, seen |-> run,
      cid |-> IF oneShot THEN OneShotCID(f) ELSE DirCID(d),
      number |-> IF oneShot THEN 0 ELSE Cardinality({e \in out : e.item \in Files /\ e.item < f})] :
        f \in FoundFiles(out)}

(* number_sort is the last place in the sorted list of comics, where one   *)
(* that two pages have shown stands twice.                                 *)
BooksFound(oneShot, d, out, run) ==
    {[file |-> f, seen |-> run,
      cid |-> IF oneShot THEN OneShotCID(f) ELSE DirCID(d),
      number |-> IF oneShot THEN 1 ELSE Cardinality({e \in out : e.item \in Files /\ e.item <= f})] :
        f \in FoundFiles(out)}

(* Fault: the update of a known book leaves seen_scan_id alone. *)
UpsertBooksUnseen(table, rows) ==
    table \cup {c \in rows : \A b \in table : b.file # c.file}

(* INSERT ... ON CONFLICT DO UPDATE on the tables' unique keys. *)
UpsertSeries(table, rows) == {s \in table : \A t \in rows : t.cid # s.cid} \cup rows
UpsertBooks(table, rows)  == {b \in table : \A c \in rows : c.file # b.file} \cup rows

(* The catalog a scan of an unchanging tree should leave. *)
TreeSeries(oneShot, run) == UNION {SeriesFound(oneShot, d, Listing(d), run) : d \in Dirs}
TreeBooks(oneShot, run)  == UNION {BooksFound(oneShot, d, Listing(d), run) : d \in Dirs}

-----------------------------------------------------------------------------
(* Run 0 has scanned some tree, in some mode. *)
Init ==
    /\ place \in [Files -> Dirs \cup {None}]
    /\ library \in [exists : {TRUE}, oneShot : BOOLEAN]
    /\ series = TreeSeries(library.oneShot, 0)
    /\ books = TreeBooks(library.oneShot, 0)
    /\ staged = NoStaging
    /\ status = [r \in RunIds |-> IF r = 0 THEN "success" ELSE "none"]
    /\ cancel = FALSE
    /\ scan = IdleScan
    /\ before = [series |-> series, books |-> books]
    /\ settled = Files /\ torn = {}
    /\ moves = 0 /\ edits = 0 /\ restarts = 0

-----------------------------------------------------------------------------
(* The scan.                                                               *)

(* The worker starts on a job: its library is a copy. *)
StartScan ==
    /\ scan.pc = "idle" /\ library.exists
    /\ scan.run < MaxRuns
    /\ scan' = [IdleScan EXCEPT !.pc = "conversion", !.run = scan.run + 1, !.oneShot = library.oneShot]
    /\ status' = [status EXCEPT ![scan.run + 1] = "running"]
    /\ cancel' = FALSE
    /\ before' = [series |-> series, books |-> books]
    /\ settled' = Files /\ torn' = {}
    /\ UNCHANGED <<place, library, catalog, staged, bounds>>

(* discardStaging is only called once the scan is past its conversion check. *)
End(o) == scan' = [scan EXCEPT !.pc = IF scan.pc = "conversion" THEN "finish" ELSE "discard", !.outcome = o]

(* Fault: the library's present mode is asked, not the job's. *)
NeedsConversionByLibrary == \E s \in series : s.oneShot # library.oneShot

(* needsModeConversion: some series of the library has the other mode. *)
NeedsModeConversion == \E s \in series : s.oneShot # scan.oneShot

CheckConversion ==
    /\ scan.pc = "conversion"
    /\ scan' = [scan EXCEPT !.pc = "list", !.todo[Root] = 1, !.staged = NeedsModeConversion]
    /\ UNCHANGED <<place, library, catalog, staged, status, cancel, history, bounds>>

(* A directory of the queue is listed, from its first page on. *)
ListDirectory(d) ==
    /\ scan.pc = "list" /\ scan.todo[d] > 0
    /\ scan' = [scan EXCEPT !.pc = "page", !.dir = d, !.todo[d] = scan.todo[d] - 1]
    /\ UNCHANGED <<place, library, catalog, staged, status, cancel, history, bounds>>

(* Fault: a page that is not empty is taken for the last one. *)
LastPageAtOnce(page, out) == TRUE

(* len(out) >= response.Count, the number of entries there are now. *)
LastPage(page, out) == Cardinality(out) >= Cardinality(Items(scan.dir)) \/ page = {}

(* One call: a page of the directory as it is now.  After the last one the *)
(* subdirectories that were shown join the queue.                          *)
ListPage ==
    LET page == Page(scan.dir, scan.offset)
        out  == scan.out \cup page IN
    /\ scan.pc = "page"
    /\ scan' = IF LastPage(page, out)
               THEN [scan EXCEPT !.pc = "save", !.offset = 0, !.out = out,
                                 !.todo = [d \in Dirs |-> scan.todo[d] + Cardinality({e \in out : e.item = d})]]
               ELSE [scan EXCEPT !.offset = scan.offset + PageSize, !.out = out]
    /\ UNCHANGED <<place, library, catalog, staged, status, cancel, history, bounds>>

(* The foreign keys of the tables: series on libraries, staging on scan_runs. *)
MaySave == IF scan.staged THEN status[scan.run] = "running" ELSE library.exists

(* Fault: a conversion is written in place. *)
SaveInPlace ==
    LET ss == SeriesFound(scan.oneShot, scan.dir, scan.out, scan.run)
        bs == BooksFound(scan.oneShot, scan.dir, scan.out, scan.run) IN
    /\ scan.pc = "save"
    /\ library.exists
    /\ series' = UpsertSeries(series, ss)
    /\ books' = UpsertBooks(books, bs)
    /\ scan' = [scan EXCEPT !.pc = "progress", !.dir = None, !.out = {}]
    /\ UNCHANGED <<place, library, staged, status, cancel, history, bounds>>

(* saveSeries or saveOneShots: what was found, in one transaction. *)
SaveDirectory ==
    LET ss == SeriesFound(scan.oneShot, scan.dir, scan.out, scan.run)
        bs == BooksFound(scan.oneShot, scan.dir, scan.out, scan.run) IN
    /\ scan.pc = "save"
    /\ FoundFiles(scan.out) = {} \/ MaySave
    /\ IF scan.staged
       THEN /\ staged' = [series |-> UpsertSeries(staged.series, ss), books |-> UpsertBooks(staged.books, bs)]
            /\ UNCHANGED catalog
       ELSE /\ series' = UpsertSeries(series, ss)
            /\ books' = UpsertBooks(books, bs)
            /\ UNCHANGED staged
    /\ scan' = [scan EXCEPT !.pc = "progress", !.dir = None, !.out = {}]
    /\ UNCHANGED <<place, library, status, cancel, history, bounds>>

(* updateProgress: no row matches once the run is canceled or deleted. *)
UpdateProgress ==
    /\ scan.pc = "progress"
    /\ IF status[scan.run] = "running" /\ ~cancel
       THEN scan' = [scan EXCEPT !.pc = IF scan.todo = NoDirs THEN "commit" ELSE "list"]
       ELSE End("canceled")
    /\ UNCHANGED <<place, library, catalog, staged, status, cancel, history, bounds>>

(* A remote call or a statement fails; after Cancel, because of its context. *)
ScanStops ==
    /\ scan.pc \in {"conversion", "list", "page", "save", "progress", "commit"}
    /\ \/ End("failed")
       \/ cancel /\ scan.pc \in {"list", "page", "save", "progress"} /\ End("canceled")
    /\ UNCHANGED <<place, library, catalog, staged, status, cancel, history, bounds>>

(* commitSuccessfulScan, one transaction.  Converting: the staged rows     *)
(* replace the library's.  Else what this run has not seen goes, and with  *)
(* a series its books.                                                     *)
CommitScan ==
    /\ scan.pc = "commit"
    /\ IF scan.staged
       THEN /\ staged.series # {} => library.exists
            /\ series' = staged.series /\ books' = staged.books
            /\ staged' = NoStaging
       ELSE /\ series' = {s \in series : s.seen = scan.run}
            /\ books' = {b \in books : b.seen = scan.run /\ \E s \in series' : s.cid = b.cid}
            /\ UNCHANGED staged
    /\ scan' = [scan EXCEPT !.pc = "finish", !.outcome = "success"]
    /\ UNCHANGED <<place, library, status, cancel, history, bounds>>

(* Fault: a scan that stops leaves its staging for the next start of the service. *)
DiscardNothing ==
    /\ scan.pc = "discard"
    /\ scan' = [scan EXCEPT !.pc = "finish"]
    /\ UNCHANGED <<place, library, catalog, staged, status, cancel, history, bounds>>

DiscardStaging ==
    /\ scan.pc = "discard"
    /\ staged' = IF scan.staged THEN NoStaging ELSE staged
    /\ scan' = [scan EXCEPT !.pc = "finish"]
    /\ UNCHANGED <<place, library, catalog, status, cancel, history, bounds>>

(* finish writes the result; the job is over. *)
FinishRun ==
    /\ scan.pc = "finish"
    /\ status' = IF status[scan.run] = "running"
                 THEN [status EXCEPT ![scan.run] = scan.outcome] ELSE status
    /\ scan' = [scan EXCEPT !.pc = "idle", !.todo = NoDirs, !.dir = None, !.offset = 0, !.out = {}]
    /\ UNCHANGED <<place, library, catalog, staged, cancel, history, bounds>>

-----------------------------------------------------------------------------
(* The rest of the world.                                                  *)

CancelScan ==
    /\ scan.pc # "idle" /\ status[scan.run] = "running"
    /\ cancel' = TRUE
    /\ UNCHANGED <<place, library, catalog, staged, status, scan, history, bounds>>

(* A file moves to another directory of the tree, enters it or leaves it.  *)
(* What it leaves while that is listed has its later entries move up.      *)
MoveFile(f, d) ==
    /\ moves < MaxMoves /\ moves' = moves + 1
    /\ place[f] # d
    /\ place' = [place EXCEPT ![f] = d]
    /\ settled' = settled \ {f}
    /\ torn' = torn \cup {e \in Dirs : e = place[f] /\ e = scan.dir /\ scan.pc = "page" /\ scan.offset > 0}
    /\ UNCHANGED <<library, catalog, staged, status, cancel, scan, before, edits, restarts>>

Edit == edits < MaxEdits /\ edits' = edits + 1 /\ UNCHANGED <<moves, restarts>>

(* createLibrary or updateLibrary: the mode is set, whatever it was. *)
SetLibrary(oneShot) ==
    /\ Edit
    /\ library' = [exists |-> TRUE, oneShot |-> oneShot]
    /\ UNCHANGED <<place, catalog, staged, status, cancel, scan, history>>

(* The delete cascades to series, books, runs and, through them, staging. *)
DeleteLibrary ==
    /\ Edit /\ library.exists
    /\ library' = [library EXCEPT !.exists = FALSE]
    /\ series' = {} /\ books' = {} /\ staged' = NoStaging
    /\ before' = [series |-> {}, books |-> {}]
    /\ status' = [r \in RunIds |-> IF status[r] = "none" THEN "none" ELSE "gone"]
    /\ UNCHANGED <<place, cancel, scan, settled, torn>>

(* The process dies at any point; New of the next one repairs the tables. *)
Restart ==
    /\ restarts < MaxRestarts /\ restarts' = restarts + 1
    /\ status' = [r \in RunIds |-> IF status[r] = "running" THEN "failed" ELSE status[r]]
    /\ staged' = NoStaging
    /\ scan' = [IdleScan EXCEPT !.run = scan.run, !.oneShot = scan.oneShot,
                               !.staged = scan.staged, !.outcome = scan.outcome]
    /\ UNCHANGED <<place, library, catalog, cancel, history, moves, edits>>

Next ==
    \/ StartScan
    \/ CheckConversion
    \/ \E d \in Dirs : ListDirectory(d)
    \/ ListPage
    \/ SaveDirectory
    \/ UpdateProgress
    \/ ScanStops
    \/ CommitScan
    \/ DiscardStaging
    \/ FinishRun
    \/ CancelScan
    \/ \E f \in Files, d \in Dirs \cup {None} : MoveFile(f, d)
    \/ \E oneShot \in BOOLEAN : SetLibrary(oneShot)
    \/ DeleteLibrary
    \/ Restart

Spec == Init /\ [][Next]_vars

-----------------------------------------------------------------------------
(* Properties.                                                             *)

(* The readers' queries take a library to hold directory series or         *)
(* one-shots, never both, even in the middle of a scan whose job still has *)
(* the mode the library had: a scan that would mix them is staged.         *)
ModeUniform == \A s, t \in series : s.oneShot = t.oneShot

(* "Only after a scan succeeded are missing series and books deleted", and *)
(* a mode conversion shows nothing of itself before: until the commit, and *)
(* for good when there is none, all the run found is still there, and      *)
(* nothing else if the run is a conversion.                                *)
Committed == scan.outcome = "success"
OldStructureKept ==
    ~Committed =>
        /\ {s.cid : s \in before.series} \subseteq {s.cid : s \in series}
        /\ {b.file : b \in before.books} \subseteq {b.file : b \in books}
        /\ scan.staged => series = before.series /\ books = before.books

(* The directories the scan cannot have missed: what was shown of a torn   *)
(* one may lack a subdirectory.                                            *)
Reached ==
    {d \in Dirs : \A D \in SUBSET Dirs :
        Root \in D /\ (\A e \in D \ torn : Children[e] \subseteq D) => d \in D}

(* After a successful scan a file that stayed where it was is a book of    *)
(* the series of its place or, if another file left the directory or one   *)
(* above it while that was being listed, it may be none; a file that       *)
(* stayed away is none.  If no file moved, series, books and their numbers *)
(* are those of the tree.                                                  *)
Succeeded == scan.pc = "idle" /\ status[scan.run] = "success" /\ scan.run > 0
SuccessMatchesTree ==
    Succeeded =>
        /\ \A f \in settled : LET cids == {b.cid : b \in {c \in books : c.file = f}} IN
              /\ cids \subseteq IF place[f] = None THEN {}
                                ELSE {IF scan.oneShot THEN OneShotCID(f) ELSE DirCID(place[f])}
              /\ place[f] \in Reached \ torn => cids # {}
        /\ settled = Files =>
              /\ series = TreeSeries(scan.oneShot, scan.run)
              /\ books = TreeBooks(scan.oneShot, scan.run)

(* Staging holds rows only for the conversion that is under way: a later   *)
(* scan, or one after a restart, never commits rows somebody left behind.  *)
StagingBelongsToScan ==
    staged # NoStaging =>
        /\ scan.staged /\ scan.pc \in {"list", "page", "save", "progress", "commit", "discard"}
        /\ \A x \in staged.series \cup staged.books : x.seen = scan.run

-----------------------------------------------------------------------------
(* What is not so in the code.                                             *)

(* "Only after a scan succeeded are missing series and books deleted"      *)
(* (README.md): what it deletes is missing.  But the file a page border    *)
(* has skipped, or one below the directory it has skipped, is not.         *)
SettledFilesKept ==
    Succeeded => \A f \in settled : place[f] # None => \E b \in books : b.file = f

(* "A failed or canceled scan keeps the previous complete data" and "failure, *)
(* cancel or a restart of the service do not delete the previous complete     *)
(* structure" (README.md): what a run that is reported failed has found is    *)
(* still there.                                                               *)
FailedRunKeptData ==
    status[scan.run] \in {"failed", "canceled"} =>
        {b.file : b \in before.books} \subseteq {b.file : b \in books}
=============================================================================
