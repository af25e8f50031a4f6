----------------------------- MODULE ArchiveIndex -----------------------------
(***************************************************************************)
(* Reading the pages of a book: the index of its archive, kept in          *)
(* zip_indexes, the pages kept in the page cache, and the worker that      *)
(* builds the index of the next volume when a reader nears the end of one. *)
(*                                                                         *)
(* A call works on the copy of the book it took at its start, while scans  *)
(* change the books table.  An archive is the file of one version of a     *)
(* book; 115 gives the file the copy names, or nothing.  Every statement,  *)
(* remote read, channel operation and critical section is a step.          *)
(***************************************************************************)
EXTENDS Naturals, FiniteSets, Sequences

CONSTANTS
    Books,       \* book IDs, ordered as number_sort orders the books of a series
    Series,      \* series IDs
    OneShots,    \* those that are One-Shots
    Readers,     \* requests, the goroutines that prefetch pages, and maintenance jobs
    Worker,      \* the prefetcher's worker
    Pages,       \* pages of every archive
    Remaining,   \* volume_index_prefetch_remaining_pages
    Cap,         \* capacity of the prefetcher's channel
    MaxChanges,  \* bound: changes of the catalog
    None         \* no series, no book

ASSUME ArchiveAssumption ==
    /\ Books \subseteq Nat
    /\ OneShots \subseteq Series
    /\ Pages \in Nat /\ Remaining \in Nat \ {0} /\ Cap \in Nat /\ MaxChanges \in Nat
    /\ Worker \notin Readers /\ None \notin Series \cup Books

VARIABLES
    book,     \* the books table: series and version; series None: no such book
    index,    \* zip_indexes: the version of the row, None without one
    cached,   \* the page cache: the version a page was read from, by key
    call,     \* the calls under way
    jobs, pending, closed,  \* the prefetcher's channel, map and context
    changes

prefetcher == <<jobs, pending, closed>>
vars == <<book, index, cached, call, prefetcher, changes>>

Callers  == Readers \cup {Worker}
Versions == 0..MaxChanges

(* A copy of a book's row, and the prefetcher's key: ID and version. *)
BookByID(b) == [book |-> b, series |-> book[b].series, version |-> book[b].version]
KeyOf(copy) == <<copy.book, copy.version>>
NoCopy == [book |-> None, series |-> None, version |-> 0]

Idle == [pc |-> "idle", kind |-> "list", copy |-> NoCopy, page |-> 0, pages |-> 0, data |-> 0, key |-> <<>>]

TypeOK ==
    /\ book \in [Books -> [series : Series \cup {None}, version : Versions]]
    /\ index \in [Books -> Versions \cup {None}]
    /\ cached \in SUBSET [key : Books \X Versions \X (1..Pages), data : Versions]
    /\ \A c \in Callers :
          /\ call[c].pc \in {"idle", "delete", "index", "build", "save", "page", "load", "served", "claim",
                             "send", "setting", "next", "book", "finish", "gone"}
          /\ call[c].kind \in {"list", "read", "worker"}
    /\ pending \in SUBSET (Books \X Versions)
    /\ Len(jobs) <= Cap
    /\ closed \in BOOLEAN /\ changes \in 0..MaxChanges

Init ==
    /\ book \in [Books -> [series : Series, version : {0}]]
    /\ index = [b \in Books |-> None]
    /\ cached = {}
    /\ call = [c \in Callers |-> Idle]
    /\ jobs = <<>> /\ pending = {} /\ closed = FALSE
    /\ changes = 0

At(c, l)   == call[c].pc = l
Goto(c, l) == call' = [call EXCEPT ![c].pc = l]

-----------------------------------------------------------------------------
(* A scan replaces, moves or deletes a book; an index goes with its book.  *)

Scan(b, s, replaced) ==
    /\ changes < MaxChanges /\ changes' = changes + 1
    /\ book' = [book EXCEPT ![b] = [series |-> s, version |-> IF replaced THEN changes + 1 ELSE @.version]]
    /\ index' = IF s = None THEN [index EXCEPT ![b] = None] ELSE index
    /\ UNCHANGED <<cached, call, prefetcher>>

-----------------------------------------------------------------------------
(* The start of a call: the book as it is now.                             *)

(* komgaPageImage, the first book's page 1 for a cover, and Prefetch, which *)
(* reads on with the copy of the request it follows.                       *)
Read(r, b, n) ==
    /\ At(r, "idle") /\ book[b].series # None
    /\ call' = [call EXCEPT ![r] = [Idle EXCEPT !.pc = "index", !.kind = "read", !.copy = BookByID(b), !.page = n]]
    /\ UNCHANGED <<book, index, cached, prefetcher, changes>>

(* komgaPages, and the index job: with force it deletes the row first,     *)
(* without it it has asked for the row, which changes nothing.             *)
List(r, b, force) ==
    /\ At(r, "idle") /\ book[b].series # None
    /\ call' = [call EXCEPT ![r] = [Idle EXCEPT !.pc = IF force THEN "delete" ELSE "index", !.copy = BookByID(b)]]
    /\ UNCHANGED <<book, index, cached, prefetcher, changes>>

DeleteArchiveIndex(r) ==
    /\ At(r, "delete")
    /\ index' = [index EXCEPT ![call[r].copy.book] = None]
    /\ Goto(r, "index")
    /\ UNCHANGED <<book, cached, prefetcher, changes>>

-----------------------------------------------------------------------------
(* ListPages of both formats.                                              *)

(* A caller that has its pages, and one whose call fails. *)
Listed(c, v) ==
    call' = [call EXCEPT ![c] = CASE @.kind = "list" -> Idle
                                  [] @.kind = "worker" -> [@ EXCEPT !.pc = "finish"]
                                  [] OTHER -> [@ EXCEPT !.pc = "page", !.pages = v]]
Failed(c) == IF c = Worker THEN Goto(c, "finish") ELSE call' = [call EXCEPT ![c] = Idle]

Fail(c) ==
    /\ call[c].pc \in {"delete", "index", "build", "save", "page", "load"}
    /\ Failed(c)
    /\ UNCHANGED <<book, index, cached, prefetcher, changes>>

(* Fault: ArchiveIndexRaw, the row of any version. *)
IndexRaw(c) ==
    LET row == index[call[c].copy.book] IN
    /\ At(c, "index")
    /\ IF row # None THEN Listed(c, row) ELSE Goto(c, "build")
    /\ UNCHANGED <<book, index, cached, prefetcher, changes>>

ArchiveIndexRawForVersion(c) ==
    LET copy == call[c].copy IN
    /\ At(c, "index")
    /\ IF index[copy.book] = copy.version THEN Listed(c, copy.version) ELSE Goto(c, "build")
    /\ UNCHANGED <<book, index, cached, prefetcher, changes>>

(* The archive's directory is read from 115 and sorted into pages. *)
BuildPages(c) ==
    /\ At(c, "build")
    /\ Goto(c, "save")
    /\ UNCHANGED <<book, index, cached, prefetcher, changes>>

(* The row replaces one of any other version, a newer one too; without its *)
(* book it is refused.                                                     *)
RecordArchiveIndexBuild(c) ==
    LET copy == call[c].copy IN
    /\ At(c, "save")
    /\ IF book[copy.book].series # None
       THEN index' = [index EXCEPT ![copy.book] = copy.version] /\ Listed(c, copy.version)
       ELSE Failed(c) /\ UNCHANGED index
    /\ UNCHANGED <<book, cached, prefetcher, changes>>

-----------------------------------------------------------------------------
(* ReadPage, and what follows a page that was sent.                        *)

(* Fault: the version is left out of the page's key. *)
PageKeyOfBook(c) == <<call[c].copy.book, 0, call[c].page>>

PageKey(c) == <<call[c].copy.book, call[c].copy.version, call[c].page>>

(* A page past the end is not found. *)
FindPage(r) ==
    LET hits == {e \in cached : e.key = PageKey(r)} IN
    /\ At(r, "page")
    /\ call' = [call EXCEPT ![r] =
           IF @.page > Pages THEN Idle
           ELSE IF hits = {} THEN [@ EXCEPT !.pc = "load"]
           ELSE [@ EXCEPT !.pc = "served", !.pages = 0, !.data = (CHOOSE e \in hits : TRUE).data]]
    /\ UNCHANGED <<book, index, cached, prefetcher, changes>>

(* The entry is read out of the copy's archive; an index of another one    *)
(* does not fit it.  A stored ZIP entry is not cached.                     *)
ReadEntry(r, keep) ==
    LET v == call[r].copy.version IN
    /\ At(r, "load") /\ call[r].pages = v
    /\ cached' = IF keep THEN cached \cup {[key |-> PageKey(r), data |-> v]} ELSE cached
    /\ call' = [call EXCEPT ![r] = [@ EXCEPT !.pc = "served", !.pages = 0, !.data = v]]
    /\ UNCHANGED <<book, index, prefetcher, changes>>

(* Evicted, or cleared by the admin with the indexes. *)
Evict ==
    /\ \/ \E e \in cached : cached' = cached \ {e} /\ UNCHANGED index
       \/ index' = [b \in Books |-> None] /\ index' # index /\ UNCHANGED cached
    /\ UNCHANGED <<book, call, prefetcher, changes>>

(* The page is sent.  A request whose client is still there goes on to     *)
(* Trigger; a prefetching goroutine, a cover job and a maintenance job do  *)
(* not.                                                                    *)
Sent(r) ==
    /\ At(r, "served")
    /\ \/ call' = [call EXCEPT ![r] = [@ EXCEPT !.pc = "claim", !.data = 0]]
       \/ call' = [call EXCEPT ![r] = Idle]
    /\ UNCHANGED <<book, index, cached, prefetcher, changes>>

-----------------------------------------------------------------------------
(* Trigger.                                                                *)

Claim(r) ==
    LET key == KeyOf(call[r].copy) IN
    /\ At(r, "claim")
    /\ \/ key \in pending /\ call' = [call EXCEPT ![r] = Idle] /\ UNCHANGED pending
       \/ key \notin pending /\ pending' = pending \cup {key} /\ Goto(r, "send")
    /\ UNCHANGED <<book, index, cached, jobs, closed, changes>>

(* Fault: a job that finds the queue full is dropped, its key is not. *)
SendOrDrop(r) ==
    /\ At(r, "send")
    /\ IF Len(jobs) < Cap THEN jobs' = Append(jobs, [copy |-> call[r].copy, page |-> call[r].page])
       ELSE UNCHANGED jobs
    /\ call' = [call EXCEPT ![r] = Idle]
    /\ UNCHANGED <<book, index, cached, pending, closed, changes>>

(* select: a ready branch is taken at random, default when none is. *)
Send(r) ==
    /\ At(r, "send")
    /\ \/ /\ Len(jobs) < Cap
          /\ jobs' = Append(jobs, [copy |-> call[r].copy, page |-> call[r].page])
          /\ UNCHANGED pending
       \/ /\ closed \/ Len(jobs) = Cap
          /\ pending' = pending \ {KeyOf(call[r].copy)}
          /\ UNCHANGED jobs
    /\ call' = [call EXCEPT ![r] = Idle]
    /\ UNCHANGED <<book, index, cached, closed, changes>>

-----------------------------------------------------------------------------
(* The worker, and Close.                                                  *)

TakeJob ==
    /\ At(Worker, "idle") /\ jobs # <<>>
    /\ call' = [call EXCEPT ![Worker] = [Idle EXCEPT !.pc = "setting", !.kind = "worker",
                    !.copy = Head(jobs).copy, !.page = Head(jobs).page, !.key = KeyOf(Head(jobs).copy)]]
    /\ jobs' = Tail(jobs)
    /\ UNCHANGED <<book, index, cached, pending, closed, changes>>

(* Disabled, or too many pages left. *)
CheckSetting(enabled) ==
    /\ At(Worker, "setting")
    /\ Goto(Worker, IF ~enabled \/ Pages - call[Worker].page > Remaining THEN "finish" ELSE "next")
    /\ UNCHANGED <<book, index, cached, prefetcher, changes>>

(* The books of the job's series, if the job's book is still one of them,  *)
(* and the one after it.                                                   *)
Following(copy) ==
    {b \in Books : /\ book[copy.book].series = copy.series /\ copy.series \notin OneShots
                   /\ book[b].series = copy.series /\ b > copy.book
                   /\ \A c \in Books : book[c].series = copy.series /\ c > copy.book => b <= c}

NextBookInSeries ==
    LET next == Following(call[Worker].copy) IN
    /\ At(Worker, "next")
    /\ IF next = {} THEN Goto(Worker, "finish")
       ELSE call' = [call EXCEPT ![Worker].pc = "book", ![Worker].copy = [NoCopy EXCEPT !.book = CHOOSE b \in next : TRUE]]
    /\ UNCHANGED <<book, index, cached, prefetcher, changes>>

NextBook ==
    LET b == call[Worker].copy.book IN
    /\ At(Worker, "book")
    /\ IF book[b].series = None THEN Goto(Worker, "finish")
       ELSE call' = [call EXCEPT ![Worker].pc = "index", ![Worker].copy = BookByID(b)]
    /\ UNCHANGED <<book, index, cached, prefetcher, changes>>

(* Fault: a job that fails ends the worker's loop. *)
FinishOrStop ==
    /\ At(Worker, "finish")
    /\ pending' = pending \ {call[Worker].key}
    /\ call' = [call EXCEPT ![Worker] = IF @.copy.book # None /\ index[@.copy.book] # @.copy.version
                                        THEN [Idle EXCEPT !.pc = "gone"] ELSE Idle]
    /\ UNCHANGED <<book, index, cached, jobs, closed, changes>>

Finish ==
    /\ At(Worker, "finish")
    /\ pending' = pending \ {call[Worker].key}
    /\ call' = [call EXCEPT ![Worker] = Idle]
    /\ UNCHANGED <<book, index, cached, jobs, closed, changes>>

Close ==
    /\ ~closed /\ closed' = TRUE
    /\ UNCHANGED <<book, index, cached, call, jobs, pending, changes>>

WorkerGone ==
    /\ At(Worker, "idle") /\ closed
    /\ Goto(Worker, "gone")
    /\ UNCHANGED <<book, index, cached, prefetcher, changes>>

-----------------------------------------------------------------------------
ListStep(c) == ArchiveIndexRawForVersion(c) \/ BuildPages(c) \/ RecordArchiveIndexBuild(c) \/ Fail(c)
ReaderStep(r) ==
    \/ DeleteArchiveIndex(r) \/ FindPage(r) \/ \E keep \in BOOLEAN : ReadEntry(r, keep)
    \/ Sent(r) \/ Claim(r) \/ Send(r)
WorkerStep ==
    \/ TakeJob \/ \E enabled \in BOOLEAN : CheckSetting(enabled)
    \/ NextBookInSeries \/ NextBook \/ Finish \/ WorkerGone

Next ==
    \/ \E b \in Books, s \in Series \cup {None}, replaced \in BOOLEAN : Scan(b, s, replaced)
    \/ \E r \in Readers, b \in Books, n \in 1 .. Pages + 1 : Read(r, b, n)
    \/ \E r \in Readers, b \in Books, force \in BOOLEAN : List(r, b, force)
    \/ \E c \in Callers : ListStep(c)
    \/ \E r \in Readers : ReaderStep(r)
    \/ WorkerStep \/ Close \/ Evict

Spec == Init /\ [][Next]_vars

(* The worker's remote reads end: each has a timeout of ten minutes. *)
FairSpec ==
    /\ Spec
    /\ WF_vars(WorkerStep \/ ListStep(Worker))
    /\ \A r \in Readers : WF_vars(ListStep(r) \/ ReaderStep(r))

-----------------------------------------------------------------------------
(* Properties.                                                             *)

(* Whatever scans, forced rebuilds and slower calls did to the row of the  *)
(* index and to the page cache, a call works with the pages of its own     *)
(* version of the book, and sends a page of that version.                  *)
OwnVersion ==
    \A r \in Readers :
        /\ call[r].pc \in {"page", "load"} => call[r].pages = call[r].copy.version
        /\ call[r].pc = "served" => call[r].data = call[r].copy.version

(* pending holds the key of every job that is queued, being worked on or   *)
(* about to be sent, once, and no other key: no volume is indexed twice at *)
(* a time, and none is given up for the rest of the process.               *)
Holders(k) ==
    {i \in DOMAIN jobs : KeyOf(jobs[i].copy) = k}
        \cup {c \in Callers : (c = Worker /\ call[c].key = k) \/ (call[c].pc = "send" /\ KeyOf(call[c].copy) = k)}
PendingAgrees ==
    \A k \in Books \X Versions : Cardinality(Holders(k)) = IF k \in pending THEN 1 ELSE 0

(* While the process runs the worker always comes to the next job, however *)
(* the one before ended; with PendingAgrees, every key leaves pending and  *)
(* the next page may ask again.                                            *)
QueuedJobIsTaken == jobs # <<>> ~> (call[Worker].pc = "setting" \/ closed)
=============================================================================
