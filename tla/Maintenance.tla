----------------------------- MODULE Maintenance -----------------------------
(***************************************************************************)
(* The maintenance jobs of the detail pages: book_index, series_index and  *)
(* series_thumbnail jobs, started and canceled by requests, executed one   *)
(* by one by a worker that polls for cancellation, while scans move and    *)
(* remove the books and series the jobs are for.                           *)
(*                                                                         *)
(* A step is a database statement, a critical section of Manager.mu, or    *)
(* the processing of one item (an archive index or a cover, here only an   *)
(* outcome).                                                               *)
(***************************************************************************)
EXTENDS Integers, Sequences, FiniteSets

CONSTANTS
    Series, Books,  \* IDs
    Requests,       \* HTTP requests that start a job; their client may go away
    Ops,            \* the operations the requests ask for
    MaxRuns,        \* bound: maintenance_runs rows
    ChanCap,        \* capacity of the jobs channel (64 in the code)
    MaxChanges,     \* bound: books placed or removed and series removed by scans
    MaxRestarts,    \* bound: process restarts
    None            \* no series, no key

ASSUME MaintenanceAssumption ==
    /\ Ops \subseteq {"book_index", "series_index", "series_thumbnail"}
    /\ ChanCap \in Nat \ {0}
    /\ {MaxRuns, MaxChanges, MaxRestarts} \subseteq Nat
    /\ IsFiniteSet(Books)
    /\ None \notin Series

VARIABLES
    series,   \* the series rows
    home,     \* books.series_id, None without a row
    row,      \* the maintenance_runs table, by ID
    queued,   \* Manager.queued: the run each key is reserved for
    jobs,     \* Manager.jobs
    work,     \* the worker: where execute stands, with its copy of the row
    closing,  \* Close was called: Manager.ctx is canceled
    request,  \* start calls in flight
    changes, restarts

catalog == <<series, home>>
mem     == <<queued, jobs, work>>
bounds  == <<changes, restarts>>
vars    == <<catalog, row, mem, closing, request, bounds>>

Runs == 1..MaxRuns
Keys == (Ops \cap {"book_index"}) \X Books \cup (Ops \ {"book_index"}) \X Series

Live     == {"queued", "running"}
Terminal == {"success", "partial", "failed", "canceled"}

(* generated_count and skipped_count are counted together, as done. *)
NoCounts    == [total |-> 0, done |-> 0, failed |-> 0]
NoRow       == [key |-> <<>>, series |-> None, status |-> "none", cancel |-> FALSE, n |-> NoCounts]
IdleWorker  == [pc |-> "idle", run |-> 0, key |-> <<>>, series |-> None, todo |-> {},
                n |-> NoCounts, outcome |-> "none"]
IdleRequest == [pc |-> "idle", key |-> <<>>, series |-> None, total |-> 0, run |-> 0]

Processed(n) == n.done + n.failed
BooksIn(s)   == {b \in Books : home[b] = s}
Exists(r)    == row[r].status \notin {"none", "gone"}

Items  == 0..Cardinality(Books) + 1
Counts == [total : Items, done : Items, failed : Items]
MaybeKey == Keys \cup {<<>>}

TypeOK ==
    /\ series \subseteq Series
    /\ home \in [Books -> series \cup {None}]
    /\ row \in [Runs -> [key : MaybeKey, series : Series \cup {None}, cancel : BOOLEAN, n : Counts,
                         status : {"none", "gone"} \cup Live \cup Terminal]]
    /\ queued \in [Keys -> 0..MaxRuns]
    /\ jobs \in Seq(Runs) /\ Len(jobs) <= ChanCap
    /\ work \in [pc : {"idle", "read", "mark", "list", "progress", "check", "build", "finish", "release"},
                 run : 0..MaxRuns, key : MaybeKey, series : Series \cup {None},
                 todo : SUBSET Books, n : Counts, outcome : {"none"} \cup Terminal]
    /\ closing \in BOOLEAN
    /\ request \in [Requests -> [pc : {"idle", "reserve", "insert", "readback", "send"}, key : MaybeKey,
                                 series : Series \cup {None}, total : Items,
                                 run : 0..MaxRuns]]
    /\ changes \in 0..MaxChanges /\ restarts \in 0..MaxRestarts

Init ==
    /\ series \in SUBSET Series
    /\ home \in [Books -> series \cup {None}]
    /\ row = [r \in Runs |-> NoRow]
    /\ queued = [k \in Keys |-> 0]
    /\ jobs = <<>>
    /\ work = IdleWorker
    /\ closing = FALSE
    /\ request = [p \in Requests |-> IdleRequest]
    /\ changes = 0 /\ restarts = 0

-----------------------------------------------------------------------------
(* Starting a job.                                                         *)

(* A row's keys: the series, and for a book_index the book.                *)
TargetExists(k, s) == s \in series /\ (k[1] = "book_index" => home[k[2]] # None)

(* StartBookIndex, StartSeriesIndex, StartSeriesThumbnail read the target. *)
ReadTarget(p, k) ==
    /\ request[p].pc = "idle" /\ ~closing
    /\ LET s == IF k[1] = "book_index" THEN home[k[2]] ELSE k[2] IN
       /\ s \in series
       /\ k[1] = "series_thumbnail" => BooksIn(s) # {}
       /\ request' = [request EXCEPT ![p] =
              [pc |-> "reserve", key |-> k, series |-> s, run |-> 0,
               total |-> IF k[1] = "series_index" THEN Cardinality(BooksIn(s)) ELSE 1]]
    /\ UNCHANGED <<catalog, row, mem, closing, bounds>>

(* IDs are random and never repeat: here they are drawn in order. *)
Fresh(r) == row[r].status = "none" /\ \A k \in Keys : queued[k] # r
NewID(r) == Fresh(r) /\ \A q \in Runs : Fresh(q) => r <= q

(* Fault: the map is not consulted. *)
ReserveUnchecked(p) ==
    /\ request[p].pc = "reserve"
    /\ \E r \in Runs :
          /\ NewID(r)
          /\ queued' = [queued EXCEPT ![request[p].key] = r]
          /\ request' = [request EXCEPT ![p].pc = "insert", ![p].run = r]
    /\ UNCHANGED <<catalog, row, jobs, work, closing, bounds>>

Reserve(p) ==
    /\ request[p].pc = "reserve"
    /\ \/ /\ queued[request[p].key] # 0
          /\ request' = [request EXCEPT ![p] = IdleRequest]
          /\ UNCHANGED queued
       \/ /\ queued[request[p].key] = 0
          /\ \E r \in Runs :
                /\ NewID(r)
                /\ queued' = [queued EXCEPT ![request[p].key] = r]
                /\ request' = [request EXCEPT ![p].pc = "insert", ![p].run = r]
    /\ UNCHANGED <<catalog, row, jobs, work, closing, bounds>>

InsertRun(p) ==
    /\ request[p].pc = "insert"
    /\ TargetExists(request[p].key, request[p].series)
    /\ row' = [row EXCEPT ![request[p].run] =
                  [key |-> request[p].key, series |-> request[p].series, status |-> "queued",
                   cancel |-> FALSE, n |-> [NoCounts EXCEPT !.total = request[p].total]]]
    /\ request' = [request EXCEPT ![p].pc = "readback"]
    /\ UNCHANGED <<catalog, mem, closing, bounds>>

ReadBack(p) ==
    /\ request[p].pc = "readback"
    /\ Exists(request[p].run)
    /\ request' = [request EXCEPT ![p].pc = "send"]
    /\ UNCHANGED <<catalog, row, mem, closing, bounds>>

(* Fault: the channel has no bound. *)
SendJobUnbounded(p) ==
    /\ request[p].pc = "send"
    /\ jobs' = Append(jobs, request[p].run)
    /\ request' = [request EXCEPT ![p] = IdleRequest]
    /\ UNCHANGED <<catalog, row, queued, work, closing, bounds>>

SendJob(p) ==
    /\ request[p].pc = "send"
    /\ Len(jobs) < ChanCap
    /\ jobs' = Append(jobs, request[p].run)
    /\ request' = [request EXCEPT ![p] = IdleRequest]
    /\ UNCHANGED <<catalog, row, queued, work, closing, bounds>>

(* Fault: only a failed INSERT is undone. *)
StartFailsLeaking(p) ==
    /\ request[p].pc \in {"insert", "readback"}
    /\ queued' = IF request[p].pc = "insert" THEN [queued EXCEPT ![request[p].key] = 0] ELSE queued
    /\ request' = [request EXCEPT ![p] = IdleRequest]
    /\ UNCHANGED <<catalog, row, jobs, work, closing, bounds>>

(* Every error takes the reservation back, though not the row: the INSERT  *)
(* or the read-back fails (a foreign key, the row is gone, the client is), *)
(* or the manager closes while the channel is full.                        *)
StartFails(p) ==
    /\ \/ request[p].pc \in {"insert", "readback"}
       \/ request[p].pc = "send" /\ closing
    /\ queued' = [queued EXCEPT ![request[p].key] = 0]
    /\ request' = [request EXCEPT ![p] = IdleRequest]
    /\ UNCHANGED <<catalog, row, jobs, work, closing, bounds>>

(* Cancel only marks the row. *)
Cancel(r) ==
    /\ ~closing
    /\ row[r].status \in Live
    /\ row' = [row EXCEPT ![r].cancel = TRUE]
    /\ UNCHANGED <<catalog, mem, closing, request, bounds>>

-----------------------------------------------------------------------------
(* The worker.                                                             *)

(* Also after Close: the worker's select may still pick the job. *)
TakeJob ==
    /\ work.pc = "idle" /\ jobs # <<>>
    /\ work' = [IdleWorker EXCEPT !.pc = "read", !.run = Head(jobs)]
    /\ jobs' = Tail(jobs)
    /\ UNCHANGED <<catalog, row, queued, closing, request, bounds>>

Goto(pc)     == work' = [work EXCEPT !.pc = pc]
Finish(o)    == work' = [work EXCEPT !.pc = "finish", !.outcome = o]
RowReachable == Exists(work.run) /\ ~closing

(* Fault: a cancel before the start is left to the loops. *)
ReadRunUncanceled ==
    /\ work.pc = "read"
    /\ IF ~RowReachable
       THEN work' = IdleWorker
       ELSE LET me == row[work.run] IN
            work' = [work EXCEPT !.key = me.key, !.series = me.series, !.n = me.n, !.pc = "mark"]
    /\ UNCHANGED <<catalog, row, queued, jobs, closing, request, bounds>>

(* execute reads its row, and learns only from it which key to release:    *)
(* with the row gone, it returns before the release is deferred.           *)
ReadRun ==
    /\ work.pc = "read"
    /\ IF ~RowReachable
       THEN work' = IdleWorker
       ELSE LET me == row[work.run] IN
            work' = [work EXCEPT !.key = me.key, !.series = me.series, !.n = me.n,
                                 !.pc = IF me.cancel THEN "finish" ELSE "mark",
                                 !.outcome = IF me.cancel THEN "canceled" ELSE "none"]
    /\ UNCHANGED <<catalog, row, queued, jobs, closing, request, bounds>>

MarkRunning ==
    /\ work.pc = "mark"
    /\ row' = IF RowReachable THEN [row EXCEPT ![work.run].status = "running"] ELSE row
    /\ Goto(IF work.key[1] = "series_thumbnail" THEN "check" ELSE "list")
    /\ UNCHANGED <<catalog, queued, jobs, closing, request, bounds>>

(* Fault: total_items stays what the request counted. *)
ListBooksStale ==
    /\ work.pc = "list"
    /\ IF closing \/ (work.key[1] = "book_index" /\ home[work.key[2]] = None)
       THEN Finish("failed")
       ELSE IF work.key[1] = "book_index"
       THEN work' = [work EXCEPT !.pc = "build", !.todo = {work.key[2]}]
       ELSE work' = [work EXCEPT !.pc = "progress", !.todo = BooksIn(work.series)]
    /\ UNCHANGED <<catalog, row, queued, jobs, closing, request, bounds>>

(* The book, or the books the series has now: there may be none left.      *)
ListBooks ==
    /\ work.pc = "list"
    /\ IF closing \/ (work.key[1] = "book_index" /\ home[work.key[2]] = None)
       THEN Finish("failed")
       ELSE IF work.key[1] = "book_index"
       THEN work' = [work EXCEPT !.pc = "build", !.todo = {work.key[2]}]
       ELSE work' = [work EXCEPT !.pc = "progress", !.todo = BooksIn(work.series),
                                 !.n.total = Cardinality(BooksIn(work.series))]
    /\ UNCHANGED <<catalog, row, queued, jobs, closing, request, bounds>>

(* finishWithCounts *)
Result(n) ==
    IF n.failed = 0 THEN "success"
    ELSE IF n.done = 0 THEN "failed" ELSE "partial"

(* updateProgress matches no row that is gone or to be canceled. *)
UpdateProgress ==
    /\ work.pc = "progress"
    /\ IF RowReachable /\ ~row[work.run].cancel
       THEN /\ row' = [row EXCEPT ![work.run].n = work.n]
            /\ IF work.todo = {} THEN Finish(Result(work.n)) ELSE Goto("check")
       ELSE Finish("canceled") /\ UNCHANGED row
    /\ UNCHANGED <<catalog, queued, jobs, closing, request, bounds>>

(* cancelRequested *)
CheckCancel ==
    /\ work.pc = "check"
    /\ IF RowReachable /\ ~row[work.run].cancel THEN Goto("build") ELSE Finish("canceled")
    /\ UNCHANGED <<catalog, row, queued, jobs, closing, request, bounds>>

(* The next of the books is taken; a cover job has none. *)
Rests(books) == IF books = {} THEN {{}} ELSE {books \ {b} : b \in books}

(* processBook or buildCover, and its count. *)
Build ==
    /\ work.pc = "build"
    /\ \E o \in {"done", "failed"}, rest \in Rests(work.todo) :
          LET n == [work.n EXCEPT ![o] = @ + 1] IN
          work' = [work EXCEPT !.n = n, !.todo = rest,
                               !.pc = IF work.key[1] = "book_index" THEN "finish" ELSE "progress",
                               !.outcome = IF work.key[1] = "book_index" THEN Result(n) ELSE "none"]
    /\ UNCHANGED <<catalog, row, queued, jobs, closing, request, bounds>>

(* finish: by ID alone, with the background context; the database may be   *)
(* closed under it.                                                        *)
FinishRun ==
    /\ work.pc = "finish"
    /\ \/ row' = IF Exists(work.run)
                 THEN [row EXCEPT ![work.run].status = work.outcome, ![work.run].n = work.n] ELSE row
       \/ closing /\ UNCHANGED row
    /\ work' = [work EXCEPT !.pc = "release", !.todo = {}, !.n = NoCounts]
    /\ UNCHANGED <<catalog, queued, jobs, closing, request, bounds>>

(* Fault: the run that was canceled before its start is forgotten. *)
ReleaseForgets ==
    /\ work.pc = "release"
    /\ queued' = IF work.outcome = "canceled" THEN queued ELSE [queued EXCEPT ![work.key] = 0]
    /\ work' = IdleWorker
    /\ UNCHANGED <<catalog, row, jobs, closing, request, bounds>>

Release ==
    /\ work.pc = "release"
    /\ queued' = [queued EXCEPT ![work.key] = 0]
    /\ work' = IdleWorker
    /\ UNCHANGED <<catalog, row, jobs, closing, request, bounds>>

-----------------------------------------------------------------------------
(* Scans, shutdown and restart.                                            *)

Change == changes < MaxChanges /\ changes' = changes + 1 /\ UNCHANGED restarts

(* A scan finds a book in a series, new or known. *)
PlaceBook(b, s) ==
    /\ Change
    /\ series' = series \cup {s}
    /\ home' = [home EXCEPT ![b] = s]
    /\ UNCHANGED <<row, mem, closing, request>>

Cascade(lost) == [r \in Runs |-> IF r \in lost THEN [row[r] EXCEPT !.status = "gone"] ELSE row[r]]

DropBook(b) ==
    /\ Change /\ home[b] # None
    /\ home' = [home EXCEPT ![b] = None]
    /\ row' = Cascade({r \in Runs : row[r].key = <<"book_index", b>>})
    /\ UNCHANGED <<series, mem, closing, request>>

(* The series of a row is the one it was started in: a book that has moved *)
(* does not save the row of its job.                                       *)
DropSeries(s) ==
    /\ Change /\ s \in series
    /\ series' = series \ {s}
    /\ home' = [b \in Books |-> IF home[b] = s THEN None ELSE home[b]]
    /\ row' = Cascade({r \in Runs : row[r].series = s \/ \E b \in BooksIn(s) : row[r].key = <<"book_index", b>>})
    /\ UNCHANGED <<mem, closing, request>>

Close ==
    /\ ~closing /\ restarts < MaxRestarts
    /\ closing' = TRUE
    /\ UNCHANGED <<catalog, row, mem, request, bounds>>

(* Fault: the UPDATE lacks its WHERE. *)
RepairedAlways(r) ==
    IF Exists(r) THEN [row[r] EXCEPT !.status = "failed"] ELSE row[r]

(* The UPDATE of newManager. *)
Repaired(r) ==
    IF row[r].status \in Live THEN [row[r] EXCEPT !.status = "failed"] ELSE row[r]

Restart ==
    /\ restarts < MaxRestarts /\ restarts' = restarts + 1
    /\ row' = [r \in Runs |-> Repaired(r)]
    /\ queued' = [k \in Keys |-> 0]
    /\ jobs' = <<>>
    /\ work' = IdleWorker
    /\ closing' = FALSE
    /\ request' = [p \in Requests |-> IdleRequest]
    /\ UNCHANGED <<catalog, changes>>

RequestStep(p) == Reserve(p) \/ InsertRun(p) \/ ReadBack(p) \/ SendJob(p) \/ StartFails(p)

WorkerStep ==
    \/ TakeJob
    \/ ReadRun \/ MarkRunning \/ ListBooks \/ UpdateProgress
    \/ CheckCancel \/ Build \/ FinishRun \/ Release

Next ==
    \/ \E p \in Requests : RequestStep(p) \/ \E k \in Keys : ReadTarget(p, k)
    \/ \E r \in Runs : Cancel(r)
    \/ WorkerStep
    \/ \E b \in Books : DropBook(b) \/ \E s \in Series : PlaceBook(b, s)
    \/ \E s \in Series : DropSeries(s)
    \/ Close
    \/ Restart

Spec == Init /\ [][Next]_vars

(* The worker's goroutine runs; an index or a cover is built, or fails, in *)
(* finite time; a closed process ends.                                     *)
FairSpec == Spec /\ WF_vars(~closing /\ WorkerStep) /\ WF_vars(closing /\ Restart)

-----------------------------------------------------------------------------
(* Properties.                                                             *)

Carrying(p) == request[p].pc \in {"insert", "readback", "send"}
Working     == work.pc # "idle"
JobsRuns    == {jobs[i] : i \in 1..Len(jobs)}

(* Who carries a run: a request on its way to the channel, the channel or  *)
(* the worker.                                                             *)
Carried ==
    {request[p].run : p \in {q \in Requests : Carrying(q)}}
      \cup JobsRuns \cup (IF Working THEN {work.run} ELSE {})

(* Two jobs of one kind for one target are never under way together: of    *)
(* all runs that a request, the channel or the worker carries, each is the *)
(* run its key is reserved for, though the worker learns the key from a    *)
(* row that scans and cascades may take away.                              *)
CarriedRunsReserved ==
    /\ \A p \in Requests : Carrying(p) => queued[request[p].key] = request[p].run
    /\ \A r \in JobsRuns : queued[row[r].key] = r
    /\ Working => queued[row[work.run].key] = work.run
    /\ Working /\ work.pc # "read" => work.key = row[work.run].key
    /\ \A i, j \in 1..Len(jobs) : jobs[i] = jobs[j] => i = j

(* The reservation a user is refused with ("already queued or running for  *)
(* this target") has a run behind it, unless the target's rows were        *)
(* removed under the job: only then does execute return without a release. *)
LeakOnlyByCascade ==
    ~closing => \A k \in Keys :
        queued[k] # 0 => queued[k] \in Carried \/ row[queued[k]].status = "gone"

(* What the detail page shows of a run adds up, whatever came and went     *)
(* under the job: a success has all its items behind it, a partial one has *)
(* both kinds, and no run processes more than its total.                   *)
ResultsAddUp ==
    \A r \in Runs : LET n == row[r].n IN
        /\ Processed(n) <= n.total
        /\ row[r].status \in {"success", "partial"} => Processed(n) = n.total
        /\ row[r].status = "success" => n.failed = 0
        /\ row[r].status = "partial" => n.failed \in 1..n.total - 1

(* The rows live as RunLifecycle promises: no late result over a repaired, *)
(* finished or removed row.                                                *)
Lifecycle == INSTANCE RunLifecycle WITH
    status <- [r \in Runs |-> row[r].status],
    cancel <- [r \in Runs |-> row[r].cancel]

RowsFollowLifecycle == Lifecycle!Spec

(* A run canceled while the worker had not taken it neither starts nor     *)
(* succeeds.                                                               *)
CancelBeforeStartHolds ==
    \A r \in Runs :
        [](row[r].status = "queued" /\ row[r].cancel /\ work.run # r
             => [](row[r].status \notin {"running", "success", "partial"}))

(* A job that was sent ends: its row is no longer live and, while the      *)
(* target is still there, its key can be used again.                       *)
AcceptedRunEnds ==
    \A r \in Runs : r \in JobsRuns ~>
        (row[r].status = "gone" \/ (row[r].status \notin Live /\ \A k \in Keys : queued[k] # r))
=============================================================================
