----------------------------- MODULE CoverBatch -----------------------------
(***************************************************************************)
(* The admin page's batch cover jobs: requests that start one for a        *)
(* library, the bounded channel, the worker that makes sure of one cover   *)
(* after another, cancellation, deletion of a library, shutdown, restart.  *)
(*                                                                         *)
(* A step is a database statement, a critical section of BatchManager.mu,  *)
(* or the work on one series, which is only an outcome here.  Series are   *)
(* counted, not named.                                                     *)
(***************************************************************************)
EXTENDS Integers, Sequences

CONSTANTS
    Libs,         \* library IDs
    Requests,     \* HTTP requests that start a job; their client may go away
    Cancelers,    \* HTTP requests that cancel a run
    MaxRuns,      \* bound: thumbnail_runs rows
    MaxSeries,    \* bound: series with books in a library
    ChanCap,      \* capacity of the jobs channel (64 in the code)
    MaxEdits,     \* bound: libraries deleted or created
    MaxRestarts,  \* bound: process restarts
    None          \* no library

ASSUME BatchAssumption ==
    /\ ChanCap \in Nat \ {0}
    /\ {MaxRuns, MaxSeries, MaxEdits, MaxRestarts} \subseteq Nat
    /\ None \notin Libs

VARIABLES
    libraries,  \* the libraries rows
    row,        \* the thumbnail_runs table, by ID
    queued,     \* BatchManager.queued: the run each library is reserved for
    jobs,       \* BatchManager.jobs
    work,       \* the worker: where execute stands, with its copy of the row
    stopped,    \* the context of the active job is canceled
    closing,    \* Close was called: BatchManager.ctx is canceled
    request, canceler,  \* calls in flight
    edits, restarts

mem    == <<queued, jobs, work, stopped>>
calls  == <<request, canceler>>
bounds == <<edits, restarts>>
vars   == <<libraries, row, mem, closing, calls, bounds>>

Runs     == 1..MaxRuns
Live     == {"queued", "running"}
Terminal == {"success", "partial", "failed", "canceled"}

(* generated_count and skipped_count are counted together, as done. *)
NoCounts    == [total |-> 0, done |-> 0, failed |-> 0]
NoRow       == [lib |-> None, status |-> "none", cancel |-> FALSE, n |-> NoCounts]
IdleWorker  == [pc |-> "idle", run |-> 0, lib |-> None, todo |-> 0, n |-> NoCounts, outcome |-> "none"]
IdleRequest == [pc |-> "idle", lib |-> None, total |-> 0, run |-> 0]
IdleCancel  == [pc |-> "idle", run |-> 0]

Exists(r) == row[r].status \notin {"none", "gone"}
Counts    == [total : 0..MaxSeries, done : 0..MaxSeries, failed : 0..MaxSeries]

TypeOK ==
    /\ libraries \subseteq Libs
    /\ row \in [Runs -> [lib : Libs \cup {None}, cancel : BOOLEAN, n : Counts,
                         status : {"none", "gone"} \cup Live \cup Terminal]]
    /\ queued \in [Libs -> 0..MaxRuns]
    /\ jobs \in Seq(Runs \X Libs) /\ Len(jobs) <= ChanCap
    /\ work \in [pc : {"idle", "read", "mark", "select", "next", "ensure", "progress", "finish", "release"},
                 run : 0..MaxRuns, lib : Libs \cup {None}, todo : 0..MaxSeries, n : Counts,
                 outcome : {"none"} \cup Terminal]
    /\ stopped \in BOOLEAN /\ closing \in BOOLEAN
    /\ request \in [Requests -> [pc : {"idle", "reserve", "insert", "readback", "send"},
                                 lib : Libs \cup {None}, total : 0..MaxSeries, run : 0..MaxRuns]]
    /\ canceler \in [Cancelers -> [pc : {"idle", "marked"}, run : 0..MaxRuns]]
    /\ edits \in 0..MaxEdits /\ restarts \in 0..MaxRestarts

Init ==
    /\ libraries = Libs
    /\ row = [r \in Runs |-> NoRow]
    /\ queued = [l \in Libs |-> 0]
    /\ jobs = <<>>
    /\ work = IdleWorker
    /\ stopped = FALSE /\ closing = FALSE
    /\ request = [p \in Requests |-> IdleRequest]
    /\ canceler = [c \in Cancelers |-> IdleCancel]
    /\ edits = 0 /\ restarts = 0

-----------------------------------------------------------------------------
(* Start and Cancel.                                                       *)

ReadLibrary(p, l) ==
    /\ request[p].pc = "idle" /\ ~closing
    /\ l \in libraries
    /\ request' = [request EXCEPT ![p] = [IdleRequest EXCEPT !.pc = "reserve", !.lib = l]]
    /\ UNCHANGED <<libraries, row, mem, closing, canceler, bounds>>

(* IDs are random and never repeat: here they are drawn in order. *)
Fresh(r) == row[r].status = "none" /\ \A l \in Libs : queued[l] # r
NewID(r) == Fresh(r) /\ \A q \in Runs : Fresh(q) => r <= q

(* Fault: the map is not consulted. *)
ReserveUnchecked(p) ==
    /\ request[p].pc = "reserve"
    /\ \E r \in Runs, total \in 0..MaxSeries :
          /\ NewID(r)
          /\ queued' = [queued EXCEPT ![request[p].lib] = r]
          /\ request' = [request EXCEPT ![p].pc = "insert", ![p].run = r, ![p].total = total]
    /\ UNCHANGED <<libraries, row, jobs, work, stopped, closing, canceler, bounds>>

(* Once it is reserved, the library's series with books are counted.       *)
Reserve(p) ==
    LET l == request[p].lib IN
    /\ request[p].pc = "reserve"
    /\ \/ /\ queued[l] # 0
          /\ request' = [request EXCEPT ![p] = IdleRequest]
          /\ UNCHANGED queued
       \/ /\ queued[l] = 0
          /\ \E r \in Runs, total \in 0..MaxSeries :
                /\ NewID(r)
                /\ queued' = [queued EXCEPT ![l] = r]
                /\ request' = [request EXCEPT ![p].pc = "insert", ![p].run = r, ![p].total = total]
    /\ UNCHANGED <<libraries, row, jobs, work, stopped, closing, canceler, bounds>>

InsertRun(p) ==
    /\ request[p].pc = "insert"
    /\ request[p].lib \in libraries
    /\ row' = [row EXCEPT ![request[p].run] =
                  [lib |-> request[p].lib, status |-> "queued", cancel |-> FALSE,
                   n |-> [NoCounts EXCEPT !.total = request[p].total]]]
    /\ request' = [request EXCEPT ![p].pc = "readback"]
    /\ UNCHANGED <<libraries, mem, closing, canceler, bounds>>

ReadBack(p) ==
    /\ request[p].pc = "readback"
    /\ Exists(request[p].run)
    /\ request' = [request EXCEPT ![p].pc = "send"]
    /\ UNCHANGED <<libraries, row, mem, closing, canceler, bounds>>

SendJob(p) ==
    /\ request[p].pc = "send"
    /\ Len(jobs) < ChanCap
    /\ jobs' = Append(jobs, <<request[p].run, request[p].lib>>)
    /\ request' = [request EXCEPT ![p] = IdleRequest]
    /\ UNCHANGED <<libraries, row, queued, work, stopped, closing, canceler, bounds>>

(* The count, the INSERT or the read-back fails: the reservation is taken  *)
(* back.  A send that Close interrupts takes nothing back.                 *)
StartFails(p) ==
    /\ \/ /\ request[p].pc \in {"insert", "readback"}
          /\ queued' = [queued EXCEPT ![request[p].lib] = 0]
       \/ request[p].pc = "send" /\ closing /\ UNCHANGED queued
    /\ request' = [request EXCEPT ![p] = IdleRequest]
    /\ UNCHANGED <<libraries, row, jobs, work, stopped, closing, canceler, bounds>>

MarkCancel(c, r) ==
    /\ canceler[c].pc = "idle" /\ ~closing
    /\ row[r].status \in Live
    /\ row' = [row EXCEPT ![r].cancel = TRUE]
    /\ canceler' = [canceler EXCEPT ![c] = [pc |-> "marked", run |-> r]]
    /\ UNCHANGED <<libraries, mem, closing, request, bounds>>

(* Fault: whatever is active is stopped. *)
StopAny(c) ==
    /\ canceler[c].pc = "marked"
    /\ stopped' = (stopped \/ work.pc # "idle")
    /\ canceler' = [canceler EXCEPT ![c] = IdleCancel]
    /\ UNCHANGED <<libraries, row, queued, jobs, work, closing, request, bounds>>

StopActive(c) ==
    /\ canceler[c].pc = "marked"
    /\ stopped' = (stopped \/ (work.pc # "idle" /\ work.run = canceler[c].run))
    /\ canceler' = [canceler EXCEPT ![c] = IdleCancel]
    /\ UNCHANGED <<libraries, row, queued, jobs, work, closing, request, bounds>>

-----------------------------------------------------------------------------
(* The worker.                                                             *)

Goto(pc)  == work' = [work EXCEPT !.pc = pc]
Finish(o) == work' = [work EXCEPT !.pc = "finish", !.outcome = o]

(* The statements of execute that use its context fail once it is over. *)
ContextOver == stopped \/ closing

(* A job is received and becomes the active one; the worker's select may   *)
(* pick it after Close, too.                                               *)
TakeJob ==
    /\ work.pc = "idle" /\ jobs # <<>>
    /\ work' = [IdleWorker EXCEPT !.pc = "read", !.run = Head(jobs)[1], !.lib = Head(jobs)[2]]
    /\ jobs' = Tail(jobs)
    /\ stopped' = FALSE
    /\ UNCHANGED <<libraries, row, queued, closing, calls, bounds>>

(* An error, be it that Cancel has just ended the context, ends execute    *)
(* with nothing written.                                                   *)
ReadRun ==
    /\ work.pc = "read"
    /\ IF ContextOver \/ ~Exists(work.run)
       THEN Goto("release")
       ELSE work' = [work EXCEPT !.n = row[work.run].n,
                                 !.pc = IF row[work.run].cancel THEN "finish" ELSE "mark",
                                 !.outcome = IF row[work.run].cancel THEN "canceled" ELSE "none"]
    /\ UNCHANGED <<libraries, row, queued, jobs, stopped, closing, calls, bounds>>

MarkRunning ==
    /\ work.pc = "mark"
    /\ row' = IF ~ContextOver /\ Exists(work.run)
              THEN [row EXCEPT ![work.run].status = "running"] ELSE row
    /\ Goto("select")
    /\ UNCHANGED <<libraries, queued, jobs, stopped, closing, calls, bounds>>

(* Fault: total_series stays what the request counted. *)
SelectSeriesStale ==
    /\ work.pc = "select"
    /\ IF ContextOver
       THEN Finish("failed")
       ELSE \E k \in 0..MaxSeries : work' = [work EXCEPT !.pc = "next", !.todo = k]
    /\ UNCHANGED <<libraries, row, queued, jobs, stopped, closing, calls, bounds>>

(* The library's series now, whatever the request counted. *)
SelectSeries ==
    /\ work.pc = "select"
    /\ IF ContextOver
       THEN Finish("failed") /\ UNCHANGED row
       ELSE \E k \in 0..MaxSeries :
               /\ work' = [work EXCEPT !.pc = "next", !.todo = k, !.n.total = k]
               /\ row' = IF Exists(work.run) THEN [row EXCEPT ![work.run].n.total = k] ELSE row
    /\ UNCHANGED <<libraries, queued, jobs, stopped, closing, calls, bounds>>

NextSeries ==
    /\ work.pc = "next"
    /\ IF work.todo = 0 THEN Finish(IF work.n.failed = 0 THEN "success" ELSE "partial")
       ELSE IF ContextOver THEN Finish("canceled")
       ELSE Goto("ensure")
    /\ UNCHANGED <<libraries, row, queued, jobs, stopped, closing, calls, bounds>>

(* Fault: a failed series is tried again. *)
CountedAgain(o) ==
    work' = [work EXCEPT !.pc = "progress", !.todo = IF o = "failed" THEN @ ELSE @ - 1, !.n[o] = @ + 1]

Counted(o) == work' = [work EXCEPT !.pc = "progress", !.todo = @ - 1, !.n[o] = @ + 1]

(* ensure: HasValid, ReadPage, Generate. *)
EnsureCover ==
    /\ work.pc = "ensure"
    /\ IF ContextOver THEN Finish("canceled") ELSE \E o \in {"done", "failed"} : Counted(o)
    /\ UNCHANGED <<libraries, row, queued, jobs, stopped, closing, calls, bounds>>

(* The page was being loaded for somebody else, whose client has gone: the *)
(* flight hands its error, context.Canceled, to all who wait for it.       *)
EnsureSharesCanceledFlight ==
    /\ work.pc = "ensure"
    /\ Finish("canceled")
    /\ UNCHANGED <<libraries, row, queued, jobs, stopped, closing, calls, bounds>>

UpdateProgress ==
    /\ work.pc = "progress"
    /\ IF ~ContextOver /\ Exists(work.run) /\ ~row[work.run].cancel
       THEN row' = [row EXCEPT ![work.run].n = work.n] /\ Goto("next")
       ELSE Finish("canceled") /\ UNCHANGED row
    /\ UNCHANGED <<libraries, queued, jobs, stopped, closing, calls, bounds>>

(* Fault: finish inserts the row if it is not there. *)
FinishRunUpserts ==
    /\ work.pc = "finish"
    /\ row' = [row EXCEPT ![work.run].status = work.outcome, ![work.run].n = work.n]
    /\ work' = [work EXCEPT !.pc = "release", !.todo = 0, !.n = NoCounts]
    /\ UNCHANGED <<libraries, queued, jobs, stopped, closing, calls, bounds>>

(* finish: by ID, with the background context; the database may be closed. *)
FinishRun ==
    /\ work.pc = "finish"
    /\ \/ row' = IF Exists(work.run)
                 THEN [row EXCEPT ![work.run].status = work.outcome, ![work.run].n = work.n] ELSE row
       \/ closing /\ UNCHANGED row
    /\ work' = [work EXCEPT !.pc = "release", !.todo = 0, !.n = NoCounts]
    /\ UNCHANGED <<libraries, queued, jobs, stopped, closing, calls, bounds>>

(* Fault: the early return of execute precedes the deferred function. *)
ReleaseIfFinished ==
    /\ work.pc = "release"
    /\ queued' = IF work.outcome = "none" THEN queued ELSE [queued EXCEPT ![work.lib] = 0]
    /\ work' = IdleWorker
    /\ stopped' = FALSE
    /\ UNCHANGED <<libraries, row, jobs, closing, calls, bounds>>

Release ==
    /\ work.pc = "release"
    /\ queued' = [queued EXCEPT ![work.lib] = 0]
    /\ work' = IdleWorker
    /\ stopped' = FALSE
    /\ UNCHANGED <<libraries, row, jobs, closing, calls, bounds>>

-----------------------------------------------------------------------------
(* Libraries come and go; the process ends and starts.                     *)

DeleteLibrary(l) ==
    /\ edits < MaxEdits /\ edits' = edits + 1
    /\ l \in libraries
    /\ libraries' = libraries \ {l}
    /\ row' = [r \in Runs |-> IF row[r].lib = l THEN [row[r] EXCEPT !.status = "gone"] ELSE row[r]]
    /\ UNCHANGED <<mem, closing, calls, restarts>>

CreateLibrary(l) ==
    /\ edits < MaxEdits /\ edits' = edits + 1
    /\ l \notin libraries
    /\ libraries' = libraries \cup {l}
    /\ UNCHANGED <<row, mem, closing, calls, restarts>>

Close ==
    /\ ~closing /\ restarts < MaxRestarts
    /\ closing' = TRUE
    /\ UNCHANGED <<libraries, row, mem, calls, bounds>>

(* The UPDATE of newBatchManager. *)
Repaired(r) ==
    IF row[r].status \in Live THEN [row[r] EXCEPT !.status = "failed"] ELSE row[r]

Restart ==
    /\ restarts < MaxRestarts /\ restarts' = restarts + 1
    /\ row' = [r \in Runs |-> Repaired(r)]
    /\ queued' = [l \in Libs |-> 0]
    /\ jobs' = <<>>
    /\ work' = IdleWorker
    /\ stopped' = FALSE /\ closing' = FALSE
    /\ request' = [p \in Requests |-> IdleRequest]
    /\ canceler' = [c \in Cancelers |-> IdleCancel]
    /\ UNCHANGED <<libraries, edits>>

RequestStep(p) == Reserve(p) \/ InsertRun(p) \/ ReadBack(p) \/ SendJob(p) \/ StartFails(p)

WorkerStep ==
    \/ TakeJob
    \/ ReadRun \/ MarkRunning \/ SelectSeries \/ NextSeries
    \/ EnsureCover \/ EnsureSharesCanceledFlight
    \/ UpdateProgress \/ FinishRun \/ Release

Next ==
    \/ \E p \in Requests : RequestStep(p) \/ \E l \in Libs : ReadLibrary(p, l)
    \/ \E c \in Cancelers : StopActive(c) \/ \E r \in Runs : MarkCancel(c, r)
    \/ WorkerStep
    \/ \E l \in Libs : DeleteLibrary(l) \/ CreateLibrary(l)
    \/ Close
    \/ Restart

Spec == Init /\ [][Next]_vars

(* Goroutines that can run are run, and the remote side answers or fails.  *)
FairSpec ==
    /\ Spec
    /\ \A c \in Cancelers : WF_vars(StopActive(c))
    /\ WF_vars(~closing /\ WorkerStep)
    /\ WF_vars(closing /\ Restart)

-----------------------------------------------------------------------------
(* Properties.                                                             *)

Carrying(p) == request[p].pc \in {"insert", "readback", "send"}
Working     == work.pc # "idle"

(* Two jobs for one library are never under way together: all who carry a  *)
(* run carry the one the library is reserved for, until execute has let    *)
(* go of it, whichever of its returns it takes.                            *)
CarriedRunsReserved ==
    /\ \A p \in Requests : Carrying(p) => queued[request[p].lib] = request[p].run
    /\ \A i \in 1..Len(jobs) : queued[jobs[i][2]] = jobs[i][1]
    /\ Working => queued[work.lib] = work.run
    /\ \A i, j \in 1..Len(jobs) : jobs[i] = jobs[j] => i = j

(* A library nobody works for is not reserved, so that "already queued or  *)
(* running for this library" is never a stale answer.                      *)
ReservedMeansWorking ==
    ~closing => \A l \in Libs : queued[l] # 0 =>
        \/ \E p \in Requests : Carrying(p) /\ request[p].run = queued[l]
        \/ \E i \in 1..Len(jobs) : jobs[i][1] = queued[l]
        \/ Working /\ work.run = queued[l]

(* The context that is over is that of the job whose row was marked, or    *)
(* has been removed since.                                                 *)
StopHitsOwnRun ==
    stopped => Working /\ (row[work.run].cancel \/ ~Exists(work.run))

(* What the admin page shows of a run adds up, whatever the request had    *)
(* counted: a run that was not stopped has looked at each of its series,   *)
(* and a single failed one has not ended it.                               *)
ResultsAddUp ==
    \A r \in Runs : LET n == row[r].n IN
        /\ row[r].status # "queued" => n.done + n.failed <= n.total
        /\ row[r].status \in {"success", "partial"} => n.done + n.failed = n.total
        /\ row[r].status = "success" => n.failed = 0
        /\ row[r].status = "partial" => n.failed > 0

Lifecycle == INSTANCE RunLifecycle WITH
    status <- [r \in Runs |-> row[r].status],
    cancel <- [r \in Runs |-> row[r].cancel]

(* The rows live as RunLifecycle promises: a result that comes after its   *)
(* library was deleted brings no row back.                                 *)
RowsFollowLifecycle == Lifecycle!Spec

(* However a job ends, and whoever cancels or deletes what, its library is *)
(* free for the next.                                                      *)
SentJobFreesLibrary ==
    \A r \in Runs : (\E i \in 1..Len(jobs) : jobs[i][1] = r) ~> \A l \in Libs : queued[l] # r

-----------------------------------------------------------------------------
(* What the repository says and the code does not do.                      *)

(* A job that is queued or running can be canceled (README.md): once it is *)
(* in the channel or the worker has it, and its cancellation is recorded,  *)
(* its row does not stay queued or running.                                *)
CanceledJobEnds ==
    \A r \in Runs :
        (row[r].cancel /\ (work.run = r \/ \E i \in 1..Len(jobs) : jobs[i][1] = r))
            ~> row[r].status \notin Live

(* "A single series' failure does not interrupt the following" (README.md): *)
(* a run is reported canceled only after somebody asked for it.             *)
CanceledOnRequest ==
    restarts = 0 /\ ~closing =>
        \A r \in Runs : row[r].status = "canceled" => row[r].cancel
=============================================================================
