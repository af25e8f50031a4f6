------------------------------ MODULE ScanQueue ------------------------------
(***************************************************************************)
(* The scan manager's job control: requests that start a library scan, the *)
(* bounded channel, the single worker, cancellation, the admin handlers    *)
(* that edit or delete a library, shutdown and restart.                    *)
(*                                                                         *)
(* What a scan writes to the catalog is left to module ScanCatalog; here a *)
(* scan is the outcomes it can have.  Every database statement is a step   *)
(* of its own, and so is every critical section of Manager.mu, because a   *)
(* request may be interleaved with the worker between any two of them.     *)
(***************************************************************************)
EXTENDS Naturals, Sequences

CONSTANTS
    Libs,         \* library IDs (a library ID is a function of its root CID)
    Runs,         \* scan_runs IDs
    Handlers,     \* HTTP requests to start scans; their client may go away
    Backgrounds,  \* the scheduler and startup goroutines: context.Background()
    Cancelers,    \* HTTP requests that cancel a run
    Admins,       \* HTTP requests that update or delete a library
    ChanCap,      \* capacity of the jobs channel (64 in the code)
    MaxEdits,     \* bound: admin edits that reach the database
    MaxRestarts,  \* bound: process restarts
    None          \* no run, no library

ASSUME ConstantsAssumption ==
    /\ ChanCap \in Nat \ {0}
    /\ MaxEdits \in Nat
    /\ MaxRestarts \in Nat
    /\ None \notin Runs
    /\ None \notin Libs
    /\ Handlers \cap Backgrounds = {}

VARIABLES
    library,   \* the libraries table, by ID
    row,       \* the scan_runs table, by ID
    queued,    \* Manager.queued: the run each library is reserved for
    jobs,      \* Manager.jobs
    work,      \* the worker: where execute stands and its job
    stopped,   \* the context of the active scan is canceled
    closing,   \* Close was called: Manager.ctx is canceled
    request,   \* StartLibrary / StartAll calls in flight
    canceler,  \* Cancel calls in flight
    admin,     \* updateLibrary / deleteLibrary calls in flight
    edits, restarts

mem    == <<queued, jobs, work, stopped>>
calls  == <<request, canceler, admin>>
bounds == <<edits, restarts>>
vars   == <<library, row, mem, closing, calls, bounds>>

Requests == Handlers \cup Backgrounds
Live     == {"queued", "running"}
Terminal == {"success", "failed", "canceled"}

-----------------------------------------------------------------------------
(* Rows and the local state of the actors.                                 *)

NoLibrary   == [exists |-> FALSE, enabled |-> FALSE, oneShot |-> FALSE, last |-> "never"]
NoRow       == [lib |-> None, status |-> "none", cancel |-> FALSE]
IdleWorker  == [pc |-> "idle", run |-> None, lib |-> None, oneShot |-> FALSE, outcome |-> "none"]
IdleRequest == [pc |-> "idle", todo |-> {}, lib |-> None, oneShot |-> FALSE, run |-> None]
IdleCancel  == [pc |-> "idle", run |-> None]
IdleAdmin   == [pc |-> "idle", lib |-> None, item |-> NoLibrary]

Job == [run : Runs, lib : Libs, oneShot : BOOLEAN]

Exists(r) == row[r].status \notin {"none", "gone"}

(* No live or reserved run has this ID: randomID never repeats one. *)
Fresh(r) == row[r].status = "none" /\ \A l \in Libs : queued[l] # r

(* The library has a row in scan_runs with status queued or running. *)
ActiveScan(l) == \E r \in Runs : row[r].lib = l /\ row[r].status \in Live

EnabledLibs == {l \in Libs : library[l].exists /\ library[l].enabled}

LibraryRow == [exists : BOOLEAN, enabled : BOOLEAN, oneShot : BOOLEAN,
               last : {"never", "running"} \cup Terminal]
RunRow == [lib : Libs \cup {None}, status : {"none", "gone"} \cup Live \cup Terminal,
           cancel : BOOLEAN]
WorkerState ==
    [pc : {"idle", "check", "markRun", "markLibrary", "conversion", "scan", "commit",
           "finishRun", "finishLibrary", "release"},
     run : Runs \cup {None}, lib : Libs \cup {None}, oneShot : BOOLEAN,
     outcome : {"none"} \cup Terminal]
RequestState ==
    [pc : {"idle", "next", "reserve", "insert", "readback", "send"},
     todo : SUBSET Libs, lib : Libs \cup {None}, oneShot : BOOLEAN, run : Runs \cup {None}]
CancelState == [pc : {"idle", "marked"}, run : Runs \cup {None}]
AdminState  == [pc : {"idle", "checkMode", "write", "delete"}, lib : Libs \cup {None},
                item : LibraryRow]

(* Who is past idle has what its next step needs. *)
Holding ==
    /\ \A p \in Requests :
          /\ request[p].pc \in {"reserve", "insert", "readback", "send"} => request[p].lib \in Libs
          /\ request[p].pc \in {"insert", "readback", "send"} => request[p].run \in Runs
    /\ \A c \in Cancelers : canceler[c].pc = "marked" => canceler[c].run \in Runs
    /\ \A a \in Admins : admin[a].pc # "idle" => admin[a].lib \in Libs
    /\ work.pc # "idle" => work.run \in Runs /\ work.lib \in Libs
    /\ work.pc \in {"finishRun", "finishLibrary"} => work.outcome \in Terminal

TypeOK ==
    /\ Holding
    /\ library \in [Libs -> LibraryRow]
    /\ row \in [Runs -> RunRow]
    /\ queued \in [Libs -> Runs \cup {None}]
    /\ jobs \in Seq(Job)
    /\ Len(jobs) <= ChanCap
    /\ work \in WorkerState
    /\ stopped \in BOOLEAN
    /\ closing \in BOOLEAN
    /\ request \in [Requests -> RequestState]
    /\ canceler \in [Cancelers -> CancelState]
    /\ admin \in [Admins -> AdminState]
    /\ edits \in 0..MaxEdits
    /\ restarts \in 0..MaxRestarts

Init ==
    /\ library \in [Libs -> {NoLibrary,
                             [exists |-> TRUE, enabled |-> TRUE, oneShot |-> FALSE, last |-> "never"]}]
    /\ row = [r \in Runs |-> NoRow]
    /\ queued = [l \in Libs |-> None]
    /\ jobs = <<>>
    /\ work = IdleWorker
    /\ stopped = FALSE
    /\ closing = FALSE
    /\ request = [p \in Requests |-> IdleRequest]
    /\ canceler = [c \in Cancelers |-> IdleCancel]
    /\ admin = [a \in Admins |-> IdleAdmin]
    /\ edits = 0
    /\ restarts = 0

-----------------------------------------------------------------------------
(* StartAll and StartLibrary, statement by statement.                      *)

(* After one library: the next of StartAll's list, or back to the caller.  *)
After(todo) ==
    IF todo = {} THEN IdleRequest ELSE [IdleRequest EXCEPT !.pc = "next", !.todo = todo]

StartOne(p, l) ==
    /\ request[p].pc = "idle" /\ ~closing
    /\ request' = [request EXCEPT ![p] = After({l})]
    /\ UNCHANGED <<library, row, mem, closing, canceler, admin, bounds>>

StartAll(p) ==
    /\ request[p].pc = "idle" /\ ~closing
    /\ request' = [request EXCEPT ![p] = After(EnabledLibs)]
    /\ UNCHANGED <<library, row, mem, closing, canceler, admin, bounds>>

(* The scheduler looks at len(queued) once and starts nothing while a scan *)
(* is reserved.                                                            *)
ScheduledStartAll(p) ==
    /\ p \in Backgrounds
    /\ \A l \in Libs : queued[l] = None
    /\ StartAll(p)

(* The request's context, or the database under it, can be gone. *)
MayFail(p) == p \in Handlers \/ closing

(* StartLibrary reads the library before it takes the lock; the job will   *)
(* carry this copy.  A missing or disabled library ends StartAll's loop.   *)
ReadLibrary(p, l) ==
    /\ request[p].pc = "next" /\ l \in request[p].todo
    /\ \/ /\ l \in EnabledLibs
          /\ request' = [request EXCEPT ![p] =
                 [pc |-> "reserve", todo |-> request[p].todo \ {l}, lib |-> l,
                  oneShot |-> library[l].oneShot, run |-> None]]
       \/ /\ MayFail(p) \/ l \notin EnabledLibs
          /\ request' = [request EXCEPT ![p] = IdleRequest]
    /\ UNCHANGED <<library, row, mem, closing, canceler, admin, bounds>>

(* Fault: the map is not consulted. *)
ReserveUnchecked(p, r) ==
    /\ request[p].pc = "reserve" /\ Fresh(r)
    /\ queued' = [queued EXCEPT ![request[p].lib] = r]
    /\ request' = [request EXCEPT ![p].pc = "insert", ![p].run = r]
    /\ UNCHANGED <<library, row, jobs, work, stopped, closing, canceler, admin, bounds>>

(* One critical section: refuse a library that is reserved (StartAll goes  *)
(* on with the next one), else reserve it for a new run ID.                *)
Reserve(p, r) ==
    LET l == request[p].lib IN
    /\ request[p].pc = "reserve"
    /\ \/ /\ queued[l] # None
          /\ request' = [request EXCEPT ![p] = After(request[p].todo)]
          /\ UNCHANGED queued
       \/ /\ queued[l] = None
          /\ Fresh(r)
          /\ queued' = [queued EXCEPT ![l] = r]
          /\ request' = [request EXCEPT ![p].pc = "insert", ![p].run = r]
    /\ UNCHANGED <<library, row, jobs, work, stopped, closing, canceler, admin, bounds>>

InsertRun(p) ==
    /\ request[p].pc = "insert"
    /\ library[request[p].lib].exists
    /\ row' = [row EXCEPT ![request[p].run] =
                  [lib |-> request[p].lib, status |-> "queued", cancel |-> FALSE]]
    /\ request' = [request EXCEPT ![p].pc = "readback"]
    /\ UNCHANGED <<library, mem, closing, canceler, admin, bounds>>

(* The foreign key, or the context, refuses the INSERT: the reservation is *)
(* taken back and the error ends StartAll.                                 *)
InsertFails(p) ==
    /\ request[p].pc = "insert"
    /\ MayFail(p) \/ ~library[request[p].lib].exists
    /\ queued' = [queued EXCEPT ![request[p].lib] = None]
    /\ request' = [request EXCEPT ![p] = IdleRequest]
    /\ UNCHANGED <<library, row, jobs, work, stopped, closing, canceler, admin, bounds>>

ReadBack(p) ==
    /\ request[p].pc = "readback"
    /\ Exists(request[p].run)
    /\ request' = [request EXCEPT ![p].pc = "send"]
    /\ UNCHANGED <<library, row, mem, closing, canceler, admin, bounds>>

(* The error is returned as it is: no job is sent, nothing is released. *)
ReadBackFails(p) ==
    /\ request[p].pc = "readback"
    /\ MayFail(p) \/ ~Exists(request[p].run)
    /\ request' = [request EXCEPT ![p] = IdleRequest]
    /\ UNCHANGED <<library, row, mem, closing, canceler, admin, bounds>>

SendWhen(p, room) ==
    /\ request[p].pc = "send"
    /\ \/ /\ room
          /\ jobs' = Append(jobs, [run |-> request[p].run, lib |-> request[p].lib,
                                   oneShot |-> request[p].oneShot])
          /\ request' = [request EXCEPT ![p] = After(request[p].todo)]
       \/ /\ closing
          /\ request' = [request EXCEPT ![p] = IdleRequest]
          /\ UNCHANGED jobs
    /\ UNCHANGED <<library, row, queued, work, stopped, closing, canceler, admin, bounds>>

(* Fault: a queue without its limit. *)
SendJobUnbounded(p) == SendWhen(p, TRUE)

(* The send blocks while the channel is full; only the manager's own       *)
(* context ends the wait, not the request's.                               *)
SendJob(p) == SendWhen(p, Len(jobs) < ChanCap)

-----------------------------------------------------------------------------
(* Cancel: mark the row, then stop the scan if it is the active one.       *)

MarkCancel(c, r) ==
    /\ canceler[c].pc = "idle" /\ ~closing
    /\ row[r].status \in Live
    /\ row' = [row EXCEPT ![r].cancel = TRUE]
    /\ canceler' = [canceler EXCEPT ![c] = [pc |-> "marked", run |-> r]]
    /\ UNCHANGED <<library, mem, closing, request, admin, bounds>>

(* Fault: whatever is active is stopped. *)
StopAny(c) ==
    /\ canceler[c].pc = "marked"
    /\ stopped' = (stopped \/ work.pc # "idle")
    /\ canceler' = [canceler EXCEPT ![c] = IdleCancel]
    /\ UNCHANGED <<library, row, queued, jobs, work, closing, request, admin, bounds>>

StopActive(c) ==
    /\ canceler[c].pc = "marked"
    /\ stopped' = (stopped \/ (work.pc # "idle" /\ work.run = canceler[c].run))
    /\ canceler' = [canceler EXCEPT ![c] = IdleCancel]
    /\ UNCHANGED <<library, row, queued, jobs, work, closing, request, admin, bounds>>

-----------------------------------------------------------------------------
(* The worker: execute, finish and the deferred release.                   *)

(* The job is received and activeRunID, activeStop are set.                *)
TakeJob ==
    /\ work.pc = "idle" /\ jobs # <<>>
    /\ work' = [pc |-> "check", run |-> Head(jobs).run, lib |-> Head(jobs).lib,
                oneShot |-> Head(jobs).oneShot, outcome |-> "none"]
    /\ jobs' = Tail(jobs)
    /\ stopped' = closing
    /\ UNCHANGED <<library, row, queued, closing, calls, bounds>>

Outcome(o) == work' = [work EXCEPT !.pc = "finishRun", !.outcome = o]
Goto(l)    == work' = [work EXCEPT !.pc = l]

(* Fault: the flag is not read before the start. *)
CheckCancelOmitted ==
    /\ work.pc = "check"
    /\ IF stopped THEN Outcome("failed") ELSE Goto("markRun")
    /\ UNCHANGED <<library, row, queued, jobs, stopped, closing, calls, bounds>>

(* SELECT cancel_requested.  A canceled context is an error like any other *)
(* (failed); a row that is gone ends the job without a word.               *)
CheckCancel ==
    /\ work.pc = "check"
    /\ \/ stopped /\ Outcome("failed")
       \/ ~stopped /\ ~Exists(work.run) /\ Goto("release")
       \/ ~stopped /\ Exists(work.run) /\ row[work.run].cancel /\ Outcome("canceled")
       \/ ~stopped /\ Exists(work.run) /\ ~row[work.run].cancel /\ Goto("markRun")
    /\ UNCHANGED <<library, row, queued, jobs, stopped, closing, calls, bounds>>

(* Both UPDATEs run under the scan's context and ignore their error.       *)
MarkRunRunning ==
    /\ work.pc = "markRun"
    /\ row' = IF ~stopped /\ Exists(work.run)
              THEN [row EXCEPT ![work.run].status = "running"] ELSE row
    /\ Goto("markLibrary")
    /\ UNCHANGED <<library, queued, jobs, stopped, closing, calls, bounds>>

MarkLibraryRunning ==
    /\ work.pc = "markLibrary"
    /\ library' = IF ~stopped /\ library[work.lib].exists
                  THEN [library EXCEPT ![work.lib].last = "running"] ELSE library
    /\ Goto("conversion")
    /\ UNCHANGED <<row, queued, jobs, stopped, closing, calls, bounds>>

(* needsModeConversion: any error of the query, a cancel too, is a failure. *)
CheckConversion ==
    /\ work.pc = "conversion"
    /\ IF stopped THEN Outcome("failed") ELSE Goto("scan")
    /\ UNCHANGED <<library, row, queued, jobs, stopped, closing, calls, bounds>>

(* Fault: the loop runs under the background context and updateProgress    *)
(* does not look at the flag.                                              *)
ScanCanceledUnheard ==
    /\ work.pc = "scan"
    /\ ~Exists(work.run)
    /\ Outcome("canceled")
    /\ UNCHANGED <<library, row, queued, jobs, stopped, closing, calls, bounds>>

(* The loop sees its context canceled, or updateProgress matches no row.   *)
ScanCanceled ==
    /\ work.pc = "scan"
    /\ stopped \/ ~Exists(work.run) \/ row[work.run].cancel
    /\ Outcome("canceled")
    /\ UNCHANGED <<library, row, queued, jobs, stopped, closing, calls, bounds>>

(* A listing or a transaction fails. *)
ScanFails ==
    /\ work.pc = "scan"
    /\ Outcome("failed")
    /\ UNCHANGED <<library, row, queued, jobs, stopped, closing, calls, bounds>>

(* The last directory's updateProgress matched the row: the scan can no    *)
(* longer be canceled.                                                     *)
ScanCompletes ==
    /\ work.pc = "scan"
    /\ ~stopped /\ Exists(work.run) /\ ~row[work.run].cancel
    /\ Goto("commit")
    /\ UNCHANGED <<library, row, queued, jobs, stopped, closing, calls, bounds>>

(* commitSuccessfulScan runs under the background context. *)
CommitScan ==
    /\ work.pc = "commit"
    /\ \E o \in {"success", "failed"} : Outcome(o)
    /\ UNCHANGED <<library, row, queued, jobs, stopped, closing, calls, bounds>>

(* Fault: finish runs under the context of the scan, which a cancel ends. *)
FinishRunUnderScan ==
    /\ work.pc = "finishRun"
    /\ row' = IF ~stopped /\ Exists(work.run)
              THEN [row EXCEPT ![work.run].status = work.outcome] ELSE row
    /\ Goto("finishLibrary")
    /\ UNCHANGED <<library, queued, jobs, stopped, closing, calls, bounds>>

(* finish: both UPDATEs ignore their error, which a closed database gives. *)
FinishRun ==
    /\ work.pc = "finishRun"
    /\ \/ row' = IF Exists(work.run)
                 THEN [row EXCEPT ![work.run].status = work.outcome] ELSE row
       \/ closing /\ UNCHANGED row
    /\ Goto("finishLibrary")
    /\ UNCHANGED <<library, queued, jobs, stopped, closing, calls, bounds>>

(* Fault: the library is only told of a success. *)
FinishLibraryOnSuccess ==
    /\ work.pc = "finishLibrary"
    /\ library' = IF library[work.lib].exists /\ work.outcome = "success"
                  THEN [library EXCEPT ![work.lib].last = work.outcome] ELSE library
    /\ Goto("release")
    /\ UNCHANGED <<row, queued, jobs, stopped, closing, calls, bounds>>

FinishLibrary ==
    /\ work.pc = "finishLibrary"
    /\ \/ library' = IF library[work.lib].exists
                     THEN [library EXCEPT ![work.lib].last = work.outcome] ELSE library
       \/ closing /\ UNCHANGED library
    /\ Goto("release")
    /\ UNCHANGED <<row, queued, jobs, stopped, closing, calls, bounds>>

(* Fault: the reservation is left behind. *)
ReleaseForgets ==
    /\ work.pc = "release"
    /\ work' = IdleWorker
    /\ stopped' = FALSE
    /\ UNCHANGED <<library, row, queued, jobs, closing, calls, bounds>>

(* Fault: StartLibrary keeps the mutex until its job is sent, and the      *)
(* deferred function needs it.                                             *)
ReleaseAfterSends ==
    /\ work.pc = "release"
    /\ \A p \in Requests : request[p].pc \notin {"insert", "readback", "send"}
    /\ queued' = [queued EXCEPT ![work.lib] = None]
    /\ work' = IdleWorker
    /\ stopped' = FALSE
    /\ UNCHANGED <<library, row, jobs, closing, calls, bounds>>

(* The deferred function: cancel, delete(queued), clear activeRunID. *)
Release ==
    /\ work.pc = "release"
    /\ queued' = [queued EXCEPT ![work.lib] = None]
    /\ work' = IdleWorker
    /\ stopped' = FALSE
    /\ UNCHANGED <<library, row, jobs, closing, calls, bounds>>

-----------------------------------------------------------------------------
(* The admin handlers that change a library.                               *)

(* UpsertLibrary: inserts, or overwrites enabled and one_shot. *)
Upsert(l, enabled, oneShot) ==
    library' = [library EXCEPT ![l] =
                  [exists |-> TRUE, enabled |-> enabled, oneShot |-> oneShot, last |-> @.last]]

Edit == edits < MaxEdits /\ edits' = edits + 1 /\ UNCHANGED restarts

(* POST libraries: the ID comes from the root CID, so creating a library   *)
(* that is there already overwrites it.                                    *)
CreateLibrary(l, enabled, oneShot) ==
    /\ Edit /\ ~closing
    /\ Upsert(l, enabled, oneShot)
    /\ UNCHANGED <<row, mem, closing, calls>>

(* PUT library: the item is read, a change of mode asks for no active      *)
(* scan, then the whole item is written back.                              *)
ReadForUpdate(a, l, enabled, oneShot) ==
    /\ admin[a].pc = "idle" /\ ~closing
    /\ Edit
    /\ library[l].exists
    /\ admin' = [admin EXCEPT ![a] =
           [pc |-> IF oneShot # library[l].oneShot THEN "checkMode" ELSE "write", lib |-> l,
            item |-> [library[l] EXCEPT !.enabled = enabled, !.oneShot = oneShot]]]
    /\ UNCHANGED <<library, row, mem, closing, request, canceler>>

CheckMode(a) ==
    /\ admin[a].pc = "checkMode"
    /\ admin' = [admin EXCEPT ![a] = IF ActiveScan(@.lib) THEN IdleAdmin ELSE [@ EXCEPT !.pc = "write"]]
    /\ UNCHANGED <<library, row, mem, closing, request, canceler, bounds>>

WriteLibrary(a) ==
    /\ admin[a].pc = "write"
    /\ Upsert(admin[a].lib, admin[a].item.enabled, admin[a].item.oneShot)
    /\ admin' = [admin EXCEPT ![a] = IdleAdmin]
    /\ UNCHANGED <<row, mem, closing, request, canceler, bounds>>

(* DELETE library: the same check, then the row and all it cascades to.    *)
CheckDelete(a, l) ==
    /\ admin[a].pc = "idle" /\ ~closing
    /\ Edit
    /\ ~ActiveScan(l)
    /\ admin' = [admin EXCEPT ![a] = [pc |-> "delete", lib |-> l, item |-> NoLibrary]]
    /\ UNCHANGED <<library, row, mem, closing, request, canceler>>

DeleteLibrary(a) ==
    LET l == admin[a].lib IN
    /\ admin[a].pc = "delete"
    /\ library' = [library EXCEPT ![l] = NoLibrary]
    /\ row' = [r \in Runs |-> IF row[r].lib = l THEN [row[r] EXCEPT !.status = "gone"] ELSE row[r]]
    /\ admin' = [admin EXCEPT ![a] = IdleAdmin]
    /\ UNCHANGED <<mem, closing, request, canceler, bounds>>

-----------------------------------------------------------------------------
(* Shutdown, and the start of the next process.                            *)

(* Close cancels the manager's context and the active scan, and waits for  *)
(* nobody; the process ends soon after.                                    *)
Close ==
    /\ ~closing /\ restarts < MaxRestarts
    /\ closing' = TRUE
    /\ stopped' = (work.pc # "idle")
    /\ UNCHANGED <<library, row, queued, jobs, work, calls, bounds>>

(* Faults: the repair overlooks queued rows; it lacks its WHERE. *)
RepairedIfRunning(r) ==
    IF row[r].status = "running" THEN [row[r] EXCEPT !.status = "failed"] ELSE row[r]
RepairedAlways(r) ==
    IF Exists(r) THEN [row[r] EXCEPT !.status = "failed"] ELSE row[r]

(* The first UPDATE of New. *)
Repaired(r) ==
    IF row[r].status \in Live THEN [row[r] EXCEPT !.status = "failed"] ELSE row[r]

(* The process is gone, by Close or by a crash; New repairs the tables     *)
(* before the worker and the handlers of the new one exist.                *)
Restart ==
    /\ restarts < MaxRestarts
    /\ restarts' = restarts + 1
    /\ row' = [r \in Runs |-> Repaired(r)]
    /\ library' = [l \in Libs |-> IF library[l].last = "running"
                                  THEN [library[l] EXCEPT !.last = "failed"] ELSE library[l]]
    /\ queued' = [l \in Libs |-> None]
    /\ jobs' = <<>>
    /\ work' = IdleWorker
    /\ stopped' = FALSE
    /\ closing' = FALSE
    /\ request' = [p \in Requests |-> IdleRequest]
    /\ canceler' = [c \in Cancelers |-> IdleCancel]
    /\ admin' = [a \in Admins |-> IdleAdmin]
    /\ UNCHANGED edits

-----------------------------------------------------------------------------
(* StartAll is a request's, or the startup goroutine's, who does not look. *)
CallStart(p) ==
    \/ StartAll(p)
    \/ p \in Handlers /\ \E l \in Libs : StartOne(p, l)
    \/ ScheduledStartAll(p)

CallStep(p) ==
    \/ \E l \in Libs : ReadLibrary(p, l)
    \/ \E r \in Runs : Reserve(p, r)
    \/ InsertRun(p) \/ InsertFails(p)
    \/ ReadBack(p) \/ ReadBackFails(p)
    \/ SendJob(p)

CancelStep ==
    \/ \E c \in Cancelers, r \in Runs : MarkCancel(c, r)
    \/ \E c \in Cancelers : StopActive(c)

(* What the worker does by itself, whatever the length of the scan.        *)
WorkerStep ==
    \/ CheckCancel \/ MarkRunRunning \/ MarkLibraryRunning \/ CheckConversion
    \/ ScanCanceled \/ CommitScan \/ FinishRun \/ FinishLibrary \/ Release

AdminStep ==
    \/ \E l \in Libs, enabled, oneShot \in BOOLEAN :
          \/ CreateLibrary(l, enabled, oneShot)
          \/ \E a \in Admins : ReadForUpdate(a, l, enabled, oneShot)
    \/ \E a \in Admins, l \in Libs : CheckDelete(a, l)
    \/ \E a \in Admins : CheckMode(a) \/ WriteLibrary(a) \/ DeleteLibrary(a)

Next ==
    \/ \E p \in Requests : CallStart(p) \/ CallStep(p)
    \/ CancelStep
    \/ TakeJob
    \/ WorkerStep
    \/ ScanFails
    \/ ScanCompletes
    \/ AdminStep
    \/ Close
    \/ Restart

Spec == Init /\ [][Next]_vars

(* A goroutine that can run is run; a closed process ends and is started   *)
(* again.  After Close the worker may leave instead of taking a job.  The  *)
(* length of a scan is not bounded here.                                   *)
Fairness ==
    /\ \A p \in Requests : WF_vars(CallStep(p))
    /\ \A c \in Cancelers : WF_vars(StopActive(c))
    /\ WF_vars(~closing /\ TakeJob)
    /\ WF_vars(~closing /\ WorkerStep)
    /\ WF_vars(closing /\ Restart)

FairSpec == Spec /\ Fairness

(* The remote tree is finite: a scan ends one way or another. *)
ScansEnd == WF_vars(~closing /\ (ScanCanceled \/ ScanFails \/ ScanCompletes))

-----------------------------------------------------------------------------
(* Properties.                                                             *)

(* Who carries a run: a request that reserved it and has not yet sent it,  *)
(* a job in the channel, or the worker.                                    *)
Carrying(p) == request[p].pc \in {"insert", "readback", "send"}
Working     == work.pc # "idle"

(* Two scans of one library are never under way together, from the moment  *)
(* StartLibrary has reserved it until execute has released it: whichever   *)
(* requests, schedulers, cancels and deletes are interleaved.  The catalog *)
(* writes of a scan rely on it (needsModeConversion and the commit look at *)
(* rows no other scan may be writing).                                     *)
OneScanPerLibrary ==
    /\ \A p, q \in Requests :
          Carrying(p) /\ Carrying(q) /\ request[p].lib = request[q].lib => p = q
    /\ \A i, j \in 1..Len(jobs) : jobs[i].lib = jobs[j].lib => i = j
    /\ \A p \in Requests, i \in 1..Len(jobs) : Carrying(p) => request[p].lib # jobs[i].lib
    /\ Working => /\ \A p \in Requests : Carrying(p) => request[p].lib # work.lib
                  /\ \A i \in 1..Len(jobs) : jobs[i].lib # work.lib

(* A row the admin page shows as queued or running is the run its library  *)
(* is reserved for, so no restart, failed INSERT or lost job leaves a live *)
(* row that a second scan could run beside.  A closing process cannot      *)
(* promise it: its last writes may find the database closed.               *)
LiveRowReserved ==
    ~closing => \A r \in Runs : row[r].status \in Live => queued[row[r].lib] = r

(* Cancel marks a row and only later takes the lock to stop the scan that  *)
(* is active then: the scan it stops is the one whose row was marked.      *)
StopHitsOwnRun ==
    stopped => /\ work.pc # "idle"
               /\ closing \/ row[work.run].cancel \/ ~Exists(work.run)

(* Manager.queued, the jobs, the worker and the scan_runs rows tell one    *)
(* story: whoever carries a run carries the one its library is reserved    *)
(* for, and a row of that run and library; no run is inserted twice; a run *)
(* about to be released has ended; what Cancel is about to stop is marked. *)
ReservationsAgree ==
    /\ \A l, m \in Libs : queued[l] = queued[m] /\ queued[l] # None => l = m
    /\ \A p \in Requests : Carrying(p) => queued[request[p].lib] = request[p].run
    /\ \A i \in 1..Len(jobs) : queued[jobs[i].lib] = jobs[i].run
    /\ Working => queued[work.lib] = work.run

RowsAgree ==
    /\ \A r \in Runs : row[r].status = "none" <=> row[r].lib = None
    /\ \A p \in Requests :
          /\ request[p].pc = "insert" => row[request[p].run].status = "none"
          /\ request[p].pc \in {"readback", "send"} => row[request[p].run].lib = request[p].lib
    /\ \A i \in 1..Len(jobs) : row[jobs[i].run].lib = jobs[i].lib
    /\ Working => row[work.run].lib = work.lib
    /\ work.pc \in {"finishLibrary", "release"} /\ ~closing => row[work.run].status \notin Live
    /\ \A c \in Cancelers : canceler[c].pc = "marked" =>
          /\ row[canceler[c].run].status # "none"
          /\ row[canceler[c].run].cancel \/ ~Exists(canceler[c].run)

Bookkeeping == ReservationsAgree /\ RowsAgree

(* A library whose last_scan_status says running is the one the worker is  *)
(* scanning now, across restarts and deletions.                            *)
RunningLibraryIsScanned ==
    \A l \in Libs : ~closing /\ library[l].last = "running" =>
        work.lib = l /\ work.pc \in {"conversion", "scan", "commit", "finishRun", "finishLibrary"}

(* Every row of scan_runs goes through the life RunLifecycle promises: no  *)
(* result is overwritten by a late finish or by the repair of a restart,   *)
(* and no run whose start was lost to a cancel is reported successful.     *)
Lifecycle == INSTANCE RunLifecycle WITH
    status <- [r \in Runs |-> row[r].status],
    cancel <- [r \in Runs |-> row[r].cancel]

RowsFollowLifecycle == Lifecycle!Spec

(* A run whose cancellation was recorded while the worker had not taken it *)
(* never starts and never succeeds.                                        *)
CancelBeforeStartHolds ==
    \A r \in Runs :
        [](row[r].status = "queued" /\ row[r].cancel /\ work.run # r
             => [](row[r].status \notin {"running", "success"}))

(* A job that was sent, or that the worker has taken, ends: its row is no  *)
(* longer live and its library is free for the next scan.                  *)
Accepted(r) == work.run = r \/ \E i \in 1..Len(jobs) : jobs[i].run = r
AcceptedRunEnds ==
    ScansEnd =>
        \A r \in Runs : Accepted(r) ~> (row[r].status \notin Live /\ \A l \in Libs : queued[l] # r)

(* StartLibrary returns once it has reserved a library: the send on a full *)
(* channel waits for the worker, never the worker for the request.         *)
ReservedCallReturns ==
    ScansEnd =>
        \A p \in Requests :
            request[p].pc \in {"insert", "readback", "send"} ~> request[p].pc \in {"idle", "next"}

(* Canceling the run the worker has ends it, however long its scan would   *)
(* have taken, wherever the cancel falls between the two steps of Cancel   *)
(* and the worker's own.                                                   *)
CancelledScanEnds ==
    \A r \in Runs : (work.run = r /\ row[r].cancel) ~> work.run # r

-----------------------------------------------------------------------------
(* What the repository says and the code does not do.                      *)

(* "library scan is already queued or running" (ErrAlreadyQueued): a       *)
(* library that is reserved has a request, a job or the worker behind it.  *)
ReservedMeansScanning ==
    \A l \in Libs : queued[l] # None /\ ~closing =>
        \/ \E p \in Requests : Carrying(p) /\ request[p].lib = l
        \/ \E i \in 1..Len(jobs) : jobs[i].lib = l
        \/ Working /\ work.lib = l

(* "Cancel the active or queued scan before changing One-Shots mode."      *)
(* (updateLibrary): the mode of a library is fixed while a scan of it is   *)
(* queued or running.                                                      *)
ModeFixedWhileScanActive ==
    [][\A l \in Libs : ActiveScan(l) /\ library[l].exists /\ library'[l].exists
                          => library'[l].oneShot = library[l].oneShot]_vars
=============================================================================
