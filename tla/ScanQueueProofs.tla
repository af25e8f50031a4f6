--------------------------- MODULE ScanQueueProofs ---------------------------
(***************************************************************************)
(* For every number of libraries, runs, requests, cancels and admin calls  *)
(* and every capacity of the channel: the types of ScanQueue's state, that *)
(* one scan of a library is under way at a time, that live rows are        *)
(* reserved, that a cancel stops the scan it was asked for, that a library *)
(* said to be scanned is, and that every row keeps the lifecycle of        *)
(* RunLifecycle.                                                           *)
(***************************************************************************)
EXTENDS ScanQueue, TLAPS

-----------------------------------------------------------------------------
(* Type correctness.                                                       *)

LEMMA IdleTypes ==
    /\ NoLibrary \in LibraryRow
    /\ NoRow \in RunRow
    /\ IdleWorker \in WorkerState /\ IdleWorker.pc = "idle"
    /\ IdleRequest \in RequestState /\ IdleRequest.pc = "idle"
    /\ IdleCancel \in CancelState /\ IdleCancel.pc = "idle"
    /\ IdleAdmin \in AdminState /\ IdleAdmin.pc = "idle"
BY DEF NoLibrary, LibraryRow, NoRow, RunRow, IdleWorker, WorkerState, IdleRequest, RequestState,
       IdleCancel, CancelState, IdleAdmin, AdminState

LEMMA AfterType ==
    ASSUME NEW todo \in SUBSET Libs
    PROVE  After(todo) \in RequestState /\ After(todo).pc \in {"idle", "next"}
BY DEF After, IdleRequest, RequestState

LEMMA InitType == Init => TypeOK
<1> SUFFICES ASSUME Init PROVE TypeOK
  OBVIOUS
<1>1. library \in [Libs -> LibraryRow]
  <2>1. [exists |-> TRUE, enabled |-> TRUE, oneShot |-> FALSE, last |-> "never"] \in LibraryRow
    BY DEF LibraryRow
  <2> QED
    BY <2>1, IdleTypes DEF Init
<1>2. row \in [Runs -> RunRow] /\ work \in WorkerState /\ request \in [Requests -> RequestState]
  BY IdleTypes DEF Init
<1>3. canceler \in [Cancelers -> CancelState] /\ admin \in [Admins -> AdminState]
  BY IdleTypes DEF Init
<1>4. jobs \in Seq(Job) /\ Len(jobs) <= ChanCap
  BY ConstantsAssumption DEF Init, ConstantsAssumption
<1>5. edits \in 0..MaxEdits /\ restarts \in 0..MaxRestarts
  BY ConstantsAssumption DEF Init, ConstantsAssumption
<1>6. Holding
  BY IdleTypes DEF Init, Holding
<1> QED
  BY <1>1, <1>2, <1>3, <1>4, <1>5, <1>6 DEF Init, TypeOK

(* One actor's record is replaced by one that holds what it needs. *)
LEMMA RequestUpdate ==
    ASSUME TypeOK, NEW p \in Requests, NEW s \in RequestState,
           s.pc \in {"reserve", "insert", "readback", "send"} => s.lib \in Libs,
           s.pc \in {"insert", "readback", "send"} => s.run \in Runs,
           request' = [request EXCEPT ![p] = s], UNCHANGED <<canceler, admin, work>>
    PROVE  request' \in [Requests -> RequestState] /\ Holding'
<1>1. request' \in [Requests -> RequestState]
  BY DEF TypeOK
<1>2. request'[p] = s /\ \A q \in Requests : q # p => request'[q] = request[q]
  BY DEF TypeOK
<1> QED
  BY <1>1, <1>2 DEF TypeOK, Holding

LEMMA CancelUpdate ==
    ASSUME TypeOK, NEW c \in Cancelers, NEW s \in CancelState, s.pc = "marked" => s.run \in Runs,
           canceler' = [canceler EXCEPT ![c] = s], UNCHANGED <<request, admin, work>>
    PROVE  canceler' \in [Cancelers -> CancelState] /\ Holding'
<1>1. canceler'[c] = s /\ \A d \in Cancelers : d # c => canceler'[d] = canceler[d]
  BY DEF TypeOK
<1> QED
  BY <1>1 DEF TypeOK, Holding

LEMMA AdminUpdate ==
    ASSUME TypeOK, NEW a \in Admins, NEW s \in AdminState, s.pc # "idle" => s.lib \in Libs,
           admin' = [admin EXCEPT ![a] = s], UNCHANGED <<request, canceler, work>>
    PROVE  admin' \in [Admins -> AdminState] /\ Holding'
<1>1. admin'[a] = s /\ \A b \in Admins : b # a => admin'[b] = admin[b]
  BY DEF TypeOK
<1> QED
  BY <1>1 DEF TypeOK, Holding

(* StartAll and StartLibrary. *)
LEMMA CallType ==
    ASSUME TypeOK, NEW p \in Requests, CallStart(p) \/ CallStep(p)
    PROVE  TypeOK'
<1>1. CASE CallStart(p)
  <2>1. PICK todo \in SUBSET Libs : request' = [request EXCEPT ![p] = After(todo)]
    BY <1>1 DEF CallStart, ScheduledStartAll, StartAll, StartOne, EnabledLibs
  <2>2. request' \in [Requests -> RequestState] /\ Holding'
    <3>1. UNCHANGED <<canceler, admin, work>>
      BY <1>1 DEF CallStart, ScheduledStartAll, StartAll, StartOne, mem
    <3> QED
      BY <2>1, <3>1, AfterType, RequestUpdate
  <2> QED
    BY <1>1, <2>2 DEF TypeOK, CallStart, ScheduledStartAll, StartAll, StartOne, mem, bounds
<1>2. CASE \E l \in Libs : ReadLibrary(p, l)
  <2>1. PICK l \in Libs : ReadLibrary(p, l)
    BY <1>2
  <2>2. CASE request' = [request EXCEPT ![p] = IdleRequest]
    <3>1. request' \in [Requests -> RequestState] /\ Holding'
      BY <2>1, <2>2, IdleTypes, RequestUpdate DEF ReadLibrary, mem
    <3> QED
      BY <2>1, <3>1 DEF TypeOK, ReadLibrary, mem, bounds
  <2>3. CASE request' = [request EXCEPT ![p] =
               [pc |-> "reserve", todo |-> request[p].todo \ {l}, lib |-> l,
                oneShot |-> library[l].oneShot, run |-> None]]
    <3>1. [pc |-> "reserve", todo |-> request[p].todo \ {l}, lib |-> l,
           oneShot |-> library[l].oneShot, run |-> None] \in RequestState
      BY DEF TypeOK, RequestState, LibraryRow
    <3>2. request' \in [Requests -> RequestState] /\ Holding'
      BY <2>1, <2>3, <3>1, RequestUpdate DEF ReadLibrary, mem
    <3> QED
      BY <2>1, <3>2 DEF TypeOK, ReadLibrary, mem, bounds
  <2> QED
    BY <2>1, <2>2, <2>3 DEF ReadLibrary
<1>3. CASE \E r \in Runs : Reserve(p, r)
  <2>1. PICK r \in Runs : Reserve(p, r)
    BY <1>3
  <2>2. CASE queued[request[p].lib] # None
    <3>1. request' = [request EXCEPT ![p] = After(request[p].todo)] /\ UNCHANGED queued
      BY <2>1, <2>2 DEF Reserve
    <3>2. request' \in [Requests -> RequestState] /\ Holding'
      <4>1. request[p].todo \in SUBSET Libs
        BY DEF TypeOK, RequestState
      <4> QED
        BY <2>1, <3>1, <4>1, AfterType, RequestUpdate DEF Reserve
    <3> QED
      BY <2>1, <3>1, <3>2 DEF TypeOK, Reserve, bounds
  <2>3. CASE queued[request[p].lib] = None
    <3>1. request' = [request EXCEPT ![p].pc = "insert", ![p].run = r]
      BY <2>1, <2>3 DEF Reserve
    <3>2. request' \in [Requests -> RequestState] /\ Holding'
      <4> DEFINE s == [request[p] EXCEPT !.pc = "insert", !.run = r]
      <4>1. s \in RequestState
        BY DEF TypeOK, RequestState
      <4>2. s.run = r /\ s.lib \in Libs
        BY <2>1 DEF TypeOK, Holding, RequestState, Reserve
      <4>3. request' = [request EXCEPT ![p] = s]
        BY <3>1
      <4>4. UNCHANGED <<canceler, admin, work>>
        BY <2>1 DEF Reserve
      <4> HIDE DEF s
      <4> QED
        BY <4>1, <4>2, <4>3, <4>4, RequestUpdate
    <3>3. queued' \in [Libs -> Runs \cup {None}]
      BY <2>1, <2>3 DEF TypeOK, Reserve
    <3> QED
      BY <2>1, <3>2, <3>3 DEF TypeOK, Reserve, bounds
  <2> QED
    BY <2>2, <2>3
<1>4. CASE InsertRun(p)
  <2>1. request[p].run \in Runs /\ request[p].lib \in Libs
    BY <1>4 DEF TypeOK, Holding, InsertRun
  <2>2. row' \in [Runs -> RunRow]
    BY <1>4, <2>1 DEF TypeOK, InsertRun, RunRow, Live
  <2>3. request' \in [Requests -> RequestState] /\ Holding'
    <3> DEFINE s == [request[p] EXCEPT !.pc = "readback"]
    <3>1. s \in RequestState /\ s.run \in Runs /\ s.lib \in Libs
      BY <1>4 DEF TypeOK, Holding, RequestState, InsertRun
    <3>2. request' = [request EXCEPT ![p] = s] /\ UNCHANGED <<canceler, admin, work>>
      BY <1>4 DEF InsertRun, mem
    <3> HIDE DEF s
    <3> QED
      BY <3>1, <3>2, RequestUpdate
  <2> QED
    BY <1>4, <2>2, <2>3 DEF TypeOK, InsertRun, mem, bounds
<1>5. CASE InsertFails(p)
  <2>1. request' \in [Requests -> RequestState] /\ Holding'
    BY <1>5, IdleTypes, RequestUpdate DEF InsertFails
  <2>2. queued' \in [Libs -> Runs \cup {None}]
    BY <1>5 DEF TypeOK, InsertFails
  <2> QED
    BY <1>5, <2>1, <2>2 DEF TypeOK, InsertFails, bounds
<1>6. CASE ReadBack(p)
  <2>1. request' \in [Requests -> RequestState] /\ Holding'
    <3> DEFINE s == [request[p] EXCEPT !.pc = "send"]
    <3>1. s \in RequestState /\ s.run \in Runs /\ s.lib \in Libs
      BY <1>6 DEF TypeOK, Holding, RequestState, ReadBack
    <3>2. request' = [request EXCEPT ![p] = s] /\ UNCHANGED <<canceler, admin, work>>
      BY <1>6 DEF ReadBack, mem
    <3> HIDE DEF s
    <3> QED
      BY <3>1, <3>2, RequestUpdate
  <2> QED
    BY <1>6, <2>1 DEF TypeOK, ReadBack, mem, bounds
<1>7. CASE ReadBackFails(p)
  <2>1. request' \in [Requests -> RequestState] /\ Holding'
    BY <1>7, IdleTypes, RequestUpdate DEF ReadBackFails, mem
  <2> QED
    BY <1>7, <2>1 DEF TypeOK, ReadBackFails, mem, bounds
<1>8. CASE SendJob(p)
  <2> DEFINE j == [run |-> request[p].run, lib |-> request[p].lib, oneShot |-> request[p].oneShot]
  <2>1. j \in Job
    BY <1>8 DEF TypeOK, Holding, RequestState, Job, SendJob, SendWhen
  <2>2. request' \in [Requests -> RequestState] /\ Holding'
    <3>1. UNCHANGED <<canceler, admin, work>>
      BY <1>8 DEF SendJob, SendWhen
    <3>2. request[p].todo \in SUBSET Libs
      BY DEF TypeOK, RequestState
    <3>3. CASE request' = [request EXCEPT ![p] = After(request[p].todo)]
      BY <3>1, <3>2, <3>3, AfterType, RequestUpdate
    <3>4. CASE request' = [request EXCEPT ![p] = IdleRequest]
      BY <3>1, <3>4, IdleTypes, RequestUpdate
    <3> QED
      BY <1>8, <3>3, <3>4 DEF SendJob, SendWhen
  <2>3. jobs' \in Seq(Job) /\ Len(jobs') <= ChanCap
    <3>1. CASE UNCHANGED jobs
      BY <3>1 DEF TypeOK
    <3>2. CASE Len(jobs) < ChanCap /\ jobs' = Append(jobs, j)
      <4> HIDE DEF j
      <4> QED
        BY <2>1, <3>2, ConstantsAssumption DEF TypeOK, ConstantsAssumption
    <3> QED
      BY <1>8, <3>1, <3>2 DEF SendJob, SendWhen
  <2> QED
    BY <1>8, <2>2, <2>3 DEF TypeOK, SendJob, SendWhen, bounds
<1> QED
  BY <1>1, <1>2, <1>3, <1>4, <1>5, <1>6, <1>7, <1>8 DEF CallStep

LEMMA RowType ==
    ASSUME TypeOK, NEW r \in Runs
    PROVE  /\ [row EXCEPT ![r].cancel = TRUE] \in [Runs -> RunRow]
           /\ \A st \in Live \cup Terminal : [row EXCEPT ![r].status = st] \in [Runs -> RunRow]
<1>1. row \in [Runs -> RunRow] /\ row[r] \in RunRow
  BY DEF TypeOK
<1>2. [row[r] EXCEPT !.cancel = TRUE] \in RunRow
  BY <1>1 DEF RunRow
<1>3. ASSUME NEW st \in Live \cup Terminal PROVE [row[r] EXCEPT !.status = st] \in RunRow
  BY <1>1, <1>3 DEF RunRow
<1> QED
  BY <1>1, <1>2, <1>3

LEMMA LibraryType ==
    ASSUME TypeOK, NEW l \in Libs, NEW st \in {"running"} \cup Terminal
    PROVE  [library EXCEPT ![l].last = st] \in [Libs -> LibraryRow]
<1>1. [library[l] EXCEPT !.last = st] \in LibraryRow
  BY DEF TypeOK, LibraryRow
<1> QED
  BY <1>1 DEF TypeOK

(* Cancel. *)
LEMMA CancelType ==
    ASSUME TypeOK, CancelStep
    PROVE  TypeOK'
<1>1. CASE \E c \in Cancelers, r \in Runs : MarkCancel(c, r)
  <2>1. PICK c \in Cancelers, r \in Runs : MarkCancel(c, r)
    BY <1>1
  <2>2. row' \in [Runs -> RunRow]
    BY <2>1, RowType DEF TypeOK, MarkCancel
  <2>3. canceler' \in [Cancelers -> CancelState] /\ Holding'
    <3>1. [pc |-> "marked", run |-> r] \in CancelState
      BY DEF CancelState
    <3> QED
      BY <2>1, <3>1, CancelUpdate DEF MarkCancel, mem
  <2> QED
    BY <2>1, <2>2, <2>3 DEF TypeOK, MarkCancel, mem, bounds
<1>2. CASE \E c \in Cancelers : StopActive(c)
  <2>1. canceler' \in [Cancelers -> CancelState] /\ Holding'
    BY <1>2, IdleTypes, CancelUpdate DEF StopActive
  <2> QED
    BY <1>2, <2>1 DEF TypeOK, StopActive, bounds
<1> QED
  BY <1>1, <1>2 DEF CancelStep

LEMMA TakeType ==
    ASSUME TypeOK, TakeJob
    PROVE  TypeOK'
<1>1. Head(jobs) \in Job /\ Tail(jobs) \in Seq(Job) /\ Len(Tail(jobs)) <= ChanCap
  BY ConstantsAssumption DEF TypeOK, TakeJob, ConstantsAssumption
<1>2. work' \in WorkerState /\ Holding'
  BY <1>1 DEF TypeOK, Holding, TakeJob, Job, WorkerState, calls
<1> QED
  BY <1>1, <1>2 DEF TypeOK, TakeJob, calls, bounds

(* A step of execute goes to another place of it, or has an outcome. *)
LEMMA GotoType ==
    ASSUME TypeOK, UNCHANGED calls, work.pc # "idle",
           NEW l \in {"markRun", "markLibrary", "conversion", "scan", "commit", "release"}, Goto(l)
    PROVE  work' \in WorkerState /\ Holding' /\ work'.run = work.run /\ work'.lib = work.lib /\ work'.pc = l
<1>1. work' \in WorkerState /\ work'.run = work.run /\ work'.lib = work.lib /\ work'.pc = l
  BY DEF TypeOK, WorkerState, Goto
<1>2. work.run \in Runs /\ work.lib \in Libs
  BY DEF TypeOK, Holding
<1> QED
  BY <1>1, <1>2 DEF TypeOK, Holding, calls

LEMMA OutcomeType ==
    ASSUME TypeOK, UNCHANGED calls, work.pc # "idle", NEW o \in Terminal, Outcome(o)
    PROVE  work' \in WorkerState /\ Holding' /\ work'.run = work.run /\ work'.lib = work.lib /\ work'.pc = "finishRun"
<1>1. /\ work' \in WorkerState /\ work'.run = work.run /\ work'.lib = work.lib
      /\ work'.pc = "finishRun" /\ work'.outcome = o
  BY DEF TypeOK, WorkerState, Outcome
<1>2. work.run \in Runs /\ work.lib \in Libs
  BY DEF TypeOK, Holding
<1> QED
  BY <1>1, <1>2 DEF TypeOK, Holding, calls

LEMMA WorkerType ==
    ASSUME TypeOK, WorkerStep \/ ScanFails \/ ScanCompletes
    PROVE  TypeOK'
<1> USE GotoType, OutcomeType DEF Terminal
<1>1. CASE CheckCancel
  <2>1. work.pc # "idle" /\ UNCHANGED calls
    BY <1>1 DEF CheckCancel
  <2>2. \/ \E o \in Terminal : Outcome(o)
        \/ \E l \in {"markRun", "release"} : Goto(l)
    BY <1>1 DEF CheckCancel
  <2>3. work' \in WorkerState /\ Holding'
    BY <2>1, <2>2
  <2> QED
    BY <1>1, <2>3 DEF TypeOK, CheckCancel, calls, bounds
<1>2. CASE MarkRunRunning
  <2>1. row' \in [Runs -> RunRow]
    <3>1. work.run \in Runs
      BY <1>2 DEF TypeOK, Holding, MarkRunRunning
    <3>2. [row EXCEPT ![work.run].status = "running"] \in [Runs -> RunRow]
      BY <3>1, RowType DEF Live
    <3> QED
      BY <1>2, <3>2 DEF TypeOK, MarkRunRunning
  <2> QED
    BY <1>2, <2>1 DEF TypeOK, MarkRunRunning, calls, bounds
<1>3. CASE MarkLibraryRunning
  <2>1. library' \in [Libs -> LibraryRow]
    <3>1. work.lib \in Libs
      BY <1>3 DEF TypeOK, Holding, MarkLibraryRunning
    <3>2. [library EXCEPT ![work.lib].last = "running"] \in [Libs -> LibraryRow]
      BY <3>1, LibraryType
    <3> QED
      BY <1>3, <3>2 DEF TypeOK, MarkLibraryRunning
  <2> QED
    BY <1>3, <2>1 DEF TypeOK, MarkLibraryRunning, calls, bounds
<1>4. CASE CheckConversion
  BY <1>4 DEF TypeOK, CheckConversion, calls, bounds
<1>5. CASE ScanCanceled
  BY <1>5 DEF TypeOK, ScanCanceled, calls, bounds
<1>6. CASE ScanFails
  BY <1>6 DEF TypeOK, ScanFails, calls, bounds
<1>7. CASE ScanCompletes
  BY <1>7 DEF TypeOK, ScanCompletes, calls, bounds
<1>8. CASE CommitScan
  BY <1>8 DEF TypeOK, CommitScan, calls, bounds
<1>9. CASE FinishRun
  <2>1. row' \in [Runs -> RunRow]
    <3>1. work.run \in Runs /\ work.outcome \in Terminal
      BY <1>9 DEF TypeOK, Holding, FinishRun
    <3>2. [row EXCEPT ![work.run].status = work.outcome] \in [Runs -> RunRow]
      BY <3>1, RowType
    <3> QED
      BY <1>9, <3>2 DEF TypeOK, FinishRun
  <2>2. work' \in WorkerState /\ Holding'
    <3>1. work' = [work EXCEPT !.pc = "finishLibrary"] /\ work.pc = "finishRun" /\ UNCHANGED calls
      BY <1>9 DEF FinishRun, Goto
    <3>2. /\ work' \in WorkerState /\ work'.run = work.run /\ work'.lib = work.lib
          /\ work'.outcome = work.outcome
      BY <3>1 DEF TypeOK, WorkerState
    <3> QED
      BY <3>1, <3>2 DEF TypeOK, Holding, calls
  <2> QED
    BY <1>9, <2>1, <2>2 DEF TypeOK, FinishRun, calls, bounds
<1>10. CASE FinishLibrary
  <2>1. library' \in [Libs -> LibraryRow]
    <3>1. work.lib \in Libs /\ work.outcome \in Terminal
      BY <1>10 DEF TypeOK, Holding, FinishLibrary
    <3>2. [library EXCEPT ![work.lib].last = work.outcome] \in [Libs -> LibraryRow]
      BY <3>1, LibraryType
    <3> QED
      BY <1>10, <3>2 DEF TypeOK, FinishLibrary
  <2> QED
    BY <1>10, <2>1 DEF TypeOK, FinishLibrary, calls, bounds
<1>11. CASE Release
  <2>1. queued' \in [Libs -> Runs \cup {None}]
    BY <1>11 DEF TypeOK, Release
  <2>2. work' \in WorkerState /\ Holding'
    BY <1>11, IdleTypes DEF TypeOK, Holding, Release, calls
  <2> QED
    BY <1>11, <2>1, <2>2 DEF TypeOK, Release, calls, bounds
<1> QED
  BY <1>1, <1>2, <1>3, <1>4, <1>5, <1>6, <1>7, <1>8, <1>9, <1>10, <1>11 DEF WorkerStep

(* The admin handlers, shutdown and restart. *)
LEMMA EditType == TypeOK /\ Edit => edits' \in 0..MaxEdits /\ restarts' \in 0..MaxRestarts
BY ConstantsAssumption DEF TypeOK, Edit, ConstantsAssumption

LEMMA UpsertType ==
    ASSUME TypeOK, NEW l \in Libs, NEW enabled \in BOOLEAN, NEW oneShot \in BOOLEAN,
           Upsert(l, enabled, oneShot)
    PROVE  library' \in [Libs -> LibraryRow]
BY DEF TypeOK, Upsert, LibraryRow

LEMMA AdminType ==
    ASSUME TypeOK, AdminStep
    PROVE  TypeOK'
<1>1. CASE \E l \in Libs, enabled, oneShot \in BOOLEAN : CreateLibrary(l, enabled, oneShot)
  <2>1. Holding'
    BY <1>1 DEF TypeOK, Holding, CreateLibrary, mem, calls
  <2> QED
    BY <1>1, <2>1, UpsertType, EditType DEF TypeOK, CreateLibrary, mem, calls
<1>2. CASE \E l \in Libs, enabled, oneShot \in BOOLEAN, a \in Admins :
             ReadForUpdate(a, l, enabled, oneShot)
  <2>1. PICK l \in Libs, enabled \in BOOLEAN, oneShot \in BOOLEAN, a \in Admins :
               ReadForUpdate(a, l, enabled, oneShot)
    BY <1>2
  <2> DEFINE item == [library[l] EXCEPT !.enabled = enabled, !.oneShot = oneShot]
  <2>2. item \in LibraryRow
    BY DEF TypeOK, LibraryRow
  <2>3. [pc |-> IF oneShot # library[l].oneShot THEN "checkMode" ELSE "write", lib |-> l,
         item |-> item] \in AdminState
    BY <2>2 DEF AdminState
  <2>4. admin' \in [Admins -> AdminState] /\ Holding'
    BY <2>1, <2>3 DEF TypeOK, Holding, ReadForUpdate, mem
  <2> QED
    BY <2>1, <2>4, EditType DEF TypeOK, ReadForUpdate, mem
<1>3. CASE \E a \in Admins, l \in Libs : CheckDelete(a, l)
  <2>1. admin' \in [Admins -> AdminState] /\ Holding'
    <3>1. PICK a \in Admins, l \in Libs : CheckDelete(a, l)
      BY <1>3
    <3>2. [pc |-> "delete", lib |-> l, item |-> NoLibrary] \in AdminState
      BY IdleTypes DEF AdminState
    <3> QED
      BY <3>1, <3>2, AdminUpdate DEF CheckDelete, mem
  <2> QED
    BY <1>3, <2>1, EditType DEF TypeOK, CheckDelete, mem
<1>4. CASE \E a \in Admins : CheckMode(a)
  <2>1. PICK a \in Admins : CheckMode(a)
    BY <1>4
  <2>2. admin' \in [Admins -> AdminState] /\ Holding'
    <3>1. CASE admin' = [admin EXCEPT ![a] = IdleAdmin]
      BY <2>1, <3>1, IdleTypes, AdminUpdate DEF CheckMode, mem
    <3>2. CASE admin' = [admin EXCEPT ![a].pc = "write"]
      BY <2>1, <3>2 DEF TypeOK, Holding, CheckMode, AdminState, mem
    <3> QED
      BY <2>1, <3>1, <3>2 DEF CheckMode
  <2> QED
    BY <2>1, <2>2 DEF TypeOK, CheckMode, mem, bounds
<1>5. CASE \E a \in Admins : WriteLibrary(a)
  <2>1. PICK a \in Admins : WriteLibrary(a)
    BY <1>5
  <2>2. admin' \in [Admins -> AdminState] /\ Holding'
    BY <2>1, IdleTypes, AdminUpdate DEF WriteLibrary, mem
  <2>3. admin[a].lib \in Libs /\ admin[a].item.enabled \in BOOLEAN /\ admin[a].item.oneShot \in BOOLEAN
    BY <2>1 DEF TypeOK, Holding, WriteLibrary, AdminState, LibraryRow
  <2>4. library' \in [Libs -> LibraryRow]
    BY <2>1, <2>3, UpsertType DEF WriteLibrary
  <2> QED
    BY <2>1, <2>2, <2>4 DEF TypeOK, WriteLibrary, mem, bounds
<1>6. CASE \E a \in Admins : DeleteLibrary(a)
  <2>1. admin' \in [Admins -> AdminState] /\ Holding'
    BY <1>6, IdleTypes, AdminUpdate DEF DeleteLibrary, mem
  <2>2. library' \in [Libs -> LibraryRow]
    BY <1>6, IdleTypes DEF TypeOK, DeleteLibrary
  <2>3. row' \in [Runs -> RunRow]
    BY <1>6 DEF TypeOK, DeleteLibrary, RunRow
  <2> QED
    BY <1>6, <2>1, <2>2, <2>3 DEF TypeOK, DeleteLibrary, mem, bounds
<1> QED
  BY <1>1, <1>2, <1>3, <1>4, <1>5, <1>6 DEF AdminStep

LEMMA RestartType ==
    ASSUME TypeOK, Restart
    PROVE  TypeOK'
<1>1. library' \in [Libs -> LibraryRow]
  <2>1. ASSUME NEW l \in Libs
        PROVE  (IF library[l].last = "running"
                THEN [library[l] EXCEPT !.last = "failed"] ELSE library[l]) \in LibraryRow
    <3>1. library[l] \in LibraryRow
      BY DEF TypeOK
    <3> QED
      BY <3>1 DEF LibraryRow, Terminal
  <2> QED
    BY <2>1 DEF Restart
<1>2. row' \in [Runs -> RunRow]
  <2>1. ASSUME NEW r \in Runs PROVE Repaired(r) \in RunRow
    <3>1. row[r] \in RunRow
      BY DEF TypeOK
    <3> QED
      BY <3>1 DEF Repaired, RunRow, Terminal
  <2> QED
    BY <2>1 DEF Restart
<1>3. jobs' \in Seq(Job) /\ Len(jobs') <= ChanCap
  BY ConstantsAssumption DEF Restart, ConstantsAssumption
<1>4. restarts' \in 0..MaxRestarts
  BY ConstantsAssumption DEF TypeOK, Restart, ConstantsAssumption
<1>5. Holding'
  BY IdleTypes DEF Restart, Holding
<1> QED
  BY <1>1, <1>2, <1>3, <1>4, <1>5, IdleTypes DEF TypeOK, Restart

LEMMA NextType == TypeOK /\ [Next]_vars => TypeOK'
<1> SUFFICES ASSUME TypeOK, [Next]_vars PROVE TypeOK'
  OBVIOUS
<1>1. CASE Close
  BY <1>1 DEF TypeOK, Holding, Close, calls, bounds
<1>2. CASE UNCHANGED vars
  BY <1>2 DEF TypeOK, Holding, vars, mem, calls, bounds
<1> QED
  BY <1>1, <1>2, CallType, CancelType, TakeType, WorkerType, AdminType, RestartType DEF Next

(* The tables, the maps and the calls in flight keep their types; whoever  *)
(* is past idle holds the library and the run the next step needs.         *)
THEOREM TypeCorrect == Spec => []TypeOK
BY InitType, NextType, PTL DEF Spec

-----------------------------------------------------------------------------
(* One scan per library, live rows reserved, and the right scan stopped.   *)
(*                                                                         *)
(* None of the three is inductive.  The first needs ReservationsAgree: the *)
(* map Manager.queued is what keeps the carriers of one library apart, so  *)
(* what each of them carries must be what the map says.  The others need   *)
(* RowsAgree besides: between two database statements of one call the rows *)
(* are what its own run ID left there.                                     *)

Reservation == TypeOK /\ OneScanPerLibrary /\ ReservationsAgree

LEMMA InitReservation == Init => OneScanPerLibrary /\ ReservationsAgree
BY ConstantsAssumption
   DEF Init, OneScanPerLibrary, ReservationsAgree, Carrying, Working, IdleRequest, IdleWorker,
       ConstantsAssumption

LEMMA JobType ==
    ASSUME TypeOK
    PROVE  \A i \in 1..Len(jobs) : jobs[i] \in Job /\ jobs[i].lib \in Libs /\ jobs[i].run \in Runs
<1>1. \A i \in 1..Len(jobs) : jobs[i] \in Job
  BY DEF TypeOK
<1> QED
  BY <1>1 DEF Job

(* A step that leaves the map and the channel alone, and hands no run to   *)
(* anyone.                                                                 *)
NoHandOver ==
    /\ UNCHANGED <<queued, jobs>>
    /\ \A p \in Requests :
          Carrying(p)' => Carrying(p) /\ request'[p].run = request[p].run
                                      /\ request'[p].lib = request[p].lib
    /\ Working' => Working /\ work'.run = work.run /\ work'.lib = work.lib

LEMMA NoHandOverKeeps ==
    ASSUME Reservation, NoHandOver
    PROVE  OneScanPerLibrary' /\ ReservationsAgree'
<1>1. OneScanPerLibrary'
  BY DEF Reservation, NoHandOver, OneScanPerLibrary
<1>2. ReservationsAgree'
  BY DEF Reservation, NoHandOver, ReservationsAgree
<1> QED
  BY <1>1, <1>2

(* A request's own step keeps the other requests as they are. *)
LEMMA ReserveKeeps ==
    ASSUME Reservation, NEW p \in Requests, NEW r \in Runs, Reserve(p, r)
    PROVE  OneScanPerLibrary' /\ ReservationsAgree'
<1> DEFINE l == request[p].lib
<1>0. l \in Libs /\ request[p].pc = "reserve"
  BY DEF Reservation, TypeOK, Holding, Reserve
<1>1. CASE queued[l] # None
  <2>1. NoHandOver
    <3>1. /\ UNCHANGED <<queued, jobs, work>> /\ request[p].todo \in SUBSET Libs
          /\ request' = [request EXCEPT ![p] = After(request[p].todo)]
      BY <1>0, <1>1 DEF Reservation, TypeOK, RequestState, Reserve
    <3>2. request'[p].pc \in {"idle", "next"} /\ \A q \in Requests : q # p => request'[q] = request[q]
      BY <3>1, AfterType DEF Reservation, TypeOK
    <3> QED
      BY <3>1, <3>2 DEF NoHandOver, Carrying, Working
  <2> QED
    BY <2>1, NoHandOverKeeps
<1>2. CASE queued[l] = None
  <2>1. /\ queued' = [queued EXCEPT ![l] = r]
        /\ request' = [request EXCEPT ![p].pc = "insert", ![p].run = r]
        /\ \A m \in Libs : queued[m] # r
        /\ UNCHANGED <<jobs, work>>
    BY <1>2 DEF Reserve, Fresh
  <2>2. \A q \in Requests : Carrying(q) => request[q].lib # l /\ q # p
    BY <1>0, <1>2, ConstantsAssumption DEF Reservation, TypeOK, Holding, ReservationsAgree, Carrying, ConstantsAssumption
  <2>3. \A q \in Requests : Carrying(q)' =>
           \/ q = p /\ request'[q].lib = l /\ request'[q].run = r
           \/ q # p /\ Carrying(q) /\ request'[q] = request[q] /\ request[q].lib \in Libs \ {l}
    BY <1>0, <2>1, <2>2 DEF Reservation, TypeOK, Holding, RequestState, Carrying
  <2>4. \A i \in 1..Len(jobs) : jobs[i].lib \in Libs \ {l}
    BY <1>0, <1>2, JobType, ConstantsAssumption DEF Reservation, ReservationsAgree, ConstantsAssumption
  <2>5. Working => work.lib \in Libs \ {l}
    BY <1>2, ConstantsAssumption
    DEF Reservation, TypeOK, Holding, ReservationsAgree, Working, ConstantsAssumption
  <2>6. OneScanPerLibrary'
    <3>1. \A q, s \in Requests :
             Carrying(q)' /\ Carrying(s)' /\ request'[q].lib = request'[s].lib => q = s
      BY <2>3 DEF Reservation, OneScanPerLibrary
    <3>2. \A q \in Requests, i \in 1..Len(jobs) : Carrying(q)' => request'[q].lib # jobs[i].lib
      BY <2>3, <2>4 DEF Reservation, OneScanPerLibrary
    <3>3. Working => \A q \in Requests : Carrying(q)' => request'[q].lib # work.lib
      BY <2>3, <2>5 DEF Reservation, OneScanPerLibrary
    <3>4. Working' = Working
      BY <2>1 DEF Working
    <3> QED
      BY <2>1, <3>1, <3>2, <3>3, <3>4, ZenonT(30) DEF Reservation, OneScanPerLibrary
  <2>7. ReservationsAgree'
    <3>1. \A m \in Libs : queued'[m] = IF m = l THEN r ELSE queued[m]
      BY <2>1 DEF Reservation, TypeOK
    <3>2. \A m, n \in Libs : queued'[m] = queued'[n] /\ queued'[m] # None => m = n
      BY <2>1, <3>1 DEF Reservation, ReservationsAgree
    <3>3. \A q \in Requests : Carrying(q)' => queued'[request'[q].lib] = request'[q].run
      BY <1>0, <2>3, <3>1 DEF Reservation, ReservationsAgree
    <3>4. \A i \in 1..Len(jobs) : queued'[jobs[i].lib] = jobs[i].run
      BY <2>4, <3>1 DEF Reservation, ReservationsAgree
    <3>5. Working' => queued'[work'.lib] = work'.run
      BY <2>1, <2>5, <3>1 DEF Reservation, ReservationsAgree, Working
    <3> QED
      BY <2>1, <3>2, <3>3, <3>4, <3>5 DEF ReservationsAgree
  <2> QED
    BY <2>6, <2>7
<1> QED
  BY <1>1, <1>2

(* The reservation is taken back: nobody else carries this library. *)
LEMMA InsertFailsKeeps ==
    ASSUME Reservation, NEW p \in Requests, InsertFails(p)
    PROVE  OneScanPerLibrary' /\ ReservationsAgree'
<1> DEFINE l == request[p].lib
<1>1. l \in Libs /\ Carrying(p)
  BY DEF Reservation, TypeOK, Holding, InsertFails, Carrying
<1>2. /\ \A m \in Libs : queued'[m] = IF m = l THEN None ELSE queued[m]
      /\ \A q \in Requests : Carrying(q)' => q # p /\ Carrying(q) /\ request'[q] = request[q]
      /\ UNCHANGED <<jobs, work>>
  BY <1>1, IdleTypes DEF Reservation, TypeOK, InsertFails, Carrying, IdleRequest
<1>3. OneScanPerLibrary'
  BY <1>2 DEF Reservation, OneScanPerLibrary, Carrying, Working
<1>4. ReservationsAgree'
  <2>1. \A q \in Requests : Carrying(q)' => request'[q].lib \in Libs \ {l}
    BY <1>1, <1>2 DEF Reservation, TypeOK, Holding, OneScanPerLibrary, Carrying
  <2>2. \A i \in 1..Len(jobs) : jobs[i].lib \in Libs \ {l}
    BY <1>1, JobType DEF Reservation, OneScanPerLibrary
  <2>3. Working => work.lib \in Libs \ {l}
    BY <1>1 DEF Reservation, TypeOK, Holding, OneScanPerLibrary, Working
  <2>4. \A m, n \in Libs : queued'[m] = queued'[n] /\ queued'[m] # None => m = n
    BY <1>2 DEF Reservation, ReservationsAgree
  <2> QED
    BY <1>2, <2>1, <2>2, <2>3, <2>4 DEF Reservation, ReservationsAgree, Carrying, Working
<1> QED
  BY <1>3, <1>4

(* The deferred delete: the same, for the worker. *)
LEMMA ReleaseKeeps ==
    ASSUME Reservation, Release
    PROVE  OneScanPerLibrary' /\ ReservationsAgree'
<1> DEFINE l == work.lib
<1>1. l \in Libs /\ Working
  BY DEF Reservation, TypeOK, Holding, Release, Working
<1>2. /\ \A m \in Libs : queued'[m] = IF m = l THEN None ELSE queued[m]
      /\ ~Working'
      /\ UNCHANGED <<jobs, request>>
  BY <1>1 DEF Reservation, TypeOK, Release, Working, IdleWorker, calls
<1>3. OneScanPerLibrary'
  BY <1>2 DEF Reservation, OneScanPerLibrary, Carrying, Working
<1>4. ReservationsAgree'
  <2>1. \A q \in Requests : Carrying(q) => request[q].lib \in Libs \ {l}
    BY <1>1 DEF Reservation, TypeOK, Holding, OneScanPerLibrary, Carrying
  <2>2. \A i \in 1..Len(jobs) : jobs[i].lib \in Libs \ {l}
    BY <1>1, JobType DEF Reservation, OneScanPerLibrary
  <2>3. \A m, n \in Libs : queued'[m] = queued'[n] /\ queued'[m] # None => m = n
    BY <1>2 DEF Reservation, ReservationsAgree
  <2> QED
    BY <1>2, <2>1, <2>2, <2>3 DEF Reservation, ReservationsAgree, Carrying, Working
<1> QED
  BY <1>3, <1>4

(* A run is handed to the channel, and from the channel to the worker. *)
LEMMA SendJobKeeps ==
    ASSUME Reservation, NEW p \in Requests, SendJob(p)
    PROVE  OneScanPerLibrary' /\ ReservationsAgree'
<1> DEFINE j == [run |-> request[p].run, lib |-> request[p].lib, oneShot |-> request[p].oneShot]
<1>0. request[p].pc = "send" /\ Carrying(p) /\ j \in Job
  BY DEF Reservation, TypeOK, Holding, RequestState, SendJob, SendWhen, Carrying, Job
<1>1. CASE closing /\ request' = [request EXCEPT ![p] = IdleRequest] /\ UNCHANGED jobs
  <2>1. NoHandOver
    BY <1>1, IdleTypes DEF Reservation, TypeOK, SendJob, SendWhen, NoHandOver, Carrying, Working, IdleRequest
  <2> QED
    BY <2>1, NoHandOverKeeps
<1>2. CASE jobs' = Append(jobs, j) /\ request' = [request EXCEPT ![p] = After(request[p].todo)]
  <2>1. /\ Len(jobs') = Len(jobs) + 1 /\ Len(jobs) \in Nat
        /\ jobs'[Len(jobs) + 1] = j
        /\ \A i \in 1..Len(jobs) : jobs'[i] = jobs[i]
    BY <1>0, <1>2 DEF Reservation, TypeOK
  <2>2. \A q \in Requests : Carrying(q)' => q # p /\ Carrying(q) /\ request'[q] = request[q]
    BY <1>2 DEF Reservation, TypeOK, Carrying, After, IdleRequest
  <2>3. UNCHANGED <<queued, work>>
    BY DEF SendJob, SendWhen
  <2>4. j.lib = request[p].lib /\ j.run = request[p].run
    OBVIOUS
  <2>5. OneScanPerLibrary'
    <3>1. \A i, k \in 1..Len(jobs') : jobs'[i].lib = jobs'[k].lib => i = k
      BY <1>0, <2>1, <2>4 DEF Reservation, OneScanPerLibrary
    <3>2. \A q \in Requests, i \in 1..Len(jobs') : Carrying(q)' => request'[q].lib # jobs'[i].lib
      BY <1>0, <2>1, <2>2, <2>4 DEF Reservation, OneScanPerLibrary
    <3>3. Working => \A i \in 1..Len(jobs') : jobs'[i].lib # work.lib
      BY <1>0, <2>1, <2>4 DEF Reservation, OneScanPerLibrary
    <3> QED
      BY <2>2, <2>3, Zenon, <3>1, <3>2, <3>3 DEF Reservation, OneScanPerLibrary, Working
  <2>6. ReservationsAgree'
    <3>1. \A i \in 1..Len(jobs') : queued[jobs'[i].lib] = jobs'[i].run
      BY <1>0, <2>1, <2>4 DEF Reservation, ReservationsAgree
    <3> QED
      BY <2>2, <2>3, Zenon, <3>1 DEF Reservation, ReservationsAgree, Working
  <2> QED
    BY <2>5, <2>6
<1> QED
  BY <1>1, <1>2 DEF SendJob, SendWhen

LEMMA TakeKeeps ==
    ASSUME Reservation, TakeJob
    PROVE  OneScanPerLibrary' /\ ReservationsAgree'
<1>1. /\ Len(jobs) \in Nat \ {0} /\ Len(jobs') = Len(jobs) - 1
      /\ \A i \in 1..Len(jobs') : jobs'[i] = jobs[i + 1]
      /\ work'.lib = jobs[1].lib /\ work'.run = jobs[1].run
      /\ UNCHANGED <<queued, request>>
  BY DEF Reservation, TypeOK, TakeJob, calls
<1>2. OneScanPerLibrary'
  <2>1. \A i, k \in 1..Len(jobs') : jobs'[i].lib = jobs'[k].lib => i = k
    BY <1>1 DEF Reservation, OneScanPerLibrary
  <2>2. \A q \in Requests, i \in 1..Len(jobs') : Carrying(q) => request[q].lib # jobs'[i].lib
    BY <1>1 DEF Reservation, OneScanPerLibrary
  <2>3. /\ \A q \in Requests : Carrying(q) => request[q].lib # jobs[1].lib
        /\ \A i \in 1..Len(jobs') : jobs'[i].lib # jobs[1].lib
    BY <1>1 DEF Reservation, OneScanPerLibrary
  <2>4. \A q \in Requests : Carrying(q)' <=> Carrying(q)
    BY <1>1 DEF Carrying
  <2>5. \A q, s \in Requests : Carrying(q) /\ Carrying(s) /\ request[q].lib = request[s].lib => q = s
    BY DEF Reservation, OneScanPerLibrary
  <2> QED
    BY <1>1, <2>1, <2>2, <2>3, <2>4, <2>5 DEF OneScanPerLibrary
<1>3. ReservationsAgree'
  BY <1>1 DEF Reservation, ReservationsAgree, Carrying
<1> QED
  BY <1>2, <1>3

(* Every other step hands no run to anyone. *)
LEMMA CallKeeps ==
    ASSUME Reservation, NEW p \in Requests, CallStart(p) \/ CallStep(p)
    PROVE  OneScanPerLibrary' /\ ReservationsAgree'
<1> USE NoHandOverKeeps
<1>1. CASE CallStart(p)
  <2>1. \E todo \in SUBSET Libs : request' = [request EXCEPT ![p] = After(todo)]
    BY <1>1 DEF CallStart, StartAll, StartOne, ScheduledStartAll, EnabledLibs
  <2>2. UNCHANGED mem
    BY <1>1 DEF CallStart, StartAll, StartOne, ScheduledStartAll
  <2>3. \A q \in Requests : Carrying(q)' => q # p /\ request'[q] = request[q]
    BY <2>1 DEF Reservation, TypeOK, After, IdleRequest, Carrying
  <2>4. NoHandOver
    BY <2>2, <2>3, Zenon DEF NoHandOver, Carrying, Working, mem
  <2> QED
    BY <2>4
<1>2. CASE \E l \in Libs : ReadLibrary(p, l)
  <2>1. NoHandOver
    BY <1>2 DEF Reservation, TypeOK, ReadLibrary, IdleRequest, NoHandOver, Carrying, Working, mem
  <2> QED
    BY <2>1
<1>3. CASE InsertRun(p)
  <2>1. NoHandOver
    BY <1>3 DEF Reservation, TypeOK, RequestState, InsertRun, NoHandOver, Carrying, Working, mem
  <2> QED
    BY <2>1
<1>4. CASE ReadBack(p)
  <2>1. NoHandOver
    BY <1>4 DEF Reservation, TypeOK, RequestState, ReadBack, NoHandOver, Carrying, Working, mem
  <2> QED
    BY <2>1
<1>5. CASE ReadBackFails(p)
  <2>1. NoHandOver
    BY <1>5 DEF Reservation, TypeOK, ReadBackFails, IdleRequest, NoHandOver, Carrying, Working, mem
  <2> QED
    BY <2>1
<1> QED
  BY <1>1, <1>2, <1>3, <1>4, <1>5, ReserveKeeps, InsertFailsKeeps, SendJobKeeps DEF CallStep

LEMMA WorkerKeeps ==
    ASSUME Reservation, WorkerStep \/ ScanFails \/ ScanCompletes
    PROVE  OneScanPerLibrary' /\ ReservationsAgree'
<1>1. CASE Release
  BY <1>1, ReleaseKeeps
<1>2. CASE ~Release
  <2>1. Working
    BY <1>2 DEF WorkerStep, CheckCancel, MarkRunRunning, MarkLibraryRunning, CheckConversion, ScanCanceled,
               ScanFails, ScanCompletes, CommitScan, FinishRun, FinishLibrary, Working
  <2>2. work'.run = work.run /\ work'.lib = work.lib
    <3>1. CASE CheckCancel \/ MarkRunRunning \/ MarkLibraryRunning \/ FinishRun \/ FinishLibrary
      BY <3>1 DEF Reservation, TypeOK, WorkerState, CheckCancel, MarkRunRunning, MarkLibraryRunning, FinishRun,
                 FinishLibrary, Outcome, Goto
    <3>2. CASE CheckConversion \/ ScanCanceled \/ ScanFails \/ ScanCompletes \/ CommitScan
      BY <3>2 DEF Reservation, TypeOK, WorkerState, CheckConversion, ScanCanceled, ScanFails, ScanCompletes,
                 CommitScan, Outcome, Goto
    <3> QED
      BY <1>2, <3>1, <3>2 DEF WorkerStep
  <2>3. UNCHANGED <<queued, jobs, request>>
    BY <1>2 DEF WorkerStep, CheckCancel, MarkRunRunning, MarkLibraryRunning, CheckConversion, ScanCanceled,
               ScanFails, ScanCompletes, CommitScan, FinishRun, FinishLibrary, calls
  <2>4. NoHandOver
    BY <2>1, <2>2, <2>3 DEF NoHandOver, Carrying
  <2> QED
    BY <2>4, NoHandOverKeeps
<1> QED
  BY <1>1, <1>2

LEMMA NextKeeps ==
    ASSUME Reservation, [Next]_vars
    PROVE  OneScanPerLibrary' /\ ReservationsAgree'
<1>1. CASE CancelStep \/ AdminStep \/ Close \/ UNCHANGED vars
  <2>1. UNCHANGED <<queued, jobs, work, request>>
    BY <1>1 DEF CancelStep, MarkCancel, StopActive, AdminStep, CreateLibrary, ReadForUpdate, CheckMode,
               WriteLibrary, CheckDelete, DeleteLibrary, Close, vars, mem, calls
  <2>2. NoHandOver
    BY <2>1 DEF NoHandOver, Carrying, Working
  <2> QED
    BY <2>2, NoHandOverKeeps
<1>2. CASE Restart
  BY <1>2, ConstantsAssumption
  DEF Restart, OneScanPerLibrary, ReservationsAgree, Carrying, Working, IdleRequest, IdleWorker, ConstantsAssumption
<1> QED
  BY <1>1, <1>2, CallKeeps, TakeKeeps, WorkerKeeps DEF Next

(* Whatever requests, schedulers, cancels, edits, deletions and restarts   *)
(* are interleaved, StartLibrary never lets two scans of one library be    *)
(* under way.                                                              *)
THEOREM ScansExclusive == Spec => []OneScanPerLibrary
<1>1. Init => Reservation
  BY InitType, InitReservation DEF Reservation
<1>2. Reservation /\ [Next]_vars => Reservation'
  BY NextType, NextKeeps DEF Reservation
<1>3. Reservation => OneScanPerLibrary
  BY DEF Reservation
<1> QED
  BY <1>1, <1>2, <1>3, PTL DEF Spec

-----------------------------------------------------------------------------
(* The rows. *)
Ledger == Reservation /\ RowsAgree /\ LiveRowReserved /\ StopHitsOwnRun

LEMMA InitLedger == Init => Ledger
<1>1. Init => RowsAgree /\ LiveRowReserved /\ StopHitsOwnRun
  BY DEF Init, RowsAgree, LiveRowReserved, StopHitsOwnRun, Working, IdleRequest, IdleWorker, IdleCancel,
         NoRow, Live
<1> QED
  BY <1>1, InitType, InitReservation DEF Ledger, Reservation

(* No two of those who carry a run carry the same one. *)
LEMMA CarriersApart ==
    ASSUME Reservation, NEW p \in Requests, Carrying(p)
    PROVE  /\ request[p].run \in Runs /\ request[p].lib \in Libs
           /\ queued[request[p].lib] = request[p].run
           /\ \A q \in Requests : Carrying(q) /\ q # p => request[q].run # request[p].run
           /\ \A i \in 1..Len(jobs) : jobs[i].run # request[p].run
           /\ Working => work.run # request[p].run
<1>1. \A q \in Requests : Carrying(q) => /\ request[q].run \in Runs /\ request[q].lib \in Libs
                                        /\ queued[request[q].lib] = request[q].run
  BY DEF Reservation, TypeOK, Holding, ReservationsAgree, Carrying
<1>2. request[p].run # None
  BY <1>1, ConstantsAssumption DEF ConstantsAssumption
<1>3. \A l \in Libs : queued[l] = request[p].run => l = request[p].lib
  BY <1>1, <1>2 DEF Reservation, ReservationsAgree
<1>4. \A q \in Requests : Carrying(q) /\ q # p => request[q].lib # request[p].lib
  BY DEF Reservation, OneScanPerLibrary
<1>5. \A i \in 1..Len(jobs) : /\ jobs[i].lib \in Libs /\ jobs[i].lib # request[p].lib
                             /\ queued[jobs[i].lib] = jobs[i].run
  BY JobType DEF Reservation, OneScanPerLibrary, ReservationsAgree
<1>6. Working => work.lib \in Libs /\ work.lib # request[p].lib /\ queued[work.lib] = work.run
  BY DEF Reservation, TypeOK, Holding, OneScanPerLibrary, ReservationsAgree, Working
<1> QED
  BY <1>1, <1>3, <1>4, <1>5, <1>6

(* The next library, or back to the caller: no run either way. *)
LEMMA AfterCarriesNone == \A todo : After(todo).pc \in {"idle", "next"}
BY DEF After, IdleRequest

(* A step that writes no row, hands over no run, stops no scan. *)
RowsUntouched ==
    /\ UNCHANGED <<row, queued, jobs, work, stopped, closing, canceler>>
    /\ \A p \in Requests :
          /\ request'[p].pc = "insert" => request[p].pc = "insert" /\ request'[p].run = request[p].run
          /\ request'[p].pc \in {"readback", "send"} =>
                /\ request[p].pc \in {"readback", "send"}
                /\ request'[p].run = request[p].run /\ request'[p].lib = request[p].lib

LEMMA UntouchedKeeps ==
    ASSUME Ledger, RowsUntouched
    PROVE  RowsAgree' /\ LiveRowReserved' /\ StopHitsOwnRun'
<1>1. RowsAgree'
  BY DEF Ledger, RowsAgree, RowsUntouched, Working, Exists
<1>2. LiveRowReserved' /\ StopHitsOwnRun'
  BY DEF Ledger, LiveRowReserved, StopHitsOwnRun, RowsUntouched, Exists
<1> QED
  BY <1>1, <1>2

LEMMA StartRows ==
    ASSUME Ledger, NEW p \in Requests,
           \/ CallStart(p)
           \/ \E l \in Libs : ReadLibrary(p, l)
           \/ ReadBack(p)
           \/ ReadBackFails(p)
    PROVE  RowsAgree' /\ LiveRowReserved' /\ StopHitsOwnRun'
<1> SUFFICES RowsUntouched
  BY UntouchedKeeps
<1>0. TypeOK
  BY DEF Ledger, Reservation
<1>1. CASE CallStart(p)
  <2>1. \E todo \in SUBSET Libs : request' = [request EXCEPT ![p] = After(todo)]
    BY <1>1 DEF CallStart, StartAll, StartOne, ScheduledStartAll, EnabledLibs
  <2>2. UNCHANGED <<row, mem, closing, canceler>>
    BY <1>1 DEF CallStart, StartAll, StartOne, ScheduledStartAll
  <2> QED
    BY <1>0, <2>1, <2>2 DEF TypeOK, After, IdleRequest, RowsUntouched, mem
<1>2. CASE \E l \in Libs : ReadLibrary(p, l)
  BY <1>0, <1>2 DEF TypeOK, ReadLibrary, IdleRequest, RowsUntouched, mem
<1>3. CASE ReadBack(p)
  BY <1>0, <1>3 DEF TypeOK, RequestState, ReadBack, RowsUntouched, mem
<1>4. CASE ReadBackFails(p)
  BY <1>0, <1>4 DEF TypeOK, ReadBackFails, IdleRequest, RowsUntouched, mem
<1> QED
  BY <1>1, <1>2, <1>3, <1>4

(* A live row of a library that is not reserved would be an old scan: there *)
(* is none.                                                                *)
LEMMA ReserveRows ==
    ASSUME Ledger, NEW p \in Requests, NEW r \in Runs, Reserve(p, r)
    PROVE  RowsAgree' /\ LiveRowReserved' /\ StopHitsOwnRun'
<1> DEFINE l == request[p].lib
<1>0. TypeOK /\ l \in Libs
  BY DEF Ledger, Reservation, TypeOK, Holding, Reserve
<1>1. CASE queued[l] # None
  <2>1. /\ request' = [request EXCEPT ![p] = After(request[p].todo)]
        /\ UNCHANGED <<row, queued, jobs, work, stopped, closing, canceler>>
    BY <1>1 DEF Reserve
  <2>2. \A q \in Requests : request'[q].pc \in {"idle", "next"} \/ request'[q] = request[q]
    BY <1>0, <2>1, AfterCarriesNone DEF TypeOK
  <2>3. RowsUntouched
    BY <2>1, <2>2 DEF RowsUntouched
  <2> QED
    BY <2>3, UntouchedKeeps
<1>2. CASE queued[l] = None
  <2>1. /\ queued' = [queued EXCEPT ![l] = r]
        /\ request' = [request EXCEPT ![p].pc = "insert", ![p].run = r]
        /\ row[r].status = "none"
        /\ UNCHANGED <<row, jobs, work, stopped, closing, canceler>>
    BY <1>2 DEF Reserve, Fresh
  <2>2. \A q \in Requests : \/ q = p /\ request'[q].pc = "insert" /\ request'[q].run = r
                           \/ request'[q] = request[q]
    BY <1>0, <2>1 DEF TypeOK, RequestState
  <2>3. RowsAgree'
    <3>1. \A q \in Requests :
             /\ request'[q].pc = "insert" => row[request'[q].run].status = "none"
             /\ request'[q].pc \in {"readback", "send"} => row[request'[q].run].lib = request'[q].lib
      <4>1. \A q \in Requests :
               /\ request[q].pc = "insert" => row[request[q].run].status = "none"
               /\ request[q].pc \in {"readback", "send"} => row[request[q].run].lib = request[q].lib
        BY DEF Ledger, RowsAgree
      <4>2. row[r].status = "none"
        BY <2>1
      <4> QED
        BY <2>2, <4>1, <4>2
    <3>2. UNCHANGED <<row, jobs, work, closing, canceler>>
      BY <2>1
    <3> QED
      BY <3>1, <3>2 DEF Ledger, RowsAgree, Working, Exists
  <2>4. \A s \in Runs : ~closing /\ row[s].status \in Live => row[s].lib \in Libs \ {l}
    BY <1>0, <1>2, ConstantsAssumption
    DEF Ledger, LiveRowReserved, RowsAgree, TypeOK, RunRow, Live, ConstantsAssumption
  <2>5. LiveRowReserved'
    BY <1>0, <2>1, <2>4 DEF Ledger, LiveRowReserved, TypeOK
  <2>6. StopHitsOwnRun'
    BY <2>1 DEF Ledger, StopHitsOwnRun, Exists
  <2> QED
    BY <2>3, <2>5, <2>6
<1> QED
  BY <1>1, <1>2

LEMMA InsertRows ==
    ASSUME Ledger, NEW p \in Requests, InsertRun(p)
    PROVE  RowsAgree' /\ LiveRowReserved' /\ StopHitsOwnRun'
<1> DEFINE r == request[p].run
           l == request[p].lib
<1>0. TypeOK /\ Reservation /\ Carrying(p) /\ row[r].status = "none"
  BY DEF Ledger, Reservation, InsertRun, Carrying, RowsAgree
<1>1. /\ r \in Runs /\ l \in Libs /\ queued[l] = r
      /\ \A q \in Requests : Carrying(q) /\ q # p => request[q].run # r
      /\ \A i \in 1..Len(jobs) : jobs[i].run # r
      /\ Working => work.run # r
  BY <1>0, CarriersApart
<1>2. /\ \A s \in Runs : row'[s] = IF s = r THEN [lib |-> l, status |-> "queued", cancel |-> FALSE] ELSE row[s]
      /\ \A q \in Requests : \/ q = p /\ request'[q].pc = "readback" /\ request'[q].run = r /\ request'[q].lib = l
                             \/ q # p /\ request'[q] = request[q]
      /\ UNCHANGED <<queued, jobs, work, stopped, closing, canceler>>
  BY <1>0, <1>1 DEF TypeOK, RequestState, InsertRun, mem
<1>3. \A q \in Requests : q # p /\ request[q].pc \in {"insert", "readback", "send"}
                             => request[q].run \in Runs \ {r}
  BY <1>0, <1>1 DEF TypeOK, Holding, Carrying
<1>4. \A i \in 1..Len(jobs) : jobs[i].run \in Runs \ {r}
  BY <1>0, <1>1, JobType
<1>5. work.pc # "idle" => work.run \in Runs \ {r}
  BY <1>0, <1>1 DEF TypeOK, Holding, Working
<1>6. \A c \in Cancelers : canceler[c].pc = "marked" => canceler[c].run \in Runs \ {r}
  BY <1>0 DEF TypeOK, Holding, Ledger, RowsAgree
<1>7. RowsAgree'
  <2>1. \A s \in Runs : row'[s].status = "none" <=> row'[s].lib = None
    BY <1>1, <1>2, ConstantsAssumption DEF Ledger, RowsAgree, ConstantsAssumption
  <2>2. \A q \in Requests :
           /\ request'[q].pc = "insert" => row'[request'[q].run].status = "none"
           /\ request'[q].pc \in {"readback", "send"} => row'[request'[q].run].lib = request'[q].lib
    BY <1>1, <1>2, <1>3 DEF Ledger, RowsAgree
  <2>3. \A i \in 1..Len(jobs') : row'[jobs'[i].run].lib = jobs'[i].lib
    BY <1>2, <1>4 DEF Ledger, RowsAgree
  <2>4. /\ Working' => row'[work'.run].lib = work'.lib
        /\ work'.pc \in {"finishLibrary", "release"} /\ ~closing' => row'[work'.run].status \notin Live
    BY <1>2, <1>5 DEF Ledger, RowsAgree, Working
  <2>5. \A c \in Cancelers : canceler'[c].pc = "marked" =>
           /\ row'[canceler'[c].run].status # "none"
           /\ row'[canceler'[c].run].cancel \/ row'[canceler'[c].run].status \in {"none", "gone"}
    BY <1>2, <1>6 DEF Ledger, RowsAgree, Exists
  <2> QED
    BY <2>1, <2>2, <2>3, <2>4, <2>5 DEF RowsAgree, Exists
<1>8. LiveRowReserved'
  BY <1>1, <1>2 DEF Ledger, LiveRowReserved
<1>9. StopHitsOwnRun'
  BY <1>2, <1>5 DEF Ledger, StopHitsOwnRun, Exists
<1> QED
  BY <1>7, <1>8, <1>9

LEMMA InsertFailsRows ==
    ASSUME Ledger, NEW p \in Requests, InsertFails(p)
    PROVE  RowsAgree' /\ LiveRowReserved' /\ StopHitsOwnRun'
<1> DEFINE l == request[p].lib
<1>0. TypeOK /\ Reservation /\ Carrying(p) /\ row[request[p].run].status = "none"
  BY DEF Ledger, Reservation, InsertFails, Carrying, RowsAgree
<1>1. l \in Libs /\ queued[l] = request[p].run
  BY <1>0, CarriersApart
<1>2. /\ \A m \in Libs : queued'[m] = IF m = l THEN None ELSE queued[m]
      /\ \A q \in Requests : request'[q].pc # "idle" => request'[q] = request[q]
      /\ UNCHANGED <<row, jobs, work, stopped, closing, canceler>>
  BY <1>0, <1>1 DEF TypeOK, InsertFails, IdleRequest
<1>3. RowsAgree'
  BY <1>2 DEF Ledger, RowsAgree, Working, Exists
<1>4. \A s \in Runs : ~closing /\ row[s].status \in Live => row[s].lib \in Libs \ {l}
  BY <1>0, <1>1 DEF Ledger, LiveRowReserved, RowsAgree, TypeOK, RunRow, Live
<1>5. LiveRowReserved'
  BY <1>2, <1>4 DEF Ledger, LiveRowReserved
<1>6. StopHitsOwnRun'
  BY <1>2 DEF Ledger, StopHitsOwnRun, Exists
<1> QED
  BY <1>3, <1>5, <1>6

LEMMA SendRows ==
    ASSUME Ledger, NEW p \in Requests, SendJob(p)
    PROVE  RowsAgree' /\ LiveRowReserved' /\ StopHitsOwnRun'
<1> DEFINE j == [run |-> request[p].run, lib |-> request[p].lib, oneShot |-> request[p].oneShot]
<1>0. TypeOK /\ request[p].pc = "send" /\ j \in Job
  BY DEF Ledger, Reservation, TypeOK, Holding, RequestState, SendJob, SendWhen, Job
<1>1. /\ \A q \in Requests : request'[q].pc \in {"insert", "readback", "send"} => request'[q] = request[q]
      /\ UNCHANGED <<row, queued, work, stopped, closing, canceler>>
  <2>1. /\ UNCHANGED <<row, queued, work, stopped, closing, canceler>>
        /\ \E x : x.pc \in {"idle", "next"} /\ request' = [request EXCEPT ![p] = x]
    BY AfterCarriesNone DEF SendJob, SendWhen, IdleRequest
  <2> QED
    BY <1>0, <2>1 DEF TypeOK
<1>2. CASE UNCHANGED jobs
  <2>1. RowsUntouched
    BY <1>1, <1>2 DEF RowsUntouched
  <2> QED
    BY <2>1, UntouchedKeeps
<1>3. CASE jobs' = Append(jobs, j)
  <2>1. \A i \in 1..Len(jobs') : jobs'[i] = j \/ (i \in 1..Len(jobs) /\ jobs'[i] = jobs[i])
    BY <1>0, <1>3 DEF TypeOK
  <2>2. row[j.run].lib = j.lib
    BY <1>0 DEF Ledger, RowsAgree
  <2>3. \A i \in 1..Len(jobs') : row[jobs'[i].run].lib = jobs'[i].lib
    BY <2>1, <2>2 DEF Ledger, RowsAgree
  <2>4. RowsAgree'
    BY <1>1, <2>3 DEF Ledger, RowsAgree, Working, Exists
  <2>5. LiveRowReserved' /\ StopHitsOwnRun'
    BY <1>1 DEF Ledger, LiveRowReserved, StopHitsOwnRun, Exists
  <2> QED
    BY <2>4, <2>5
<1> QED
  BY <1>2, <1>3 DEF SendJob, SendWhen

LEMMA CancelRows ==
    ASSUME Ledger, CancelStep
    PROVE  RowsAgree' /\ LiveRowReserved' /\ StopHitsOwnRun'
<1>0. TypeOK
  BY DEF Ledger, Reservation
<1>1. CASE \E c \in Cancelers, r \in Runs : MarkCancel(c, r)
  <2>1. PICK c \in Cancelers, r \in Runs : MarkCancel(c, r)
    BY <1>1
  <2>2. /\ row[r].status \in Live
        /\ \A s \in Runs : /\ row'[s].status = row[s].status /\ row'[s].lib = row[s].lib
                          /\ row'[s].cancel = (s = r \/ row[s].cancel)
        /\ \A d \in Cancelers : canceler'[d].pc = "marked" =>
              \/ canceler'[d].run = r
              \/ canceler[d].pc = "marked" /\ canceler'[d].run = canceler[d].run
        /\ UNCHANGED <<queued, jobs, work, stopped, closing, request>>
    BY <1>0, <2>1 DEF TypeOK, RunRow, MarkCancel, mem
  <2>3. \A d \in Cancelers : canceler'[d].pc = "marked" =>
           /\ canceler'[d].run \in Runs /\ row'[canceler'[d].run].status # "none"
           /\ row'[canceler'[d].run].cancel \/ row'[canceler'[d].run].status \in {"none", "gone"}
    <3>1. row[r].status \notin {"none", "gone"}
      BY <2>2 DEF Live
    <3>2. \A d \in Cancelers : canceler[d].pc = "marked" =>
             /\ canceler[d].run \in Runs /\ row[canceler[d].run].status # "none"
             /\ row[canceler[d].run].cancel \/ row[canceler[d].run].status \in {"none", "gone"}
      <4>1. \A d \in Cancelers : canceler[d].pc = "marked" => canceler[d].run \in Runs
        BY <1>0 DEF TypeOK, Holding
      <4>2. \A d \in Cancelers : canceler[d].pc = "marked" =>
               /\ row[canceler[d].run].status # "none"
               /\ row[canceler[d].run].cancel \/ row[canceler[d].run].status \in {"none", "gone"}
        BY DEF Ledger, RowsAgree, Exists
      <4> QED
        BY <4>1, <4>2
    <3> SUFFICES ASSUME NEW d \in Cancelers, canceler'[d].pc = "marked"
                 PROVE  /\ canceler'[d].run \in Runs /\ row'[canceler'[d].run].status # "none"
                        /\ \/ row'[canceler'[d].run].cancel
                           \/ row'[canceler'[d].run].status \in {"none", "gone"}
      OBVIOUS
    <3>3. CASE canceler'[d].run = r
      <4>1. row'[r].cancel = TRUE /\ row'[r].status = row[r].status
        BY <2>2
      <4> QED
        BY <3>1, <3>3, <4>1
    <3>4. CASE canceler[d].pc = "marked" /\ canceler'[d].run = canceler[d].run
      <4> DEFINE u == canceler[d].run
      <4>1. u \in Runs /\ row[u].status # "none" /\ (row[u].cancel \/ row[u].status \in {"none", "gone"})
        BY <3>2, <3>4
      <4>2. row'[u].status = row[u].status /\ row'[u].cancel = (u = r \/ row[u].cancel)
        BY <2>2, <4>1
      <4> QED
        BY <3>4, <4>1, <4>2
    <3> QED
      BY <2>2, <3>3, <3>4
  <2>4. /\ \A s \in Runs : row'[s].status = "none" <=> row'[s].lib = None
        /\ \A p \in Requests :
              /\ request[p].pc = "insert" => row'[request[p].run].status = "none"
              /\ request[p].pc \in {"readback", "send"} => row'[request[p].run].lib = request[p].lib
        /\ \A i \in 1..Len(jobs) : row'[jobs[i].run].lib = jobs[i].lib
    BY <1>0, <2>2, JobType DEF TypeOK, Holding, Ledger, RowsAgree
  <2>5. /\ Working => row'[work.run].lib = work.lib
        /\ work.pc \in {"finishLibrary", "release"} /\ ~closing => row'[work.run].status \notin Live
    BY <1>0, <2>2 DEF TypeOK, Holding, Ledger, RowsAgree, Working
  <2>6. RowsAgree'
    BY <2>2, <2>3, Zenon, <2>4, <2>5 DEF RowsAgree, Working, Exists
  <2>7. LiveRowReserved'
    BY <2>2 DEF Ledger, LiveRowReserved
  <2>8. StopHitsOwnRun'
    BY <1>0, <2>2 DEF TypeOK, Holding, Ledger, StopHitsOwnRun, Exists
  <2> QED
    BY <2>6, <2>7, <2>8
<1>2. CASE \E c \in Cancelers : StopActive(c)
  <2>1. PICK c \in Cancelers : StopActive(c)
    BY <1>2
  <2>2. /\ \A d \in Cancelers : canceler'[d].pc = "marked" => canceler'[d] = canceler[d]
        /\ UNCHANGED <<row, queued, jobs, work, closing, request>>
    BY <1>0, <2>1 DEF TypeOK, StopActive, IdleCancel
  <2>3. RowsAgree'
    BY <2>2 DEF Ledger, RowsAgree, Working, Exists
  <2>4. LiveRowReserved'
    BY <2>2 DEF Ledger, LiveRowReserved
  <2>5. StopHitsOwnRun'
    <3>1. CASE stopped
      BY <2>1, <2>2, <3>1 DEF Ledger, StopHitsOwnRun, Exists
    <3>2. CASE ~stopped
      <4>1. stopped' => work.pc # "idle" /\ canceler[c].pc = "marked" /\ work.run = canceler[c].run
        BY <2>1, <3>2 DEF StopActive
      <4>2. canceler[c].pc = "marked" => row[canceler[c].run].cancel \/ ~Exists(canceler[c].run)
        BY DEF Ledger, RowsAgree
      <4> QED
        BY <2>2, <4>1, <4>2 DEF StopHitsOwnRun, Exists
    <3> QED
      BY <3>1, <3>2
  <2> QED
    BY <2>3, <2>4, <2>5
<1> QED
  BY <1>1, <1>2 DEF CancelStep

LEMMA TakeRows ==
    ASSUME Ledger, TakeJob
    PROVE  RowsAgree' /\ LiveRowReserved' /\ StopHitsOwnRun'
<1>1. /\ Len(jobs) \in Nat \ {0} /\ Len(jobs') = Len(jobs) - 1
      /\ \A i \in 1..Len(jobs') : jobs'[i] = jobs[i + 1]
      /\ work'.lib = jobs[1].lib /\ work'.run = jobs[1].run /\ work'.pc = "check"
      /\ stopped' = closing
      /\ UNCHANGED <<row, queued, request, canceler, closing>>
  BY DEF Ledger, Reservation, TypeOK, TakeJob, calls
<1>2. /\ \A i \in 1..Len(jobs') : row[jobs'[i].run].lib = jobs'[i].lib
      /\ row[work'.run].lib = work'.lib
  BY <1>1 DEF Ledger, RowsAgree
<1>3. RowsAgree'
  BY <1>1, <1>2 DEF Ledger, RowsAgree, Working, Exists
<1>4. LiveRowReserved'
  BY <1>1 DEF Ledger, LiveRowReserved
<1>5. StopHitsOwnRun'
  BY <1>1 DEF StopHitsOwnRun
<1> QED
  BY <1>3, <1>4, <1>5

(* The worker writes the status of its own run, and nothing else of a row. *)
OwnStatusOnly ==
    /\ \A s \in Runs :
          /\ row'[s].lib = row[s].lib /\ row'[s].cancel = row[s].cancel
          /\ \/ row'[s].status = row[s].status
             \/ /\ s = work.run
                /\ row[s].status \notin {"none", "gone"} /\ row'[s].status \notin {"none", "gone"}
    /\ work'.run = work.run /\ work'.lib = work.lib /\ work'.pc # "idle" /\ work.pc # "idle"
    /\ work'.pc \in {"finishLibrary", "release"} /\ ~closing => row'[work.run].status \notin Live
    /\ UNCHANGED <<queued, jobs, request, canceler, stopped, closing>>

LEMMA OwnStatusKeeps ==
    ASSUME Ledger, OwnStatusOnly
    PROVE  RowsAgree' /\ LiveRowReserved' /\ StopHitsOwnRun'
<1>0. TypeOK /\ Reservation /\ Working /\ work.run \in Runs /\ row[work.run].lib = work.lib
  BY DEF Ledger, Reservation, OwnStatusOnly, Working, TypeOK, Holding, RowsAgree
<1>1. \A p \in Requests : request[p].pc = "insert" =>
         request[p].run \in Runs /\ row'[request[p].run].status = "none"
  BY <1>0, CarriersApart DEF Ledger, RowsAgree, OwnStatusOnly, Carrying
<1>2. \A p \in Requests : request[p].pc \in {"readback", "send"} =>
         row'[request[p].run].lib = request[p].lib
  BY <1>0 DEF TypeOK, Holding, Ledger, RowsAgree, OwnStatusOnly
<1>3. /\ \A s \in Runs : row'[s].status = "none" <=> row'[s].lib = None
      /\ \A i \in 1..Len(jobs) : row'[jobs[i].run].lib = jobs[i].lib
  BY <1>0, JobType DEF Ledger, RowsAgree, OwnStatusOnly
<1>4. \A c \in Cancelers : canceler[c].pc = "marked" =>
         /\ row'[canceler[c].run].status # "none"
         /\ row'[canceler[c].run].cancel \/ row'[canceler[c].run].status \in {"none", "gone"}
  <2> SUFFICES ASSUME NEW c \in Cancelers, canceler[c].pc = "marked"
               PROVE  /\ row'[canceler[c].run].status # "none"
                      /\ row'[canceler[c].run].cancel \/ row'[canceler[c].run].status \in {"none", "gone"}
    OBVIOUS
  <2>1. canceler[c].run \in Runs
    BY <1>0 DEF TypeOK, Holding
  <2>2. /\ row[canceler[c].run].status # "none"
        /\ row[canceler[c].run].cancel \/ row[canceler[c].run].status \in {"none", "gone"}
    BY DEF Ledger, RowsAgree, Exists
  <2>3. /\ row'[canceler[c].run].cancel = row[canceler[c].run].cancel
        /\ \/ row'[canceler[c].run].status = row[canceler[c].run].status
           \/ row'[canceler[c].run].status \notin {"none", "gone"}
    BY <2>1 DEF OwnStatusOnly
  <2>4. CASE row'[canceler[c].run].status \notin {"none", "gone"}
    <3>1. \A x : x \notin {"none", "gone"} => x # "none"
      OBVIOUS
    <3>2. row[canceler[c].run].cancel => row'[canceler[c].run].cancel
      BY <2>3, Zenon
    <3>3. row[canceler[c].run].status \in {"none", "gone"}
          => row'[canceler[c].run].cancel \/ row'[canceler[c].run].status \in {"none", "gone"}
      BY <2>2, <2>3, <2>1 DEF OwnStatusOnly
    <3> QED
      BY <2>2, <2>4, <3>1, <3>2, <3>3, Zenon
  <2>5. CASE row'[canceler[c].run].status = row[canceler[c].run].status
    BY <2>2, <2>3, <2>5, Zenon
  <2> QED
    BY <2>3, <2>4, <2>5, Zenon
<1>5. RowsAgree'
  <2>1. UNCHANGED <<jobs, request, canceler, closing>> /\ work'.run = work.run /\ work'.lib = work.lib
    BY DEF OwnStatusOnly
  <2>2. /\ Working' => row'[work'.run].lib = work'.lib
        /\ work'.pc \in {"finishLibrary", "release"} /\ ~closing' => row'[work'.run].status \notin Live
    <3>1. row'[work.run].lib = row[work.run].lib /\ closing' = closing
      BY <1>0 DEF OwnStatusOnly
    <3>2. work'.pc \in {"finishLibrary", "release"} /\ ~closing => row'[work.run].status \notin Live
      BY DEF OwnStatusOnly
    <3> QED
      BY <1>0, <2>1, <3>1, <3>2
  <2>3. \A c \in Cancelers : canceler'[c].pc = "marked" =>
           /\ row'[canceler'[c].run].status # "none"
           /\ row'[canceler'[c].run].cancel \/ ~Exists(canceler[c].run)'
    BY <1>4, <2>1 DEF Exists
  <2>4. /\ \A r \in Runs : row'[r].status = "none" <=> row'[r].lib = None
        /\ \A q \in Requests :
              /\ request'[q].pc = "insert" => row'[request'[q].run].status = "none"
              /\ request'[q].pc \in {"readback", "send"} => row'[request'[q].run].lib = request'[q].lib
        /\ \A i \in 1..Len(jobs') : row'[jobs'[i].run].lib = jobs'[i].lib
    <3>1. request' = request /\ jobs' = jobs
      BY <2>1
    <3>2. \A q \in Requests : request'[q].pc = "insert" => row'[request'[q].run].status = "none"
      BY <1>1, <3>1
    <3>3. \A q \in Requests : request'[q].pc \in {"readback", "send"} =>
                                 row'[request'[q].run].lib = request'[q].lib
      BY <1>2, <3>1
    <3> QED
      BY <1>3, <3>1, <3>2, <3>3
  <2> QED
    BY <2>2, <2>3, Zenon, <2>4 DEF RowsAgree
<1>6. queued[work.lib] = work.run
  BY <1>0 DEF Reservation, ReservationsAgree
<1>7. LiveRowReserved'
  BY <1>0, <1>6 DEF Ledger, LiveRowReserved, OwnStatusOnly
<1>8. StopHitsOwnRun'
  BY <1>0 DEF Ledger, StopHitsOwnRun, OwnStatusOnly, Exists
<1> QED
  BY <1>5, <1>7, <1>8

LEMMA ReleaseRows ==
    ASSUME Ledger, Release
    PROVE  RowsAgree' /\ LiveRowReserved' /\ StopHitsOwnRun'
<1>0. TypeOK /\ Reservation /\ Working /\ work.run \in Runs /\ work.lib \in Libs
      /\ (~closing => row[work.run].status \notin Live)
      /\ queued[work.lib] = work.run
  BY DEF Ledger, Reservation, Release, Working, TypeOK, Holding, RowsAgree, ReservationsAgree
<1>1. /\ \A m \in Libs : queued'[m] = IF m = work.lib THEN None ELSE queued[m]
      /\ work'.pc = "idle" /\ stopped' = FALSE
      /\ UNCHANGED <<row, jobs, request, canceler, closing>>
  BY <1>0 DEF TypeOK, Release, IdleWorker, calls
<1>2. RowsAgree'
  BY <1>1 DEF Ledger, RowsAgree, Working, Exists
<1>3. LiveRowReserved'
  <2>1. \A s \in Runs : ~closing /\ row[s].status \in Live => row[s].lib \in Libs \ {work.lib}
    BY <1>0 DEF Ledger, LiveRowReserved, RowsAgree, TypeOK, RunRow, Live
  <2> QED
    BY <1>1, <2>1 DEF Ledger, LiveRowReserved
<1>4. StopHitsOwnRun'
  BY <1>1 DEF StopHitsOwnRun
<1> QED
  BY <1>2, <1>3, <1>4

LEMMA WorkerRows ==
    ASSUME Ledger, WorkerStep \/ ScanFails \/ ScanCompletes
    PROVE  RowsAgree' /\ LiveRowReserved' /\ StopHitsOwnRun'
<1>0. TypeOK /\ (work.pc # "idle" => work.run \in Runs)
  BY DEF Ledger, Reservation, TypeOK, Holding
<1>1. CASE CheckCancel
  <2>1. OwnStatusOnly
    BY <1>0, <1>1 DEF CheckCancel, OwnStatusOnly, TypeOK, WorkerState, Outcome, Goto, calls, Exists, Live
  <2> QED
    BY <2>1, OwnStatusKeeps
<1>2. CASE MarkRunRunning
  <2>1. /\ \A s \in Runs : row'[s] = IF s = work.run /\ ~stopped /\ Exists(s)
                                     THEN [row[s] EXCEPT !.status = "running"] ELSE row[s]
        /\ work'.run = work.run /\ work'.lib = work.lib /\ work'.pc = "markLibrary" /\ work.pc = "markRun"
        /\ UNCHANGED <<queued, jobs, request, canceler, stopped, closing>>
    BY <1>0, <1>2 DEF MarkRunRunning, TypeOK, WorkerState, Goto, calls
  <2>2. OwnStatusOnly
    <3>1. \A s \in Runs :
             /\ row'[s].lib = row[s].lib /\ row'[s].cancel = row[s].cancel
             /\ \/ row'[s].status = row[s].status
                \/ s = work.run /\ Exists(s) /\ row'[s].status = "running"
      <4> SUFFICES ASSUME NEW s \in Runs
                   PROVE  /\ row'[s].lib = row[s].lib /\ row'[s].cancel = row[s].cancel
                          /\ \/ row'[s].status = row[s].status
                             \/ s = work.run /\ Exists(s) /\ row'[s].status = "running"
        OBVIOUS
      <4>1. row[s] \in RunRow
        BY <1>0 DEF TypeOK
      <4>2. CASE s = work.run /\ ~stopped /\ Exists(s)
        <5>1. row'[s] = [row[s] EXCEPT !.status = "running"]
          BY <2>1, <4>2
        <5> QED
          BY <4>1, <4>2, <5>1 DEF RunRow
      <4>3. CASE ~(s = work.run /\ ~stopped /\ Exists(s))
        BY <2>1, <4>3
      <4> QED
        BY <4>2, <4>3
    <3> QED
      BY <2>1, <3>1 DEF OwnStatusOnly, Exists
  <2> QED
    BY <2>2, OwnStatusKeeps
<1>3. CASE MarkLibraryRunning \/ CheckConversion \/ ScanCanceled \/ ScanFails \/ ScanCompletes \/ CommitScan
  <2>1. /\ UNCHANGED <<row, queued, jobs, request, canceler, stopped, closing>>
        /\ work.pc # "idle" /\ work'.run = work.run /\ work'.lib = work.lib
        /\ work'.pc \in {"conversion", "finishRun", "scan", "commit"}
    <3>1. CASE MarkLibraryRunning
      BY <1>0, <3>1 DEF MarkLibraryRunning, TypeOK, WorkerState, Goto, calls
    <3>2. CASE CheckConversion \/ ScanCanceled \/ ScanFails \/ ScanCompletes \/ CommitScan
      BY <1>0, <3>2 DEF CheckConversion, ScanCanceled, ScanFails, ScanCompletes, CommitScan, TypeOK,
                        WorkerState, Outcome, Goto, calls
    <3> QED
      BY <1>3, <3>1, <3>2
  <2>2. OwnStatusOnly
    BY <2>1 DEF OwnStatusOnly
  <2> QED
    BY <2>2, OwnStatusKeeps
<1>4. CASE FinishRun
  <2>1. /\ \A s \in Runs :
           \/ closing /\ row'[s] = row[s]
           \/ row'[s] = IF s = work.run /\ Exists(s)
                         THEN [row[s] EXCEPT !.status = work.outcome] ELSE row[s]
        /\ work.outcome \in Terminal
        /\ work'.run = work.run /\ work'.lib = work.lib /\ work'.pc = "finishLibrary" /\ work.pc = "finishRun"
        /\ UNCHANGED <<queued, jobs, request, canceler, stopped, closing>>
    BY <1>0, <1>4 DEF FinishRun, TypeOK, Holding, WorkerState, Goto, calls
  <2>2. \A s \in Runs :
           /\ row'[s].lib = row[s].lib /\ row'[s].cancel = row[s].cancel
           /\ \/ row'[s].status = row[s].status
              \/ s = work.run /\ Exists(s) /\ row'[s].status = work.outcome
    BY <1>0, <2>1 DEF TypeOK, RunRow
  <2>3. ~closing => row'[work.run].status \notin Live
    BY <1>0, <2>1 DEF TypeOK, RunRow, Exists, Terminal, Live
  <2>4. OwnStatusOnly
    BY <2>1, <2>2, <2>3 DEF OwnStatusOnly, Exists, Terminal
  <2> QED
    BY <2>4, OwnStatusKeeps
<1>5. CASE FinishLibrary
  <2>1. /\ UNCHANGED <<row, queued, jobs, request, canceler, stopped, closing>>
        /\ work.pc = "finishLibrary" /\ work'.run = work.run /\ work'.lib = work.lib /\ work'.pc = "release"
    BY <1>0, <1>5 DEF FinishLibrary, TypeOK, WorkerState, Goto, calls
  <2>2. OwnStatusOnly
    BY <2>1 DEF OwnStatusOnly, Ledger, RowsAgree
  <2> QED
    BY <2>2, OwnStatusKeeps
<1>6. CASE Release
  BY <1>6, ReleaseRows
<1> QED
  BY <1>1, <1>2, <1>3, <1>4, <1>5, <1>6 DEF WorkerStep

LEMMA DeleteRows ==
    ASSUME Ledger, NEW a \in Admins, DeleteLibrary(a)
    PROVE  RowsAgree' /\ LiveRowReserved' /\ StopHitsOwnRun'
<1> DEFINE l == admin[a].lib
<1>0. TypeOK /\ l \in Libs
  BY DEF Ledger, Reservation, TypeOK, Holding, DeleteLibrary
<1>1. /\ \A s \in Runs :
            /\ row'[s].lib = row[s].lib /\ row'[s].cancel = row[s].cancel
            /\ row'[s].status = IF row[s].lib = l THEN "gone" ELSE row[s].status
      /\ UNCHANGED <<queued, jobs, work, stopped, closing, request, canceler>>
  BY <1>0 DEF TypeOK, RunRow, DeleteLibrary, mem
<1>2. \A s \in Runs : row[s].status = "none" => row[s].lib # l
  BY <1>0, ConstantsAssumption DEF Ledger, RowsAgree, ConstantsAssumption
<1>3. RowsAgree'
  <2>1. \A s \in Runs : row'[s].status = "none" <=> row'[s].lib = None
    BY <1>1, <1>2 DEF Ledger, RowsAgree
  <2>2. \A p \in Requests :
           /\ request[p].pc = "insert" => row'[request[p].run].status = "none"
           /\ request[p].pc \in {"readback", "send"} => row'[request[p].run].lib = request[p].lib
    BY <1>0, <1>1, <1>2 DEF TypeOK, Holding, Ledger, RowsAgree
  <2>3. \A i \in 1..Len(jobs) : row'[jobs[i].run].lib = jobs[i].lib
    BY <1>0, <1>1, JobType DEF Ledger, RowsAgree
  <2>4. /\ Working => row'[work.run].lib = work.lib
        /\ work.pc \in {"finishLibrary", "release"} /\ ~closing => row'[work.run].status \notin Live
    BY <1>0, <1>1 DEF TypeOK, Holding, Ledger, RowsAgree, Working, Live
  <2>5. \A c \in Cancelers : canceler[c].pc = "marked" =>
           /\ canceler[c].run \in Runs /\ row[canceler[c].run].status # "none"
           /\ row[canceler[c].run].cancel \/ row[canceler[c].run].status \in {"none", "gone"}
    BY <1>0 DEF TypeOK, Holding, Ledger, RowsAgree, Exists
  <2>6. \A c \in Cancelers : canceler[c].pc = "marked" =>
           /\ row'[canceler[c].run].status # "none"
           /\ row'[canceler[c].run].cancel \/ row'[canceler[c].run].status \in {"none", "gone"}
    BY <1>1, <2>5
  <2> QED
    BY <1>1, <2>1, <2>2, <2>3, <2>4, <2>6 DEF RowsAgree, Working, Exists
<1>4. LiveRowReserved'
  BY <1>1 DEF Ledger, LiveRowReserved, Live
<1>5. StopHitsOwnRun'
  BY <1>0, <1>1 DEF TypeOK, Holding, Ledger, StopHitsOwnRun, Exists
<1> QED
  BY <1>3, <1>4, <1>5

LEMMA AdminRows ==
    ASSUME Ledger, AdminStep
    PROVE  RowsAgree' /\ LiveRowReserved' /\ StopHitsOwnRun'
<1>1. CASE \E a \in Admins : DeleteLibrary(a)
  BY <1>1, DeleteRows
<1>2. CASE ~ \E a \in Admins : DeleteLibrary(a)
  <2>1. UNCHANGED <<row, mem, closing, request, canceler>>
    BY <1>2 DEF AdminStep, CreateLibrary, ReadForUpdate, CheckMode, WriteLibrary, CheckDelete, calls
  <2>2. RowsUntouched
    BY <2>1 DEF RowsUntouched, mem
  <2> QED
    BY <2>2, UntouchedKeeps
<1> QED
  BY <1>1, <1>2

LEMMA CloseRows ==
    ASSUME Ledger, Close
    PROVE  RowsAgree' /\ LiveRowReserved' /\ StopHitsOwnRun'
<1>1. /\ closing' /\ stopped' = (work.pc # "idle")
      /\ UNCHANGED <<row, queued, jobs, work, request, canceler>>
  BY DEF Close, calls
<1>2. RowsAgree'
  BY <1>1 DEF Ledger, RowsAgree, Working, Exists
<1>3. LiveRowReserved' /\ StopHitsOwnRun'
  BY <1>1 DEF LiveRowReserved, StopHitsOwnRun
<1> QED
  BY <1>2, <1>3

(* New leaves no live row, so it does not matter that queued is empty. *)
LEMMA RestartRows ==
    ASSUME Ledger, Restart
    PROVE  RowsAgree' /\ LiveRowReserved' /\ StopHitsOwnRun'
<1>0. row \in [Runs -> RunRow] /\ \A s \in Runs : row[s].status = "none" <=> row[s].lib = None
  BY DEF Ledger, Reservation, TypeOK, RowsAgree
<1>1. \A s \in Runs : Repaired(s).lib = row[s].lib /\ Repaired(s).status \notin Live
                    /\ (Repaired(s).status = "none" <=> row[s].status = "none")
  BY <1>0 DEF RunRow, Repaired, Live
<1>2. /\ row' = [s \in Runs |-> Repaired(s)]
      /\ request' = [p \in Requests |-> IdleRequest] /\ canceler' = [c \in Cancelers |-> IdleCancel]
      /\ jobs' = <<>> /\ work' = IdleWorker /\ stopped' = FALSE
  BY DEF Restart
<1>3. \A s \in Runs : row'[s].status \notin Live /\ (row'[s].status = "none" <=> row'[s].lib = None)
  BY <1>0, <1>1, <1>2
<1>4. RowsAgree'
  BY <1>2, <1>3 DEF RowsAgree, Working, IdleRequest, IdleWorker, IdleCancel
<1>5. LiveRowReserved' /\ StopHitsOwnRun'
  BY <1>2, <1>3 DEF LiveRowReserved, StopHitsOwnRun
<1> QED
  BY <1>4, <1>5

LEMMA NextLedger == Ledger /\ [Next]_vars => Ledger'
<1> SUFFICES ASSUME Ledger, [Next]_vars PROVE Ledger'
  OBVIOUS
<1>1. RowsAgree' /\ LiveRowReserved' /\ StopHitsOwnRun'
  <2>1. CASE \E p \in Requests : CallStart(p) \/ CallStep(p)
    BY <2>1, StartRows, ReserveRows, InsertRows, InsertFailsRows, SendRows DEF CallStep
  <2>2. CASE UNCHANGED vars
    <3>1. RowsUntouched
      BY <2>2 DEF RowsUntouched, vars, mem, calls
    <3> QED
      BY <3>1, UntouchedKeeps
  <2> QED
    BY <2>1, <2>2, CancelRows, TakeRows, WorkerRows, AdminRows, CloseRows, RestartRows DEF Next
<1>2. Reservation'
  BY NextType, NextKeeps DEF Ledger, Reservation
<1> QED
  BY <1>1, <1>2 DEF Ledger

(* A row shown as queued or running is the run its library is reserved     *)
(* for, in every process that is not shutting down: New's repair, the      *)
(* failed INSERT and execute's deferred release leave no other.            *)
THEOREM LiveRowsReserved == Spec => []LiveRowReserved
<1>1. Ledger => LiveRowReserved
  BY DEF Ledger
<1> QED
  BY InitLedger, NextLedger, <1>1, PTL DEF Spec

(* The two steps of Cancel, the UPDATE and the look at activeRunID, stop   *)
(* no scan but the one that was marked, wherever the worker goes between.  *)
THEOREM StopsOwnRun == Spec => []StopHitsOwnRun
<1>1. Ledger => StopHitsOwnRun
  BY DEF Ledger
<1> QED
  BY InitLedger, NextLedger, <1>1, PTL DEF Spec

(* The map, the channel, the worker and the rows always tell one story. *)
THEOREM BooksAgree == Spec => []Bookkeeping
<1>1. Ledger => Bookkeeping
  BY DEF Ledger, Reservation, Bookkeeping
<1> QED
  BY InitLedger, NextLedger, <1>1, PTL DEF Spec

-----------------------------------------------------------------------------
(* What has become of a run, and of its library.                           *)

(* The status a row has while somebody carries its run: it is queued until *)
(* the worker has written that it runs, unless a cancel came in between,   *)
(* and only then may it be a success.                                      *)
WorkProgress ==
    /\ work.pc \in {"check", "markRun"} => row[work.run].status \in {"queued", "gone"}
    /\ work.pc \in {"markLibrary", "conversion"} =>
          row[work.run].status \in {"running", "gone"} \/ (row[work.run].status = "queued" /\ stopped)
    /\ work.pc \in {"scan", "commit"} => row[work.run].status \in {"running", "gone"}
    /\ work.pc = "finishRun" =>
          /\ row[work.run].status \in {"queued", "running", "gone"}
          /\ work.outcome = "success" => row[work.run].status \in {"running", "gone"}

RunsProgress ==
    /\ \A r \in Runs : row[r].status = "none" => row[r].cancel = FALSE
    /\ \A p \in Requests : request[p].pc \in {"readback", "send"} =>
          row[request[p].run].status \in {"queued", "gone"}
    /\ \A i \in 1..Len(jobs) : row[jobs[i].run].status \in {"queued", "gone"}

(* What is left of a removed library does not say that it is scanned. *)
LibrariesAgree == \A l \in Libs : library[l].exists \/ library[l].last # "running"

Story == Ledger /\ RunsProgress /\ WorkProgress

LEMMA InitStory == Init => RunsProgress /\ WorkProgress
BY DEF Init, RunsProgress, WorkProgress, NoRow, IdleRequest, IdleWorker

LEMMA StoryTypes ==
    ASSUME Story
    PROVE  /\ TypeOK /\ Reservation
           /\ \A r \in Runs : row[r] \in RunRow
           /\ \A p \in Requests : Carrying(p) => request[p].run \in Runs /\ request[p].lib \in Libs
           /\ \A i \in 1..Len(jobs) : jobs[i].run \in Runs /\ jobs[i].lib \in Libs
           /\ Working => work.run \in Runs /\ work.lib \in Libs /\ row[work.run].status # "none"
<1>1. TypeOK /\ Reservation
  BY DEF Story, Ledger, Reservation
<1>2. \A r \in Runs : row[r] \in RunRow
  BY <1>1 DEF TypeOK
<1>3. \A p \in Requests : Carrying(p) => request[p].run \in Runs /\ request[p].lib \in Libs
  BY <1>1 DEF TypeOK, Holding, Carrying
<1>4. \A i \in 1..Len(jobs) : jobs[i].run \in Runs /\ jobs[i].lib \in Libs
  BY <1>1, JobType
<1>5. Working => work.run \in Runs /\ work.lib \in Libs /\ row[work.run].lib = work.lib
  BY <1>1 DEF TypeOK, Holding, Working, Story, Ledger, RowsAgree
<1>6. Working => row[work.run].status # "none"
  BY <1>5, ConstantsAssumption DEF Story, Ledger, RowsAgree, ConstantsAssumption
<1> QED
  BY <1>1, <1>2, <1>3, <1>4, <1>5, <1>6

(* The worker's run is nobody else's. *)
LEMMA WorkersRun ==
    ASSUME Story, Working
    PROVE  /\ \A p \in Requests : Carrying(p) => request[p].run # work.run
           /\ \A i \in 1..Len(jobs) : jobs[i].run # work.run
<1>1. Reservation /\ work.run \in Runs /\ work.lib \in Libs
  BY StoryTypes
<1>2. \A p \in Requests : Carrying(p) => request[p].run # work.run
  BY <1>1, CarriersApart
<1>3. /\ queued[work.lib] = work.run /\ work.run # None
      /\ \A i \in 1..Len(jobs) : /\ jobs[i].lib \in Libs /\ jobs[i].lib # work.lib
                                /\ queued[jobs[i].lib] = jobs[i].run
  BY <1>1, StoryTypes, ConstantsAssumption
     DEF Reservation, OneScanPerLibrary, ReservationsAgree, ConstantsAssumption
<1>4. \A i \in 1..Len(jobs) : jobs[i].run # work.run
  BY <1>1, <1>3 DEF Reservation, ReservationsAgree
<1> QED
  BY <1>2, <1>4

(* A step that writes no row and gives no run to the worker. *)
LEMMA RowsAloneKeep ==
    ASSUME Story, UNCHANGED <<row, jobs, work>>, stopped /\ work.pc # "idle" => stopped',
           \A p \in Requests : request'[p].pc \in {"readback", "send"} =>
              request[p].pc \in {"readback", "send"} /\ request'[p].run = request[p].run
    PROVE  RunsProgress' /\ WorkProgress'
<1>1. RunsProgress'
  BY DEF Story, RunsProgress
<1>2. WorkProgress'
  BY DEF Story, WorkProgress
<1> QED
  BY <1>1, <1>2

LEMMA InsertProgress ==
    ASSUME Story, NEW p \in Requests, InsertRun(p)
    PROVE  RunsProgress' /\ WorkProgress'
<1> DEFINE r == request[p].run
           x == [lib |-> request[p].lib, status |-> "queued", cancel |-> FALSE]
<1>1. /\ Carrying(p) /\ r \in Runs
      /\ \A q \in Requests : Carrying(q) /\ q # p => request[q].run # r
      /\ \A i \in 1..Len(jobs) : jobs[i].run # r
      /\ Working => work.run # r
  <2>1. Carrying(p)
    BY DEF InsertRun, Carrying
  <2> QED
    BY <2>1, CarriersApart, StoryTypes
<1>2. /\ row' = [row EXCEPT ![r] = x] /\ UNCHANGED <<jobs, work, stopped>>
      /\ \A q \in Requests : \/ q = p /\ request'[q].run = r
                             \/ q # p /\ request'[q] = request[q]
  BY StoryTypes DEF TypeOK, RequestState, InsertRun, mem
<1>3. x.status = "queued" /\ x.cancel = FALSE
  OBVIOUS
<1> HIDE DEF x
<1>4. row'[r] = x /\ \A s \in Runs \ {r} : row'[s] = row[s]
  BY <1>1, <1>2, StoryTypes DEF TypeOK
<1>5. RunsProgress'
  <2>1. \A q \in Requests : q # p /\ request[q].pc \in {"readback", "send"} => request[q].run \in Runs \ {r}
    BY <1>1, StoryTypes DEF Carrying
  <2>2. \A q \in Requests : request'[q].pc \in {"readback", "send"} => row'[request'[q].run].status \in {"queued", "gone"}
    BY <1>2, <1>3, <1>4, <2>1 DEF Story, RunsProgress
  <2>3. \A i \in 1..Len(jobs) : jobs[i].run \in Runs \ {r}
    BY <1>1, StoryTypes
  <2>4. \A i \in 1..Len(jobs) : row'[jobs[i].run].status \in {"queued", "gone"}
    BY <1>4, <2>3 DEF Story, RunsProgress
  <2>5. \A s \in Runs : row'[s].status = "none" => row'[s].cancel = FALSE
    BY <1>3, <1>4 DEF Story, RunsProgress
  <2> QED
    BY <1>2, <2>2, <2>4, <2>5 DEF RunsProgress
<1>6. WorkProgress'
  <2>1. Working => row'[work.run] = row[work.run]
    BY <1>1, <1>4, StoryTypes
  <2> QED
    BY <1>2, <2>1 DEF Story, WorkProgress, Working
<1> QED
  BY <1>5, <1>6

LEMMA SendProgress ==
    ASSUME Story, NEW p \in Requests, SendJob(p)
    PROVE  RunsProgress' /\ WorkProgress'
<1> DEFINE j == [run |-> request[p].run, lib |-> request[p].lib, oneShot |-> request[p].oneShot]
<1>1. /\ request[p].pc = "send" /\ UNCHANGED <<row, work, stopped>>
      /\ jobs' = Append(jobs, j) \/ jobs' = jobs
      /\ \E x : x.pc \in {"idle", "next"} /\ request' = [request EXCEPT ![p] = x]
  BY AfterCarriesNone DEF SendJob, SendWhen, IdleRequest
<1>2. \A q \in Requests : request'[q].pc \in {"readback", "send"} => request'[q] = request[q]
  BY <1>1, StoryTypes DEF TypeOK
<1>3. \A i \in 1..Len(jobs') : jobs'[i].run = request[p].run \/ (i \in 1..Len(jobs) /\ jobs'[i] = jobs[i])
  BY <1>1, StoryTypes, SMTT(30) DEF TypeOK
<1>4. RunsProgress'
  BY <1>1, <1>2, <1>3 DEF Story, RunsProgress
<1>5. WorkProgress'
  BY <1>1 DEF Story, WorkProgress
<1> QED
  BY <1>4, <1>5

(* A cancel of a live run leaves its status; a deletion takes the rows. *)
LEMMA CancelProgress ==
    ASSUME Story, NEW c \in Cancelers, NEW r \in Runs, MarkCancel(c, r)
    PROVE  RunsProgress' /\ WorkProgress'
<1>1. /\ row[r].status \in Live /\ UNCHANGED <<jobs, work, stopped, request>>
      /\ \A s \in Runs : /\ row'[s].status = row[s].status
                         /\ s # r => row'[s].cancel = row[s].cancel
  BY StoryTypes DEF TypeOK, RunRow, MarkCancel, mem
<1>2. RunsProgress'
  BY <1>1, StoryTypes DEF Story, RunsProgress, Live, Carrying
<1>3. WorkProgress'
  BY <1>1, StoryTypes DEF Story, WorkProgress, Working
<1> QED
  BY <1>2, <1>3

LEMMA DeleteProgress ==
    ASSUME Story, NEW a \in Admins, DeleteLibrary(a)
    PROVE  RunsProgress' /\ WorkProgress'
<1>1. /\ UNCHANGED <<jobs, work, stopped, request>>
      /\ \A s \in Runs : /\ row'[s].status = "gone" \/ row'[s].status = row[s].status
                         /\ row'[s].cancel = row[s].cancel
  BY StoryTypes DEF TypeOK, RunRow, DeleteLibrary, mem
<1>2. RunsProgress'
  BY <1>1, StoryTypes DEF Story, RunsProgress, Carrying
<1>3. WorkProgress'
  BY <1>1, StoryTypes DEF Story, WorkProgress, Working
<1> QED
  BY <1>2, <1>3

LEMMA TakeProgress ==
    ASSUME Story, TakeJob
    PROVE  RunsProgress' /\ WorkProgress'
<1>1. /\ Len(jobs) \in Nat \ {0} /\ Len(jobs') = Len(jobs) - 1
      /\ \A i \in 1..Len(jobs') : jobs'[i] = jobs[i + 1]
      /\ work'.run = jobs[1].run /\ work'.pc = "check"
      /\ UNCHANGED <<row, request>>
  BY StoryTypes DEF TypeOK, TakeJob, calls
<1>2. row[jobs[1].run].status \in {"queued", "gone"}
  BY <1>1 DEF Story, RunsProgress
<1>3. \A i \in 1..Len(jobs') : row[jobs'[i].run].status \in {"queued", "gone"}
  BY <1>1 DEF Story, RunsProgress
<1>4. RunsProgress'
  BY <1>1, <1>3 DEF Story, RunsProgress
<1>5. WorkProgress'
  BY <1>1, <1>2 DEF WorkProgress
<1> QED
  BY <1>4, <1>5

LEMMA RestartProgress ==
    ASSUME Story, Restart
    PROVE  RunsProgress' /\ WorkProgress'
<1>1. /\ \A p \in Requests : request'[p].pc = "idle"
      /\ Len(jobs') = 0 /\ work'.pc = "idle"
      /\ \A r \in Runs : row'[r] = Repaired(r)
  BY IdleTypes DEF Restart
<1>2. \A r \in Runs : row'[r].status = "none" => row'[r] = row[r]
  BY <1>1, StoryTypes DEF Repaired, RunRow
<1>3. RunsProgress'
  BY <1>1, <1>2 DEF Story, RunsProgress
<1>4. WorkProgress'
  BY <1>1 DEF WorkProgress
<1> QED
  BY <1>3, <1>4

(* The worker writes at most the row of its run. *)
LEMMA OwnRowProgress ==
    ASSUME Story, Working, UNCHANGED <<jobs, request>>,
           \A s \in Runs : s # work.run => row'[s] = row[s],
           row'[work.run].status # "none"
    PROVE  RunsProgress'
<1>1. /\ \A p \in Requests : Carrying(p) => row'[request[p].run] = row[request[p].run]
      /\ \A i \in 1..Len(jobs) : row'[jobs[i].run] = row[jobs[i].run]
  BY StoryTypes, WorkersRun
<1> QED
  BY <1>1 DEF Story, RunsProgress, Carrying

LEMMA WorkerProgress ==
    ASSUME Story, WorkerStep \/ ScanFails \/ ScanCompletes
    PROVE  RunsProgress' /\ WorkProgress'
<1>0. Working /\ work \in WorkerState /\ work.run \in Runs /\ row[work.run].status # "none"
  BY StoryTypes
     DEF TypeOK, WorkerStep, ScanFails, ScanCompletes, CheckCancel, MarkRunRunning, MarkLibraryRunning,
         CheckConversion, ScanCanceled, CommitScan, FinishRun, FinishLibrary, Release, Working
<1>1. CASE CheckCancel
  <2>1. /\ UNCHANGED <<row, jobs, request, stopped>> /\ work.pc = "check" /\ work'.run = work.run
        /\ work'.pc \in {"finishRun", "release", "markRun"}
        /\ work'.pc = "finishRun" => work'.outcome # "success"
    BY <1>0, <1>1 DEF CheckCancel, Outcome, Goto, WorkerState, calls
  <2>2. WorkProgress'
    BY <2>1 DEF Story, WorkProgress
  <2> QED
    BY <1>0, <2>1, <2>2, OwnRowProgress
<1>2. CASE MarkRunRunning
  <2>1. /\ UNCHANGED <<jobs, request, stopped>> /\ work.pc = "markRun" /\ work'.run = work.run
        /\ work'.pc = "markLibrary"
    BY <1>0, <1>2 DEF MarkRunRunning, Goto, WorkerState, calls
  <2>2. /\ \A s \in Runs : s # work.run => row'[s] = row[s]
        /\ row'[work.run].status = IF ~stopped /\ Exists(work.run) THEN "running" ELSE row[work.run].status
    BY <1>0, <1>2, StoryTypes DEF MarkRunRunning, TypeOK, RunRow
  <2>3. row[work.run].status \in {"queued", "gone"}
    BY <2>1 DEF Story, WorkProgress
  <2>4. WorkProgress'
    BY <2>1, <2>2, <2>3 DEF WorkProgress, Exists
  <2>5. row'[work.run].status # "none"
    BY <1>0, <2>2
  <2> QED
    BY <1>0, <2>1, <2>2, <2>4, <2>5, OwnRowProgress
<1>3. CASE MarkLibraryRunning \/ CheckConversion
  <2>1. /\ UNCHANGED <<row, jobs, request, stopped>> /\ work'.run = work.run
        /\ \/ work.pc = "markLibrary" /\ work'.pc = "conversion"
           \/ work.pc = "conversion" /\ stopped /\ work'.pc = "finishRun" /\ work'.outcome = "failed"
           \/ work.pc = "conversion" /\ ~stopped /\ work'.pc = "scan"
    BY <1>0, <1>3 DEF MarkLibraryRunning, CheckConversion, Outcome, Goto, WorkerState, calls
  <2>2. WorkProgress'
    BY <2>1 DEF Story, WorkProgress
  <2> QED
    BY <1>0, <2>1, <2>2, OwnRowProgress
<1>4. CASE ScanCanceled \/ ScanFails \/ ScanCompletes \/ CommitScan
  <2>1. /\ UNCHANGED <<row, jobs, request, stopped>> /\ work'.run = work.run
        /\ work.pc \in {"scan", "commit"} /\ work'.pc \in {"commit", "finishRun"}
    BY <1>0, <1>4 DEF ScanCanceled, ScanFails, ScanCompletes, CommitScan, Outcome, Goto, WorkerState, calls
  <2>2. WorkProgress'
    BY <2>1 DEF Story, WorkProgress
  <2> QED
    BY <1>0, <2>1, <2>2, OwnRowProgress
<1>5. CASE FinishRun
  <2>1. /\ UNCHANGED <<jobs, request, stopped>> /\ work'.pc = "finishLibrary"
        /\ work.outcome \in Terminal
    BY <1>0, <1>5, StoryTypes DEF FinishRun, Goto, WorkerState, calls, TypeOK, Holding
  <2>2. /\ \A s \in Runs : s # work.run => row'[s] = row[s]
        /\ row'[work.run].status \in {work.outcome, row[work.run].status}
    BY <1>0, <1>5, StoryTypes DEF FinishRun, TypeOK, RunRow
  <2>3. row'[work.run].status # "none"
    BY <1>0, <2>1, <2>2 DEF Terminal
  <2>4. WorkProgress'
    BY <2>1 DEF WorkProgress
  <2> QED
    BY <1>0, <2>1, <2>2, <2>3, <2>4, OwnRowProgress
<1>6. CASE FinishLibrary \/ Release
  <2>1. UNCHANGED <<row, jobs, request>> /\ work'.pc \in {"release", "idle"}
    BY <1>0, <1>6, IdleTypes DEF FinishLibrary, Release, Goto, WorkerState, calls
  <2>2. WorkProgress'
    BY <2>1 DEF WorkProgress
  <2> QED
    BY <1>0, <2>1, <2>2, OwnRowProgress
<1> QED
  BY <1>1, <1>2, <1>3, <1>4, <1>5, <1>6 DEF WorkerStep

LEMMA CallProgress ==
    ASSUME Story, NEW p \in Requests, CallStart(p) \/ CallStep(p)
    PROVE  RunsProgress' /\ WorkProgress'
<1>1. CASE InsertRun(p)
  BY <1>1, InsertProgress
<1>2. CASE SendJob(p)
  BY <1>2, SendProgress
<1>3. CASE \/ CallStart(p) \/ (\E l \in Libs : ReadLibrary(p, l)) \/ (\E r \in Runs : Reserve(p, r))
           \/ InsertFails(p) \/ ReadBackFails(p)
  <2>1. UNCHANGED <<row, jobs, work, stopped>>
    BY <1>3 DEF CallStart, StartAll, StartOne, ScheduledStartAll, ReadLibrary, Reserve, InsertFails,
                ReadBackFails, mem
  <2>2. \A q \in Requests : q # p => request'[q] = request[q]
    BY <1>3, StoryTypes
       DEF TypeOK, CallStart, StartAll, StartOne, ScheduledStartAll, ReadLibrary, Reserve, InsertFails,
           ReadBackFails
  <2>3. request'[p].pc \notin {"readback", "send"}
    <3>1. CASE CallStart(p)
      <4>1. \E todo \in SUBSET Libs : request'[p] = After(todo)
        BY <3>1, StoryTypes DEF CallStart, StartAll, StartOne, ScheduledStartAll, EnabledLibs, TypeOK
      <4> QED
        BY <4>1, AfterCarriesNone
    <3>2. CASE \E l \in Libs : ReadLibrary(p, l)
      BY <3>2, IdleTypes, StoryTypes DEF ReadLibrary, TypeOK
    <3>3. CASE \E r \in Runs : Reserve(p, r)
      <4>1. request'[p] = After(request[p].todo) \/ request'[p].pc = "insert"
        BY <3>3, StoryTypes DEF Reserve, TypeOK, RequestState
      <4> QED
        BY <4>1, AfterCarriesNone
    <3>4. CASE InsertFails(p) \/ ReadBackFails(p)
      BY <3>4, IdleTypes, StoryTypes DEF InsertFails, ReadBackFails, TypeOK
    <3> QED
      BY <1>3, <3>1, <3>2, <3>3, <3>4
  <2>4. \A q \in Requests : request'[q].pc \in {"readback", "send"} => request'[q] = request[q]
    BY <2>2, <2>3
  <2> QED
    BY <2>1, <2>4, RowsAloneKeep
<1>4. CASE ReadBack(p)
  <2>1. /\ UNCHANGED <<row, jobs, work, stopped>> /\ request[p].pc = "readback"
        /\ request' = [request EXCEPT ![p].pc = "send"]
    BY <1>4 DEF ReadBack, mem
  <2>2. \A q \in Requests : request'[q].pc \in {"readback", "send"} =>
           request[q].pc \in {"readback", "send"} /\ request'[q].run = request[q].run
    BY <2>1, StoryTypes DEF TypeOK, RequestState
  <2> QED
    BY <2>1, <2>2, RowsAloneKeep
<1> QED
  BY <1>1, <1>2, <1>3, <1>4 DEF CallStep

LEMMA NextStory == Story /\ [Next]_vars => Story'
<1> SUFFICES ASSUME Story, [Next]_vars PROVE Story'
  OBVIOUS
<1>1. Ledger'
  BY NextLedger DEF Story
<1>2. RunsProgress' /\ WorkProgress'
  <2>1. ASSUME NEW c \in Cancelers, StopActive(c) PROVE RunsProgress' /\ WorkProgress'
    BY <2>1, RowsAloneKeep DEF StopActive
  <2>2. CASE CancelStep
    BY <2>1, <2>2, CancelProgress DEF CancelStep
  <2>3. CASE AdminStep
    <3>1. CASE \E a \in Admins : DeleteLibrary(a)
      BY <3>1, DeleteProgress
    <3>2. CASE ~ \E a \in Admins : DeleteLibrary(a)
      <4>1. UNCHANGED <<row, jobs, work, stopped, request>>
        BY <2>3, <3>2 DEF AdminStep, CreateLibrary, ReadForUpdate, CheckMode, WriteLibrary, CheckDelete,
                          mem, calls
      <4> QED
        BY <4>1, RowsAloneKeep
    <3> QED
      BY <3>1, <3>2
  <2>4. CASE Close
    BY <2>4, RowsAloneKeep DEF Close, calls
  <2>5. CASE UNCHANGED vars
    BY <2>5, RowsAloneKeep DEF vars, mem, calls
  <2> QED
    BY <2>2, <2>3, <2>4, <2>5, CallProgress, TakeProgress, WorkerProgress, RestartProgress DEF Next
<1> QED
  BY <1>1, <1>2 DEF Story

LEMMA AlwaysStory == Spec => []Story
<1>1. Init => Story
  BY InitLedger, InitStory DEF Story
<1> QED
  BY <1>1, NextStory, PTL DEF Spec

(* A library that shows a scan as running is the one the worker scans. *)
LEMMA NextLibraries ==
    TypeOK /\ RunningLibraryIsScanned /\ LibrariesAgree /\ [Next]_vars
      => RunningLibraryIsScanned' /\ LibrariesAgree'
<1> SUFFICES ASSUME TypeOK, RunningLibraryIsScanned, LibrariesAgree, [Next]_vars
             PROVE  RunningLibraryIsScanned' /\ LibrariesAgree'
  OBVIOUS
<1>0. library \in [Libs -> LibraryRow] /\ work \in WorkerState /\ (work.pc # "idle" => work.lib \in Libs)
  BY DEF TypeOK, Holding
<1>1. CASE UNCHANGED <<library, work, closing>>
  BY <1>1 DEF RunningLibraryIsScanned, LibrariesAgree
<1>2. CASE TakeJob \/ Close
  BY <1>2 DEF RunningLibraryIsScanned, LibrariesAgree, TakeJob, Close
<1>3. CASE WorkerStep \/ ScanFails \/ ScanCompletes
  <2>1. CASE CheckCancel \/ MarkRunRunning
    BY <1>0, <2>1 DEF RunningLibraryIsScanned, LibrariesAgree, CheckCancel, MarkRunRunning
  <2>2. CASE CheckConversion \/ ScanCanceled \/ ScanFails \/ ScanCompletes \/ CommitScan \/ FinishRun
    <3>1. /\ UNCHANGED <<library, closing>> /\ work'.lib = work.lib
          /\ work'.pc \in {"scan", "commit", "finishRun", "finishLibrary"}
      BY <1>0, <2>2 DEF CheckConversion, ScanCanceled, ScanFails, ScanCompletes, CommitScan, FinishRun,
                        Outcome, Goto, WorkerState
    <3> QED
      BY <3>1 DEF RunningLibraryIsScanned, LibrariesAgree
  <2>3. CASE MarkLibraryRunning
    <3>1. /\ work.pc = "markLibrary" /\ work'.lib = work.lib /\ work'.pc = "conversion" /\ closing' = closing
          /\ \A l \in Libs : l # work.lib => library'[l] = library[l]
      BY <1>0, <2>3 DEF MarkLibraryRunning, Goto, WorkerState
    <3>2. library'[work.lib].exists = library[work.lib].exists
          /\ (~library[work.lib].exists => library'[work.lib] = library[work.lib])
      BY <1>0, <2>3 DEF MarkLibraryRunning, LibraryRow
    <3> QED
      BY <1>0, <3>1, <3>2 DEF RunningLibraryIsScanned, LibrariesAgree
  <2>4. CASE FinishLibrary
    <3>1. /\ work.pc = "finishLibrary" /\ closing' = closing
          /\ \A l \in Libs : l # work.lib => library'[l] = library[l]
          /\ work.outcome \in Terminal
      BY <1>0, <2>4 DEF FinishLibrary, TypeOK, Holding
    <3>2. \/ closing /\ library'[work.lib] = library[work.lib]
          \/ /\ library'[work.lib].exists = library[work.lib].exists
             /\ library'[work.lib].last = IF library[work.lib].exists THEN work.outcome ELSE library[work.lib].last
      BY <1>0, <2>4 DEF FinishLibrary, LibraryRow
    <3> QED
      BY <1>0, <3>1, <3>2 DEF RunningLibraryIsScanned, LibrariesAgree, Terminal
  <2>5. CASE Release
    BY <2>5 DEF RunningLibraryIsScanned, LibrariesAgree, Release
  <2> QED
    BY <1>3, <2>1, <2>2, <2>3, <2>4, <2>5 DEF WorkerStep
<1>4. CASE AdminStep
  <2>1. UNCHANGED <<work, closing>>
    BY <1>4 DEF AdminStep, CreateLibrary, ReadForUpdate, CheckMode, WriteLibrary, CheckDelete, DeleteLibrary,
                mem, calls
  <2>2. \A l \in Libs : library'[l] = library[l] \/ library'[l].last = "never"
                          \/ (library'[l].exists = TRUE /\ library'[l].last = library[l].last)
    <3>1. CASE UNCHANGED library
      BY <3>1
    <3>2. ASSUME NEW m \in Libs, NEW enabled, NEW oneShot, Upsert(m, enabled, oneShot)
          PROVE  \A l \in Libs : library'[l] = library[l] \/ (library'[l].exists = TRUE /\ library'[l].last = library[l].last)
      BY <1>0, <3>2 DEF Upsert
    <3>3. ASSUME NEW a \in Admins, DeleteLibrary(a)
          PROVE  \A l \in Libs : library'[l] = library[l] \/ library'[l].last = "never"
      BY <1>0, <3>3 DEF DeleteLibrary, NoLibrary
    <3>4. ASSUME NEW a \in Admins, WriteLibrary(a)
          PROVE  \E m \in Libs : \E enabled, oneShot : Upsert(m, enabled, oneShot)
      BY <3>4 DEF WriteLibrary, TypeOK, Holding
    <3> QED
      BY <1>4, <3>1, <3>2, <3>3, <3>4 DEF AdminStep, CreateLibrary, ReadForUpdate, CheckMode, CheckDelete
  <2> QED
    BY <2>1, <2>2 DEF RunningLibraryIsScanned, LibrariesAgree
<1>5. CASE Restart
  <2>1. \A l \in Libs : library'[l].last # "running"
    BY <1>0, <1>5 DEF Restart, LibraryRow
  <2> QED
    BY <2>1 DEF RunningLibraryIsScanned, LibrariesAgree
<1>6. CASE (\E p \in Requests : CallStart(p) \/ CallStep(p)) \/ CancelStep
  <2>1. UNCHANGED <<library, work, closing>>
    BY <1>6 DEF CallStart, StartAll, StartOne, ScheduledStartAll, CallStep, ReadLibrary, Reserve, InsertRun,
                InsertFails, ReadBack, ReadBackFails, SendJob, SendWhen, CancelStep, MarkCancel, StopActive, mem
  <2> QED
    BY <1>1, <2>1
<1>7. CASE UNCHANGED vars
  BY <1>1, <1>7 DEF vars, mem
<1> QED
  BY <1>2, <1>3, <1>4, <1>5, <1>6, <1>7 DEF Next

(* No library is left showing a scan that nobody runs: a finish, a restart *)
(* and a deletion all take the status back.                                *)
THEOREM LibraryStatusTrue == Spec => []RunningLibraryIsScanned
<1>1. Init => RunningLibraryIsScanned /\ LibrariesAgree
  BY DEF Init, RunningLibraryIsScanned, LibrariesAgree, NoLibrary
<1> QED
  BY <1>1, NextLibraries, TypeCorrect, PTL DEF Spec

-----------------------------------------------------------------------------
(* The rows live as RunLifecycle promises.                                 *)

(* What may become of one row in one step. *)
RowStep(r) ==
    \/ /\ row'[r].cancel = row[r].cancel
       /\ \/ row'[r].status = row[r].status
          \/ row[r].status = "none" /\ row'[r].status = "queued"
          \/ row[r].status = "queued" /\ row'[r].status = "running"
          \/ /\ row[r].status \in Live /\ row'[r].status \in Terminal
             /\ row'[r].status = "success" => row[r].status = "running"
          \/ row[r].status # "none" /\ row'[r].status = "gone"
    \/ row[r].status \in Live /\ row'[r].status = row[r].status /\ row'[r].cancel = TRUE

LEMMA RowStepsLive ==
    ASSUME \A r \in Runs : RowStep(r)
    PROVE  Lifecycle!Next
<1> SUFFICES ASSUME NEW r \in Runs
             PROVE  \/ Lifecycle!Accept(r) \/ Lifecycle!Start(r) \/ Lifecycle!RequestCancel(r)
                    \/ Lifecycle!End(r) \/ Lifecycle!Remove(r) \/ Lifecycle!Rest(r)
  BY DEF Lifecycle!Next
<1>1. RowStep(r)
  OBVIOUS
<1> QED
  BY <1>1 DEF RowStep, Live, Terminal, Lifecycle!Accept, Lifecycle!Start, Lifecycle!RequestCancel,
     Lifecycle!End, Lifecycle!Remove, Lifecycle!Rest, Lifecycle!Live, Lifecycle!Terminal

(* A step leaves the row of r alone. *)
LEMMA SameRowLives ==
    ASSUME NEW r \in Runs, row'[r] = row[r]
    PROVE  RowStep(r)
BY DEF RowStep

LEMMA InsertLives ==
    ASSUME Story, NEW p \in Requests, InsertRun(p), NEW r \in Runs
    PROVE  RowStep(r)
<1> DEFINE x == [lib |-> request[p].lib, status |-> "queued", cancel |-> FALSE]
<1>1. Carrying(p) /\ request[p].pc = "insert" /\ row' = [row EXCEPT ![request[p].run] = x]
  BY DEF InsertRun, Carrying
<1>2. row[request[p].run].status = "none" /\ request[p].run \in Runs
  BY <1>1, StoryTypes DEF Story, Ledger, RowsAgree
<1>3. row[request[p].run].cancel = FALSE
  BY <1>2 DEF Story, RunsProgress
<1>4. x.status = "queued" /\ x.cancel = FALSE
  OBVIOUS
<1> HIDE DEF x
<1>5. row'[r] = IF r = request[p].run THEN x ELSE row[r]
  BY <1>1, StoryTypes DEF TypeOK
<1>6. CASE r = request[p].run
  <2>1. row'[r].status = "queued" /\ row'[r].cancel = row[r].cancel /\ row[r].status = "none"
    BY <1>2, <1>3, <1>4, <1>5, <1>6
  <2> QED
    BY <2>1 DEF RowStep
<1> QED
  BY <1>5, <1>6, SameRowLives

LEMMA CancelLives ==
    ASSUME Story, NEW c \in Cancelers, NEW q \in Runs, MarkCancel(c, q), NEW r \in Runs
    PROVE  RowStep(r)
<1>1. /\ row[q].status \in Live
      /\ row'[r] = IF r = q THEN [row[r] EXCEPT !.cancel = TRUE] ELSE row[r]
  BY StoryTypes DEF MarkCancel, TypeOK
<1>2. CASE r = q
  <2>1. row'[r].status = row[r].status /\ row'[r].cancel = TRUE
    BY <1>1, <1>2, StoryTypes DEF RunRow
  <2> QED
    BY <1>1, <1>2, <2>1 DEF RowStep
<1> QED
  BY <1>1, <1>2, SameRowLives

LEMMA DeleteLives ==
    ASSUME Story, NEW a \in Admins, DeleteLibrary(a), NEW r \in Runs
    PROVE  RowStep(r)
<1>1. admin[a].lib \in Libs /\ admin[a].lib # None
  BY StoryTypes, ConstantsAssumption DEF DeleteLibrary, TypeOK, Holding, ConstantsAssumption
<1>2. row'[r] = IF row[r].lib = admin[a].lib THEN [row[r] EXCEPT !.status = "gone"] ELSE row[r]
  BY DEF DeleteLibrary
<1>3. row[r] \in RunRow /\ (row[r].lib = admin[a].lib => row[r].status # "none")
  BY <1>1, StoryTypes DEF Story, Ledger, RowsAgree
<1> QED
  BY <1>2, <1>3 DEF RowStep, RunRow

LEMMA RestartLives ==
    ASSUME Story, Restart, NEW r \in Runs
    PROVE  RowStep(r)
<1>1. row'[r] = Repaired(r) /\ row[r] \in RunRow
  BY StoryTypes DEF Restart
<1> QED
  BY <1>1 DEF RowStep, RunRow, Repaired, Terminal

LEMMA MarkLives ==
    ASSUME Story, MarkRunRunning, NEW r \in Runs
    PROVE  RowStep(r)
<1>1. row'[r] = IF r = work.run /\ ~stopped /\ Exists(r) THEN [row[r] EXCEPT !.status = "running"] ELSE row[r]
  BY StoryTypes DEF MarkRunRunning, TypeOK
<1>2. row[work.run].status \in {"queued", "gone"}
  BY DEF MarkRunRunning, Story, WorkProgress
<1>3. CASE r = work.run /\ ~stopped /\ Exists(r)
  <2>1. row'[r].status = "running" /\ row'[r].cancel = row[r].cancel /\ row[r].status = "queued"
    BY <1>1, <1>2, <1>3, StoryTypes DEF RunRow, Exists
  <2> QED
    BY <2>1 DEF RowStep
<1> QED
  BY <1>1, <1>3, SameRowLives

LEMMA FinishLives ==
    ASSUME Story, FinishRun, NEW r \in Runs
    PROVE  RowStep(r)
<1>1. row'[r] = row[r] \/ (r = work.run /\ Exists(r) /\ row'[r] = [row[r] EXCEPT !.status = work.outcome])
  BY StoryTypes DEF FinishRun, TypeOK
<1>2. /\ row[work.run].status \in {"queued", "running", "gone"} /\ work.outcome \in Terminal
      /\ work.outcome = "success" => row[work.run].status \in {"running", "gone"}
  BY StoryTypes DEF FinishRun, Story, WorkProgress, TypeOK, Holding
<1>3. CASE r = work.run /\ Exists(r) /\ row'[r] = [row[r] EXCEPT !.status = work.outcome]
  <2>1. row'[r].status = work.outcome /\ row'[r].cancel = row[r].cancel
    BY <1>3, StoryTypes DEF RunRow
  <2> QED
    BY <1>2, <1>3, <2>1 DEF RowStep, Exists, Live
<1> QED
  BY <1>1, <1>3, SameRowLives

LEMMA InitLives == Init => Lifecycle!Init
<1> SUFFICES ASSUME Init PROVE Lifecycle!Init
  OBVIOUS
<1>1. \A r \in Runs : row[r].status = "none" /\ row[r].cancel = FALSE
  BY DEF Init, NoRow
<1>2. [r \in Runs |-> row[r].status] = [r \in Runs |-> "none"] /\ [r \in Runs |-> row[r].cancel] = [r \in Runs |-> FALSE]
  BY <1>1
<1> QED
  BY <1>2 DEF Lifecycle!Init

LEMMA NextRows ==
    ASSUME Story, [Next]_vars, NEW r \in Runs
    PROVE  RowStep(r)
<1>0. UNCHANGED row => RowStep(r)
  BY SameRowLives
<1>1. ASSUME NEW p \in Requests, CallStart(p) \/ CallStep(p) PROVE RowStep(r)
  <2>1. CASE InsertRun(p)
    BY <2>1, InsertLives
  <2>2. CASE ~InsertRun(p)
    BY <1>0, <1>1, <2>2
       DEF CallStart, StartAll, StartOne, ScheduledStartAll, CallStep, ReadLibrary, Reserve, InsertFails,
           ReadBack, ReadBackFails, SendJob, SendWhen
  <2> QED
    BY <2>1, <2>2
<1>2. CASE CancelStep
  BY <1>0, <1>2, CancelLives DEF CancelStep, StopActive
<1>3. CASE WorkerStep \/ ScanFails \/ ScanCompletes \/ TakeJob
  BY <1>0, <1>3, MarkLives, FinishLives
     DEF WorkerStep, ScanFails, ScanCompletes, TakeJob, CheckCancel, MarkLibraryRunning, CheckConversion,
         ScanCanceled, CommitScan, FinishLibrary, Release
<1>4. CASE AdminStep
  BY <1>0, <1>4, DeleteLives DEF AdminStep, CreateLibrary, ReadForUpdate, CheckMode, WriteLibrary, CheckDelete
<1>5. CASE Restart
  BY <1>5, RestartLives
<1>6. CASE Close \/ UNCHANGED vars
  BY <1>0, <1>6 DEF Close, vars
<1> QED
  BY <1>1, <1>2, <1>3, <1>4, <1>5, <1>6 DEF Next

LEMMA NextLives == Story /\ [Next]_vars => [Lifecycle!Next]_Lifecycle!lifecycle
BY NextRows, RowStepsLive

(* The scan_runs rows live as RunLifecycle promises: a result is written   *)
(* once, no run whose start was lost to a cancel is reported a success,    *)
(* and a deleted library's row does not come back.                         *)
THEOREM RowsLive == Spec => RowsFollowLifecycle
BY InitLives, NextLives, AlwaysStory, PTL DEF Spec, Lifecycle!Spec, RowsFollowLifecycle

-----------------------------------------------------------------------------
(* A run canceled before its start.                                        *)

(* What it has come to, and where the worker may stand that takes it: it   *)
(* sees the flag, or an error, before it marks the row as running.         *)
Doomed(r) ==
    /\ row[r].status \in {"queued", "failed", "canceled", "gone"}
    /\ row[r].status = "queued" => row[r].cancel
    /\ work.pc # "idle" /\ work.run = r =>
          /\ work.pc \in {"check", "finishRun", "finishLibrary", "release"}
          /\ work.pc = "finishRun" => work.outcome \in {"failed", "canceled"}

(* Only the worker writes that a run runs. *)
LEMMA RunningByMark ==
    ASSUME Story, [Next]_vars, NEW r \in Runs, row[r].status # "running", row'[r].status = "running"
    PROVE  MarkRunRunning /\ work.run = r
<1>0. row \in [Runs -> RunRow] /\ row[r] \in RunRow
  BY StoryTypes DEF TypeOK
<1>1. row' # row
  OBVIOUS
<1>2. ASSUME NEW p \in Requests, CallStart(p) \/ CallStep(p) PROVE FALSE
  <2>1. InsertRun(p)
    BY <1>1, <1>2
       DEF CallStart, StartAll, StartOne, ScheduledStartAll, CallStep, ReadLibrary, Reserve, InsertFails,
           ReadBack, ReadBackFails, SendJob, SendWhen
  <2> QED
    BY <1>0, <2>1 DEF InsertRun
<1>3. ASSUME CancelStep PROVE FALSE
  BY <1>0, <1>1, <1>3 DEF CancelStep, MarkCancel, StopActive, RunRow
<1>4. ASSUME AdminStep PROVE FALSE
  <2>1. PICK a \in Admins : DeleteLibrary(a)
    BY <1>1, <1>4 DEF AdminStep, CreateLibrary, ReadForUpdate, CheckMode, WriteLibrary, CheckDelete
  <2> QED
    BY <1>0, <2>1 DEF DeleteLibrary, RunRow
<1>5. ASSUME Restart PROVE FALSE
  BY <1>0, <1>5 DEF Restart, Repaired, RunRow
<1>6. ASSUME FinishRun PROVE FALSE
  <2>1. work.outcome \in Terminal
    BY <1>6, StoryTypes DEF FinishRun, TypeOK, Holding
  <2> QED
    BY <1>0, <1>6, <2>1 DEF FinishRun, RunRow, Terminal
<1>7. MarkRunRunning
  BY <1>1, <1>2, <1>3, <1>4, <1>5, <1>6
     DEF Next, vars, TakeJob, WorkerStep, ScanFails, ScanCompletes, Close, CheckCancel, MarkLibraryRunning,
         CheckConversion, ScanCanceled, CommitScan, FinishLibrary, Release
<1> QED
  BY <1>0, <1>7 DEF MarkRunRunning

(* A flag is not taken back, and a row that is there not inserted again. *)
LEMMA DoomedRow ==
    ASSUME NEW r \in Runs, RowStep(r), Doomed(r), row'[r].status # "running"
    PROVE  /\ row'[r].status \in {"queued", "failed", "canceled", "gone"}
           /\ row'[r].status = "queued" => row'[r].cancel
<1>1. CASE row'[r].cancel = row[r].cancel
  <2>1. /\ row'[r].status \in {row[r].status, "queued", "failed", "canceled", "gone"}
        /\ row'[r].status = "queued" => row[r].status = "queued"
    BY DEF RowStep, Doomed, Live, Terminal
  <2> QED
    BY <1>1, <2>1 DEF Doomed
<1>2. CASE row[r].status \in Live /\ row'[r].status = row[r].status /\ row'[r].cancel = TRUE
  BY <1>2 DEF Doomed
<1> QED
  BY <1>1, <1>2 DEF RowStep

LEMMA DoomedWork ==
    ASSUME Story, [Next]_vars, NEW r \in Runs, Doomed(r), work'.pc # "idle", work'.run = r
    PROVE  /\ work'.pc \in {"check", "finishRun", "finishLibrary", "release"}
           /\ work'.pc = "finishRun" => work'.outcome \in {"failed", "canceled"}
<1>0. work \in WorkerState
  BY StoryTypes DEF TypeOK
<1>1. CASE UNCHANGED work
  BY <1>1 DEF Doomed
<1>2. CASE TakeJob
  BY <1>2 DEF TakeJob
<1>3. CASE CheckCancel
  <2>1. work.pc = "check" /\ work.run = r
    BY <1>0, <1>3 DEF CheckCancel, Outcome, Goto, WorkerState
  <2>2. ~Exists(r) \/ row[r].cancel
    BY <2>1 DEF Doomed, Story, WorkProgress, Exists
  <2> QED
    BY <1>0, <1>3, <2>1, <2>2 DEF CheckCancel, Outcome, Goto, WorkerState
<1>4. CASE FinishRun \/ FinishLibrary
  BY <1>0, <1>4 DEF FinishRun, FinishLibrary, Goto, WorkerState
<1>5. CASE Release \/ Restart
  BY <1>5, IdleTypes DEF Release, Restart
<1>6. ASSUME MarkRunRunning \/ MarkLibraryRunning \/ CheckConversion \/ ScanCanceled \/ ScanFails
               \/ ScanCompletes \/ CommitScan
      PROVE  FALSE
  <2>1. work.pc \in {"markRun", "markLibrary", "conversion", "scan", "commit"} /\ work'.run = work.run
    BY <1>0, <1>6
       DEF MarkRunRunning, MarkLibraryRunning, CheckConversion, ScanCanceled, ScanFails, ScanCompletes,
           CommitScan, Outcome, Goto, WorkerState
  <2> QED
    BY <2>1 DEF Doomed
<1>7. ASSUME NEW p \in Requests, CallStart(p) \/ CallStep(p) PROVE UNCHANGED work
  BY <1>7 DEF CallStart, StartAll, StartOne, ScheduledStartAll, CallStep, ReadLibrary, Reserve, InsertRun,
              InsertFails, ReadBack, ReadBackFails, SendJob, SendWhen, mem
<1>8. CASE CancelStep \/ AdminStep \/ Close \/ UNCHANGED vars
  <2>1. UNCHANGED work
    BY <1>8 DEF CancelStep, MarkCancel, StopActive, AdminStep, CreateLibrary, ReadForUpdate, CheckMode,
                WriteLibrary, CheckDelete, DeleteLibrary, Close, vars, mem
  <2> QED
    BY <1>1, <2>1
<1> QED
  BY <1>1, <1>2, <1>3, <1>4, <1>5, <1>6, <1>7, <1>8 DEF Next, WorkerStep

LEMMA DoomedStays ==
    ASSUME NEW r \in Runs
    PROVE  Story /\ [Next]_vars /\ Doomed(r) => Doomed(r)'
<1> SUFFICES ASSUME Story, [Next]_vars, Doomed(r)
             PROVE  Doomed(r)'
  OBVIOUS
<1>1. row'[r].status # "running"
  <2>1. row[r].status # "running" /\ ~(work.pc = "markRun" /\ work.run = r)
    BY DEF Doomed
  <2> QED
    BY <2>1, RunningByMark DEF MarkRunRunning
<1>2. /\ row'[r].status \in {"queued", "failed", "canceled", "gone"}
      /\ row'[r].status = "queued" => row'[r].cancel
  BY <1>1, NextRows, DoomedRow
<1>3. work'.pc # "idle" /\ work'.run = r =>
         /\ work'.pc \in {"check", "finishRun", "finishLibrary", "release"}
         /\ work'.pc = "finishRun" => work'.outcome \in {"failed", "canceled"}
  BY DoomedWork
<1> QED
  BY <1>2, <1>3 DEF Doomed

(* A run whose cancel is recorded before the worker has taken it neither   *)
(* starts nor succeeds, in this process or, after a restart, in the next.  *)
THEOREM CanceledNeverStarts == Spec => CancelBeforeStartHolds
<1> SUFFICES ASSUME NEW r \in Runs
             PROVE  Spec => [](row[r].status = "queued" /\ row[r].cancel /\ work.run # r
                                 => [](row[r].status \notin {"running", "success"}))
  BY DEF CancelBeforeStartHolds
<1>1. row[r].status = "queued" /\ row[r].cancel /\ work.run # r => Doomed(r)
  BY DEF Doomed
<1>2. Doomed(r) => row[r].status \notin {"running", "success"}
  BY DEF Doomed
<1>3. Story /\ [Next]_vars /\ Doomed(r) => Doomed(r)'
  BY DoomedStays
<1> QED
  BY <1>1, <1>2, <1>3, AlwaysStory, PTL DEF Spec
=============================================================================
