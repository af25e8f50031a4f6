--------------------------- MODULE CoverBatchProofs ---------------------------
(***************************************************************************)
(* For every number of libraries, requests, cancels and runs, every size   *)
(* of a library and every capacity of the channel: what is reserved is     *)
(* carried and what is carried is reserved, a cancel stops the job it was  *)
(* asked for, results add up, and the rows live as RunLifecycle promises.  *)
(*                                                                         *)
(* The invariants lean on one another.  That a reservation is given back   *)
(* by its own run needs the carriers of runs to be apart; that a cancel    *)
(* hits its run needs that no row is inserted twice, which the carriers    *)
(* being apart gives; and that the counters keep their type needs that     *)
(* what is done and what is to do add up to the total.                     *)
(***************************************************************************)
EXTENDS CoverBatch, TLAPS

RowState     == [lib : Libs \cup {None}, cancel : BOOLEAN, n : Counts,
                 status : {"none", "gone"} \cup Live \cup Terminal]
WorkerState  == [pc : {"idle", "read", "mark", "select", "next", "ensure", "progress", "finish", "release"},
                 run : 0..MaxRuns, lib : Libs \cup {None}, todo : 0..MaxSeries, n : Counts,
                 outcome : {"none"} \cup Terminal]
RequestState == [pc : {"idle", "reserve", "insert", "readback", "send"},
                 lib : Libs \cup {None}, total : 0..MaxSeries, run : 0..MaxRuns]
CancelState  == [pc : {"idle", "marked"}, run : 0..MaxRuns]

(* Whoever is past idle knows its library, and its run once it has one. *)
Holding ==
    /\ \A p \in Requests : request[p].pc # "idle" => request[p].lib \in Libs
    /\ \A p \in Requests : Carrying(p) => request[p].run \in Runs
    /\ Working => work.run \in Runs /\ work.lib \in Libs
    /\ \A c \in Cancelers : canceler[c].pc = "marked" => canceler[c].run \in Runs

(* No two carry a run for one library, and no run is reserved twice. *)
CarriersApart ==
    /\ \A p, q \in Requests :
          Carrying(p) /\ Carrying(q) /\ request[p].lib = request[q].lib => p = q
    /\ \A i, j \in 1..Len(jobs) : jobs[i][2] = jobs[j][2] => i = j
    /\ \A p \in Requests, i \in 1..Len(jobs) : Carrying(p) => request[p].lib # jobs[i][2]
    /\ Working => \A p \in Requests : Carrying(p) => request[p].lib # work.lib
    /\ Working => \A i \in 1..Len(jobs) : jobs[i][2] # work.lib
    /\ \A l, m \in Libs : queued[l] = queued[m] /\ queued[l] # 0 => l = m

(* The row a cancel has marked is marked until it is gone. *)
CancelsAgree ==
    \A c \in Cancelers : canceler[c].pc = "marked" =>
       /\ row[canceler[c].run].status # "none"
       /\ row[canceler[c].run].cancel \/ ~Exists(canceler[c].run)

(* What stands in the row of a run while somebody carries it. *)
RowsAgree ==
    /\ \A r \in Runs : row[r].status = "none" => row[r] = NoRow
    /\ \A p \in Requests :
          /\ request[p].pc = "insert" => row[request[p].run].status = "none"
          /\ request[p].pc \in {"readback", "send"} => row[request[p].run].status \in {"queued", "gone"}
    /\ \A i \in 1..Len(jobs) : row[jobs[i][1]].status \in {"queued", "gone"}
    /\ CancelsAgree

(* The same of the worker's run, whose row it alone writes. *)
WorkAgrees ==
    /\ work.pc \in {"read", "mark"} => row[work.run].status \in {"queued", "gone"}
    /\ work.pc = "select" =>
          \/ row[work.run].status = "gone"
          \/ row[work.run].status = "queued" /\ ContextOver
          \/ row[work.run].status = "running" /\ row[work.run].n.done = 0 /\ row[work.run].n.failed = 0
    /\ work.pc \in {"next", "ensure", "progress"} => row[work.run].status \in {"running", "gone"}
    /\ work.pc = "finish" =>
          /\ work.outcome \in Terminal
          /\ row[work.run].status \in {"queued", "running", "gone"}
          /\ work.outcome \in {"success", "partial"} => row[work.run].status \in {"running", "gone"}

(* The counts of the rows, and the worker's: what is done and what is left *)
(* to do are all there is.                                                 *)
CountsAgree ==
    /\ \A r \in Runs : row[r].n.done + row[r].n.failed <= row[r].n.total
    /\ \A r \in Runs : row[r].status = "queued" => row[r].n.done = 0 /\ row[r].n.failed = 0

WorkAddsUp ==
    /\ work.pc \in {"mark", "select"} => work.n.done = 0 /\ work.n.failed = 0
    /\ work.pc \in {"next", "ensure", "progress"} => work.n.done + work.n.failed + work.todo = work.n.total
    /\ work.pc = "ensure" => work.todo > 0
    /\ work.pc = "finish" =>
          /\ work.n.done + work.n.failed <= work.n.total
          /\ work.outcome \in {"success", "partial"} => work.n.done + work.n.failed = work.n.total
          /\ work.outcome = "success" => work.n.failed = 0
          /\ work.outcome = "partial" => work.n.failed > 0

BatchInv ==
    /\ TypeOK /\ Holding
    /\ CarriedRunsReserved /\ CarriersApart /\ ReservedMeansWorking
    /\ RowsAgree /\ WorkAgrees /\ StopHitsOwnRun
    /\ CountsAgree /\ WorkAddsUp /\ ResultsAddUp

-----------------------------------------------------------------------------
(* Types.                                                                  *)

LEMMA Bounds ==
    /\ ChanCap \in Nat \ {0} /\ MaxRuns \in Nat /\ MaxSeries \in Nat
    /\ MaxEdits \in Nat /\ MaxRestarts \in Nat /\ None \notin Libs
BY BatchAssumption DEF BatchAssumption

LEMMA IdleTypes ==
    /\ NoCounts \in Counts /\ NoCounts.done = 0 /\ NoCounts.failed = 0 /\ NoCounts.total = 0
    /\ NoRow \in RowState
    /\ IdleWorker \in WorkerState /\ IdleWorker.pc = "idle"
    /\ IdleRequest \in RequestState /\ IdleRequest.pc = "idle"
    /\ IdleCancel \in CancelState /\ IdleCancel.pc = "idle"
<1>1. NoCounts \in Counts /\ NoCounts.done = 0 /\ NoCounts.failed = 0 /\ NoCounts.total = 0
  BY Bounds DEF NoCounts, Counts
<1> QED
  BY <1>1, Bounds DEF NoRow, RowState, IdleWorker, WorkerState, IdleRequest, RequestState, IdleCancel, CancelState

LEMMA Typed ==
    ASSUME TypeOK
    PROVE  /\ row \in [Runs -> RowState]
           /\ queued \in [Libs -> 0..MaxRuns]
           /\ jobs \in Seq(Runs \X Libs) /\ Len(jobs) \in Nat
           /\ work \in WorkerState
           /\ request \in [Requests -> RequestState]
           /\ canceler \in [Cancelers -> CancelState]
           /\ \A i \in 1..Len(jobs) : jobs[i][1] \in Runs /\ jobs[i][2] \in Libs
<1>1. \A i \in 1..Len(jobs) : jobs[i] \in Runs \X Libs
  BY DEF TypeOK
<1> QED
  BY <1>1 DEF TypeOK, RowState, WorkerState, RequestState, CancelState

LEMMA InitInv == Init => BatchInv
<1> SUFFICES ASSUME Init PROVE BatchInv
  OBVIOUS
<1>1. TypeOK
  <2>1. row \in [Runs -> RowState]
    BY IdleTypes DEF Init
  <2>2. work \in WorkerState /\ request \in [Requests -> RequestState] /\ canceler \in [Cancelers -> CancelState]
    BY IdleTypes DEF Init
  <2>3. jobs \in Seq(Runs \X Libs) /\ Len(jobs) <= ChanCap
    BY Bounds DEF Init
  <2>4. queued \in [Libs -> 0..MaxRuns] /\ edits \in 0..MaxEdits /\ restarts \in 0..MaxRestarts
    BY Bounds DEF Init
  <2> QED
    BY <2>1, <2>2, <2>3, <2>4 DEF Init, TypeOK, RowState, WorkerState, RequestState, CancelState
<1>2. /\ \A p \in Requests : request[p].pc = "idle"
      /\ \A c \in Cancelers : canceler[c].pc = "idle"
      /\ work.pc = "idle" /\ Len(jobs) = 0
      /\ \A l \in Libs : queued[l] = 0
      /\ \A r \in Runs : row[r] = NoRow
      /\ ~stopped
  BY IdleTypes DEF Init
<1>3. NoRow.status = "none" /\ NoRow.n = NoCounts
  BY DEF NoRow
<1>4. Holding /\ CarriedRunsReserved /\ CarriersApart
  BY <1>2 DEF Holding, CarriedRunsReserved, CarriersApart, Carrying, Working
<1>5. ReservedMeansWorking /\ RowsAgree /\ WorkAgrees /\ StopHitsOwnRun
  BY <1>2, <1>3 DEF ReservedMeansWorking, RowsAgree, CancelsAgree, WorkAgrees, StopHitsOwnRun
<1>6. CountsAgree /\ WorkAddsUp /\ ResultsAddUp
  BY <1>2, <1>3, IdleTypes DEF CountsAgree, WorkAddsUp, ResultsAddUp
<1> QED
  BY <1>1, <1>4, <1>5, <1>6 DEF BatchInv

-----------------------------------------------------------------------------
(* What a step that leaves something alone keeps.                          *)

(* Every carrier carries what it carried. *)
SameCarriers ==
    /\ UNCHANGED <<queued, jobs>>
    /\ closing => closing'
    /\ \A p \in Requests :
          /\ Carrying(p)' <=> Carrying(p)
          /\ Carrying(p) => request'[p].run = request[p].run /\ request'[p].lib = request[p].lib
    /\ Working' <=> Working
    /\ Working => work'.run = work.run /\ work'.lib = work.lib

LEMMA SameCarriersKeeps ==
    ASSUME BatchInv, SameCarriers
    PROVE  CarriedRunsReserved' /\ CarriersApart' /\ ReservedMeansWorking'
<1>1. CarriedRunsReserved'
  BY DEF BatchInv, SameCarriers, CarriedRunsReserved
<1>2. CarriersApart'
  BY DEF BatchInv, SameCarriers, CarriersApart
<1>3. ReservedMeansWorking'
  BY DEF BatchInv, SameCarriers, ReservedMeansWorking
<1> QED
  BY <1>1, <1>2, <1>3

LEMMA SameRowsKeep ==
    ASSUME BatchInv, UNCHANGED <<row, work, stopped>>, closing => closing'
    PROVE  WorkAgrees' /\ StopHitsOwnRun' /\ CountsAgree' /\ WorkAddsUp' /\ ResultsAddUp'
<1>1. WorkAgrees' /\ StopHitsOwnRun'
  BY DEF BatchInv, WorkAgrees, ContextOver, StopHitsOwnRun, Working, Exists
<1>2. CountsAgree' /\ WorkAddsUp' /\ ResultsAddUp'
  BY DEF BatchInv, CountsAgree, WorkAddsUp, ResultsAddUp
<1> QED
  BY <1>1, <1>2

(* One request's record is replaced. *)
LEMMA RequestUpdate ==
    ASSUME BatchInv, NEW p \in Requests, NEW s \in RequestState,
           s.pc # "idle" => s.lib \in Libs,
           s.pc \in {"insert", "readback", "send"} => s.run \in Runs,
           request' = [request EXCEPT ![p] = s], UNCHANGED <<canceler, work>>
    PROVE  /\ request' \in [Requests -> RequestState] /\ Holding'
           /\ request'[p] = s /\ \A q \in Requests : q # p => request'[q] = request[q]
<1>1. request \in [Requests -> RequestState]
  BY Typed DEF BatchInv
<1>2. request'[p] = s /\ \A q \in Requests : q # p => request'[q] = request[q]
  BY <1>1
<1>3. Holding'
  BY <1>2 DEF BatchInv, Holding, Carrying, Working
<1> QED
  BY <1>1, <1>2, <1>3

(* A request's step that writes no row. *)
LEMMA RequestRows ==
    ASSUME BatchInv, NEW p \in Requests, UNCHANGED <<row, jobs, canceler>>,
           \A q \in Requests : q # p => request'[q] = request[q],
           request'[p].pc = "insert" => row[request'[p].run].status = "none",
           request'[p].pc \in {"readback", "send"} => row[request'[p].run].status \in {"queued", "gone"}
    PROVE  RowsAgree'
BY DEF BatchInv, RowsAgree, CancelsAgree, Exists

(* Nobody else carries the run, or carries for the library, of one who     *)
(* carries it.                                                             *)
LEMMA RunOfRequest ==
    ASSUME BatchInv, NEW p \in Requests, Carrying(p)
    PROVE  /\ request[p].run \in Runs /\ request[p].lib \in Libs
           /\ queued[request[p].lib] = request[p].run
           /\ \A q \in Requests : Carrying(q) /\ q # p =>
                 request[q].run # request[p].run /\ request[q].lib # request[p].lib
           /\ \A i \in 1..Len(jobs) : jobs[i][1] # request[p].run /\ jobs[i][2] # request[p].lib
           /\ Working => work.run # request[p].run /\ work.lib # request[p].lib
<1>1. \A q \in Requests : Carrying(q) => /\ request[q].run \in Runs /\ request[q].lib \in Libs
                                        /\ queued[request[q].lib] = request[q].run
  BY DEF BatchInv, Holding, CarriedRunsReserved, Carrying
<1>2. request[p].run # 0
  BY <1>1, Bounds DEF Runs
<1>3. \A l \in Libs : queued[l] = request[p].run => l = request[p].lib
  BY <1>1, <1>2 DEF BatchInv, CarriersApart
<1>4. \A q \in Requests : Carrying(q) /\ q # p => request[q].lib # request[p].lib
  BY DEF BatchInv, CarriersApart
<1>5. \A i \in 1..Len(jobs) : /\ jobs[i][2] \in Libs /\ jobs[i][2] # request[p].lib
                             /\ queued[jobs[i][2]] = jobs[i][1]
  BY Typed DEF BatchInv, CarriersApart, CarriedRunsReserved
<1>6. Working => work.lib \in Libs /\ work.lib # request[p].lib /\ queued[work.lib] = work.run
  BY DEF BatchInv, Holding, CarriersApart, CarriedRunsReserved
<1> QED
  BY <1>1, <1>3, <1>4, <1>5, <1>6

LEMMA RunOfWork ==
    ASSUME BatchInv, Working
    PROVE  /\ work.run \in Runs /\ work.lib \in Libs /\ queued[work.lib] = work.run
           /\ \A q \in Requests : Carrying(q) => request[q].run # work.run /\ request[q].lib # work.lib
           /\ \A i \in 1..Len(jobs) : jobs[i][1] # work.run /\ jobs[i][2] # work.lib
<1>1. work.run \in Runs /\ work.lib \in Libs /\ queued[work.lib] = work.run
  BY DEF BatchInv, Holding, CarriedRunsReserved
<1>2. work.run # 0
  BY <1>1, Bounds DEF Runs
<1>3. \A l \in Libs : queued[l] = work.run => l = work.lib
  BY <1>1, <1>2 DEF BatchInv, CarriersApart
<1>4. \A q \in Requests : Carrying(q) => /\ request[q].lib \in Libs /\ request[q].lib # work.lib
                                        /\ queued[request[q].lib] = request[q].run
  BY DEF BatchInv, Holding, CarriersApart, CarriedRunsReserved, Carrying
<1>5. \A i \in 1..Len(jobs) : /\ jobs[i][2] \in Libs /\ jobs[i][2] # work.lib
                             /\ queued[jobs[i][2]] = jobs[i][1]
  BY Typed DEF BatchInv, CarriersApart, CarriedRunsReserved
<1> QED
  BY <1>1, <1>3, <1>4, <1>5

-----------------------------------------------------------------------------
(* Start.                                                                  *)

LEMMA ReadLibraryKeeps ==
    ASSUME BatchInv, NEW p \in Requests, NEW l \in Libs, ReadLibrary(p, l)
    PROVE  BatchInv'
<1> DEFINE s == [IdleRequest EXCEPT !.pc = "reserve", !.lib = l]
<1>1. s \in RequestState /\ s.pc = "reserve" /\ s.lib = l
  BY IdleTypes DEF RequestState
<1>2. /\ request' = [request EXCEPT ![p] = s] /\ request[p].pc = "idle"
      /\ UNCHANGED <<libraries, row, queued, jobs, work, stopped, closing, canceler, edits, restarts>>
  <2>1. request' = [request EXCEPT ![p] = s] /\ request[p].pc = "idle"
    BY Zenon DEF ReadLibrary
  <2> QED
    BY <2>1 DEF ReadLibrary, mem, bounds
<1> HIDE DEF s
<1>3. /\ request' \in [Requests -> RequestState] /\ Holding'
      /\ request'[p] = s /\ \A q \in Requests : q # p => request'[q] = request[q]
  BY <1>1, <1>2, RequestUpdate
<1>4. SameCarriers
  BY <1>1, <1>2, <1>3 DEF SameCarriers, Carrying, Working
<1>5. RowsAgree'
  BY <1>1, <1>2, <1>3, RequestRows
<1>6. TypeOK'
  BY <1>2, <1>3 DEF BatchInv, TypeOK, RequestState
<1> QED
  BY <1>2, <1>3, <1>4, <1>5, <1>6, SameCarriersKeeps, SameRowsKeep DEF BatchInv

(* A request that gives up, or is refused, before it has reserved. *)
LEMMA RefusedKeeps ==
    ASSUME BatchInv, NEW p \in Requests, ~Carrying(p),
           request' = [request EXCEPT ![p] = IdleRequest],
           UNCHANGED <<libraries, row, queued, jobs, work, stopped, closing, canceler, edits, restarts>>
    PROVE  BatchInv'
<1>1. /\ request' \in [Requests -> RequestState] /\ Holding'
      /\ request'[p] = IdleRequest /\ \A q \in Requests : q # p => request'[q] = request[q]
  BY IdleTypes, RequestUpdate
<1>2. SameCarriers
  BY <1>1, IdleTypes DEF SameCarriers, Carrying, Working
<1>3. RowsAgree'
  BY <1>1, IdleTypes, RequestRows
<1>4. TypeOK'
  BY <1>1 DEF BatchInv, TypeOK, RequestState
<1> QED
  BY <1>1, <1>2, <1>3, <1>4, SameCarriersKeeps, SameRowsKeep DEF BatchInv

(* The library was not reserved, so nobody carries a run for it. *)
LEMMA NobodyCarries ==
    ASSUME BatchInv, NEW l \in Libs, queued[l] = 0
    PROVE  /\ \A q \in Requests : Carrying(q) => request[q].lib \in Libs \ {l}
           /\ \A i \in 1..Len(jobs) : jobs[i][2] \in Libs \ {l}
           /\ Working => work.lib \in Libs \ {l}
<1>1. 0 \notin Runs
  BY Bounds DEF Runs
<1>2. \A q \in Requests : Carrying(q) => /\ request[q].run \in Runs /\ request[q].lib \in Libs
                                        /\ queued[request[q].lib] = request[q].run
  BY DEF BatchInv, Holding, CarriedRunsReserved, Carrying
<1>3. \A i \in 1..Len(jobs) : /\ jobs[i][1] \in Runs /\ jobs[i][2] \in Libs
                             /\ queued[jobs[i][2]] = jobs[i][1]
  BY Typed DEF BatchInv, CarriedRunsReserved
<1>4. Working => work.run \in Runs /\ work.lib \in Libs /\ queued[work.lib] = work.run
  BY DEF BatchInv, Holding, CarriedRunsReserved
<1> QED
  BY <1>1, <1>2, <1>3, <1>4

LEMMA ReservedCarriers ==
    ASSUME BatchInv, NEW p \in Requests, NEW l \in Libs, NEW r \in Runs, queued[l] = 0,
           \A m \in Libs : queued'[m] = IF m = l THEN r ELSE queued[m],
           \A m \in Libs : queued[m] # r,
           ~Carrying(p), Carrying(p)', request'[p].lib = l, request'[p].run = r,
           \A q \in Requests : q # p => request'[q] = request[q],
           UNCHANGED <<jobs, work, closing>>
    PROVE  CarriedRunsReserved' /\ CarriersApart' /\ ReservedMeansWorking'
<1>1. \A q \in Requests : q # p => (Carrying(q)' <=> Carrying(q))
  BY DEF Carrying
<1>2. Working' <=> Working
  BY DEF Working
<1>3. CarriedRunsReserved'
  <2>1. \A q \in Requests : Carrying(q)' => queued'[request'[q].lib] = request'[q].run
    <3>1. \A q \in Requests : Carrying(q) => queued'[request[q].lib] = request[q].run
      BY NobodyCarries DEF BatchInv, CarriedRunsReserved
    <3> QED
      BY <1>1, <3>1
  <2>2. \A i \in 1..Len(jobs) : queued'[jobs[i][2]] = jobs[i][1]
    BY NobodyCarries DEF BatchInv, CarriedRunsReserved
  <2>3. Working => queued'[work.lib] = work.run
    BY NobodyCarries DEF BatchInv, CarriedRunsReserved
  <2>4. \A i, j \in 1..Len(jobs) : jobs[i] = jobs[j] => i = j
    BY DEF BatchInv, CarriedRunsReserved
  <2> QED
    BY <1>2, <2>1, <2>2, <2>3, <2>4 DEF CarriedRunsReserved
<1>4. CarriersApart'
  <2>1. \A q, o \in Requests :
           Carrying(q)' /\ Carrying(o)' /\ request'[q].lib = request'[o].lib => q = o
    BY <1>1, NobodyCarries DEF BatchInv, CarriersApart
  <2>2. \A q \in Requests, i \in 1..Len(jobs) : Carrying(q)' => request'[q].lib # jobs[i][2]
    BY <1>1, NobodyCarries DEF BatchInv, CarriersApart
  <2>3. Working => \A q \in Requests : Carrying(q)' => request'[q].lib # work.lib
    BY <1>1, NobodyCarries DEF BatchInv, CarriersApart
  <2>4. \A m, n \in Libs : queued'[m] = queued'[n] /\ queued'[m] # 0 => m = n
    BY DEF BatchInv, CarriersApart
  <2>5. /\ \A i, j \in 1..Len(jobs) : jobs[i][2] = jobs[j][2] => i = j
        /\ Working => \A i \in 1..Len(jobs) : jobs[i][2] # work.lib
    BY DEF BatchInv, CarriersApart
  <2> QED
    BY <1>2, <2>1, <2>2, <2>3, <2>4, <2>5 DEF CarriersApart
<1>5. ReservedMeansWorking'
  <2> SUFFICES ASSUME ~closing, NEW m \in Libs, queued'[m] # 0
               PROVE  \/ \E q \in Requests : Carrying(q)' /\ request'[q].run = queued'[m]
                      \/ \E i \in 1..Len(jobs) : jobs[i][1] = queued'[m]
                      \/ Working /\ work.run = queued'[m]
    BY <1>2 DEF ReservedMeansWorking
  <2>1. CASE m = l
    BY <2>1
  <2>2. CASE m # l
    <3>1. queued[m] = queued'[m]
      BY <2>2
    <3>2. \A q \in Requests : Carrying(q) => Carrying(q)' /\ request'[q] = request[q]
      BY <1>1
    <3>3. \/ \E q \in Requests : Carrying(q) /\ request[q].run = queued[m]
          \/ \E i \in 1..Len(jobs) : jobs[i][1] = queued[m]
          \/ Working /\ work.run = queued[m]
      BY <3>1 DEF BatchInv, ReservedMeansWorking
    <3> QED
      BY <3>1, <3>2, <3>3
  <2> QED
    BY <2>1, <2>2
<1> QED
  BY <1>3, <1>4, <1>5

LEMMA ReservedKeeps ==
    ASSUME BatchInv, NEW p \in Requests, NEW r \in Runs, NEW total \in 0..MaxSeries,
           request[p].pc = "reserve", queued[request[p].lib] = 0, Fresh(r),
           queued' = [queued EXCEPT ![request[p].lib] = r],
           request' = [request EXCEPT ![p].pc = "insert", ![p].run = r, ![p].total = total],
           UNCHANGED <<libraries, row, jobs, work, stopped, closing, canceler, edits, restarts>>
    PROVE  BatchInv'
<1> DEFINE l == request[p].lib
           s == [request[p] EXCEPT !.pc = "insert", !.run = r, !.total = total]
<1>0. l \in Libs /\ r \in 0..MaxRuns
  BY Bounds DEF BatchInv, Holding, Runs
<1>1. s \in RequestState /\ s.pc = "insert" /\ s.run = r /\ s.lib = l
  BY <1>0, Typed DEF BatchInv, RequestState
<1>2. request' = [request EXCEPT ![p] = s]
  OBVIOUS
<1> HIDE DEF s
<1>3. /\ request' \in [Requests -> RequestState] /\ Holding'
      /\ request'[p] = s /\ \A q \in Requests : q # p => request'[q] = request[q]
  BY <1>0, <1>1, <1>2, RequestUpdate
<1>4. /\ queued' \in [Libs -> 0..MaxRuns]
      /\ \A m \in Libs : queued'[m] = IF m = l THEN r ELSE queued[m]
      /\ \A m \in Libs : queued[m] # r
  BY <1>0, Typed DEF BatchInv, Fresh
<1>5. ~Carrying(p) /\ Carrying(p)'
  BY <1>1, <1>3 DEF Carrying
<1>6. CarriedRunsReserved' /\ CarriersApart' /\ ReservedMeansWorking'
  BY <1>0, <1>1, <1>3, <1>4, <1>5, ReservedCarriers
<1>7. RowsAgree'
  BY <1>1, <1>3, RequestRows DEF Fresh
<1>8. TypeOK'
  BY <1>3, <1>4 DEF BatchInv, TypeOK, RequestState
<1> QED
  BY <1>3, <1>6, <1>7, <1>8, SameRowsKeep DEF BatchInv

LEMMA ReserveKeeps ==
    ASSUME BatchInv, NEW p \in Requests, Reserve(p)
    PROVE  BatchInv'
<1>1. CASE queued[request[p].lib] # 0
  <2>1. ~Carrying(p)
    BY DEF Reserve, Carrying
  <2> QED
    BY <1>1, <2>1, RefusedKeeps DEF Reserve, bounds
<1>2. CASE queued[request[p].lib] = 0
  <2>1. PICK r \in Runs, total \in 0..MaxSeries :
           /\ Fresh(r)
           /\ queued' = [queued EXCEPT ![request[p].lib] = r]
           /\ request' = [request EXCEPT ![p].pc = "insert", ![p].run = r, ![p].total = total]
    BY <1>2 DEF Reserve, NewID
  <2>2. request[p].pc = "reserve"
    BY DEF Reserve
  <2>3. UNCHANGED <<libraries, row, jobs, work, stopped, closing, canceler, edits, restarts>>
    BY DEF Reserve, bounds
  <2> QED
    BY <1>2, <2>1, <2>2, <2>3, ReservedKeeps
<1> QED
  BY <1>1, <1>2

(* The INSERT: no one else's row. *)
LEMMA OtherRowKeeps ==
    ASSUME BatchInv, NEW r \in Runs, Working => work.run # r,
           \A q \in Runs : q # r => row'[q] = row[q],
           UNCHANGED <<work, stopped>>, closing => closing'
    PROVE  WorkAgrees' /\ StopHitsOwnRun' /\ WorkAddsUp'
<1>1. Working => row'[work.run] = row[work.run]
  BY DEF BatchInv, Holding
<1>2. WorkAgrees'
  BY <1>1 DEF BatchInv, WorkAgrees, ContextOver, Working
<1>3. StopHitsOwnRun' /\ WorkAddsUp'
  BY <1>1 DEF BatchInv, StopHitsOwnRun, WorkAddsUp, Working, Exists
<1> QED
  BY <1>2, <1>3

LEMMA InsertRunKeeps ==
    ASSUME BatchInv, NEW p \in Requests, InsertRun(p)
    PROVE  BatchInv'
<1> DEFINE r == request[p].run
           s == [request[p] EXCEPT !.pc = "readback"]
           n == [NoCounts EXCEPT !.total = request[p].total]
           x == [lib |-> request[p].lib, status |-> "queued", cancel |-> FALSE, n |-> n]
<1>0. Carrying(p) /\ request[p].pc = "insert"
  BY DEF InsertRun, Carrying
<1>1. s \in RequestState /\ s.pc = "readback" /\ s.run = r /\ s.lib = request[p].lib
  BY Typed DEF BatchInv, RequestState
<1>2. /\ request' = [request EXCEPT ![p] = s] /\ row' = [row EXCEPT ![r] = x]
      /\ UNCHANGED <<libraries, queued, jobs, work, stopped, closing, canceler, edits, restarts>>
  BY DEF InsertRun, mem, bounds
<1>3. request[p].total \in 0..MaxSeries
  BY Typed DEF BatchInv, RequestState
<1>4. n \in Counts /\ n.done = 0 /\ n.failed = 0 /\ n.total = request[p].total
  BY <1>3, IdleTypes DEF Counts
<1> HIDE DEF s, n
<1>5. x \in RowState /\ x.status = "queued" /\ x.n = n /\ r \in Runs
  BY <1>0, <1>4, RunOfRequest DEF RowState, Live
<1> HIDE DEF x
<1>6. /\ request' \in [Requests -> RequestState] /\ Holding'
      /\ request'[p] = s /\ \A q \in Requests : q # p => request'[q] = request[q]
  BY <1>0, <1>1, <1>2, <1>5, RunOfRequest, RequestUpdate
<1>7. row' \in [Runs -> RowState] /\ row'[r] = x /\ \A q \in Runs : q # r => row'[q] = row[q]
  BY <1>2, <1>5, Typed DEF BatchInv
<1>8. CarriedRunsReserved' /\ CarriersApart' /\ ReservedMeansWorking'
  <2>1. SameCarriers
    BY <1>0, <1>1, <1>2, <1>6 DEF SameCarriers, Carrying, Working
  <2> QED
    BY <2>1, SameCarriersKeeps
<1>9. row[r].status = "none"
  BY <1>0 DEF BatchInv, RowsAgree
<1> HIDE DEF r
<1>10. RowsAgree'
  <2>1. \A q \in Requests :
           /\ request'[q].pc = "insert" => row'[request'[q].run].status = "none"
           /\ request'[q].pc \in {"readback", "send"} => row'[request'[q].run].status \in {"queued", "gone"}
    <3> SUFFICES ASSUME NEW q \in Requests
                 PROVE  /\ request'[q].pc = "insert" => row'[request'[q].run].status = "none"
                        /\ request'[q].pc \in {"readback", "send"} => row'[request'[q].run].status \in {"queued", "gone"}
      OBVIOUS
    <3>1. CASE q = p
      BY <1>1, <1>5, <1>6, <1>7, <3>1
    <3>2. CASE q # p
      <4>1. request'[q] = request[q] /\ (Carrying(q) => request[q].run \in Runs /\ request[q].run # r)
        BY <1>0, <1>6, <3>2, RunOfRequest DEF BatchInv, Holding, r
      <4> QED
        BY <1>7, <4>1 DEF BatchInv, RowsAgree, Carrying
    <3> QED
      BY <3>1, <3>2
  <2>2. \A i \in 1..Len(jobs) : jobs[i][1] \in Runs /\ jobs[i][1] # r
    BY <1>0, Typed, RunOfRequest DEF BatchInv, r
  <2>3. \A i \in 1..Len(jobs) : row'[jobs[i][1]].status \in {"queued", "gone"}
    BY <1>7, <2>2 DEF BatchInv, RowsAgree
  <2>4. \A q \in Runs : row'[q].status = "none" => row'[q] = NoRow
    BY <1>5, <1>7 DEF BatchInv, RowsAgree
  <2>5. \A c \in Cancelers : canceler[c].pc = "marked" => row'[canceler[c].run] = row[canceler[c].run]
    BY <1>7, <1>9 DEF BatchInv, Holding, RowsAgree, CancelsAgree
  <2>6. CancelsAgree'
    BY <1>2, <2>5 DEF BatchInv, RowsAgree, CancelsAgree, Exists
  <2> QED
    BY <1>2, <2>1, <2>3, <2>4, <2>6 DEF RowsAgree
<1>11. Working => work.run # r
  BY <1>0, RunOfRequest DEF r
<1>12. WorkAgrees' /\ StopHitsOwnRun' /\ WorkAddsUp'
  BY <1>2, <1>5, <1>7, <1>11, OtherRowKeeps
<1>13. CountsAgree' /\ ResultsAddUp'
  <2>1. 0 <= n.total
    BY <1>4 DEF Counts
  <2>2. CountsAgree'
    BY <1>4, <1>5, <1>7, <2>1 DEF BatchInv, CountsAgree
  <2>3. ResultsAddUp'
    BY <1>5, <1>7 DEF BatchInv, ResultsAddUp
  <2> QED
    BY <2>2, <2>3
<1>14. TypeOK'
  BY <1>2, <1>6, <1>7 DEF BatchInv, TypeOK, RequestState, RowState
<1> QED
  BY <1>6, <1>8, <1>10, <1>12, <1>13, <1>14 DEF BatchInv

LEMMA ReadBackKeeps ==
    ASSUME BatchInv, NEW p \in Requests, ReadBack(p)
    PROVE  BatchInv'
<1> DEFINE s == [request[p] EXCEPT !.pc = "send"]
<1>0. Carrying(p) /\ request[p].pc = "readback"
  BY DEF ReadBack, Carrying
<1>1. s \in RequestState /\ s.pc = "send" /\ s.run = request[p].run /\ s.lib = request[p].lib
  BY Typed DEF BatchInv, RequestState
<1>2. /\ request' = [request EXCEPT ![p] = s]
      /\ UNCHANGED <<libraries, row, queued, jobs, work, stopped, closing, canceler, edits, restarts>>
  BY DEF ReadBack, mem, bounds
<1> HIDE DEF s
<1>3. /\ request' \in [Requests -> RequestState] /\ Holding'
      /\ request'[p] = s /\ \A q \in Requests : q # p => request'[q] = request[q]
  BY <1>0, <1>1, <1>2, RunOfRequest, RequestUpdate
<1>4. SameCarriers
  BY <1>0, <1>1, <1>2, <1>3 DEF SameCarriers, Carrying, Working
<1>5. row[s.run].status \in {"queued", "gone"}
  BY <1>0, <1>1 DEF BatchInv, RowsAgree
<1>6. RowsAgree'
  BY <1>1, <1>2, <1>3, <1>5, RequestRows
<1>7. TypeOK'
  BY <1>2, <1>3 DEF BatchInv, TypeOK, RequestState
<1> QED
  BY <1>2, <1>3, <1>4, <1>6, <1>7, SameCarriersKeeps, SameRowsKeep DEF BatchInv

(* The run goes from the request to the channel. *)
LEMMA SentCarriers ==
    ASSUME BatchInv, NEW p \in Requests, NEW k, k = Len(jobs) + 1, Carrying(p), ~Carrying(p)',
           \A q \in Requests : q # p => request'[q] = request[q],
           Len(jobs') = k, \A i \in 1..Len(jobs) : jobs'[i] = jobs[i],
           jobs'[k][1] = request[p].run, jobs'[k][2] = request[p].lib,
           UNCHANGED <<queued, work, closing>>
    PROVE  CarriedRunsReserved' /\ CarriersApart' /\ ReservedMeansWorking'
<1>0. Len(jobs) \in Nat /\ k \in 1..k /\ \A i \in 1..k : i = k \/ i \in 1..Len(jobs)
  BY Typed DEF BatchInv
<1>1. \A q \in Requests : Carrying(q)' => q # p /\ Carrying(q) /\ request'[q] = request[q]
  BY DEF Carrying
<1>2. \A q \in Requests : q # p /\ Carrying(q) => Carrying(q)' /\ request'[q] = request[q]
  BY DEF Carrying
<1>3. Working' <=> Working
  BY DEF Working
<1>4. CarriedRunsReserved'
  <2>1. \A i \in 1..k : queued[jobs'[i][2]] = jobs'[i][1]
    BY <1>0, RunOfRequest DEF BatchInv, CarriedRunsReserved
  <2>2. \A i, j \in 1..k : jobs'[i] = jobs'[j] => i = j
    BY <1>0, RunOfRequest DEF BatchInv, CarriedRunsReserved
  <2>3. \A q \in Requests : Carrying(q)' => queued[request'[q].lib] = request'[q].run
    BY <1>1 DEF BatchInv, CarriedRunsReserved
  <2>4. Working => queued[work.lib] = work.run
    BY DEF BatchInv, CarriedRunsReserved
  <2> QED
    BY <1>3, <2>1, <2>2, <2>3, <2>4 DEF CarriedRunsReserved
<1>5. CarriersApart'
  <2>1. \A q, o \in Requests :
           Carrying(q)' /\ Carrying(o)' /\ request'[q].lib = request'[o].lib => q = o
    BY <1>1 DEF BatchInv, CarriersApart
  <2>2. \A i, j \in 1..k : jobs'[i][2] = jobs'[j][2] => i = j
    BY <1>0, RunOfRequest DEF BatchInv, CarriersApart
  <2>3. \A q \in Requests, i \in 1..k : Carrying(q)' => request'[q].lib # jobs'[i][2]
    <3>1. \A q \in Requests, i \in 1..Len(jobs) : Carrying(q) => request[q].lib # jobs[i][2]
      BY DEF BatchInv, CarriersApart
    <3>2. \A q \in Requests : Carrying(q) /\ q # p => request[q].lib # request[p].lib
      BY DEF BatchInv, CarriersApart
    <3> QED
      BY <1>0, <1>1, <3>1, <3>2
  <2>4. Working => /\ \A q \in Requests : Carrying(q)' => request'[q].lib # work.lib
                   /\ \A i \in 1..k : jobs'[i][2] # work.lib
    BY <1>0, <1>1 DEF BatchInv, CarriersApart
  <2>5. \A l, m \in Libs : queued[l] = queued[m] /\ queued[l] # 0 => l = m
    BY DEF BatchInv, CarriersApart
  <2> QED
    BY <1>3, <2>1, <2>2, <2>3, <2>4, <2>5 DEF CarriersApart
<1>6. ReservedMeansWorking'
  <2> SUFFICES ASSUME ~closing, NEW m \in Libs, queued[m] # 0
               PROVE  \/ \E q \in Requests : Carrying(q)' /\ request'[q].run = queued[m]
                      \/ \E i \in 1..k : jobs'[i][1] = queued[m]
                      \/ Working /\ work.run = queued[m]
    BY <1>3 DEF ReservedMeansWorking
  <2>1. \/ \E q \in Requests : Carrying(q) /\ request[q].run = queued[m]
        \/ \E i \in 1..Len(jobs) : jobs[i][1] = queued[m]
        \/ Working /\ work.run = queued[m]
    BY DEF BatchInv, ReservedMeansWorking
  <2>2. CASE \E q \in Requests : Carrying(q) /\ request[q].run = queued[m]
    BY <1>0, <1>2, <2>2
  <2>3. CASE \E i \in 1..Len(jobs) : jobs[i][1] = queued[m]
    BY <1>0, <2>3
  <2> QED
    BY <2>1, <2>2, <2>3
<1> QED
  BY <1>4, <1>5, <1>6

LEMMA SendJobKeeps ==
    ASSUME BatchInv, NEW p \in Requests, SendJob(p)
    PROVE  BatchInv'
<1> DEFINE j == <<request[p].run, request[p].lib>>
           k == Len(jobs) + 1
<1>0. Carrying(p) /\ request[p].pc = "send" /\ Len(jobs) < ChanCap
  BY DEF SendJob, Carrying
<1>1. request[p].run \in Runs /\ request[p].lib \in Libs /\ row[request[p].run].status \in {"queued", "gone"}
  BY <1>0, RunOfRequest DEF BatchInv, RowsAgree
<1>2. /\ request' = [request EXCEPT ![p] = IdleRequest] /\ jobs' = Append(jobs, j)
      /\ UNCHANGED <<libraries, row, queued, work, stopped, closing, canceler, edits, restarts>>
  BY DEF SendJob, bounds
<1>3. /\ jobs' \in Seq(Runs \X Libs) /\ Len(jobs') = k /\ Len(jobs) \in Nat
      /\ jobs'[k] = j /\ \A i \in 1..Len(jobs) : jobs'[i] = jobs[i]
  BY <1>1, <1>2, Typed DEF BatchInv
<1>4. /\ request' \in [Requests -> RequestState] /\ Holding'
      /\ request'[p] = IdleRequest /\ \A q \in Requests : q # p => request'[q] = request[q]
  BY <1>2, IdleTypes, RequestUpdate
<1>5. ~Carrying(p)' /\ request'[p].pc = "idle"
  BY <1>4, IdleTypes DEF Carrying
<1>6. CarriedRunsReserved' /\ CarriersApart' /\ ReservedMeansWorking'
  BY <1>0, <1>2, <1>3, <1>4, <1>5, SentCarriers
<1>7. RowsAgree'
  <2>1. \A i \in 1..k : i \in 1..Len(jobs) \/ i = k
    BY <1>3
  <2>2. \A i \in 1..k : row[jobs'[i][1]].status \in {"queued", "gone"}
    BY <1>1, <1>3, <2>1 DEF BatchInv, RowsAgree
  <2>3. \A q \in Requests : request'[q].pc \in {"insert", "readback", "send"} => request'[q] = request[q]
    BY <1>4, <1>5
  <2>4. CancelsAgree'
    BY <1>2 DEF BatchInv, RowsAgree, CancelsAgree, Exists
  <2> QED
    BY <1>2, <1>3, <2>2, <2>3, <2>4 DEF BatchInv, RowsAgree
<1>8. TypeOK'
  <2>1. Len(jobs') <= ChanCap
    BY <1>0, <1>3, Bounds
  <2> QED
    BY <1>2, <1>3, <1>4, <2>1 DEF BatchInv, TypeOK, RequestState
<1> QED
  BY <1>2, <1>4, <1>6, <1>7, <1>8, SameRowsKeep DEF BatchInv

(* One who carried a run lets go of it and gives back the reservation, or, *)
(* as the process is closing, keeps it.                                    *)
LEMMA LetGoCarriers ==
    ASSUME BatchInv, NEW p \in Requests, Carrying(p), ~Carrying(p)',
           \A q \in Requests : q # p => request'[q] = request[q],
           \/ \A m \in Libs : queued'[m] = IF m = request[p].lib THEN 0 ELSE queued[m]
           \/ closing /\ UNCHANGED queued,
           UNCHANGED <<jobs, work, closing>>
    PROVE  CarriedRunsReserved' /\ CarriersApart' /\ ReservedMeansWorking'
<1>1. \A q \in Requests : Carrying(q)' => q # p /\ Carrying(q) /\ request'[q] = request[q]
  BY DEF Carrying
<1>2. \A q \in Requests : q # p /\ Carrying(q) => Carrying(q)' /\ request'[q] = request[q]
  BY DEF Carrying
<1>3. Working' <=> Working
  BY DEF Working
<1>4. \A m \in Libs : m # request[p].lib => queued'[m] = queued[m]
  OBVIOUS
<1>5. CarriedRunsReserved'
  <2>1. \A q \in Requests : Carrying(q)' => queued'[request'[q].lib] = request'[q].run
    <3>1. \A q \in Requests : Carrying(q) /\ q # p =>
             /\ request[q].lib \in Libs /\ request[q].lib # request[p].lib
             /\ queued[request[q].lib] = request[q].run
      BY RunOfRequest
    <3> QED
      BY <1>1, <1>4, <3>1
  <2>2. \A i \in 1..Len(jobs) : queued'[jobs[i][2]] = jobs[i][1]
    BY <1>4, Typed, RunOfRequest DEF BatchInv, CarriedRunsReserved
  <2>3. Working => queued'[work.lib] = work.run
    BY <1>4, RunOfWork, RunOfRequest
  <2>4. \A i, j \in 1..Len(jobs) : jobs[i] = jobs[j] => i = j
    BY DEF BatchInv, CarriedRunsReserved
  <2> QED
    BY <1>3, <2>1, <2>2, <2>3, <2>4 DEF CarriedRunsReserved
<1>6. CarriersApart'
  <2>1. \A l, m \in Libs : queued'[l] = queued'[m] /\ queued'[l] # 0 => l = m
    BY DEF BatchInv, CarriersApart
  <2>2. /\ \A q, o \in Requests :
              Carrying(q)' /\ Carrying(o)' /\ request'[q].lib = request'[o].lib => q = o
        /\ \A q \in Requests, i \in 1..Len(jobs) : Carrying(q)' => request'[q].lib # jobs[i][2]
        /\ Working => \A q \in Requests : Carrying(q)' => request'[q].lib # work.lib
    BY <1>1 DEF BatchInv, CarriersApart
  <2>3. /\ \A i, j \in 1..Len(jobs) : jobs[i][2] = jobs[j][2] => i = j
        /\ Working => \A i \in 1..Len(jobs) : jobs[i][2] # work.lib
    BY DEF BatchInv, CarriersApart
  <2> QED
    BY <1>3, <2>1, <2>2, <2>3 DEF CarriersApart
<1>7. ReservedMeansWorking'
  <2> SUFFICES ASSUME ~closing, NEW m \in Libs, queued'[m] # 0
               PROVE  \/ \E q \in Requests : Carrying(q)' /\ request'[q].run = queued'[m]
                      \/ \E i \in 1..Len(jobs) : jobs[i][1] = queued'[m]
                      \/ Working /\ work.run = queued'[m]
    BY <1>3 DEF ReservedMeansWorking
  <2>1. m # request[p].lib /\ queued'[m] = queued[m]
    OBVIOUS
  <2>2. queued[m] # request[p].run
    BY <2>1, RunOfRequest DEF BatchInv, CarriersApart
  <2>3. \/ \E q \in Requests : Carrying(q) /\ request[q].run = queued[m]
        \/ \E i \in 1..Len(jobs) : jobs[i][1] = queued[m]
        \/ Working /\ work.run = queued[m]
    BY <2>1 DEF BatchInv, ReservedMeansWorking
  <2> QED
    BY <1>2, <2>1, <2>2, <2>3
<1> QED
  BY <1>5, <1>6, <1>7

LEMMA StartFailsKeeps ==
    ASSUME BatchInv, NEW p \in Requests, StartFails(p)
    PROVE  BatchInv'
<1>1. Carrying(p)
  BY DEF StartFails, Carrying
<1>2. /\ request' = [request EXCEPT ![p] = IdleRequest]
      /\ UNCHANGED <<libraries, row, jobs, work, stopped, closing, canceler, edits, restarts>>
  BY DEF StartFails, bounds
<1>3. /\ request' \in [Requests -> RequestState] /\ Holding'
      /\ request'[p] = IdleRequest /\ \A q \in Requests : q # p => request'[q] = request[q]
  BY <1>2, IdleTypes, RequestUpdate
<1>4. ~Carrying(p)' /\ request'[p].pc = "idle"
  BY <1>3, IdleTypes DEF Carrying
<1>5. \/ queued' = [queued EXCEPT ![request[p].lib] = 0]
      \/ closing /\ UNCHANGED queued
  BY DEF StartFails
<1>6. request[p].lib \in Libs /\ 0 \in 0..MaxRuns
  BY <1>1, Bounds, RunOfRequest
<1>7. /\ queued' \in [Libs -> 0..MaxRuns]
      /\ \/ \A m \in Libs : queued'[m] = IF m = request[p].lib THEN 0 ELSE queued[m]
         \/ closing /\ UNCHANGED queued
  BY <1>5, <1>6, Typed DEF BatchInv
<1>8. CarriedRunsReserved' /\ CarriersApart' /\ ReservedMeansWorking'
  BY <1>1, <1>2, <1>3, <1>4, <1>7, LetGoCarriers
<1>9. RowsAgree'
  BY <1>2, <1>3, <1>4, RequestRows
<1>10. TypeOK'
  BY <1>2, <1>3, <1>7 DEF BatchInv, TypeOK, RequestState
<1> QED
  BY <1>2, <1>3, <1>8, <1>9, <1>10, SameRowsKeep DEF BatchInv

-----------------------------------------------------------------------------
(* Cancels, libraries that come and go, and the end of the process.        *)

(* Rows are marked or removed; no result is written. *)
RowsFade ==
    \A r \in Runs :
       /\ row'[r].n = row[r].n
       /\ row[r].cancel => row'[r].cancel
       /\ row[r].status = "none" => row'[r] = row[r]
       /\ row'[r].status = row[r].status \/ (row'[r].status = "gone" /\ row[r].status # "none")

LEMMA FadeKeeps ==
    ASSUME BatchInv, RowsFade, CancelsAgree',
           UNCHANGED <<queued, jobs, work, stopped, request>>, closing => closing'
    PROVE  /\ CarriedRunsReserved' /\ CarriersApart' /\ ReservedMeansWorking'
           /\ RowsAgree' /\ WorkAgrees' /\ StopHitsOwnRun'
           /\ CountsAgree' /\ WorkAddsUp' /\ ResultsAddUp'
<1>1. CarriedRunsReserved' /\ CarriersApart' /\ ReservedMeansWorking'
  <2>1. SameCarriers
    BY DEF SameCarriers, Carrying, Working
  <2> QED
    BY <2>1, SameCarriersKeeps
<1>2. RowsAgree'
  <2>1. \A r \in Runs : row'[r].status = "none" => row'[r] = NoRow
    BY DEF BatchInv, RowsAgree, RowsFade
  <2>2. \A p \in Requests :
           /\ request[p].pc = "insert" => row'[request[p].run].status = "none"
           /\ request[p].pc \in {"readback", "send"} => row'[request[p].run].status \in {"queued", "gone"}
    BY DEF BatchInv, Holding, Carrying, RowsAgree, RowsFade
  <2>3. \A i \in 1..Len(jobs) : row'[jobs[i][1]].status \in {"queued", "gone"}
    BY Typed DEF BatchInv, RowsAgree, RowsFade
  <2> QED
    BY <2>1, <2>2, <2>3 DEF RowsAgree
<1>3. Working => work.run \in Runs
  BY DEF BatchInv, Holding
<1>4. WorkAgrees'
  BY <1>3 DEF BatchInv, WorkAgrees, Working, ContextOver, RowsFade
<1>5. StopHitsOwnRun'
  BY <1>3 DEF BatchInv, StopHitsOwnRun, Working, Exists, RowsFade
<1>6. CountsAgree' /\ WorkAddsUp' /\ ResultsAddUp'
  <2>1. CountsAgree'
    BY DEF BatchInv, CountsAgree, RowsFade
  <2>2. ResultsAddUp'
    BY DEF BatchInv, CountsAgree, ResultsAddUp, RowsFade
  <2>3. WorkAddsUp'
    BY DEF BatchInv, WorkAddsUp
  <2> QED
    BY <2>1, <2>2, <2>3
<1> QED
  BY <1>1, <1>2, <1>4, <1>5, <1>6

LEMMA MarkCancelKeeps ==
    ASSUME BatchInv, NEW c \in Cancelers, NEW r \in Runs, MarkCancel(c, r)
    PROVE  BatchInv'
<1> DEFINE k == [pc |-> "marked", run |-> r]
           x == [row[r] EXCEPT !.cancel = TRUE]
<1>1. /\ canceler' = [canceler EXCEPT ![c] = k] /\ row' = [row EXCEPT ![r] = x]
      /\ row[r].status \in Live
      /\ UNCHANGED <<libraries, queued, jobs, work, stopped, closing, request, edits, restarts>>
  BY DEF MarkCancel, mem, bounds
<1>2. x \in RowState /\ x.cancel = TRUE /\ x.n = row[r].n /\ x.status = row[r].status
  BY Typed DEF BatchInv, RowState
<1>3. k \in CancelState /\ k.pc = "marked" /\ k.run = r
  BY Bounds DEF CancelState, Runs
<1> HIDE DEF k, x
<1>4. row' \in [Runs -> RowState] /\ row'[r] = x /\ \A q \in Runs : q # r => row'[q] = row[q]
  BY <1>1, <1>2, Typed DEF BatchInv
<1>5. canceler' \in [Cancelers -> CancelState] /\ canceler'[c] = k /\ \A d \in Cancelers : d # c => canceler'[d] = canceler[d]
  BY <1>1, <1>3, Typed DEF BatchInv
<1>6. RowsFade
  BY <1>1, <1>2, <1>4 DEF RowsFade, Live
<1>7. CancelsAgree'
  <2>1. row'[r].status # "none" /\ row'[r].cancel
    BY <1>1, <1>2, <1>4 DEF Live
  <2>2. \A d \in Cancelers : canceler[d].pc = "marked" =>
           /\ canceler[d].run \in Runs /\ row[canceler[d].run].status # "none"
           /\ row[canceler[d].run].cancel \/ ~Exists(canceler[d].run)
    BY DEF BatchInv, Holding, RowsAgree, CancelsAgree
  <2>3. \A d \in Cancelers : d # c /\ canceler[d].pc = "marked" =>
           /\ row'[canceler[d].run].status # "none"
           /\ row'[canceler[d].run].cancel \/ row'[canceler[d].run].status \in {"none", "gone"}
    <3> SUFFICES ASSUME NEW d \in Cancelers, canceler[d].pc = "marked"
                 PROVE  /\ row'[canceler[d].run].status # "none"
                        /\ row'[canceler[d].run].cancel \/ row'[canceler[d].run].status \in {"none", "gone"}
      OBVIOUS
    <3>1. CASE canceler[d].run = r
      BY <2>1, <3>1
    <3>2. CASE canceler[d].run # r
      <4>1. row'[canceler[d].run] = row[canceler[d].run]
        BY <1>4, <2>2, <3>2
      <4> QED
        BY <2>2, <4>1 DEF Exists
    <3> QED
      BY <3>1, <3>2
  <2> SUFFICES ASSUME NEW d \in Cancelers, canceler'[d].pc = "marked"
               PROVE  /\ row'[canceler'[d].run].status # "none"
                      /\ row'[canceler'[d].run].cancel \/ row'[canceler'[d].run].status \in {"none", "gone"}
    BY DEF CancelsAgree, Exists
  <2>4. CASE d = c
    BY <1>3, <1>5, <2>1, <2>4
  <2>5. CASE d # c
    BY <1>5, <2>3, <2>5 DEF Exists
  <2> QED
    BY <2>4, <2>5
<1>8. Holding'
  BY <1>1, <1>3, <1>5 DEF BatchInv, Holding, Carrying, Working
<1>9. TypeOK'
  BY <1>1, <1>4, <1>5 DEF BatchInv, TypeOK, RowState, CancelState
<1> QED
  BY <1>1, <1>6, <1>7, <1>8, <1>9, FadeKeeps DEF BatchInv

LEMMA StopActiveKeeps ==
    ASSUME BatchInv, NEW c \in Cancelers, StopActive(c)
    PROVE  BatchInv'
<1>1. /\ canceler' = [canceler EXCEPT ![c] = IdleCancel] /\ canceler[c].pc = "marked"
      /\ stopped' = (stopped \/ (Working /\ work.run = canceler[c].run))
      /\ UNCHANGED <<libraries, row, queued, jobs, work, closing, request, edits, restarts>>
  BY DEF StopActive, bounds, Working
<1>2. /\ canceler' \in [Cancelers -> CancelState] /\ canceler'[c].pc = "idle"
      /\ \A d \in Cancelers : d # c => canceler'[d] = canceler[d]
  BY <1>1, IdleTypes, Typed DEF BatchInv
<1>3. StopHitsOwnRun'
  <2>1. row[canceler[c].run].cancel \/ ~Exists(canceler[c].run)
    BY <1>1 DEF BatchInv, RowsAgree, CancelsAgree
  <2> QED
    BY <1>1, <2>1 DEF BatchInv, StopHitsOwnRun, Working, Exists
<1>4. WorkAgrees' /\ WorkAddsUp' /\ CountsAgree' /\ ResultsAddUp'
  <2>1. ContextOver => ContextOver'
    BY <1>1 DEF ContextOver
  <2>2. WorkAgrees'
    BY <1>1, <2>1 DEF BatchInv, WorkAgrees
  <2>3. WorkAddsUp' /\ CountsAgree' /\ ResultsAddUp'
    BY <1>1 DEF BatchInv, WorkAddsUp, CountsAgree, ResultsAddUp
  <2> QED
    BY <2>2, <2>3
<1>5. CancelsAgree' /\ RowsAgree' /\ Holding'
  <2>1. CancelsAgree'
    BY <1>1, <1>2 DEF BatchInv, RowsAgree, CancelsAgree, Exists
  <2>2. RowsAgree'
    BY <1>1, <2>1 DEF BatchInv, RowsAgree
  <2>3. Holding'
    BY <1>1, <1>2 DEF BatchInv, Holding, Carrying, Working
  <2> QED
    BY <2>1, <2>2, <2>3
<1>6. CarriedRunsReserved' /\ CarriersApart' /\ ReservedMeansWorking'
  <2>1. SameCarriers
    BY <1>1 DEF SameCarriers, Carrying, Working
  <2> QED
    BY <2>1, SameCarriersKeeps
<1>7. TypeOK'
  <2>1. stopped' \in BOOLEAN
    BY <1>1 DEF BatchInv, TypeOK
  <2> QED
    BY <1>1, <1>2, <2>1 DEF BatchInv, TypeOK, CancelState
<1> QED
  BY <1>3, <1>4, <1>5, <1>6, <1>7 DEF BatchInv

LEMMA DeleteLibraryKeeps ==
    ASSUME BatchInv, NEW l \in Libs, DeleteLibrary(l)
    PROVE  BatchInv'
<1>1. /\ row' = [r \in Runs |-> IF row[r].lib = l THEN [row[r] EXCEPT !.status = "gone"] ELSE row[r]]
      /\ libraries' \subseteq Libs /\ edits < MaxEdits /\ edits' = edits + 1
      /\ UNCHANGED <<queued, jobs, work, stopped, closing, request, canceler, restarts>>
  BY DEF DeleteLibrary, mem, calls, BatchInv, TypeOK
<1>2. \A r \in Runs : /\ row'[r] \in RowState /\ row'[r].n = row[r].n /\ row'[r].cancel = row[r].cancel
                     /\ IF row[r].lib = l THEN row'[r].status = "gone" ELSE row'[r] = row[r]
  BY <1>1, Typed, ZenonT(30) DEF BatchInv, RowState
<1>3. \A r \in Runs : row[r].lib = l => row[r].status # "none"
  BY Bounds DEF BatchInv, RowsAgree, NoRow
<1>4. RowsFade
  BY <1>2, <1>3 DEF RowsFade
<1>5. CancelsAgree'
  <2>1. \A c \in Cancelers : canceler[c].pc = "marked" =>
           /\ canceler[c].run \in Runs /\ row[canceler[c].run].status # "none"
           /\ row[canceler[c].run].cancel \/ ~Exists(canceler[c].run)
    BY DEF BatchInv, Holding, RowsAgree, CancelsAgree
  <2> QED
    BY <1>1, <1>2, <2>1 DEF CancelsAgree, Exists
<1>6. Holding'
  BY <1>1 DEF BatchInv, Holding, Carrying, Working
<1>7. TypeOK'
  <2>1. edits' \in 0..MaxEdits
    BY <1>1, Bounds DEF BatchInv, TypeOK
  <2>2. row' \in [Runs -> RowState]
    BY <1>1, <1>2
  <2> QED
    BY <1>1, <2>1, <2>2 DEF BatchInv, TypeOK, RowState
<1> QED
  BY <1>1, <1>4, <1>5, <1>6, <1>7, FadeKeeps DEF BatchInv

(* A step that changes nothing but what only TypeOK is about, or ends the  *)
(* context.                                                                *)
LEMMA OutsideKeeps ==
    ASSUME BatchInv, closing => closing', TypeOK',
           UNCHANGED <<row, queued, jobs, work, stopped, request, canceler>>
    PROVE  BatchInv'
<1>1. RowsFade
  BY DEF RowsFade
<1>2. CancelsAgree'
  BY DEF BatchInv, RowsAgree, CancelsAgree, Exists
<1>3. Holding'
  BY DEF BatchInv, Holding, Carrying, Working
<1> QED
  BY <1>1, <1>2, <1>3, FadeKeeps DEF BatchInv

LEMMA CreateLibraryKeeps ==
    ASSUME BatchInv, NEW l \in Libs, CreateLibrary(l)
    PROVE  BatchInv'
<1>1. /\ libraries' = libraries \cup {l} /\ edits < MaxEdits /\ edits' = edits + 1
      /\ UNCHANGED <<row, queued, jobs, work, stopped, closing, request, canceler, restarts>>
  BY DEF CreateLibrary, mem, calls
<1>2. edits' \in 0..MaxEdits
  BY <1>1, Bounds DEF BatchInv, TypeOK
<1>3. TypeOK'
  BY <1>1, <1>2 DEF BatchInv, TypeOK
<1> QED
  BY <1>1, <1>3, OutsideKeeps

LEMMA CloseKeeps ==
    ASSUME BatchInv, Close
    PROVE  BatchInv'
<1>1. UNCHANGED <<libraries, row, queued, jobs, work, stopped, request, canceler, edits, restarts>> /\ closing'
  BY DEF Close, mem, calls, bounds
<1>2. TypeOK'
  BY <1>1 DEF BatchInv, TypeOK, Close
<1> QED
  BY <1>1, <1>2, OutsideKeeps

LEMMA StutterKeeps ==
    ASSUME BatchInv, UNCHANGED vars
    PROVE  BatchInv'
<1>1. UNCHANGED <<libraries, row, queued, jobs, work, stopped, closing, request, canceler, edits, restarts>>
  BY DEF vars, mem, calls, bounds
<1>2. TypeOK'
  BY <1>1 DEF BatchInv, TypeOK
<1> QED
  BY <1>1, <1>2, OutsideKeeps

LEMMA RestartKeeps ==
    ASSUME BatchInv, Restart
    PROVE  BatchInv'
<1>1. /\ row' = [r \in Runs |-> Repaired(r)] /\ queued' = [l \in Libs |-> 0] /\ jobs' = <<>>
      /\ work' = IdleWorker /\ stopped' = FALSE /\ closing' = FALSE
      /\ request' = [p \in Requests |-> IdleRequest] /\ canceler' = [c \in Cancelers |-> IdleCancel]
      /\ libraries' = libraries /\ edits' = edits /\ restarts < MaxRestarts /\ restarts' = restarts + 1
  BY DEF Restart
<1>2. \A r \in Runs :
         /\ row'[r] \in RowState /\ row'[r].n = row[r].n /\ row'[r].status \notin Live
         /\ row'[r] = row[r] \/ row'[r].status = "failed"
  <2> SUFFICES ASSUME NEW r \in Runs
               PROVE  /\ row'[r] \in RowState /\ row'[r].n = row[r].n /\ row'[r].status \notin Live
                      /\ row'[r] = row[r] \/ row'[r].status = "failed"
    OBVIOUS
  <2>1. row[r] \in RowState /\ row'[r] = Repaired(r)
    BY <1>1, Typed DEF BatchInv
  <2>2. CASE row[r].status \in Live
    BY <2>1, <2>2 DEF Repaired, RowState, Live, Terminal
  <2>3. CASE row[r].status \notin Live
    BY <2>1, <2>3 DEF Repaired
  <2> QED
    BY <2>2, <2>3
<1>3. /\ \A p \in Requests : request'[p] = IdleRequest
      /\ \A c \in Cancelers : canceler'[c] = IdleCancel
      /\ \A l \in Libs : queued'[l] = 0
      /\ Len(jobs') = 0 /\ jobs' \in Seq(Runs \X Libs)
  BY <1>1
<1>4. TypeOK'
  <2>1. restarts' \in 0..MaxRestarts
    BY <1>1, Bounds DEF BatchInv, TypeOK
  <2>2. row' \in [Runs -> RowState] /\ request' \in [Requests -> RequestState] /\ canceler' \in [Cancelers -> CancelState]
        /\ work' \in WorkerState
    BY <1>1, <1>2, IdleTypes
  <2>3. queued' \in [Libs -> 0..MaxRuns] /\ Len(jobs') <= ChanCap
    BY <1>1, <1>3, Bounds
  <2> QED
    BY <1>1, <1>3, <2>1, <2>2, <2>3 DEF BatchInv, TypeOK, RowState, RequestState, CancelState, WorkerState
<1>5. ~Working' /\ work'.pc = "idle" /\ \A p \in Requests : ~Carrying(p)' /\ request'[p].pc = "idle"
  BY <1>1, <1>3, IdleTypes DEF Working, Carrying
<1>6. Holding'
  BY <1>3, <1>5, IdleTypes DEF Holding
<1>7. CarriedRunsReserved' /\ CarriersApart' /\ ReservedMeansWorking'
  BY <1>3, <1>5 DEF CarriedRunsReserved, CarriersApart, ReservedMeansWorking
<1>8. RowsAgree'
  <2>1. CancelsAgree'
    BY <1>3, IdleTypes DEF CancelsAgree
  <2>2. \A r \in Runs : row'[r].status = "none" => row'[r] = NoRow
    BY <1>2 DEF BatchInv, RowsAgree
  <2> QED
    BY <1>3, <1>5, <2>1, <2>2 DEF RowsAgree
<1>9. WorkAgrees' /\ StopHitsOwnRun' /\ WorkAddsUp'
  BY <1>1, <1>5 DEF WorkAgrees, StopHitsOwnRun, WorkAddsUp
<1>10. CountsAgree'
  BY <1>2 DEF BatchInv, CountsAgree, Live
<1>11. ResultsAddUp'
  BY <1>2, <1>10 DEF BatchInv, CountsAgree, ResultsAddUp
<1> QED
  BY <1>4, <1>6, <1>7, <1>8, <1>9, <1>10, <1>11 DEF BatchInv

-----------------------------------------------------------------------------
(* The worker.                                                             *)

LEMMA TakenCarriers ==
    ASSUME BatchInv, Len(jobs) # 0, ~Working, Working', work'.run = jobs[1][1], work'.lib = jobs[1][2],
           Len(jobs') = Len(jobs) - 1, \A i \in 1..Len(jobs') : jobs'[i] = jobs[i + 1],
           UNCHANGED <<queued, request, closing>>
    PROVE  CarriedRunsReserved' /\ CarriersApart' /\ ReservedMeansWorking'
<1>0. Len(jobs) \in Nat \ {0} /\ Len(jobs') \in Nat /\ 1 \in 1..Len(jobs)
  BY Typed DEF BatchInv
<1>1. \A i \in 1..Len(jobs') : i + 1 \in 1..Len(jobs) /\ i + 1 # 1 /\ jobs'[i] = jobs[i + 1]
  BY <1>0
<1>2. \A q \in Requests : (Carrying(q)' <=> Carrying(q)) /\ request'[q] = request[q]
  BY DEF Carrying
<1>3. CarriedRunsReserved'
  <2>1. \A i \in 1..Len(jobs') : queued[jobs'[i][2]] = jobs'[i][1]
    BY <1>1 DEF BatchInv, CarriedRunsReserved
  <2>2. queued[jobs[1][2]] = jobs[1][1]
    BY <1>0 DEF BatchInv, CarriedRunsReserved
  <2>3. \A i, k \in 1..Len(jobs') : jobs'[i] = jobs'[k] => i = k
    BY <1>0, <1>1 DEF BatchInv, CarriedRunsReserved
  <2>4. \A q \in Requests : Carrying(q) => queued[request[q].lib] = request[q].run
    BY DEF BatchInv, CarriedRunsReserved
  <2> QED
    BY <1>2, <2>1, <2>2, <2>3, <2>4 DEF CarriedRunsReserved
<1>4. CarriersApart'
  <2>1. \A q, o \in Requests : Carrying(q) /\ Carrying(o) /\ request[q].lib = request[o].lib => q = o
    BY DEF BatchInv, CarriersApart
  <2>2. \A i, k \in 1..Len(jobs') : jobs'[i][2] = jobs'[k][2] => i = k
    BY <1>0, <1>1 DEF BatchInv, CarriersApart
  <2>3. \A q \in Requests, i \in 1..Len(jobs') : Carrying(q) => request[q].lib # jobs'[i][2]
    BY <1>1 DEF BatchInv, CarriersApart
  <2>4. \A q \in Requests : Carrying(q) => request[q].lib # jobs[1][2]
    BY <1>0 DEF BatchInv, CarriersApart
  <2>5. \A i \in 1..Len(jobs') : jobs'[i][2] # jobs[1][2]
    BY <1>0, <1>1 DEF BatchInv, CarriersApart
  <2>6. \A l, m \in Libs : queued[l] = queued[m] /\ queued[l] # 0 => l = m
    BY DEF BatchInv, CarriersApart
  <2> QED
    BY <1>2, <2>1, <2>2, <2>3, <2>4, <2>5, <2>6 DEF CarriersApart
<1>5. ReservedMeansWorking'
  <2> SUFFICES ASSUME ~closing, NEW m \in Libs, queued[m] # 0
               PROVE  \/ \E q \in Requests : Carrying(q) /\ request[q].run = queued[m]
                      \/ \E i \in 1..Len(jobs') : jobs'[i][1] = queued[m]
                      \/ Working' /\ work'.run = queued[m]
    BY <1>2 DEF ReservedMeansWorking
  <2>1. \/ \E q \in Requests : Carrying(q) /\ request[q].run = queued[m]
        \/ \E i \in 1..Len(jobs) : jobs[i][1] = queued[m]
    BY DEF BatchInv, ReservedMeansWorking
  <2>2. CASE \E i \in 1..Len(jobs) : jobs[i][1] = queued[m]
    <3>1. PICK i \in 1..Len(jobs) : jobs[i][1] = queued[m]
      BY <2>2
    <3>2. CASE i = 1
      BY <3>1, <3>2
    <3>3. CASE i # 1
      <4>1. i - 1 \in 1..Len(jobs') /\ (i - 1) + 1 = i
        BY <1>0, <3>3
      <4>2. jobs'[i - 1] = jobs[i]
        BY <1>1, <4>1
      <4> QED
        BY <3>1, <4>1, <4>2
    <3> QED
      BY <3>2, <3>3
  <2> QED
    BY <2>1, <2>2
<1> QED
  BY <1>3, <1>4, <1>5

LEMMA TakeJobKeeps ==
    ASSUME BatchInv, TakeJob
    PROVE  BatchInv'
<1> DEFINE w == [IdleWorker EXCEPT !.pc = "read", !.run = Head(jobs)[1], !.lib = Head(jobs)[2]]
<1>1. /\ ~Working /\ jobs # <<>> /\ work' = w /\ jobs' = Tail(jobs) /\ stopped' = FALSE
      /\ UNCHANGED <<libraries, row, queued, closing, request, canceler, edits, restarts>>
  BY DEF TakeJob, Working, calls, bounds
<1>2. /\ Len(jobs) \in Nat \ {0} /\ Len(jobs') = Len(jobs) - 1 /\ jobs' \in Seq(Runs \X Libs)
      /\ \A i \in 1..Len(jobs') : jobs'[i] = jobs[i + 1]
      /\ Head(jobs) = jobs[1]
  BY <1>1, Typed DEF BatchInv
<1>3. Head(jobs)[1] \in Runs /\ Head(jobs)[2] \in Libs
  BY <1>2, Typed DEF BatchInv
<1>4. Head(jobs)[1] \in 0..MaxRuns
  BY <1>3, Bounds DEF Runs
<1>5. w \in WorkerState /\ w.pc = "read" /\ w.run = jobs[1][1] /\ w.lib = jobs[1][2]
  BY <1>2, <1>3, <1>4, IdleTypes DEF WorkerState
<1> HIDE DEF w
<1>6. Working' /\ work'.run \in Runs /\ work'.lib \in Libs
  BY <1>1, <1>2, <1>3, <1>5 DEF Working
<1>7. CarriedRunsReserved' /\ CarriersApart' /\ ReservedMeansWorking'
  BY <1>1, <1>2, <1>5, <1>6, TakenCarriers
<1>8. row[jobs[1][1]].status \in {"queued", "gone"}
  BY <1>2 DEF BatchInv, RowsAgree
<1>9. Holding'
  BY <1>1, <1>6 DEF BatchInv, Holding, Carrying
<1>10. RowsAgree'
  <2>1. \A i \in 1..Len(jobs') : row[jobs'[i][1]].status \in {"queued", "gone"}
    BY <1>2 DEF BatchInv, RowsAgree
  <2>2. CancelsAgree'
    BY <1>1 DEF BatchInv, RowsAgree, CancelsAgree, Exists
  <2> QED
    BY <1>1, <2>1, <2>2 DEF BatchInv, RowsAgree
<1>11. WorkAgrees' /\ StopHitsOwnRun' /\ WorkAddsUp'
  BY <1>1, <1>5, <1>8 DEF WorkAgrees, StopHitsOwnRun, WorkAddsUp
<1>12. CountsAgree' /\ ResultsAddUp'
  BY <1>1 DEF BatchInv, CountsAgree, ResultsAddUp
<1>13. TypeOK'
  <2>1. Len(jobs') <= ChanCap
    BY <1>2, Bounds DEF BatchInv, TypeOK
  <2> QED
    BY <1>1, <1>2, <1>5, <2>1 DEF BatchInv, TypeOK, WorkerState
<1> QED
  BY <1>7, <1>9, <1>10, <1>11, <1>12, <1>13 DEF BatchInv

(* The worker writes its own row, and only if it is there. *)
OwnRowOnly ==
    /\ Working /\ work' \in WorkerState /\ work'.pc # "idle"
    /\ work'.run = work.run /\ work'.lib = work.lib
    /\ row' \in [Runs -> RowState]
    /\ \A r \in Runs : r # work.run => row'[r] = row[r]
    /\ \/ row'[work.run] = row[work.run]
       \/ /\ Exists(work.run) /\ row'[work.run].cancel = row[work.run].cancel
          /\ row'[work.run].status # "none"
    /\ UNCHANGED <<libraries, queued, jobs, stopped, closing, request, canceler, edits, restarts>>

LEMMA OwnRowKeeps ==
    ASSUME BatchInv, OwnRowOnly
    PROVE  /\ TypeOK' /\ Holding'
           /\ CarriedRunsReserved' /\ CarriersApart' /\ ReservedMeansWorking'
           /\ RowsAgree' /\ StopHitsOwnRun'
<1>0. Working /\ Working' /\ work'.run = work.run /\ work'.lib = work.lib /\ work.run \in Runs
  BY DEF BatchInv, OwnRowOnly, Holding, Working
<1>1. TypeOK'
  BY DEF BatchInv, OwnRowOnly, TypeOK, WorkerState, RowState
<1>2. Holding'
  BY <1>0 DEF BatchInv, OwnRowOnly, Holding, Carrying
<1>3. CarriedRunsReserved' /\ CarriersApart' /\ ReservedMeansWorking'
  <2>1. SameCarriers
    BY <1>0 DEF OwnRowOnly, SameCarriers, Carrying
  <2> QED
    BY <2>1, SameCarriersKeeps
<1>4. RowsAgree'
  <2>1. \A q \in Requests : Carrying(q) => row'[request[q].run] = row[request[q].run]
    BY <1>0, RunOfWork DEF BatchInv, Holding, OwnRowOnly
  <2>2. \A q \in Requests :
           /\ request[q].pc = "insert" => row'[request[q].run].status = "none"
           /\ request[q].pc \in {"readback", "send"} => row'[request[q].run].status \in {"queued", "gone"}
    BY <2>1 DEF BatchInv, RowsAgree, Carrying
  <2>3. \A i \in 1..Len(jobs) : row'[jobs[i][1]] = row[jobs[i][1]]
    BY <1>0, RunOfWork, Typed DEF BatchInv, OwnRowOnly
  <2>4. \A i \in 1..Len(jobs) : row'[jobs[i][1]].status \in {"queued", "gone"}
    BY <2>3 DEF BatchInv, RowsAgree
  <2>5. \A r \in Runs : row'[r].status = "none" => row'[r] = row[r]
    BY DEF OwnRowOnly
  <2>6. \A r \in Runs : row'[r].status = "none" => row'[r] = NoRow
    BY <2>5 DEF BatchInv, RowsAgree
  <2>7. CancelsAgree'
    <3> SUFFICES ASSUME NEW c \in Cancelers, canceler[c].pc = "marked"
                 PROVE  /\ row'[canceler[c].run].status # "none"
                        /\ row'[canceler[c].run].cancel \/ row'[canceler[c].run].status \in {"none", "gone"}
      BY DEF OwnRowOnly, CancelsAgree, Exists
    <3>1. /\ canceler[c].run \in Runs /\ row[canceler[c].run].status # "none"
          /\ row[canceler[c].run].cancel \/ ~Exists(canceler[c].run)
      BY DEF BatchInv, Holding, RowsAgree, CancelsAgree
    <3>2. CASE row'[canceler[c].run] = row[canceler[c].run]
      BY <3>1, <3>2 DEF Exists
    <3>3. CASE row'[canceler[c].run] # row[canceler[c].run]
      <4>1. /\ canceler[c].run = work.run /\ Exists(work.run)
            /\ row'[work.run].cancel = row[work.run].cancel /\ row'[work.run].status # "none"
        BY <3>1, <3>3, Zenon DEF OwnRowOnly
      <4> QED
        BY <3>1, <4>1
    <3> QED
      BY <3>2, <3>3
  <2> QED
    BY <2>2, <2>4, <2>6, <2>7 DEF OwnRowOnly, RowsAgree
<1>5. StopHitsOwnRun'
  <2> SUFFICES ASSUME stopped
               PROVE  row'[work.run].cancel \/ row'[work.run].status \in {"none", "gone"}
    BY <1>0 DEF OwnRowOnly, StopHitsOwnRun, Exists
  <2>1. row[work.run].cancel \/ ~Exists(work.run)
    BY DEF BatchInv, StopHitsOwnRun
  <2>2. CASE row'[work.run] = row[work.run]
    BY <2>1, <2>2 DEF Exists
  <2>3. CASE row'[work.run] # row[work.run]
    BY <2>1, <2>3, Zenon DEF OwnRowOnly
  <2> QED
    BY <2>2, <2>3
<1> QED
  BY <1>1, <1>2, <1>3, <1>4, <1>5

(* The step writes no row. *)
LEMMA NoRowWritten ==
    ASSUME BatchInv, Working, work' \in WorkerState, work'.pc # "idle",
           work'.run = work.run, work'.lib = work.lib,
           UNCHANGED <<libraries, row, queued, jobs, stopped, closing, request, canceler, edits, restarts>>,
           WorkAgrees', WorkAddsUp'
    PROVE  BatchInv'
<1>1. OwnRowOnly
  BY Typed DEF BatchInv, OwnRowOnly
<1>2. CountsAgree' /\ ResultsAddUp'
  BY DEF BatchInv, CountsAgree, ResultsAddUp
<1> QED
  BY <1>1, <1>2, OwnRowKeeps DEF BatchInv

(* execute comes to its end with outcome o. *)
LEMMA FinishKeeps ==
    ASSUME BatchInv, Working, NEW o \in Terminal, Finish(o),
           UNCHANGED <<libraries, row, queued, jobs, stopped, closing, request, canceler, edits, restarts>>,
           row[work.run].status \in {"queued", "running", "gone"},
           o \in {"success", "partial"} => row[work.run].status \in {"running", "gone"},
           work.n.done + work.n.failed <= work.n.total,
           o \in {"success", "partial"} => work.n.done + work.n.failed = work.n.total,
           o = "success" => work.n.failed = 0,
           o = "partial" => work.n.failed > 0
    PROVE  BatchInv'
<1> DEFINE w == [work EXCEPT !.pc = "finish", !.outcome = o]
<1>1. w \in WorkerState /\ w.pc = "finish" /\ w.run = work.run /\ w.lib = work.lib /\ w.n = work.n /\ w.outcome = o
  BY Typed DEF BatchInv, WorkerState
<1>2. work' = w
  BY DEF Finish
<1> HIDE DEF w
<1>3. WorkAgrees'
  BY <1>1, <1>2 DEF WorkAgrees
<1>4. WorkAddsUp'
  BY <1>1, <1>2 DEF WorkAddsUp
<1> QED
  BY <1>1, <1>2, <1>3, <1>4, NoRowWritten

LEMMA WorkCounts ==
    ASSUME BatchInv
    PROVE  /\ work \in WorkerState /\ work.n \in Counts /\ work.todo \in 0..MaxSeries
           /\ work.n.done \in Nat /\ work.n.failed \in Nat /\ work.n.total \in 0..MaxSeries
           /\ \A r \in Runs : /\ row[r] \in RowState /\ row[r].n \in Counts
                              /\ row[r].n.done \in Nat /\ row[r].n.failed \in Nat /\ row[r].n.total \in Nat
<1>1. work \in WorkerState /\ \A r \in Runs : row[r] \in RowState
  BY Typed DEF BatchInv
<1>2. work.n \in Counts /\ work.todo \in 0..MaxSeries /\ \A r \in Runs : row[r].n \in Counts
  BY <1>1 DEF WorkerState, RowState
<1> QED
  BY <1>1, <1>2, Bounds DEF Counts

LEMMA ReadRunKeeps ==
    ASSUME BatchInv, ReadRun
    PROVE  BatchInv'
<1>0. /\ Working /\ work.pc = "read" /\ work.run \in Runs
      /\ row[work.run].status \in {"queued", "gone"}
      /\ UNCHANGED <<libraries, row, queued, jobs, stopped, closing, request, canceler, edits, restarts>>
  BY DEF BatchInv, ReadRun, Working, Holding, WorkAgrees, calls, bounds
<1>1. CASE ContextOver \/ ~Exists(work.run)
  <2> DEFINE w == [work EXCEPT !.pc = "release"]
  <2>1. w \in WorkerState /\ w.pc = "release" /\ w.run = work.run /\ w.lib = work.lib
    BY WorkCounts DEF WorkerState
  <2>2. work' = w
    BY <1>1 DEF ReadRun, Goto
  <2> HIDE DEF w
  <2>3. WorkAgrees' /\ WorkAddsUp'
    BY <2>1, <2>2 DEF WorkAgrees, WorkAddsUp
  <2> QED
    BY <1>0, <2>1, <2>2, <2>3, NoRowWritten
<1>2. CASE ~ContextOver /\ Exists(work.run)
  <2> DEFINE c == row[work.run].cancel
             w == [work EXCEPT !.n = row[work.run].n, !.pc = IF c THEN "finish" ELSE "mark",
                               !.outcome = IF c THEN "canceled" ELSE "none"]
  <2>1. work' = w
    BY <1>2 DEF ReadRun
  <2>2. row[work.run].status = "queued" /\ row[work.run].n \in Counts
    BY <1>0, <1>2, WorkCounts DEF Exists
  <2>3. row[work.run].n.done = 0 /\ row[work.run].n.failed = 0 /\ row[work.run].n.total \in Nat
    BY <1>0, <2>2, WorkCounts DEF BatchInv, CountsAgree
  <2>4. /\ w \in WorkerState /\ w.run = work.run /\ w.lib = work.lib /\ w.n = row[work.run].n
        /\ w.pc \in {"finish", "mark"} /\ (w.pc = "finish" => w.outcome = "canceled")
    BY <2>2, WorkCounts DEF WorkerState, Terminal
  <2> HIDE DEF w
  <2>5. WorkAgrees'
    BY <1>0, <2>1, <2>2, <2>4 DEF WorkAgrees, Terminal
  <2>6. WorkAddsUp'
    BY <2>1, <2>3, <2>4 DEF WorkAddsUp
  <2> QED
    BY <1>0, <2>1, <2>4, <2>5, <2>6, NoRowWritten
<1> QED
  BY <1>1, <1>2

LEMMA MarkRunningKeeps ==
    ASSUME BatchInv, MarkRunning
    PROVE  BatchInv'
<1> DEFINE w == [work EXCEPT !.pc = "select"]
           x == [row[work.run] EXCEPT !.status = "running"]
<1>0. /\ Working /\ work.pc = "mark" /\ work.run \in Runs
      /\ row[work.run].status \in {"queued", "gone"}
      /\ work' = w
      /\ row' = IF ~ContextOver /\ Exists(work.run) THEN [row EXCEPT ![work.run] = x] ELSE row
      /\ UNCHANGED <<libraries, queued, jobs, stopped, closing, request, canceler, edits, restarts>>
  BY DEF BatchInv, MarkRunning, Goto, Working, Holding, WorkAgrees, calls, bounds
<1>1. w \in WorkerState /\ w.pc = "select" /\ w.run = work.run /\ w.lib = work.lib /\ w.n = work.n
  BY WorkCounts DEF WorkerState
<1>2. work.n.done = 0 /\ work.n.failed = 0
  BY <1>0 DEF BatchInv, WorkAddsUp
<1>3. x \in RowState /\ x.status = "running" /\ x.n = row[work.run].n /\ x.cancel = row[work.run].cancel
  BY <1>0, WorkCounts DEF RowState, Live
<1> HIDE DEF w, x
<1>4. WorkAddsUp'
  BY <1>0, <1>1, <1>2 DEF WorkAddsUp
<1>5. CASE ~ContextOver /\ Exists(work.run)
  <2>1. row' = [row EXCEPT ![work.run] = x]
    BY <1>0, <1>5
  <2>2. row' \in [Runs -> RowState] /\ row'[work.run] = x /\ \A q \in Runs : q # work.run => row'[q] = row[q]
    BY <1>0, <1>3, <2>1, Typed DEF BatchInv
  <2>3. OwnRowOnly
    BY <1>0, <1>1, <1>3, <1>5, <2>2 DEF OwnRowOnly
  <2>4. row[work.run].status = "queued"
    BY <1>0, <1>5 DEF Exists
  <2>5. row[work.run].n.done = 0 /\ row[work.run].n.failed = 0
    BY <1>0, <2>4 DEF BatchInv, CountsAgree
  <2>6. WorkAgrees'
    BY <1>0, <1>1, <1>3, <2>2, <2>5 DEF WorkAgrees
  <2>7. CountsAgree'
    BY <1>3, <2>2 DEF BatchInv, CountsAgree
  <2>8. ResultsAddUp'
    BY <1>3, <2>2, <2>7 DEF BatchInv, CountsAgree, ResultsAddUp
  <2> QED
    BY <1>4, <2>3, <2>6, <2>7, <2>8, OwnRowKeeps DEF BatchInv
<1>6. CASE ContextOver \/ ~Exists(work.run)
  <2>1. row' = row
    BY <1>0, <1>6
  <2>2. WorkAgrees'
    BY <1>0, <1>1, <1>6, <2>1 DEF WorkAgrees, Exists, ContextOver
  <2> QED
    BY <1>0, <1>1, <1>4, <2>1, <2>2, NoRowWritten
<1> QED
  BY <1>5, <1>6

LEMMA SelectSeriesKeeps ==
    ASSUME BatchInv, SelectSeries
    PROVE  BatchInv'
<1>0. /\ Working /\ work.pc = "select" /\ work.run \in Runs
      /\ work.n.done = 0 /\ work.n.failed = 0 /\ work.n.total \in Nat
      /\ UNCHANGED <<libraries, queued, jobs, stopped, closing, request, canceler, edits, restarts>>
  <2>1. /\ Working /\ work.pc = "select"
        /\ UNCHANGED <<libraries, queued, jobs, stopped, closing, request, canceler, edits, restarts>>
    BY DEF SelectSeries, Working, calls, bounds
  <2>2. work.run \in Runs
    BY <2>1 DEF BatchInv, Holding
  <2>3. work.n.done = 0 /\ work.n.failed = 0
    BY <2>1 DEF BatchInv, WorkAddsUp
  <2> QED
    BY <2>1, <2>2, <2>3, WorkCounts, SMTT(30)
<1>1. CASE ContextOver
  <2>1. Finish("failed") /\ row' = row /\ "failed" \in Terminal
    BY <1>1 DEF SelectSeries, Terminal
  <2>2. row[work.run].status \in {"queued", "running", "gone"}
    BY <1>0 DEF BatchInv, WorkAgrees
  <2>3. work.n.done + work.n.failed <= work.n.total
    BY <1>0
  <2> QED
    BY <1>0, <2>1, <2>2, <2>3, FinishKeeps
<1>2. CASE ~ContextOver
  <2>1. PICK k \in 0..MaxSeries :
           /\ work' = [work EXCEPT !.pc = "next", !.todo = k, !.n.total = k]
           /\ row' = IF Exists(work.run) THEN [row EXCEPT ![work.run].n.total = k] ELSE row
    BY <1>2 DEF SelectSeries
  <2> DEFINE n == [work.n EXCEPT !.total = k]
             w == [work EXCEPT !.pc = "next", !.todo = k, !.n = n]
             m == [row[work.run].n EXCEPT !.total = k]
             x == [row[work.run] EXCEPT !.n = m]
  <2>2. work' = w /\ row' = IF Exists(work.run) THEN [row EXCEPT ![work.run] = x] ELSE row
    BY <2>1
  <2>3. /\ n \in Counts /\ n.done = 0 /\ n.failed = 0 /\ n.total = k
        /\ m \in Counts /\ m.done = row[work.run].n.done /\ m.failed = row[work.run].n.failed /\ m.total = k
    BY <1>0, WorkCounts DEF Counts
  <2> HIDE DEF n, m
  <2>4. w \in WorkerState /\ w.pc = "next" /\ w.run = work.run /\ w.lib = work.lib /\ w.n = n /\ w.todo = k
    BY <2>3, WorkCounts DEF WorkerState
  <2>5. x \in RowState /\ x.status = row[work.run].status /\ x.n = m /\ x.cancel = row[work.run].cancel
    BY <1>0, <2>3, WorkCounts DEF RowState
  <2> HIDE DEF w, x
  <2>6. WorkAddsUp'
    BY <2>2, <2>3, <2>4 DEF WorkAddsUp
  <2>7. row[work.run].status \in {"running", "gone"}
    BY <1>0, <1>2 DEF BatchInv, WorkAgrees
  <2>8. CASE Exists(work.run)
    <3>1. row' \in [Runs -> RowState] /\ row'[work.run] = x /\ \A q \in Runs : q # work.run => row'[q] = row[q]
      BY <1>0, <2>2, <2>5, <2>8, Typed DEF BatchInv
    <3>2. OwnRowOnly
      BY <1>0, <2>2, <2>4, <2>5, <2>7, <2>8, <3>1 DEF OwnRowOnly
    <3>3. WorkAgrees'
      BY <2>2, <2>4, <2>5, <2>7, <3>1 DEF WorkAgrees
    <3>4. row[work.run].status = "running" /\ m.done = 0 /\ m.failed = 0 /\ m.total = k
      BY <1>0, <1>2, <2>3, <2>7, <2>8 DEF BatchInv, WorkAgrees, Exists
    <3>5. CountsAgree'
      BY <2>5, <3>1, <3>4 DEF BatchInv, CountsAgree
    <3>6. ResultsAddUp'
      BY <2>5, <3>1, <3>4, <3>5 DEF BatchInv, CountsAgree, ResultsAddUp
    <3> QED
      BY <2>6, <3>2, <3>3, <3>5, <3>6, OwnRowKeeps DEF BatchInv
  <2>9. CASE ~Exists(work.run)
    <3>1. row' = row
      BY <2>2, <2>9
    <3>2. WorkAgrees'
      BY <2>2, <2>4, <2>7, <3>1 DEF WorkAgrees
    <3> QED
      BY <1>0, <2>2, <2>4, <2>6, <3>1, <3>2, NoRowWritten
  <2> QED
    BY <2>8, <2>9, SMTT(30)
<1> QED
  BY <1>1, <1>2

LEMMA NextSeriesKeeps ==
    ASSUME BatchInv, NextSeries
    PROVE  BatchInv'
<1>0. /\ Working /\ work.pc = "next"
      /\ row[work.run].status \in {"running", "gone"}
      /\ work.n.done + work.n.failed + work.todo = work.n.total
      /\ UNCHANGED <<libraries, row, queued, jobs, stopped, closing, request, canceler, edits, restarts>>
  <2>1. /\ Working /\ work.pc = "next"
        /\ UNCHANGED <<libraries, row, queued, jobs, stopped, closing, request, canceler, edits, restarts>>
    BY DEF NextSeries, Working, calls, bounds
  <2>2. row[work.run].status \in {"running", "gone"}
    BY <2>1 DEF BatchInv, WorkAgrees
  <2>3. work.n.done + work.n.failed + work.todo = work.n.total
    BY <2>1 DEF BatchInv, WorkAddsUp
  <2> QED
    BY <2>1, <2>2, <2>3
<1>1. work.n.done + work.n.failed <= work.n.total
  BY <1>0, WorkCounts
<1>2. CASE work.todo = 0
  <2> DEFINE o == IF work.n.failed = 0 THEN "success" ELSE "partial"
  <2>1. Finish(o) /\ o \in Terminal
    BY <1>2 DEF NextSeries, Terminal
  <2>2. work.n.done + work.n.failed = work.n.total
    BY <1>0, <1>2, WorkCounts
  <2>3. (o = "success" => work.n.failed = 0) /\ (o = "partial" => work.n.failed > 0)
    BY WorkCounts
  <2> HIDE DEF o
  <2> QED
    BY <1>0, <1>1, <2>1, <2>2, <2>3, FinishKeeps
<1>3. CASE work.todo # 0 /\ ContextOver
  <2>1. Finish("canceled") /\ "canceled" \in Terminal
    BY <1>3 DEF NextSeries, Terminal
  <2> QED
    BY <1>0, <1>1, <2>1, FinishKeeps
<1>4. CASE work.todo # 0 /\ ~ContextOver
  <2> DEFINE w == [work EXCEPT !.pc = "ensure"]
  <2>1. work' = w
    BY <1>4 DEF NextSeries, Goto
  <2>2. /\ w \in WorkerState /\ w.pc = "ensure" /\ w.run = work.run /\ w.lib = work.lib
        /\ w.n = work.n /\ w.todo = work.todo
    BY WorkCounts DEF WorkerState
  <2> HIDE DEF w
  <2>3. WorkAgrees'
    BY <1>0, <2>1, <2>2 DEF WorkAgrees
  <2>4. WorkAddsUp'
    BY <1>0, <1>4, <2>1, <2>2, WorkCounts DEF WorkAddsUp
  <2> QED
    BY <1>0, <2>1, <2>2, <2>3, <2>4, NoRowWritten
<1> QED
  BY <1>2, <1>3, <1>4

(* What the worker knows in the middle of a series. *)
LEMMA AtSeries ==
    ASSUME BatchInv, work.pc \in {"ensure", "progress"}
    PROVE  /\ Working /\ work.run \in Runs /\ row[work.run].status \in {"running", "gone"}
           /\ work.n.done + work.n.failed + work.todo = work.n.total
           /\ work.n.done + work.n.failed <= work.n.total
           /\ work.pc = "ensure" => work.todo > 0
<1>1. Working
  BY DEF Working
<1>2. work.run \in Runs
  BY <1>1 DEF BatchInv, Holding
<1>3. row[work.run].status \in {"running", "gone"}
  BY DEF BatchInv, WorkAgrees
<1>4. work.n.done + work.n.failed + work.todo = work.n.total /\ (work.pc = "ensure" => work.todo > 0)
  BY DEF BatchInv, WorkAddsUp
<1>5. work.n.done + work.n.failed <= work.n.total
  BY <1>4, WorkCounts
<1> QED
  BY <1>1, <1>2, <1>3, <1>4, <1>5

LEMMA CanceledKeeps ==
    ASSUME BatchInv, work.pc \in {"ensure", "progress"}, Finish("canceled"),
           UNCHANGED <<libraries, row, queued, jobs, stopped, closing, request, canceler, edits, restarts>>
    PROVE  BatchInv'
<1>1. "canceled" \in Terminal
  BY DEF Terminal
<1> QED
  BY <1>1, AtSeries, FinishKeeps

LEMMA CountedKeeps ==
    ASSUME BatchInv, work.pc = "ensure", NEW o \in {"done", "failed"}, Counted(o),
           UNCHANGED <<libraries, row, queued, jobs, stopped, closing, request, canceler, edits, restarts>>
    PROVE  BatchInv'
<1> DEFINE n == [work.n EXCEPT ![o] = @ + 1]
           t == work.todo - 1
           w == [work EXCEPT !.pc = "progress", !.todo = t, !.n = n]
<1>1. work' = w
  BY DEF Counted
<1>2. n \in Counts /\ t \in 0..MaxSeries /\ n.done + n.failed + t = n.total
  <2>1. /\ work.n.done + work.n.failed + work.todo = work.n.total /\ work.todo > 0
        /\ work.n.done \in 0..MaxSeries /\ work.n.failed \in 0..MaxSeries /\ work.n.total \in 0..MaxSeries
    BY AtSeries, WorkCounts DEF Counts
  <2>2. t \in 0..MaxSeries
    BY <2>1, WorkCounts, Bounds
  <2>3. CASE o = "done"
    <3>1. n.done = work.n.done + 1 /\ n.failed = work.n.failed /\ n.total = work.n.total
      BY <2>3, WorkCounts DEF Counts
    <3>2. work.n.done + 1 \in 0..MaxSeries
      BY <2>1, WorkCounts, Bounds
    <3>3. n \in Counts
      BY <2>3, <3>2, WorkCounts DEF Counts
    <3>4. n.done + n.failed + t = n.total
      BY <2>1, <3>1, WorkCounts
    <3> QED
      BY <2>2, <3>3, <3>4
  <2>4. CASE o = "failed"
    <3>1. n.done = work.n.done /\ n.failed = work.n.failed + 1 /\ n.total = work.n.total
      BY <2>4, WorkCounts DEF Counts
    <3>2. work.n.failed + 1 \in 0..MaxSeries
      BY <2>1, WorkCounts, Bounds
    <3>3. n \in Counts
      BY <2>4, <3>2, WorkCounts DEF Counts
    <3>4. n.done + n.failed + t = n.total
      BY <2>1, <3>1, WorkCounts
    <3> QED
      BY <2>2, <3>3, <3>4
  <2> QED
    BY <2>3, <2>4
<1> HIDE DEF n, t
<1>3. /\ w \in WorkerState /\ w.pc = "progress" /\ w.run = work.run /\ w.lib = work.lib
      /\ w.n = n /\ w.todo = t
  BY <1>2, WorkCounts DEF WorkerState
<1> HIDE DEF w
<1>4. WorkAgrees'
  BY <1>1, <1>3, AtSeries DEF WorkAgrees
<1>5. WorkAddsUp'
  BY <1>1, <1>2, <1>3 DEF WorkAddsUp
<1> QED
  BY <1>1, <1>3, <1>4, <1>5, AtSeries, NoRowWritten

LEMMA EnsureKeeps ==
    ASSUME BatchInv, EnsureCover \/ EnsureSharesCanceledFlight
    PROVE  BatchInv'
<1>1. /\ work.pc = "ensure"
      /\ UNCHANGED <<libraries, row, queued, jobs, stopped, closing, request, canceler, edits, restarts>>
  BY DEF EnsureCover, EnsureSharesCanceledFlight, calls, bounds
<1>2. Finish("canceled") \/ \E o \in {"done", "failed"} : Counted(o)
  BY DEF EnsureCover, EnsureSharesCanceledFlight
<1> QED
  BY <1>1, <1>2, CanceledKeeps, CountedKeeps

LEMMA UpdateProgressKeeps ==
    ASSUME BatchInv, UpdateProgress
    PROVE  BatchInv'
<1>0. /\ work.pc = "progress"
      /\ UNCHANGED <<libraries, queued, jobs, stopped, closing, request, canceler, edits, restarts>>
  BY DEF UpdateProgress, calls, bounds
<1>1. CASE ~ContextOver /\ Exists(work.run) /\ ~row[work.run].cancel
  <2> DEFINE w == [work EXCEPT !.pc = "next"]
             x == [row[work.run] EXCEPT !.n = work.n]
  <2>1. work' = w /\ row' = [row EXCEPT ![work.run] = x]
    BY <1>1 DEF UpdateProgress, Goto
  <2>2. /\ w \in WorkerState /\ w.pc = "next" /\ w.run = work.run /\ w.lib = work.lib
        /\ w.n = work.n /\ w.todo = work.todo
    BY WorkCounts DEF WorkerState
  <2>3. x \in RowState /\ x.status = row[work.run].status /\ x.n = work.n /\ x.cancel = row[work.run].cancel
    BY <1>0, AtSeries, WorkCounts DEF RowState
  <2> HIDE DEF w, x
  <2>4. row' \in [Runs -> RowState] /\ row'[work.run] = x /\ \A q \in Runs : q # work.run => row'[q] = row[q]
    BY <1>0, <2>1, <2>3, AtSeries, Typed DEF BatchInv
  <2>5. OwnRowOnly
    BY <1>0, <1>1, <2>1, <2>2, <2>3, <2>4, AtSeries DEF OwnRowOnly
  <2>6. WorkAgrees'
    BY <1>0, <2>1, <2>2, <2>3, <2>4, AtSeries DEF WorkAgrees
  <2>7. WorkAddsUp'
    BY <1>0, <2>1, <2>2, AtSeries DEF WorkAddsUp
  <2>8. CountsAgree'
    BY <1>0, <2>3, <2>4, AtSeries DEF BatchInv, CountsAgree
  <2>9. ResultsAddUp'
    BY <1>0, <2>3, <2>4, <2>8, AtSeries DEF BatchInv, CountsAgree, ResultsAddUp
  <2> QED
    BY <2>5, <2>6, <2>7, <2>8, <2>9, OwnRowKeeps DEF BatchInv
<1>2. CASE ~(~ContextOver /\ Exists(work.run) /\ ~row[work.run].cancel)
  <2>1. Finish("canceled") /\ UNCHANGED row
    BY <1>2 DEF UpdateProgress
  <2> QED
    BY <1>0, <2>1, CanceledKeeps
<1> QED
  BY <1>1, <1>2

LEMMA FinishRunKeeps ==
    ASSUME BatchInv, FinishRun
    PROVE  BatchInv'
<1> DEFINE w == [work EXCEPT !.pc = "release", !.todo = 0, !.n = NoCounts]
           x == [row[work.run] EXCEPT !.status = work.outcome, !.n = work.n]
<1>0. /\ Working /\ work.pc = "finish" /\ work' = w
      /\ UNCHANGED <<libraries, queued, jobs, stopped, closing, request, canceler, edits, restarts>>
  BY DEF FinishRun, Working, calls, bounds
<1>1. (Exists(work.run) /\ row' = [row EXCEPT ![work.run] = x]) \/ row' = row
  BY DEF FinishRun
<1>2. work.run \in Runs /\ work.outcome \in Terminal /\ row[work.run].status \in {"queued", "running", "gone"}
  BY <1>0 DEF BatchInv, Holding, WorkAgrees
<1>3. /\ work.n.done + work.n.failed <= work.n.total
      /\ work.outcome \in {"success", "partial"} => work.n.done + work.n.failed = work.n.total
      /\ work.outcome = "success" => work.n.failed = 0
      /\ work.outcome = "partial" => work.n.failed > 0
  BY <1>0 DEF BatchInv, WorkAddsUp
<1>4. w \in WorkerState /\ w.pc = "release" /\ w.run = work.run /\ w.lib = work.lib
  <2>1. work \in WorkerState /\ NoCounts \in Counts /\ 0 \in 0..MaxSeries
    BY IdleTypes, Bounds, WorkCounts
  <2> QED
    BY <2>1 DEF WorkerState
<1>5. x \in RowState /\ x.status = work.outcome /\ x.n = work.n /\ x.cancel = row[work.run].cancel
  <2>1. row[work.run] \in RowState /\ work.n \in Counts
    BY <1>2, WorkCounts
  <2> QED
    BY <1>2, <2>1 DEF RowState
<1> HIDE DEF w, x
<1>6. WorkAgrees' /\ WorkAddsUp'
  BY <1>0, <1>4 DEF WorkAgrees, WorkAddsUp
<1>7. CASE row' = row
  BY <1>0, <1>4, <1>6, <1>7, NoRowWritten
<1>8. CASE Exists(work.run) /\ row' = [row EXCEPT ![work.run] = x]
  <2>1. row' \in [Runs -> RowState] /\ row'[work.run] = x /\ \A q \in Runs : q # work.run => row'[q] = row[q]
    BY <1>2, <1>5, <1>8, Typed DEF BatchInv
  <2>2. x.status \notin {"none", "queued"}
    BY <1>2, <1>5 DEF Terminal
  <2>3. OwnRowOnly
    BY <1>0, <1>4, <1>5, <1>8, <2>1, <2>2 DEF OwnRowOnly
  <2>4. CountsAgree'
    BY <1>3, <1>5, <2>1, <2>2 DEF BatchInv, CountsAgree
  <2>5. ResultsAddUp'
    BY <1>3, <1>5, <2>1, <2>2 DEF BatchInv, ResultsAddUp
  <2> QED
    BY <1>6, <2>3, <2>4, <2>5, OwnRowKeeps DEF BatchInv
<1> QED
  BY <1>1, <1>7, <1>8

LEMMA ReleasedCarriers ==
    ASSUME BatchInv, Working, ~Working',
           \A m \in Libs : queued'[m] = IF m = work.lib THEN 0 ELSE queued[m],
           UNCHANGED <<jobs, request, closing>>
    PROVE  CarriedRunsReserved' /\ CarriersApart' /\ ReservedMeansWorking'
<1>1. \A q \in Requests : (Carrying(q)' <=> Carrying(q)) /\ request'[q] = request[q]
  BY DEF Carrying
<1>2. \A q \in Requests : Carrying(q) =>
         /\ request[q].lib \in Libs /\ request[q].lib # work.lib /\ queued[request[q].lib] = request[q].run
  BY RunOfRequest, RunOfWork
<1>3. CarriedRunsReserved'
  <2>1. \A i \in 1..Len(jobs) : queued'[jobs[i][2]] = jobs[i][1]
    BY Typed, RunOfWork DEF BatchInv, CarriedRunsReserved
  <2>2. \A i, j \in 1..Len(jobs) : jobs[i] = jobs[j] => i = j
    BY DEF BatchInv, CarriedRunsReserved
  <2> QED
    BY <1>1, <1>2, <2>1, <2>2 DEF CarriedRunsReserved
<1>4. CarriersApart'
  <2>1. \A l, m \in Libs : queued'[l] = queued'[m] /\ queued'[l] # 0 => l = m
    BY DEF BatchInv, CarriersApart
  <2>2. /\ \A q, o \in Requests : Carrying(q) /\ Carrying(o) /\ request[q].lib = request[o].lib => q = o
        /\ \A i, j \in 1..Len(jobs) : jobs[i][2] = jobs[j][2] => i = j
        /\ \A q \in Requests, i \in 1..Len(jobs) : Carrying(q) => request[q].lib # jobs[i][2]
    BY DEF BatchInv, CarriersApart
  <2> QED
    BY <1>1, <2>1, <2>2 DEF CarriersApart
<1>5. ReservedMeansWorking'
  <2> SUFFICES ASSUME ~closing, NEW m \in Libs, queued'[m] # 0
               PROVE  \/ \E q \in Requests : Carrying(q) /\ request[q].run = queued'[m]
                      \/ \E i \in 1..Len(jobs) : jobs[i][1] = queued'[m]
    BY <1>1 DEF ReservedMeansWorking
  <2>1. m # work.lib /\ queued'[m] = queued[m]
    OBVIOUS
  <2>2. queued[m] # work.run
    BY <2>1, RunOfWork DEF BatchInv, CarriersApart
  <2> QED
    BY <2>1, <2>2 DEF BatchInv, ReservedMeansWorking
<1> QED
  BY <1>3, <1>4, <1>5

LEMMA ReleaseKeeps ==
    ASSUME BatchInv, Release
    PROVE  BatchInv'
<1>1. /\ Working /\ queued' = [queued EXCEPT ![work.lib] = 0] /\ work' = IdleWorker /\ stopped' = FALSE
      /\ UNCHANGED <<libraries, row, jobs, closing, request, canceler, edits, restarts>>
  BY DEF Release, Working, calls, bounds
<1>2. /\ queued' \in [Libs -> 0..MaxRuns]
      /\ \A m \in Libs : queued'[m] = IF m = work.lib THEN 0 ELSE queued[m]
  <2>1. 0 \in 0..MaxRuns
    BY Bounds
  <2> QED
    BY <1>1, <2>1, Typed DEF BatchInv
<1>3. ~Working' /\ work'.pc = "idle" /\ work' \in WorkerState
  BY <1>1, IdleTypes DEF Working
<1>4. CarriedRunsReserved' /\ CarriersApart' /\ ReservedMeansWorking'
  BY <1>1, <1>2, <1>3, ReleasedCarriers
<1>5. Holding'
  BY <1>1, <1>3 DEF BatchInv, Holding, Carrying
<1>6. RowsAgree'
  <2>1. CancelsAgree'
    BY <1>1 DEF BatchInv, RowsAgree, CancelsAgree, Exists
  <2> QED
    BY <1>1, <2>1 DEF BatchInv, RowsAgree
<1>7. WorkAgrees' /\ StopHitsOwnRun' /\ WorkAddsUp'
  BY <1>1, <1>3 DEF WorkAgrees, StopHitsOwnRun, WorkAddsUp
<1>8. CountsAgree' /\ ResultsAddUp'
  BY <1>1 DEF BatchInv, CountsAgree, ResultsAddUp
<1>9. TypeOK'
  BY <1>1, <1>2, <1>3 DEF BatchInv, TypeOK, WorkerState
<1> QED
  BY <1>4, <1>5, <1>6, <1>7, <1>8, <1>9 DEF BatchInv

-----------------------------------------------------------------------------
(* The theorems.                                                           *)

LEMMA NextInv == BatchInv /\ [Next]_vars => BatchInv'
<1> SUFFICES ASSUME BatchInv, [Next]_vars
             PROVE  BatchInv'
  OBVIOUS
<1>1. ASSUME NEW p \in Requests, RequestStep(p) PROVE BatchInv'
  BY <1>1, ReserveKeeps, InsertRunKeeps, ReadBackKeeps, SendJobKeeps, StartFailsKeeps DEF RequestStep
<1>2. ASSUME NEW p \in Requests, NEW l \in Libs, ReadLibrary(p, l) PROVE BatchInv'
  BY <1>2, ReadLibraryKeeps
<1>3. ASSUME NEW c \in Cancelers, StopActive(c) PROVE BatchInv'
  BY <1>3, StopActiveKeeps
<1>4. ASSUME NEW c \in Cancelers, NEW r \in Runs, MarkCancel(c, r) PROVE BatchInv'
  BY <1>4, MarkCancelKeeps
<1>5. CASE WorkerStep
  BY <1>5, TakeJobKeeps, ReadRunKeeps, MarkRunningKeeps, SelectSeriesKeeps, NextSeriesKeeps, EnsureKeeps,
     UpdateProgressKeeps, FinishRunKeeps, ReleaseKeeps DEF WorkerStep
<1>6. ASSUME NEW l \in Libs, DeleteLibrary(l) \/ CreateLibrary(l) PROVE BatchInv'
  BY <1>6, DeleteLibraryKeeps, CreateLibraryKeeps
<1>7. CASE Close \/ Restart \/ UNCHANGED vars
  BY <1>7, CloseKeeps, RestartKeeps, StutterKeeps
<1> QED
  BY <1>1, <1>2, <1>3, <1>4, <1>5, <1>6, <1>7 DEF Next

LEMMA AlwaysBatchInv == Spec => []BatchInv
BY InitInv, NextInv, PTL DEF Spec

(* Every variable of the cover batches keeps its type: the counters of a   *)
(* run stay within the library, the channel within its capacity.           *)
THEOREM TypeCorrect == Spec => []TypeOK
<1>1. BatchInv => TypeOK
  BY DEF BatchInv
<1> QED
  BY <1>1, AlwaysBatchInv, PTL

(* Two jobs for one library are never under way together: whoever carries  *)
(* a run carries the one BatchManager.queued holds for its library.        *)
THEOREM RunsReserved == Spec => []CarriedRunsReserved
<1>1. BatchInv => CarriedRunsReserved
  BY DEF BatchInv
<1> QED
  BY <1>1, AlwaysBatchInv, PTL

(* Until the process is told to stop, a reserved library has a job under   *)
(* way: no failing step of Start or execute leaves a reservation behind.   *)
THEOREM ReservationsWork == Spec => []ReservedMeansWorking
<1>1. BatchInv => ReservedMeansWorking
  BY DEF BatchInv
<1> QED
  BY <1>1, AlwaysBatchInv, PTL

(* Cancel ends the context of the job whose row it has marked, and of no   *)
(* other, though the worker may have gone on to the next in between.       *)
THEOREM StopsOwnRun == Spec => []StopHitsOwnRun
<1>1. BatchInv => StopHitsOwnRun
  BY DEF BatchInv
<1> QED
  BY <1>1, AlwaysBatchInv, PTL

(* The counters a finished run shows add up, whatever was canceled,        *)
(* deleted or restarted meanwhile.                                         *)
THEOREM TotalsAddUp == Spec => []ResultsAddUp
<1>1. BatchInv => ResultsAddUp
  BY DEF BatchInv
<1> QED
  BY <1>1, AlwaysBatchInv, PTL

-----------------------------------------------------------------------------
(* The rows live as RunLifecycle promises.                                 *)

(* What may become of one row in one step. *)
RowStep(r) ==
    \/ /\ row'[r].cancel = row[r].cancel
       /\ \/ row'[r].status = row[r].status
          \/ row[r].status = "none" /\ row'[r].status = "queued"
          \/ row[r].status = "queued" /\ row'[r].status = "running"
          \/ /\ row[r].status \in Live /\ row'[r].status \in Terminal
             /\ row'[r].status \in {"success", "partial"} => row[r].status = "running"
          \/ row[r].status # "none" /\ row'[r].status = "gone"
    \/ row[r].status \in Live /\ row'[r].status = row[r].status /\ row'[r].cancel = TRUE

LEMMA RowStepsLive ==
    ASSUME \A r \in Runs : RowStep(r)
    PROVE  Lifecycle!Next
<1> SUFFICES ASSUME NEW r \in Runs
             PROVE  \/ Lifecycle!Accept(r) \/ Lifecycle!Start(r) \/ Lifecycle!RequestCancel(r)
                    \/ Lifecycle!End(r) \/ Lifecycle!Remove(r) \/ Lifecycle!Rest(r)
  BY DEF Lifecycle!Next
<1>1. RowStep(r)
  OBVIOUS
<1> QED
  BY <1>1 DEF RowStep, Live, Terminal, Lifecycle!Accept, Lifecycle!Start, Lifecycle!RequestCancel,
     Lifecycle!End, Lifecycle!Remove, Lifecycle!Rest, Lifecycle!Live, Lifecycle!Terminal

LEMMA SameRowsLive ==
    ASSUME UNCHANGED row
    PROVE  \A r \in Runs : RowStep(r)
BY DEF RowStep

(* One row is replaced. *)
LEMMA OneRowLives ==
    ASSUME BatchInv, NEW r \in Runs, NEW x \in RowState, row' = [row EXCEPT ![r] = x], RowStep(r)
    PROVE  \A q \in Runs : RowStep(q)
<1> SUFFICES ASSUME NEW q \in Runs, q # r PROVE RowStep(q)
  OBVIOUS
<1>1. row'[q] = row[q]
  BY Typed DEF BatchInv
<1> QED
  BY <1>1 DEF RowStep

LEMMA InsertLives ==
    ASSUME BatchInv, NEW p \in Requests, InsertRun(p)
    PROVE  \A r \in Runs : RowStep(r)
<1> DEFINE n == [NoCounts EXCEPT !.total = request[p].total]
           x == [lib |-> request[p].lib, status |-> "queued", cancel |-> FALSE, n |-> n]
<1>1. Carrying(p) /\ request[p].pc = "insert" /\ row' = [row EXCEPT ![request[p].run] = x]
  BY DEF InsertRun, Carrying
<1>2. request[p].run \in Runs /\ request[p].lib \in Libs /\ request[p].total \in 0..MaxSeries
  BY <1>1, RunOfRequest, Typed DEF BatchInv, RequestState
<1>3. row[request[p].run] = NoRow
  BY <1>1, <1>2 DEF BatchInv, RowsAgree
<1>4. n \in Counts
  BY <1>2, IdleTypes DEF Counts
<1> HIDE DEF n
<1>5. x \in RowState /\ x.status = "queued" /\ x.cancel = FALSE
  BY <1>2, <1>4 DEF RowState, Live
<1> HIDE DEF x
<1>6. row'[request[p].run] = x
  BY <1>1, <1>2, Typed DEF BatchInv
<1>7. RowStep(request[p].run)
  <2>1. row[request[p].run].status = "none" /\ row[request[p].run].cancel = FALSE
    BY <1>3 DEF NoRow
  <2>2. /\ row'[request[p].run].status = "queued"
        /\ row'[request[p].run].cancel = row[request[p].run].cancel
    BY <1>5, <1>6, <2>1
  <2> QED
    BY <2>1, <2>2 DEF RowStep
<1> QED
  BY <1>1, <1>2, <1>5, <1>7, OneRowLives

LEMMA MarkCancelLives ==
    ASSUME BatchInv, NEW c \in Cancelers, NEW r \in Runs, MarkCancel(c, r)
    PROVE  \A q \in Runs : RowStep(q)
<1> DEFINE x == [row[r] EXCEPT !.cancel = TRUE]
<1>1. row' = [row EXCEPT ![r] = x] /\ row[r].status \in Live
  BY DEF MarkCancel
<1>2. x \in RowState /\ x.cancel = TRUE /\ x.status = row[r].status
  BY Typed DEF BatchInv, RowState
<1> HIDE DEF x
<1>3. row'[r] = x
  BY <1>1, Typed DEF BatchInv
<1>4. RowStep(r)
  BY <1>1, <1>2, <1>3 DEF RowStep
<1> QED
  BY <1>1, <1>2, <1>4, OneRowLives

LEMMA DeleteLives ==
    ASSUME BatchInv, NEW l \in Libs, DeleteLibrary(l)
    PROVE  \A r \in Runs : RowStep(r)
<1> SUFFICES ASSUME NEW r \in Runs PROVE RowStep(r)
  OBVIOUS
<1>1. row'[r] = IF row[r].lib = l THEN [row[r] EXCEPT !.status = "gone"] ELSE row[r]
  BY DEF DeleteLibrary
<1>2. row[r] \in RowState /\ (row[r].lib = l => row[r].status # "none")
  BY Typed, Bounds DEF BatchInv, RowsAgree, NoRow
<1> QED
  BY <1>1, <1>2 DEF RowStep, RowState

LEMMA RestartLives ==
    ASSUME BatchInv, Restart
    PROVE  \A r \in Runs : RowStep(r)
<1> SUFFICES ASSUME NEW r \in Runs PROVE RowStep(r)
  OBVIOUS
<1>1. row'[r] = Repaired(r) /\ row[r] \in RowState
  BY Typed DEF BatchInv, Restart
<1> QED
  BY <1>1 DEF RowStep, RowState, Repaired, Terminal

(* The worker's steps that leave the status of its row alone. *)
LEMMA CountsLive ==
    ASSUME BatchInv, Working, NEW n \in Counts, row' = [row EXCEPT ![work.run] = [row[work.run] EXCEPT !.n = n]]
    PROVE  \A r \in Runs : RowStep(r)
<1> DEFINE x == [row[work.run] EXCEPT !.n = n]
<1>1. work.run \in Runs /\ row[work.run] \in RowState
  BY WorkCounts DEF BatchInv, Holding
<1>2. x \in RowState /\ x.status = row[work.run].status /\ x.cancel = row[work.run].cancel
  BY <1>1 DEF RowState
<1>3. row' = [row EXCEPT ![work.run] = x]
  OBVIOUS
<1> HIDE DEF x
<1>4. row'[work.run] = x
  BY <1>1, <1>3, Typed DEF BatchInv
<1>5. RowStep(work.run)
  BY <1>2, <1>4 DEF RowStep
<1> QED
  BY <1>1, <1>2, <1>3, <1>5, OneRowLives

LEMMA SelectLives ==
    ASSUME BatchInv, SelectSeries
    PROVE  \A r \in Runs : RowStep(r)
<1>1. CASE UNCHANGED row
  BY <1>1, SameRowsLive
<1>2. CASE row' # row
  <2>1. PICK k \in 0..MaxSeries : row' = [row EXCEPT ![work.run].n.total = k]
    BY <1>2, ZenonT(30) DEF SelectSeries
  <2>2. Working /\ work.run \in Runs
    BY DEF BatchInv, Holding, SelectSeries, Working
  <2> DEFINE n == [row[work.run].n EXCEPT !.total = k]
  <2>3. n \in Counts
    BY <2>2, WorkCounts DEF Counts
  <2>4. row' = [row EXCEPT ![work.run] = [row[work.run] EXCEPT !.n = n]]
    BY <2>1
  <2> HIDE DEF n
  <2> QED
    BY <2>2, <2>3, <2>4, CountsLive
<1> QED
  BY <1>1, <1>2

LEMMA ProgressLives ==
    ASSUME BatchInv, UpdateProgress
    PROVE  \A r \in Runs : RowStep(r)
<1>1. CASE UNCHANGED row
  BY <1>1, SameRowsLive
<1>2. CASE row' # row
  <2>1. row' = [row EXCEPT ![work.run] = [row[work.run] EXCEPT !.n = work.n]] /\ Working
    BY <1>2 DEF UpdateProgress, Working
  <2> QED
    BY <2>1, WorkCounts, CountsLive
<1> QED
  BY <1>1, <1>2

LEMMA MarkLives ==
    ASSUME BatchInv, MarkRunning
    PROVE  \A r \in Runs : RowStep(r)
<1>1. CASE UNCHANGED row
  BY <1>1, SameRowsLive
<1>2. CASE row' # row
  <2> DEFINE x == [row[work.run] EXCEPT !.status = "running"]
  <2>1. row' = [row EXCEPT ![work.run] = x] /\ Exists(work.run) /\ work.pc = "mark" /\ Working
    BY <1>2 DEF MarkRunning, Working
  <2>2. work.run \in Runs /\ row[work.run].status = "queued"
    BY <2>1 DEF BatchInv, Holding, WorkAgrees, Exists
  <2>3. x \in RowState /\ x.status = "running" /\ x.cancel = row[work.run].cancel
    BY <2>2, WorkCounts DEF RowState, Live
  <2> HIDE DEF x
  <2>4. row'[work.run] = x
    BY <2>1, <2>2, Typed DEF BatchInv
  <2>5. RowStep(work.run)
    BY <2>2, <2>3, <2>4 DEF RowStep
  <2> QED
    BY <2>1, <2>2, <2>3, <2>5, OneRowLives
<1> QED
  BY <1>1, <1>2

LEMMA FinishLives ==
    ASSUME BatchInv, FinishRun
    PROVE  \A r \in Runs : RowStep(r)
<1>1. CASE UNCHANGED row
  BY <1>1, SameRowsLive
<1>2. CASE row' # row
  <2> DEFINE x == [row[work.run] EXCEPT !.status = work.outcome, !.n = work.n]
  <2>1. row' = [row EXCEPT ![work.run] = x] /\ Exists(work.run) /\ work.pc = "finish" /\ Working
    BY <1>2 DEF FinishRun, Working
  <2>2. /\ work.run \in Runs /\ row[work.run].status \in Live /\ work.outcome \in Terminal
        /\ work.outcome \in {"success", "partial"} => row[work.run].status = "running"
    BY <2>1 DEF BatchInv, Holding, WorkAgrees, Exists, Live
  <2>3. x \in RowState /\ x.status = work.outcome /\ x.cancel = row[work.run].cancel
    <3>1. row[work.run] \in RowState /\ work.n \in Counts
      BY <2>2, WorkCounts
    <3> QED
      BY <2>2, <3>1 DEF RowState
  <2> HIDE DEF x
  <2>4. row'[work.run] = x
    BY <2>1, <2>2, Typed DEF BatchInv
  <2>5. RowStep(work.run)
    BY <2>2, <2>3, <2>4 DEF RowStep
  <2> QED
    BY <2>1, <2>2, <2>3, <2>5, OneRowLives
<1> QED
  BY <1>1, <1>2

LEMMA InitLives == Init => Lifecycle!Init
<1> SUFFICES ASSUME Init PROVE Lifecycle!Init
  OBVIOUS
<1>1. \A r \in Runs : row[r].status = "none" /\ row[r].cancel = FALSE
  BY DEF Init, NoRow
<1>2. [r \in Runs |-> row[r].status] = [r \in Runs |-> "none"] /\ [r \in Runs |-> row[r].cancel] = [r \in Runs |-> FALSE]
  BY <1>1
<1> QED
  BY <1>2 DEF Lifecycle!Init

LEMMA NextLives == BatchInv /\ [Next]_vars => [Lifecycle!Next]_Lifecycle!lifecycle
<1> SUFFICES ASSUME BatchInv, [Next]_vars PROVE Lifecycle!Next
  OBVIOUS
<1> SUFFICES \A r \in Runs : RowStep(r)
  BY RowStepsLive
<1>1. ASSUME NEW p \in Requests, RequestStep(p) PROVE \A r \in Runs : RowStep(r)
  <2>1. CASE InsertRun(p)
    BY <2>1, InsertLives
  <2>2. CASE ~InsertRun(p)
    BY <1>1, <2>2, SameRowsLive DEF RequestStep, Reserve, ReadBack, SendJob, StartFails
  <2> QED
    BY <2>1, <2>2
<1>2. ASSUME NEW p \in Requests, NEW l \in Libs, ReadLibrary(p, l) PROVE UNCHANGED row
  BY <1>2 DEF ReadLibrary
<1>3. ASSUME NEW c \in Cancelers, StopActive(c) PROVE UNCHANGED row
  BY <1>3 DEF StopActive
<1>4. ASSUME NEW c \in Cancelers, NEW r \in Runs, MarkCancel(c, r) PROVE \A q \in Runs : RowStep(q)
  BY <1>4, MarkCancelLives
<1>5. CASE WorkerStep
  <2>1. CASE TakeJob \/ ReadRun \/ NextSeries \/ EnsureCover \/ EnsureSharesCanceledFlight \/ Release
    BY <2>1, SameRowsLive DEF TakeJob, ReadRun, NextSeries, EnsureCover, EnsureSharesCanceledFlight, Release
  <2>2. CASE MarkRunning \/ SelectSeries \/ UpdateProgress \/ FinishRun
    BY <2>2, MarkLives, SelectLives, ProgressLives, FinishLives
  <2> QED
    BY <1>5, <2>1, <2>2 DEF WorkerStep
<1>6. ASSUME NEW l \in Libs, DeleteLibrary(l) PROVE \A r \in Runs : RowStep(r)
  BY <1>6, DeleteLives
<1>7. CASE Restart
  BY <1>7, RestartLives
<1>8. ASSUME NEW l \in Libs, CreateLibrary(l) PROVE UNCHANGED row
  BY <1>8 DEF CreateLibrary
<1>9. CASE Close \/ UNCHANGED vars
  BY <1>9, SameRowsLive DEF Close, vars
<1> QED
  BY <1>1, <1>2, <1>3, <1>4, <1>5, <1>6, <1>7, <1>8, <1>9, SameRowsLive DEF Next

(* The thumbnail_runs rows live as RunLifecycle promises: a result is      *)
(* written once, of a run that was seen running if it is a success, and a  *)
(* deleted library's row does not come back.                               *)
THEOREM RowsLive == Spec => RowsFollowLifecycle
BY InitLives, NextLives, AlwaysBatchInv, PTL DEF Spec, Lifecycle!Spec, RowsFollowLifecycle
=============================================================================
